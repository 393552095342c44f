-------------------------- MODULE TcpServer_proofs --------------------------
(***************************************************************************)
(* Proofs about TcpServer, with the channels and connections it is made    *)
(* of, for any clients, loops and bounds.                                  *)
(***************************************************************************)
EXTENDS TcpServer, TLAPS

-----------------------------------------------------------------------------
(* Channels.                                                               *)

\* What update() needs of the poller's books: InStep but for the events.
Booked(ch) ==
    /\ ch.registered <=> ch.index_ = "kAdded"
    /\ ch.inMap <=> ch.index_ # "kNew"
    /\ ~ch.ctlFailed

LEMMA UpdateChannel ==
    ASSUME NEW ch \in ChannelType, Booked(ch)
    PROVE  /\ updateChannel(ch) \in ChannelType
           /\ InStep(updateChannel(ch))
           /\ updateChannel(ch).events_ = ch.events_
           /\ updateChannel(ch).index_ # "kNew"
BY DEF ChannelType, Indexes, Booked, InStep, updateChannel, epollAdd, epollMod, epollDel,
       isNoneEvent

LEMMA RemoveChannel ==
    ASSUME NEW ch \in ChannelType, InStep(ch)
    PROVE  /\ removeChannel(ch) \in ChannelType
           /\ InStep(removeChannel(ch))
           /\ removeChannel(ch).events_ = ch.events_
           /\ removeChannel(ch).index_ = "kNew"
BY DEF ChannelType, Indexes, InStep, removeChannel, epollDel

\* Changing the events of a channel, with the update() that follows.
LEMMA SetEvents ==
    ASSUME NEW ch \in ChannelType, InStep(ch), NEW E \in SUBSET Events
    PROVE  LET new == updateChannel([ch EXCEPT !.events_ = E])
           IN  /\ new \in ChannelType /\ InStep(new) /\ new.events_ = E
               /\ new.index_ # "kNew"
<1> DEFINE mid == [ch EXCEPT !.events_ = E]
<1>1. mid \in ChannelType /\ Booked(mid) /\ mid.events_ = E
  BY DEF ChannelType, Booked, InStep
<1> HIDE DEF mid
<1>2. QED
  BY <1>1, UpdateChannel DEF mid

LEMMA ChannelMethods ==
    ASSUME NEW ch \in ChannelType, InStep(ch)
    PROVE  /\ enableReading(ch) \in ChannelType /\ InStep(enableReading(ch))
           /\ enableReading(ch).events_ = ch.events_ \cup {"EPOLLIN"}
           /\ enableWriting(ch) \in ChannelType /\ InStep(enableWriting(ch))
           /\ enableWriting(ch).events_ = ch.events_ \cup {"EPOLLOUT"}
           /\ disableWriting(ch) \in ChannelType /\ InStep(disableWriting(ch))
           /\ disableWriting(ch).events_ = ch.events_ \ {"EPOLLOUT"}
           /\ disableAll(ch) \in ChannelType /\ InStep(disableAll(ch))
           /\ disableAll(ch).events_ = {}
<1>1. ch.events_ \in SUBSET Events
  BY DEF ChannelType
<1>2. /\ ch.events_ \cup {"EPOLLIN"} \in SUBSET Events
      /\ ch.events_ \cup {"EPOLLOUT"} \in SUBSET Events
      /\ ch.events_ \ {"EPOLLOUT"} \in SUBSET Events
      /\ {} \in SUBSET Events
  BY <1>1 DEF Events
<1>3. /\ enableReading(ch) = updateChannel([ch EXCEPT !.events_ = ch.events_ \cup {"EPOLLIN"}])
      /\ enableWriting(ch) = updateChannel([ch EXCEPT !.events_ = ch.events_ \cup {"EPOLLOUT"}])
      /\ disableWriting(ch) = updateChannel([ch EXCEPT !.events_ = ch.events_ \ {"EPOLLOUT"}])
      /\ disableAll(ch) = updateChannel([ch EXCEPT !.events_ = {}])
  BY DEF enableReading, enableWriting, disableWriting, disableAll
<1>4. /\ enableReading(ch) \in ChannelType /\ InStep(enableReading(ch))
      /\ enableReading(ch).events_ = ch.events_ \cup {"EPOLLIN"}
  BY <1>2, <1>3, SetEvents
<1>5. /\ enableWriting(ch) \in ChannelType /\ InStep(enableWriting(ch))
      /\ enableWriting(ch).events_ = ch.events_ \cup {"EPOLLOUT"}
  BY <1>2, <1>3, SetEvents
<1>6. /\ disableWriting(ch) \in ChannelType /\ InStep(disableWriting(ch))
      /\ disableWriting(ch).events_ = ch.events_ \ {"EPOLLOUT"}
  BY <1>2, <1>3, SetEvents
<1>7. /\ disableAll(ch) \in ChannelType /\ InStep(disableAll(ch))
      /\ disableAll(ch).events_ = {}
  BY <1>2, <1>3, SetEvents
<1>8. QED
  BY <1>4, <1>5, <1>6, <1>7

-----------------------------------------------------------------------------
(* One connection.                                                         *)

\* The bytes that write() took, and the ones that wait, are numbered from 1 on.
InOrder(w, o) ==
    /\ \A i \in 1..Len(w) : w[i] = i
    /\ \A i \in 1..Len(o) : o[i] = Len(w) + i

\* They are all that were sent, unless the socket takes no more and none wait.
Stream(k) ==
    /\ InOrder(k.wire, k.outputBuffer_)
    /\ \/ Len(k.wire) + Len(k.outputBuffer_) = k.sent
       \/ ~writable(k) /\ Len(k.outputBuffer_) = 0

\* Bytes wait if the write event is asked for, and only if, before the close.
Buffered(k) ==
    /\ isWriting(k.channel_) => Len(k.outputBuffer_) > 0
    /\ k.down = 0 /\ Len(k.outputBuffer_) > 0 => isWriting(k.channel_)

ConnInv(k) ==
    /\ k \in ConnectionType
    /\ InStep(k.channel_)
    /\ Stream(k)
    /\ Buffered(k)

LEMMA ConnFields ==
    ASSUME NEW k \in ConnectionType
    PROVE  /\ k.state_ \in States /\ k.channel_ \in ChannelType
           /\ k.outputBuffer_ \in Seq(Nat) /\ k.wire \in Seq(Nat)
           /\ Len(k.outputBuffer_) \in Nat /\ Len(k.wire) \in Nat
           /\ k.unread \in BOOLEAN /\ k.peer \in {"open", "fin", "reset"} /\ k.err \in BOOLEAN
           /\ k.sndbuf \in 0..SndBuf /\ k.shutWr \in BOOLEAN
           /\ k.sent \in Nat /\ k.up \in Nat /\ k.down \in Nat
           /\ SndBuf \in Nat
BY SndBufAssumption DEF ConnectionType

LEMMA UnbornInv == ConnInv(Unborn)
<1>1. NewChannel \in ChannelType /\ InStep(NewChannel) /\ ~isWriting(NewChannel)
  BY DEF NewChannel, ChannelType, Indexes, InStep, isWriting
<1>2. << >> \in Seq(Nat) /\ Len(<< >>) = 0
  OBVIOUS
<1>3. Unborn \in ConnectionType
  BY <1>1, <1>2, SndBufAssumption DEF Unborn, ConnectionType, States
<1>4. Unborn.channel_ = NewChannel /\ Unborn.outputBuffer_ = << >> /\ Unborn.wire = << >> /\ Unborn.sent = 0
  BY DEF Unborn
<1>5. QED
  BY <1>1, <1>2, <1>3, <1>4 DEF ConnInv, Stream, InOrder, Buffered

\* What write() takes.
LEMMA Written ==
    ASSUME NEW k \in ConnectionType, NEW len \in Nat
    PROVE  /\ nwritten(k, len) \in Nat /\ nwritten(k, len) <= len
           /\ k.sndbuf + nwritten(k, len) \in 0..SndBuf
           /\ ~writable(k) => nwritten(k, len) = 0
BY ConnFields DEF nwritten

LEMMA BytesAre ==
    ASSUME NEW from \in Nat, NEW n \in Nat
    PROVE  /\ Bytes(from, n) \in Seq(Nat) /\ Len(Bytes(from, n)) = n
           /\ \A i \in 1..n : Bytes(from, n)[i] = from + i
BY DEF Bytes

LEMMA Concat ==
    ASSUME NEW s \in Seq(Nat), NEW t \in Seq(Nat)
    PROVE  /\ Len(s) \in Nat /\ Len(t) \in Nat
           /\ s \o t \in Seq(Nat) /\ Len(s \o t) = Len(s) + Len(t)
           /\ \A i \in 1..Len(s) : (s \o t)[i] = s[i]
           /\ \A i \in 1..(Len(s) + Len(t)) :
                 i > Len(s) => i - Len(s) \in 1..Len(t) /\ (s \o t)[i] = t[i - Len(s)]
OBVIOUS

\* Byte m + 1 comes next, and it overtakes none that waits.
NoOvertaking(w, o, m, n, r) ==
    \/ n = 0 /\ r = 0
    \/ Len(w) + Len(o) = m /\ (n = 0 \/ Len(o) = 0)

\* Bytes go to the end of the buffer, or past an empty one to the socket.
LEMMA OrderSend ==
    ASSUME NEW w \in Seq(Nat), NEW o \in Seq(Nat), NEW m \in Nat, NEW n \in Nat, NEW r \in Nat,
           InOrder(w, o), NoOvertaking(w, o, m, n, r)
    PROVE  /\ InOrder(w \o Bytes(m, n), o \o Bytes(m + n, r))
           /\ Len(w \o Bytes(m, n)) = Len(w) + n
           /\ Len(o \o Bytes(m + n, r)) = Len(o) + r
<1> USE DEF NoOvertaking
<1> DEFINE x == Bytes(m, n)
           y == Bytes(m + n, r)
<1>1. /\ x \in Seq(Nat) /\ Len(x) = n /\ \A i \in 1..n : x[i] = m + i
      /\ y \in Seq(Nat) /\ Len(y) = r /\ \A i \in 1..r : y[i] = m + n + i
  <2>1. PICK q \in Nat : q = m + n
    OBVIOUS
  <2>2. y = Bytes(q, r)
    BY <2>1
  <2> HIDE DEF y
  <2>3. y \in Seq(Nat) /\ Len(y) = r /\ \A i \in 1..r : y[i] = q + i
    BY <2>2, BytesAre
  <2>4. x \in Seq(Nat) /\ Len(x) = n /\ \A i \in 1..n : x[i] = m + i
    BY BytesAre
  <2>5. QED
    BY <2>1, <2>3, <2>4
<1> HIDE DEF x, y
<1>2. Len(w \o x) = Len(w) + n /\ Len(o \o y) = Len(o) + r /\ Len(w) \in Nat /\ Len(o) \in Nat
  BY <1>1, Concat
<1>3. ASSUME NEW i \in 1..(Len(w) + n) PROVE (w \o x)[i] = i
  <2>1. CASE i <= Len(w)
    <3>1. i \in 1..Len(w)
      BY <1>2, <2>1
    <3>2. (w \o x)[i] = w[i]
      BY <1>1, <3>1, Concat
    <3>3. QED
      BY <3>1, <3>2 DEF InOrder
  <2>2. CASE ~(i <= Len(w))
    <3>1. i \in 1..(Len(w) + Len(x)) /\ i > Len(w)
      BY <1>1, <1>2, <2>2
    <3>2. i - Len(w) \in 1..n /\ (w \o x)[i] = x[i - Len(w)]
      BY <1>1, <3>1, Concat
    <3>3. (w \o x)[i] = m + (i - Len(w))
      BY <1>1, <3>2
    <3>4. Len(w) = m
      BY <1>2, <3>2
    <3>5. QED
      BY <1>2, <3>3, <3>4
  <2>3. QED
    BY <2>1, <2>2
<1>4. ASSUME NEW i \in 1..(Len(o) + r) PROVE (o \o y)[i] = Len(w) + n + i
  <2>1. CASE i <= Len(o)
    <3>1. i \in 1..Len(o)
      BY <1>2, <2>1
    <3>2. (o \o y)[i] = o[i]
      BY <1>1, <3>1, Concat
    <3>3. o[i] = Len(w) + i
      BY <3>1 DEF InOrder
    <3>4. n = 0
      BY <1>2, <3>1
    <3>5. QED
      BY <1>2, <3>2, <3>3, <3>4
  <2>2. CASE ~(i <= Len(o))
    <3>1. i \in 1..(Len(o) + Len(y)) /\ i > Len(o)
      BY <1>1, <1>2, <2>2
    <3>2. i - Len(o) \in 1..r /\ (o \o y)[i] = y[i - Len(o)]
      BY <1>1, <3>1, Concat
    <3>3. (o \o y)[i] = m + n + (i - Len(o))
      BY <1>1, <3>2
    <3>4. Len(w) + Len(o) = m
      BY <1>2, <3>2
    <3>5. m + n + (i - Len(o)) = Len(w) + n + i
      BY <1>2, <3>4
    <3>6. QED
      BY <3>3, <3>5
  <2>3. QED
    BY <2>1, <2>2
<1>5. InOrder(w \o x, o \o y)
  BY <1>2, <1>3, <1>4 DEF InOrder
<1>6. QED
  BY <1>2, <1>5 DEF x, y

\* Bytes go from the front of the buffer to the socket.
LEMMA OrderFlush ==
    ASSUME NEW w \in Seq(Nat), NEW o \in Seq(Nat), InOrder(w, o), NEW n \in 0..Len(o)
    PROVE  /\ w \o SubSeq(o, 1, n) \in Seq(Nat)
           /\ SubSeq(o, n + 1, Len(o)) \in Seq(Nat)
           /\ InOrder(w \o SubSeq(o, 1, n), SubSeq(o, n + 1, Len(o)))
           /\ Len(w \o SubSeq(o, 1, n)) = Len(w) + n
           /\ Len(SubSeq(o, n + 1, Len(o))) = Len(o) - n
<1> DEFINE x == SubSeq(o, 1, n)
           y == SubSeq(o, n + 1, Len(o))
<1>1. /\ x \in Seq(Nat) /\ Len(x) = n /\ \A i \in 1..n : x[i] = o[i]
      /\ y \in Seq(Nat) /\ Len(y) = Len(o) - n /\ \A i \in 1..(Len(o) - n) : y[i] = o[n + i]
  OBVIOUS
<1> HIDE DEF x, y
<1>2. /\ w \o x \in Seq(Nat) /\ Len(w \o x) = Len(w) + n /\ Len(w) \in Nat /\ Len(o) \in Nat
      /\ n \in Nat
  BY <1>1, Concat
<1>3. ASSUME NEW i \in 1..(Len(w) + n) PROVE (w \o x)[i] = i
  <2>1. CASE i <= Len(w)
    <3>1. i \in 1..Len(w)
      BY <1>2, <2>1
    <3>2. (w \o x)[i] = w[i]
      BY <1>1, <3>1, Concat
    <3>3. QED
      BY <3>1, <3>2 DEF InOrder
  <2>2. CASE ~(i <= Len(w))
    <3>1. i \in 1..(Len(w) + Len(x)) /\ i > Len(w)
      BY <1>1, <1>2, <2>2
    <3>2. i - Len(w) \in 1..n /\ (w \o x)[i] = x[i - Len(w)]
      BY <1>1, <3>1, Concat
    <3>3. i - Len(w) \in 1..Len(o) /\ (w \o x)[i] = o[i - Len(w)]
      BY <1>1, <1>2, <3>2
    <3>4. o[i - Len(w)] = Len(w) + (i - Len(w))
      BY <3>3 DEF InOrder
    <3>5. QED
      BY <1>2, <3>3, <3>4
  <2>3. QED
    BY <2>1, <2>2
<1>4. ASSUME NEW i \in 1..(Len(o) - n) PROVE y[i] = Len(w) + n + i
  <2>1. y[i] = o[n + i] /\ n + i \in 1..Len(o)
    BY <1>1, <1>2
  <2>2. o[n + i] = Len(w) + (n + i)
    BY <2>1 DEF InOrder
  <2>3. QED
    BY <1>2, <2>1, <2>2
<1>5. InOrder(w \o x, y)
  BY <1>1, <1>2, <1>3, <1>4 DEF InOrder
<1>6. QED
  BY <1>1, <1>2, <1>5 DEF x, y

\* What sendInLoop() does to the fields: n bytes are written and r are kept.
SendStep(k, len, k2, n, r) ==
    /\ n = IF writesDirectly(k) THEN nwritten(k, len) ELSE 0
    /\ r = remaining(k, len)
    /\ k2 \in ConnectionType
    /\ k2.sent = k.sent + len
    /\ k2.wire = k.wire \o Bytes(k.sent, n)
    /\ k2.outputBuffer_ = k.outputBuffer_ \o Bytes(k.sent + n, r)
    /\ k2.channel_ = IF r > 0 /\ ~isWriting(k.channel_)
                     THEN enableWriting(k.channel_) ELSE k.channel_
    /\ k2.state_ = k.state_ /\ k2.up = k.up /\ k2.down = k.down
    /\ k2.shutWr = k.shutWr /\ k2.peer = k.peer /\ k2.unread = k.unread

LEMMA SendFields ==
    ASSUME NEW k, ConnInv(k), NEW len \in Nat, NEW k2, k2 = sendInLoop(k, len)
    PROVE  \E n \in Nat, r \in Nat : SendStep(k, len, k2, n, r)
<1>1. k \in ConnectionType /\ InStep(k.channel_)
  BY DEF ConnInv
<1>2. nwritten(k, len) \in Nat /\ nwritten(k, len) <= len /\ k.sndbuf + nwritten(k, len) \in 0..SndBuf
  BY <1>1, Written
<1>3. PICK n \in Nat, r \in Nat :
          /\ n = IF writesDirectly(k) THEN nwritten(k, len) ELSE 0
          /\ r = remaining(k, len)
  BY <1>2 DEF remaining
<1>4. k.sndbuf + n \in 0..SndBuf
  BY <1>1, <1>2, <1>3, ConnFields
<1> DEFINE w == k.wire \o Bytes(k.sent, n)
           o == k.outputBuffer_ \o Bytes(k.sent + n, r)
           e == k.err /\ ~(writesDirectly(k) /\ ~writable(k))
           ch == IF r > 0 /\ ~isWriting(k.channel_) THEN enableWriting(k.channel_) ELSE k.channel_
<1>5. Bytes(k.sent, n) \in Seq(Nat) /\ Bytes(k.sent + n, r) \in Seq(Nat)
  <2>1. k.sent \in Nat /\ k.sent + n \in Nat
    BY <1>1, ConnFields
  <2>2. QED
    BY <2>1, BytesAre
<1>6. w \in Seq(Nat) /\ o \in Seq(Nat) /\ e \in BOOLEAN /\ k.sent + len \in Nat
  BY <1>1, <1>5, ConnFields
<1>7. ch \in ChannelType
  BY <1>1, ChannelMethods, ConnFields
<1>8. k2 = [k EXCEPT !.sent = k.sent + len, !.wire = w, !.sndbuf = k.sndbuf + n,
                     !.err = e, !.outputBuffer_ = o, !.channel_ = ch]
  BY <1>3 DEF sendInLoop
<1> HIDE DEF w, o, e, ch
<1>9. /\ k2 \in ConnectionType
      /\ k2.sent = k.sent + len /\ k2.wire = w /\ k2.outputBuffer_ = o /\ k2.channel_ = ch
      /\ k2.state_ = k.state_ /\ k2.up = k.up /\ k2.down = k.down
      /\ k2.shutWr = k.shutWr /\ k2.peer = k.peer /\ k2.unread = k.unread
  <2>1. PICK m \in Nat : m = k.sent + len
    BY <1>6
  <2>2. PICK b \in 0..SndBuf : b = k.sndbuf + n
    BY <1>4
  <2>3. k2 = [k EXCEPT !.sent = m, !.wire = w, !.sndbuf = b, !.err = e,
                       !.outputBuffer_ = o, !.channel_ = ch]
    BY <1>8, <2>1, <2>2
  <2>4. w \in Seq(Nat) /\ e \in BOOLEAN /\ o \in Seq(Nat) /\ ch \in ChannelType
    BY <1>6, <1>7
  <2>5. k2 \in ConnectionType
    BY <1>1, <2>3, <2>4 DEF ConnectionType
  <2>6. QED
    BY <1>1, <2>1, <2>3, <2>5 DEF ConnectionType
<1>10. /\ k2.wire = k.wire \o Bytes(k.sent, n)
       /\ k2.outputBuffer_ = k.outputBuffer_ \o Bytes(k.sent + n, r)
       /\ k2.channel_ = IF r > 0 /\ ~isWriting(k.channel_)
                        THEN enableWriting(k.channel_) ELSE k.channel_
  <2>1. k2.wire = w /\ k2.outputBuffer_ = o /\ k2.channel_ = ch
    BY <1>9
  <2>2. QED
    BY <2>1, Zenon DEF w, o, ch
<1>11. SendStep(k, len, k2, n, r)
  BY <1>3, <1>9, <1>10, Zenon DEF SendStep
<1>12. QED
  BY <1>11

\* SHUT_WR comes when nothing waits, or after the close.
FinStep(k, k2) == ~k.shutWr /\ k2.shutWr => Len(k2.outputBuffer_) = 0 \/ k.down > 0

LEMMA SendInv ==
    ASSUME NEW k, ConnInv(k), NEW len \in Nat
    PROVE  ConnInv(sendInLoop(k, len)) /\ FinStep(k, sendInLoop(k, len))
<1>0. PICK k2 : k2 = sendInLoop(k, len)
  OBVIOUS
<1>1. PICK n \in Nat, r \in Nat : SendStep(k, len, k2, n, r)
  BY <1>0, SendFields
<1>2. /\ k \in ConnectionType /\ k.channel_ \in ChannelType /\ InStep(k.channel_)
      /\ Stream(k) /\ Buffered(k)
  BY ConnFields DEF ConnInv
<1>3. PICK w \in Seq(Nat), o \in Seq(Nat), m \in Nat :
          w = k.wire /\ o = k.outputBuffer_ /\ m = k.sent /\ Len(o) \in Nat
  BY <1>2, ConnFields
<1>4. InOrder(w, o) /\ (Len(w) + Len(o) = m \/ (~writable(k) /\ Len(o) = 0))
  BY <1>2, <1>3 DEF Stream
<1>5. /\ n = 0 \/ Len(o) = 0
      /\ \/ n = 0 /\ r = 0 /\ ~writable(k) /\ Len(o) = 0
         \/ n + r = len /\ Len(w) + Len(o) = m
  <2>1. CASE writesDirectly(k)
    <3>1. Len(o) = 0
      BY <1>3, <2>1 DEF writesDirectly
    <3>2. nwritten(k, len) \in Nat /\ (~writable(k) => nwritten(k, len) = 0)
      BY <1>2, Written
    <3>3. n = nwritten(k, len) /\ r = IF writable(k) THEN len - nwritten(k, len) ELSE 0
      BY <1>1, <2>1 DEF remaining, SendStep
    <3>4. QED
      BY <1>4, <3>1, <3>2, <3>3
  <2>2. CASE ~writesDirectly(k)
    <3>1. Len(o) # 0
      BY <1>2, <1>3, <2>2 DEF writesDirectly, Buffered
    <3>2. n = 0 /\ r = len
      BY <1>1, <2>2 DEF remaining, SendStep
    <3>3. QED
      BY <1>4, <3>1, <3>2
  <2>3. QED
    BY <2>1, <2>2
<1>6. /\ InOrder(k2.wire, k2.outputBuffer_)
      /\ Len(k2.wire) = Len(w) + n /\ Len(k2.outputBuffer_) = Len(o) + r
  <2>1. NoOvertaking(w, o, m, n, r)
    BY <1>5 DEF NoOvertaking
  <2>2. k2.wire = w \o Bytes(m, n) /\ k2.outputBuffer_ = o \o Bytes(m + n, r)
    BY <1>1, <1>3, Zenon DEF SendStep
  <2>3. InOrder(w, o)
    BY <1>4
  <2>4. /\ InOrder(w \o Bytes(m, n), o \o Bytes(m + n, r))
        /\ Len(w \o Bytes(m, n)) = Len(w) + n
        /\ Len(o \o Bytes(m + n, r)) = Len(o) + r
    BY <2>1, <2>3, OrderSend
  <2>5. QED
    BY <2>2, <2>4
<1>7. Stream(k2)
  <2>1. writable(k2) <=> writable(k)
    BY <1>1, Zenon DEF writable, SendStep
  <2>2. k2.sent = m + len
    BY <1>1, <1>3, Zenon DEF SendStep
  <2>3. PICK a \in Nat, b \in Nat : a = Len(w) /\ b = Len(o)
    OBVIOUS
  <2>4. \/ Len(k2.wire) + Len(k2.outputBuffer_) = k2.sent
        \/ ~writable(k2) /\ Len(k2.outputBuffer_) = 0
    <3>1. CASE n = 0 /\ r = 0 /\ ~writable(k) /\ Len(o) = 0
      BY <1>6, <2>1, <3>1
    <3>2. CASE n + r = len /\ Len(w) + Len(o) = m
      <4>1. (a + n) + (b + r) = m + len
        BY <2>3, <3>2
      <4>2. Len(k2.wire) = a + n /\ Len(k2.outputBuffer_) = b + r
        BY <1>6, <2>3
      <4>3. QED
        BY <2>2, <4>1, <4>2, Zenon
    <3>3. QED
      BY <1>5, <3>1, <3>2
  <2>5. QED
    BY <1>6, <2>4 DEF Stream
<1>8. InStep(k2.channel_) /\ (isWriting(k2.channel_) <=> isWriting(k.channel_) \/ r > 0)
  BY <1>1, <1>2, ChannelMethods DEF isWriting, SendStep
<1>9. Buffered(k2)
  <2>1. Len(k2.outputBuffer_) > 0 <=> Len(o) > 0 \/ r > 0
    <3>1. r \in Nat /\ Len(o) \in Nat /\ Len(k2.outputBuffer_) = Len(o) + r
      BY <1>1, <1>3, <1>6
    <3>2. QED
      BY <3>1
  <2>2. /\ isWriting(k.channel_) => Len(o) > 0
        /\ k.down = 0 /\ Len(o) > 0 => isWriting(k.channel_)
    BY <1>2, <1>3 DEF Buffered
  <2>3. QED
    BY <1>1, <1>8, <2>1, <2>2 DEF Buffered, SendStep
<1>10. QED
  BY <1>0, <1>1, <1>7, <1>8, <1>9 DEF ConnInv, FinStep, SendStep

LEMMA SameOutput ==
    ASSUME NEW k, ConnInv(k), NEW k2 \in ConnectionType, InStep(k2.channel_), Buffered(k2),
           k2.wire = k.wire, k2.outputBuffer_ = k.outputBuffer_, k2.sent = k.sent,
           writable(k2) => writable(k)
    PROVE  ConnInv(k2)
BY DEF ConnInv, Stream

\* The socket, the client or state_ changes, and nothing of the output does.
Plain(k, k2) ==
    /\ k2 \in ConnectionType
    /\ k2.channel_ = k.channel_ /\ k2.down = k.down /\ k2.up = k.up /\ k2.shutWr = k.shutWr
    /\ k2.wire = k.wire /\ k2.outputBuffer_ = k.outputBuffer_ /\ k2.sent = k.sent
    /\ k.peer = "reset" => k2.peer = "reset"

LEMMA PlainInv ==
    ASSUME NEW k, ConnInv(k), NEW k2, Plain(k, k2)
    PROVE  ConnInv(k2) /\ FinStep(k, k2)
<1>1. InStep(k2.channel_) /\ Buffered(k2) /\ (writable(k2) => writable(k))
  BY DEF Plain, ConnInv, Buffered, writable
<1>2. QED
  BY <1>1, SameOutput DEF Plain, FinStep

LEMMA PlainSteps ==
    ASSUME NEW k \in ConnectionType
    PROVE  /\ Plain(k, k)
           /\ Plain(k, clearError(k))
           /\ Plain(k, readMessage(k))
           /\ \A s \in States : Plain(k, [k EXCEPT !.state_ = s])
           /\ Plain(k, [k EXCEPT !.unread = TRUE])
           /\ k.sndbuf > 0 => Plain(k, [k EXCEPT !.sndbuf = @ - 1])
           /\ k.peer = "open" => Plain(k, [k EXCEPT !.peer = "fin"])
           /\ Plain(k, [k EXCEPT !.peer = "reset", !.err = TRUE, !.sndbuf = 0])
<1>1. Plain(k, k) /\ Plain(k, clearError(k)) /\ Plain(k, readMessage(k))
  BY DEF Plain, ConnectionType, clearError, readMessage
<1>2. \A s \in States : Plain(k, [k EXCEPT !.state_ = s])
  BY DEF Plain, ConnectionType
<1>3. Plain(k, [k EXCEPT !.unread = TRUE])
  BY DEF Plain, ConnectionType
<1>4. ASSUME k.sndbuf > 0 PROVE Plain(k, [k EXCEPT !.sndbuf = @ - 1])
  <2>1. PICK b \in 0..SndBuf : b = k.sndbuf - 1
    BY <1>4, ConnFields
  <2>2. Plain(k, [k EXCEPT !.sndbuf = b])
    BY DEF Plain, ConnectionType
  <2>3. QED
    BY <2>1, <2>2
<1>5. ASSUME k.peer = "open" PROVE Plain(k, [k EXCEPT !.peer = "fin"])
  BY <1>5 DEF Plain, ConnectionType
<1>6. Plain(k, [k EXCEPT !.peer = "reset", !.err = TRUE, !.sndbuf = 0])
  <2>1. 0 \in 0..SndBuf
    BY SndBufAssumption
  <2>2. QED
    BY <2>1 DEF Plain, ConnectionType
<1>7. QED
  BY <1>1, <1>2, <1>3, <1>4, <1>5, <1>6

LEMMA ShutdownInv ==
    ASSUME NEW k, ConnInv(k)
    PROVE  ConnInv(shutdownInLoop(k)) /\ FinStep(k, shutdownInLoop(k))
<1>1. CASE isWriting(k.channel_)
  BY <1>1 DEF shutdownInLoop, FinStep
<1>2. CASE ~isWriting(k.channel_)
  <2>1. PICK k2 : k2 = [k EXCEPT !.shutWr = TRUE]
    OBVIOUS
  <2>2. k \in ConnectionType /\ InStep(k.channel_) /\ Buffered(k)
    BY DEF ConnInv
  <2>3. /\ k2 \in ConnectionType /\ k2.channel_ = k.channel_ /\ k2.down = k.down
        /\ k2.wire = k.wire /\ k2.outputBuffer_ = k.outputBuffer_ /\ k2.sent = k.sent /\ k2.shutWr
    BY <2>1, <2>2 DEF ConnectionType
  <2>4. InStep(k2.channel_) /\ Buffered(k2) /\ ~writable(k2)
    BY <2>2, <2>3 DEF Buffered, writable
  <2>5. ConnInv(k2)
    BY <2>3, <2>4, SameOutput
  <2>6. Len(k2.outputBuffer_) = 0 \/ k.down > 0
    <3>1. k.down \in Nat /\ Len(k.outputBuffer_) \in Nat
      BY <2>2, ConnFields
    <3>2. k.down # 0 \/ ~(Len(k.outputBuffer_) > 0)
      BY <1>2, <2>2 DEF Buffered
    <3>3. QED
      BY <2>3, <3>1, <3>2
  <2>7. shutdownInLoop(k) = k2
    BY <1>2, <2>1 DEF shutdownInLoop
  <2>8. QED
    BY <2>5, <2>6, <2>7 DEF FinStep
<1>3. QED
  BY <1>1, <1>2

\* The methods that only ask for other events, and count the callbacks.
LEMMA ReportInv ==
    ASSUME NEW k, ConnInv(k), NEW k2 \in ConnectionType, InStep(k2.channel_),
           k2.wire = k.wire, k2.outputBuffer_ = k.outputBuffer_, k2.sent = k.sent,
           k2.shutWr = k.shutWr, k2.peer = k.peer,
           \/ isWriting(k2.channel_) = isWriting(k.channel_) /\ k2.down = k.down
           \/ ~isWriting(k2.channel_) /\ k2.down > 0
    PROVE  ConnInv(k2) /\ FinStep(k, k2)
<1>1. Buffered(k2)
  <2>1. Buffered(k) /\ k2.down \in Nat
    BY ConnFields DEF ConnInv
  <2>2. QED
    BY <2>1 DEF Buffered
<1>2. writable(k2) = writable(k)
  BY DEF writable
<1>3. QED
  BY <1>1, <1>2, SameOutput DEF FinStep

LEMMA EstablishedFields ==
    ASSUME NEW k, ConnInv(k), NEW k2, k2 = connectEstablished(k)
    PROVE  /\ k2 \in ConnectionType
           /\ k2.state_ = "kConnected" /\ k2.channel_ = enableReading(k.channel_)
           /\ k2.up = k.up + 1 /\ k2.down = k.down
           /\ k2.wire = k.wire /\ k2.outputBuffer_ = k.outputBuffer_ /\ k2.sent = k.sent
           /\ k2.shutWr = k.shutWr /\ k2.peer = k.peer
<1>1. k \in ConnectionType /\ InStep(k.channel_) /\ k.channel_ \in ChannelType
  BY ConnFields DEF ConnInv
<1>2. PICK n \in Nat, ch \in ChannelType : n = k.up + 1 /\ ch = enableReading(k.channel_)
  BY <1>1, ConnFields, ChannelMethods
<1>3. k2 = [k EXCEPT !.state_ = "kConnected", !.channel_ = ch, !.up = n]
  BY <1>2 DEF connectEstablished
<1>4. k2 \in ConnectionType
  BY <1>1, <1>3 DEF ConnectionType, States
<1>5. QED
  BY <1>1, <1>2, <1>3, <1>4 DEF ConnectionType

LEMMA EstablishedInv ==
    ASSUME NEW k, ConnInv(k)
    PROVE  ConnInv(connectEstablished(k)) /\ FinStep(k, connectEstablished(k))
<1>1. PICK k2 : k2 = connectEstablished(k)
  OBVIOUS
<1>2. /\ k2 \in ConnectionType
      /\ k2.channel_ = enableReading(k.channel_) /\ k2.down = k.down
      /\ k2.wire = k.wire /\ k2.outputBuffer_ = k.outputBuffer_ /\ k2.sent = k.sent
      /\ k2.shutWr = k.shutWr /\ k2.peer = k.peer
  BY <1>1, EstablishedFields
<1>3. InStep(k.channel_) /\ k.channel_ \in ChannelType
  BY ConnFields DEF ConnInv
<1>4. /\ InStep(enableReading(k.channel_))
      /\ isWriting(enableReading(k.channel_)) <=> isWriting(k.channel_)
  BY <1>3, ChannelMethods DEF isWriting
<1>5. ConnInv(k2) /\ FinStep(k, k2)
  <2>1. InStep(k2.channel_) /\ isWriting(k2.channel_) = isWriting(k.channel_)
    BY <1>2, <1>4 DEF isWriting
  <2>2. QED
    BY <1>2, <2>1, ReportInv
<1>6. QED
  BY <1>1, <1>5

LEMMA CloseFields ==
    ASSUME NEW k, ConnInv(k), NEW k2, k2 = handleClose(k)
    PROVE  /\ k2 \in ConnectionType
           /\ k2.state_ = "kDisconnected" /\ k2.channel_ = disableAll(k.channel_)
           /\ k2.up = k.up /\ k2.down = k.down + 1
           /\ k2.wire = k.wire /\ k2.outputBuffer_ = k.outputBuffer_ /\ k2.sent = k.sent
           /\ k2.shutWr = k.shutWr /\ k2.peer = k.peer
<1>1. k \in ConnectionType /\ InStep(k.channel_) /\ k.channel_ \in ChannelType
  BY ConnFields DEF ConnInv
<1>2. PICK n \in Nat, ch \in ChannelType : n = k.down + 1 /\ ch = disableAll(k.channel_)
  BY <1>1, ConnFields, ChannelMethods
<1>3. k2 = [k EXCEPT !.state_ = "kDisconnected", !.channel_ = ch, !.down = n]
  BY <1>2 DEF handleClose
<1>4. k2 \in ConnectionType
  BY <1>1, <1>3 DEF ConnectionType, States
<1>5. QED
  BY <1>1, <1>2, <1>3, <1>4 DEF ConnectionType

LEMMA CloseInv ==
    ASSUME NEW k, ConnInv(k)
    PROVE  ConnInv(handleClose(k)) /\ FinStep(k, handleClose(k))
<1>1. PICK k2 : k2 = handleClose(k)
  OBVIOUS
<1>2. /\ k2 \in ConnectionType
      /\ k2.channel_ = disableAll(k.channel_) /\ k2.down = k.down + 1
      /\ k2.wire = k.wire /\ k2.outputBuffer_ = k.outputBuffer_ /\ k2.sent = k.sent
      /\ k2.shutWr = k.shutWr /\ k2.peer = k.peer
  BY <1>1, CloseFields
<1>3. InStep(k.channel_) /\ k.channel_ \in ChannelType /\ k.down \in Nat
  BY ConnFields DEF ConnInv
<1>4. InStep(k2.channel_) /\ ~isWriting(k2.channel_) /\ k2.down > 0
  BY <1>2, <1>3, ChannelMethods DEF isWriting
<1>5. QED
  BY <1>1, <1>2, <1>4, ReportInv

\* connectDestroyed closes a connection that is up, and takes the channel out.
LEMMA DestroyedFields ==
    ASSUME NEW k, ConnInv(k), NEW k2, k2 = connectDestroyed(k)
    PROVE  /\ k2 \in ConnectionType
           /\ k2.state_ = IF k.state_ = "kConnected" THEN "kDisconnected" ELSE k.state_
           /\ k2.channel_ = removeChannel(IF k.state_ = "kConnected"
                                          THEN disableAll(k.channel_) ELSE k.channel_)
           /\ k2.up = k.up
           /\ k2.down = IF k.state_ = "kConnected" THEN k.down + 1 ELSE k.down
           /\ k2.wire = k.wire /\ k2.outputBuffer_ = k.outputBuffer_ /\ k2.sent = k.sent
           /\ k2.shutWr = k.shutWr /\ k2.peer = k.peer
<1>1. k \in ConnectionType /\ InStep(k.channel_) /\ k.channel_ \in ChannelType
  BY ConnFields DEF ConnInv
<1>2. CASE k.state_ = "kConnected"
  <2>1. PICK n \in Nat, ch \in ChannelType :
            n = k.down + 1 /\ ch = disableAll(k.channel_) /\ InStep(ch)
    BY <1>1, ConnFields, ChannelMethods
  <2>2. PICK ch2 \in ChannelType : ch2 = removeChannel(ch)
    BY <2>1, RemoveChannel
  <2>3. k2 = [[k EXCEPT !.state_ = "kDisconnected", !.channel_ = ch, !.down = n]
                 EXCEPT !.channel_ = removeChannel(@)]
    BY <1>2, <2>1 DEF connectDestroyed
  <2>4. k2 = [k EXCEPT !.state_ = "kDisconnected", !.channel_ = ch2, !.down = n]
    BY <1>1, <2>2, <2>3 DEF ConnectionType
  <2>5. k2 \in ConnectionType
    BY <1>1, <2>4 DEF ConnectionType, States
  <2>6. /\ k2.state_ = "kDisconnected" /\ k2.channel_ = ch2 /\ k2.down = n /\ k2.up = k.up
        /\ k2.wire = k.wire /\ k2.outputBuffer_ = k.outputBuffer_ /\ k2.sent = k.sent
        /\ k2.shutWr = k.shutWr /\ k2.peer = k.peer
    BY <1>1, <2>4, <2>5 DEF ConnectionType
  <2>7. QED
    BY <1>2, <2>1, <2>2, <2>5, <2>6
<1>3. CASE k.state_ # "kConnected"
  <2>1. PICK ch2 \in ChannelType : ch2 = removeChannel(k.channel_)
    BY <1>1, RemoveChannel
  <2>2. k2 = [k EXCEPT !.channel_ = ch2]
    BY <1>3, <2>1 DEF connectDestroyed
  <2>3. k2 \in ConnectionType
    BY <1>1, <2>2 DEF ConnectionType
  <2>4. QED
    BY <1>1, <1>3, <2>1, <2>2, <2>3 DEF ConnectionType
<1>4. QED
  BY <1>2, <1>3

LEMMA DestroyedInv ==
    ASSUME NEW k, ConnInv(k)
    PROVE  ConnInv(connectDestroyed(k)) /\ FinStep(k, connectDestroyed(k))
<1>1. PICK k2 : k2 = connectDestroyed(k)
  OBVIOUS
<1>2. /\ k2 \in ConnectionType
      /\ k2.channel_ = removeChannel(IF k.state_ = "kConnected"
                                     THEN disableAll(k.channel_) ELSE k.channel_)
      /\ k2.down = IF k.state_ = "kConnected" THEN k.down + 1 ELSE k.down
      /\ k2.wire = k.wire /\ k2.outputBuffer_ = k.outputBuffer_ /\ k2.sent = k.sent
      /\ k2.shutWr = k.shutWr /\ k2.peer = k.peer
  BY <1>1, DestroyedFields
<1>3. InStep(k.channel_) /\ k.channel_ \in ChannelType /\ k.down \in Nat
  BY ConnFields DEF ConnInv
<1>4. CASE k.state_ = "kConnected"
  <2>1. k2.channel_ = removeChannel(disableAll(k.channel_)) /\ k2.down = k.down + 1
    BY <1>2, <1>4
  <2>2. /\ disableAll(k.channel_) \in ChannelType /\ InStep(disableAll(k.channel_))
        /\ disableAll(k.channel_).events_ = {}
    BY <1>3, ChannelMethods
  <2>3. InStep(k2.channel_) /\ ~isWriting(k2.channel_) /\ k2.down > 0
    BY <1>3, <2>1, <2>2, RemoveChannel DEF isWriting
  <2>4. QED
    BY <1>1, <1>2, <2>3, ReportInv
<1>5. CASE k.state_ # "kConnected"
  <2>1. k2.channel_ = removeChannel(k.channel_) /\ k2.down = k.down
    BY <1>2, <1>5
  <2>2. InStep(k2.channel_) /\ isWriting(k2.channel_) = isWriting(k.channel_)
    BY <1>3, <2>1, RemoveChannel DEF isWriting
  <2>3. QED
    BY <1>1, <1>2, <2>1, <2>2, ReportInv
<1>6. QED
  BY <1>4, <1>5

\* What handleWrite() does when the socket takes n bytes of the buffer.
Flush(k, n, ch) ==
    [k EXCEPT !.wire = k.wire \o SubSeq(k.outputBuffer_, 1, n),
              !.sndbuf = k.sndbuf + n,
              !.outputBuffer_ = SubSeq(k.outputBuffer_, n + 1, Len(k.outputBuffer_)),
              !.channel_ = ch]

LEMMA FlushInv ==
    ASSUME NEW k, ConnInv(k), isWriting(k.channel_), NEW n, n = flushed(k), n > 0,
           NEW ch \in ChannelType, InStep(ch),
           isWriting(ch) <=> n < Len(k.outputBuffer_),
           NEW k2, k2 = Flush(k, n, ch)
    PROVE  /\ ConnInv(k2) /\ FinStep(k, k2)
           /\ n \in 1..Len(k.outputBuffer_)
           /\ k2.state_ = k.state_ /\ k2.channel_ = ch /\ k2.up = k.up /\ k2.down = k.down
           /\ k2.sent = k.sent /\ k2.shutWr = k.shutWr /\ k2.peer = k.peer
<1>1. k \in ConnectionType /\ Stream(k) /\ InStep(k.channel_)
  BY DEF ConnInv
<1>2. PICK w \in Seq(Nat), o \in Seq(Nat), m \in Nat :
          w = k.wire /\ o = k.outputBuffer_ /\ m = k.sent /\ Len(o) \in Nat /\ Len(w) \in Nat
  BY <1>1, ConnFields
<1>3. n \in 1..Len(o) /\ k.sndbuf + n \in 0..SndBuf /\ writable(k)
  <2>1. n = nwritten(k, Len(o))
    BY <1>2 DEF flushed
  <2>2. n \in Nat /\ n <= Len(o) /\ k.sndbuf + n \in 0..SndBuf /\ (~writable(k) => n = 0)
    BY <1>1, <1>2, <2>1, Written
  <2>3. QED
    BY <1>2, <2>2
<1>4. InOrder(w, o) /\ Len(w) + Len(o) = m
  BY <1>1, <1>2, <1>3 DEF Stream
<1>5. PICK w2 \in Seq(Nat), o2 \in Seq(Nat), b \in 0..SndBuf :
          /\ w2 = w \o SubSeq(o, 1, n) /\ o2 = SubSeq(o, n + 1, Len(o)) /\ b = k.sndbuf + n
          /\ InOrder(w2, o2) /\ Len(w2) = Len(w) + n /\ Len(o2) = Len(o) - n
  <2>1. n \in 0..Len(o)
    BY <1>3
  <2>2. /\ w \o SubSeq(o, 1, n) \in Seq(Nat) /\ SubSeq(o, n + 1, Len(o)) \in Seq(Nat)
        /\ InOrder(w \o SubSeq(o, 1, n), SubSeq(o, n + 1, Len(o)))
        /\ Len(w \o SubSeq(o, 1, n)) = Len(w) + n
        /\ Len(SubSeq(o, n + 1, Len(o))) = Len(o) - n
    BY <1>4, <2>1, OrderFlush
  <2>3. QED
    BY <1>3, <2>2, Zenon
<1>6. k2 = [k EXCEPT !.wire = w2, !.sndbuf = b, !.outputBuffer_ = o2, !.channel_ = ch]
  BY <1>2, <1>5 DEF Flush
<1>7. k2 \in ConnectionType
  BY <1>1, <1>6 DEF ConnectionType
<1>8. /\ k2.wire = w2 /\ k2.outputBuffer_ = o2 /\ k2.channel_ = ch
      /\ k2.sent = k.sent /\ k2.shutWr = k.shutWr /\ k2.peer = k.peer /\ k2.down = k.down
      /\ k2.state_ = k.state_ /\ k2.up = k.up
  BY <1>1, <1>6 DEF ConnectionType
<1>9. Len(w2) + Len(o2) = m
  <2>1. PICK a \in Nat, c \in Nat, d \in Nat : a = Len(w) /\ c = Len(o) /\ d = n
    BY <1>2, <1>3
  <2>2. a + c = m
    BY <1>4, <2>1
  <2>3. (a + d) + (c - d) = m
    BY <2>2
  <2>4. Len(w2) = a + d /\ Len(o2) = c - d
    BY <1>5, <2>1
  <2>5. QED
    BY <2>3, <2>4
<1>10. Stream(k2)
  BY <1>2, <1>5, <1>8, <1>9 DEF Stream
<1>11. Buffered(k2)
  <2>1. Len(o2) > 0 <=> n < Len(o)
    BY <1>2, <1>3, <1>5
  <2>2. QED
    BY <1>2, <1>8, <2>1 DEF Buffered
<1>12. QED
  BY <1>2, <1>3, <1>7, <1>8, <1>10, <1>11 DEF ConnInv, FinStep

LEMMA WriteInv ==
    ASSUME NEW k, ConnInv(k)
    PROVE  /\ ConnInv(handleWrite(k)) /\ FinStep(k, handleWrite(k))
           /\ handleWrite(k).sent = k.sent
           /\ handleWrite(k).state_ = k.state_
           /\ handleWrite(k).up = k.up /\ handleWrite(k).down = k.down
           /\ ~isWriting(k.channel_) => handleWrite(k) = k
           /\ handleWrite(k).channel_ \in {k.channel_, disableWriting(k.channel_)}
           /\ handleWrite(k).shutWr = k.shutWr \/ k.state_ = "kDisconnecting"
<1> DEFINE n == flushed(k)
           written == [k EXCEPT !.wire = @ \o SubSeq(k.outputBuffer_, 1, n),
                                !.sndbuf = @ + n,
                                !.outputBuffer_ = SubSeq(@, n + 1, Len(@))]
           finished == [written EXCEPT !.channel_ = disableWriting(@)]
<1>1. /\ k \in ConnectionType /\ k.channel_ \in ChannelType /\ InStep(k.channel_)
      /\ Len(k.outputBuffer_) \in Nat
  BY ConnFields DEF ConnInv
<1>2. n \in Nat /\ n <= Len(k.outputBuffer_)
  BY <1>1, Written DEF flushed
<1>3. CASE ~isWriting(k.channel_)
  <2>1. handleWrite(k) = k
    BY <1>3 DEF handleWrite, flushes, flushed
  <2>2. QED
    BY <1>1, <2>1, PlainInv, PlainSteps
<1>4. CASE isWriting(k.channel_) /\ n = 0
  <2>1. handleWrite(k) = IF writable(k) THEN k ELSE clearError(k)
    BY <1>4 DEF handleWrite, flushes
  <2>2. Plain(k, handleWrite(k)) /\ handleWrite(k).state_ = k.state_
    BY <1>1, <2>1, PlainSteps DEF clearError, ConnectionType
  <2>3. QED
    BY <1>4, <2>2, PlainInv DEF Plain
<1>5. CASE isWriting(k.channel_) /\ n > 0 /\ ~flushes(k)
  <2>1. handleWrite(k) = written
    BY <1>5 DEF handleWrite
  <2>2. written = Flush(k, n, k.channel_)
    BY <1>1 DEF ConnectionType, Flush
  <2>3. isWriting(k.channel_) <=> n < Len(k.outputBuffer_)
    BY <1>1, <1>2, <1>5 DEF flushes
  <2>4. PICK n1, k2 : n1 = n /\ k2 = written
    OBVIOUS
  <2> HIDE DEF written, n
  <2>5. /\ ConnInv(k2) /\ FinStep(k, k2) /\ k2.channel_ = k.channel_ /\ k2.shutWr = k.shutWr
        /\ k2.sent = k.sent /\ k2.state_ = k.state_ /\ k2.up = k.up /\ k2.down = k.down
    <3>1. n1 = flushed(k) /\ n1 > 0 /\ (isWriting(k.channel_) <=> n1 < Len(k.outputBuffer_))
      BY <1>5, <2>3, <2>4 DEF n
    <3>2. k2 = Flush(k, n1, k.channel_)
      BY <2>2, <2>4
    <3>3. QED
      BY <1>1, <1>5, <3>1, <3>2, FlushInv
  <2>6. QED
    BY <1>5, <2>1, <2>4, <2>5
<1>6. CASE isWriting(k.channel_) /\ n > 0 /\ flushes(k)
  <2>1. PICK ch \in ChannelType : ch = disableWriting(k.channel_) /\ InStep(ch) /\ ~isWriting(ch)
    BY <1>1, ChannelMethods DEF isWriting
  <2>2. handleWrite(k) = IF k.state_ = "kDisconnecting" THEN shutdownInLoop(finished) ELSE finished
    BY <1>6 DEF handleWrite
  <2>3. finished = Flush(k, n, ch)
    BY <1>1, <2>1 DEF ConnectionType, Flush
  <2>4. isWriting(ch) <=> n < Len(k.outputBuffer_)
    BY <1>1, <1>2, <1>6, <2>1 DEF flushes
  <2>5. PICK n1, k2 : n1 = n /\ k2 = finished
    OBVIOUS
  <2> HIDE DEF finished, n
  <2>6. /\ ConnInv(k2) /\ FinStep(k, k2) /\ k2.channel_ = ch /\ k2.shutWr = k.shutWr
        /\ k2.sent = k.sent /\ k2.state_ = k.state_ /\ k2.up = k.up /\ k2.down = k.down
    <3>1. n1 = flushed(k) /\ n1 > 0 /\ (isWriting(ch) <=> n1 < Len(k.outputBuffer_))
      BY <1>6, <2>4, <2>5 DEF n
    <3>2. k2 = Flush(k, n1, ch)
      BY <2>3, <2>5
    <3>3. QED
      BY <1>6, <2>1, <3>1, <3>2, FlushInv
  <2>7. /\ ConnInv(shutdownInLoop(k2)) /\ FinStep(k, shutdownInLoop(k2))
        /\ shutdownInLoop(k2).sent = k.sent /\ shutdownInLoop(k2).state_ = k.state_
        /\ shutdownInLoop(k2).up = k.up /\ shutdownInLoop(k2).down = k.down
        /\ shutdownInLoop(k2).channel_ = ch
    <3>1. ConnInv(shutdownInLoop(k2)) /\ FinStep(k2, shutdownInLoop(k2))
      BY <2>6, ShutdownInv
    <3>2. shutdownInLoop(k2) = [k2 EXCEPT !.shutWr = TRUE] /\ k2 \in ConnectionType
      BY <2>1, <2>6 DEF shutdownInLoop, ConnInv
    <3>3. QED
      BY <2>6, <3>1, <3>2 DEF FinStep, ConnectionType
  <2>8. QED
    BY <1>6, <2>1, <2>2, <2>5, <2>6, <2>7
<1>7. QED
  BY <1>2, <1>3, <1>4, <1>5, <1>6

-----------------------------------------------------------------------------
(* All the connections, whatever step is taken.                            *)

\* A loop or a user that is in the middle of something has a connection.
Busy ==
    /\ \A l \in Loops : phase[l] \in {"event", "message"} => cur[l] \in Conns
    /\ \A u \in UserThreads : userPc[u] # "idle" => userConn[u] \in Conns

Sound == \A c \in Conns : ConnInv(conn[c])

SoundStep ==
    /\ conn' \in [Conns -> ConnectionType]
    /\ \A c \in Conns : ConnInv(conn'[c]) /\ FinStep(conn[c], conn'[c])

LEMMA OneChanges ==
    ASSUME conn \in [Conns -> ConnectionType], Sound, NEW x, NEW v,
           x \in Conns => ConnInv(v) /\ FinStep(conn[x], v),
           conn' = [conn EXCEPT ![x] = v]
    PROVE  SoundStep
BY DEF Sound, SoundStep, ConnInv, FinStep

LEMMA NoneChanges ==
    ASSUME conn \in [Conns -> ConnectionType], Sound, conn' = conn
    PROVE  SoundStep
BY DEF Sound, SoundStep, FinStep

LEMMA SoundClient ==
    ASSUME TypeOK, Sound, NEW c \in Conns, Client(c)
    PROVE  SoundStep
<1>1. conn \in [Conns -> ConnectionType] /\ conn[c] \in ConnectionType /\ ConnInv(conn[c])
  BY DEF TypeOK, Sound
<1>2. CASE ClientConnects(c)
  BY <1>1, <1>2, NoneChanges DEF ClientConnects
<1>3. CASE ClientSends(c)
  <2>1. conn' = [conn EXCEPT ![c] = [conn[c] EXCEPT !.unread = TRUE]]
    BY <1>3 DEF ClientSends
  <2>2. Plain(conn[c], [conn[c] EXCEPT !.unread = TRUE])
    BY <1>1, PlainSteps
  <2>3. QED
    BY <1>1, <2>1, <2>2, PlainInv, OneChanges
<1>4. CASE ClientReads(c)
  <2>1. conn' = [conn EXCEPT ![c] = [conn[c] EXCEPT !.sndbuf = @ - 1]] /\ conn[c].sndbuf > 0
    BY <1>4 DEF ClientReads
  <2>2. Plain(conn[c], [conn[c] EXCEPT !.sndbuf = @ - 1])
    BY <1>1, <2>1, PlainSteps
  <2>3. QED
    BY <1>1, <2>1, <2>2, PlainInv, OneChanges
<1>5. CASE ClientCloses(c)
  <2>1. conn' = [conn EXCEPT ![c] = [conn[c] EXCEPT !.peer = "fin"]] /\ conn[c].peer = "open"
    BY <1>5 DEF ClientCloses
  <2>2. Plain(conn[c], [conn[c] EXCEPT !.peer = "fin"])
    BY <1>1, <2>1, PlainSteps
  <2>3. QED
    BY <1>1, <2>1, <2>2, PlainInv, OneChanges
<1>6. CASE ClientResets(c)
  <2>1. conn' = [conn EXCEPT ![c] = [conn[c] EXCEPT !.peer = "reset", !.err = TRUE, !.sndbuf = 0]]
    BY <1>1, <1>6 DEF ClientResets, ConnectionType
  <2>2. Plain(conn[c], [conn[c] EXCEPT !.peer = "reset", !.err = TRUE, !.sndbuf = 0])
    BY <1>1, PlainSteps
  <2>3. QED
    BY <1>1, <2>1, <2>2, PlainInv, OneChanges
<1>7. QED
  BY <1>2, <1>3, <1>4, <1>5, <1>6 DEF Client

\* The connection is constructed, and established at once in the base loop.
LEMMA ConstructInv ==
    ASSUME NEW k, ConnInv(k), NEW k1, k1 = [k EXCEPT !.state_ = "kConnecting"]
    PROVE  /\ ConnInv(k1) /\ FinStep(k, k1)
           /\ ConnInv(connectEstablished(k1)) /\ FinStep(k, connectEstablished(k1))
<1>1. k \in ConnectionType
  BY DEF ConnInv
<1>2. Plain(k, k1)
  BY <1>1, PlainSteps DEF States
<1>3. ConnInv(k1) /\ FinStep(k, k1)
  BY <1>2, PlainInv
<1>4. ConnInv(connectEstablished(k1)) /\ FinStep(k1, connectEstablished(k1))
  BY <1>3, EstablishedInv
<1>5. QED
  BY <1>2, <1>3, <1>4 DEF FinStep, Plain

LEMMA SoundAccept ==
    ASSUME TypeOK, Sound, Accept
    PROVE  SoundStep
<1>1. CASE HandleAcceptFails
  BY <1>1, NoneChanges DEF HandleAcceptFails, TypeOK
<1>2. ASSUME NEW c \in Conns, HandleAccept(c) PROVE SoundStep
  <2>1. conn \in [Conns -> ConnectionType] /\ ConnInv(conn[c])
    BY DEF TypeOK, Sound
  <2>2. PICK k1 : k1 = [conn[c] EXCEPT !.state_ = "kConnecting"]
    OBVIOUS
  <2>3. \/ conn' = [conn EXCEPT ![c] = connectEstablished(k1)]
        \/ conn' = [conn EXCEPT ![c] = k1]
    BY <1>2, <2>2 DEF HandleAccept, newConnection
  <2>4. /\ ConnInv(k1) /\ FinStep(conn[c], k1)
        /\ ConnInv(connectEstablished(k1)) /\ FinStep(conn[c], connectEstablished(k1))
    BY <2>1, <2>2, ConstructInv
  <2>5. QED
    BY <2>1, <2>3, <2>4, OneChanges
<1>3. QED
  BY <1>1, <1>2 DEF Accept

LEMMA SoundMessage ==
    ASSUME TypeOK, Sound, NEW l \in Loops, Message(l)
    PROVE  SoundStep
<1>1. conn \in [Conns -> ConnectionType]
  BY DEF TypeOK
<1>2. PICK x : x = cur[l]
  OBVIOUS
<1>3. CASE MessageShutsDown(l)
  <2>1. PICK k1 : k1 = [conn[x] EXCEPT !.state_ = "kDisconnecting"]
    OBVIOUS
  <2>2. conn' = [conn EXCEPT ![x] = shutdownInLoop(k1)]
    BY <1>2, <1>3, <2>1 DEF MessageShutsDown
  <2>3. ASSUME x \in Conns PROVE ConnInv(shutdownInLoop(k1)) /\ FinStep(conn[x], shutdownInLoop(k1))
    <3>1. ConnInv(conn[x]) /\ Plain(conn[x], k1)
      BY <1>1, <2>1, <2>3, PlainSteps DEF Sound, States
    <3>2. ConnInv(k1)
      BY <3>1, PlainInv
    <3>3. ConnInv(shutdownInLoop(k1)) /\ FinStep(k1, shutdownInLoop(k1))
      BY <3>2, ShutdownInv
    <3>4. QED
      BY <3>1, <3>3 DEF FinStep, Plain
  <2>4. QED
    BY <1>1, <2>2, <2>3, OneChanges
<1>4. ASSUME NEW len \in SendLens, MessageSends(l, len) PROVE SoundStep
  <2>1. conn' = [conn EXCEPT ![x] = sendInLoop(conn[x], len)]
    BY <1>2, <1>4 DEF MessageSends
  <2>2. len \in Nat
    BY SendLensAssumption
  <2>3. x \in Conns =>
            ConnInv(sendInLoop(conn[x], len)) /\ FinStep(conn[x], sendInLoop(conn[x], len))
    BY <2>2, SendInv DEF Sound
  <2>4. QED
    BY <1>1, <2>1, <2>3, OneChanges
<1>5. QED
  BY <1>3, <1>4 DEF Message

LEMMA SoundUser ==
    ASSUME TypeOK, Sound, NEW u \in UserThreads, User(u)
    PROVE  SoundStep
<1>1. conn \in [Conns -> ConnectionType]
  BY DEF TypeOK
<1>2. CASE UserSetsState(u)
  <2>1. PICK x : x = userConn[u]
    OBVIOUS
  <2>2. conn' = [conn EXCEPT ![x] = [conn[x] EXCEPT !.state_ = "kDisconnecting"]]
    BY <1>2, <2>1 DEF UserSetsState
  <2>3. ASSUME x \in Conns
        PROVE  /\ ConnInv([conn[x] EXCEPT !.state_ = "kDisconnecting"])
               /\ FinStep(conn[x], [conn[x] EXCEPT !.state_ = "kDisconnecting"])
    <3>1. ConnInv(conn[x]) /\ Plain(conn[x], [conn[x] EXCEPT !.state_ = "kDisconnecting"])
      BY <1>1, <2>3, PlainSteps DEF Sound, States
    <3>2. QED
      BY <3>1, PlainInv
  <2>4. QED
    BY <1>1, <2>2, <2>3, OneChanges
<1>3. CASE conn' = conn
  BY <1>1, <1>3, NoneChanges
<1>4. QED
  BY <1>2, <1>3 DEF User, UserSend, UserShutdown, UserTests, UserSendQueues, UserShutdownQueues,
                    UserQueues

\* The functor that runs is one of the vector's.
LEMMA RunningFunctor ==
    ASSUME TypeOK, NEW l \in Loops, NEW fn, Running(l, fn)
    PROVE  /\ pos[l] \in DOMAIN batch[l] /\ batch[l][pos[l]] \in Functors
           /\ Target(l) \in Conns
           /\ batch[l][pos[l]].fn = fn
           /\ batch[l][pos[l]].len \in Nat
<1>1. batch[l] \in Seq(Functors) /\ pos[l] \in Nat \ {0} /\ pos[l] <= Len(batch[l])
  BY DEF TypeOK, Running
<1>2. pos[l] \in DOMAIN batch[l] /\ batch[l][pos[l]] \in Functors
  BY <1>1
<1>3. PICK f \in Functors : f = batch[l][pos[l]]
  BY <1>2
<1>4. f.conn \in Conns /\ f.len \in Nat
  <2>1. f.conn \in Conns /\ f.len \in SendLens \cup {0}
    BY DEF Functors
  <2>2. f.len \in SendLens => f.len \in Nat \ {0}
    BY SendLensAssumption, Zenon
  <2>3. QED
    BY <2>1, <2>2
<1>5. QED
  BY <1>2, <1>3, <1>4 DEF Target, Running

LEMMA SoundLoop ==
    ASSUME TypeOK, Sound, NEW l \in Loops, LoopStep(l)
    PROVE  SoundStep
<1>1. conn \in [Conns -> ConnectionType]
  BY DEF TypeOK
<1>2. CASE conn' = conn
  BY <1>1, <1>2, NoneChanges
<1>3. PICK x, y : x = cur[l] /\ y = Target(l)
  OBVIOUS
<1>4. CASE HandleClose(l) \/ HandleReadEnd(l)
  <2>1. conn' = [conn EXCEPT ![x] = handleClose(conn[x])]
    BY <1>3, <1>4 DEF HandleClose, HandleReadEnd
  <2>2. x \in Conns => ConnInv(handleClose(conn[x])) /\ FinStep(conn[x], handleClose(conn[x]))
    BY CloseInv DEF Sound
  <2>3. QED
    BY <1>1, <2>1, <2>2, OneChanges
<1>5. CASE HandleError(l) \/ HandleReadError(l)
  <2>1. conn' = [conn EXCEPT ![x] = clearError(conn[x])]
    BY <1>3, <1>5 DEF HandleError, HandleReadError, handleError
  <2>2. x \in Conns => ConnInv(clearError(conn[x])) /\ FinStep(conn[x], clearError(conn[x]))
    BY <1>1, PlainSteps, PlainInv DEF Sound
  <2>3. QED
    BY <1>1, <2>1, <2>2, OneChanges
<1>6. CASE HandleReadMessage(l)
  <2>1. conn' = [conn EXCEPT ![x] = readMessage(conn[x])]
    BY <1>3, <1>6 DEF HandleReadMessage
  <2>2. x \in Conns => ConnInv(readMessage(conn[x])) /\ FinStep(conn[x], readMessage(conn[x]))
    BY <1>1, PlainSteps, PlainInv DEF Sound
  <2>3. QED
    BY <1>1, <2>1, <2>2, OneChanges
<1>7. CASE HandleWrite(l)
  <2>1. conn' = [conn EXCEPT ![x] = handleWrite(conn[x])]
    BY <1>3, <1>7 DEF HandleWrite
  <2>2. x \in Conns => ConnInv(handleWrite(conn[x])) /\ FinStep(conn[x], handleWrite(conn[x]))
    BY WriteInv DEF Sound
  <2>3. QED
    BY <1>1, <2>1, <2>2, OneChanges
<1>8. CASE RunConnectEstablished(l)
  <2>1. conn' = [conn EXCEPT ![y] = connectEstablished(conn[y])]
    BY <1>3, <1>8 DEF RunConnectEstablished
  <2>2. y \in Conns =>
            ConnInv(connectEstablished(conn[y])) /\ FinStep(conn[y], connectEstablished(conn[y]))
    BY EstablishedInv DEF Sound
  <2>3. QED
    BY <1>1, <2>1, <2>2, OneChanges
<1>9. CASE RunConnectDestroyed(l)
  <2>1. conn' = [conn EXCEPT ![y] = connectDestroyed(conn[y])]
    BY <1>3, <1>9 DEF RunConnectDestroyed
  <2>2. y \in Conns =>
            ConnInv(connectDestroyed(conn[y])) /\ FinStep(conn[y], connectDestroyed(conn[y]))
    BY DestroyedInv DEF Sound
  <2>3. QED
    BY <1>1, <2>1, <2>2, OneChanges
<1>10. CASE RunSendInLoop(l)
  <2>1. PICK len : len = batch[l][pos[l]].len
    OBVIOUS
  <2>2. conn' = [conn EXCEPT ![y] = sendInLoop(conn[y], len)]
    BY <1>3, <1>10, <2>1 DEF RunSendInLoop
  <2>3. len \in Nat
    BY <1>10, <2>1, RunningFunctor DEF RunSendInLoop
  <2>4. y \in Conns =>
            ConnInv(sendInLoop(conn[y], len)) /\ FinStep(conn[y], sendInLoop(conn[y], len))
    BY <2>3, SendInv DEF Sound
  <2>5. QED
    BY <1>1, <2>2, <2>4, OneChanges
<1>11. CASE RunShutdownInLoop(l)
  <2>1. conn' = [conn EXCEPT ![y] = shutdownInLoop(conn[y])]
    BY <1>3, <1>11 DEF RunShutdownInLoop
  <2>2. y \in Conns =>
            ConnInv(shutdownInLoop(conn[y])) /\ FinStep(conn[y], shutdownInLoop(conn[y]))
    BY ShutdownInv DEF Sound
  <2>3. QED
    BY <1>1, <2>1, <2>2, OneChanges
<1>12. QED
  <2>1. CASE \/ Poll(l) \/ EventHandled(l) \/ BeginPending(l) \/ EndPending(l)
             \/ MessageReturns(l) \/ RunRemoveConnection(l) \/ RunUserCallback(l)
             \/ \E a \in active[l] : HandleEvent(l, a[1], a[2])
    BY <1>2, <2>1 DEF Poll, EventHandled, BeginPending, EndPending, MessageReturns,
                      RunRemoveConnection, RunUserCallback, HandleEvent
  <2>2. QED
    BY <1>4, <1>5, <1>6, <1>7, <1>8, <1>9, <1>10, <1>11, <2>1 DEF LoopStep

\* The threads that are given connections are user threads.
LEMMA KnownUsers == TypeOK => \A u \in users : u \in UserThreads
BY DEF TypeOK

LEMMA SoundNext ==
    ASSUME TypeOK, Sound, [Next]_vars
    PROVE  SoundStep
<1>1. CASE UNCHANGED vars
  BY <1>1, NoneChanges DEF vars, TypeOK
<1>2. CASE Next
  BY <1>2, KnownUsers, SoundClient, SoundLoop, SoundMessage, SoundAccept, SoundUser DEF Next
<1>3. QED
  BY <1>1, <1>2

-----------------------------------------------------------------------------
(* Types.                                                                  *)

LEMMA NextLoop ==
    ASSUME TypeOK
    PROVE  /\ getNextLoop \in Loops
           /\ loops_ # << >> => getNextLoop # Base
           /\ nextIndex \in IF loops_ = << >> THEN {1} ELSE DOMAIN loops_
<1>1. CASE loops_ = << >>
  BY <1>1 DEF getNextLoop, nextIndex, Loops
<1>2. CASE loops_ # << >>
  <2>1. PICK p \in Seq(Loops \ {Base}), n \in Nat : p = loops_ /\ n = next_ /\ n \in DOMAIN p
    BY <1>2, PoolsAssumption DEF TypeOK
  <2>2. p[n] \in Loops \ {Base} /\ n \in 1..Len(p) /\ Len(p) \in Nat
    BY <2>1
  <2>3. (IF n >= Len(p) THEN 1 ELSE n + 1) \in DOMAIN p
    BY <2>2
  <2>4. QED
    BY <1>2, <2>1, <2>2, <2>3 DEF getNextLoop, nextIndex
<1>3. QED
  BY <1>1, <1>2

LEMMA FunctorType ==
    ASSUME NEW fn \in SharedFns \cup RawFns, NEW c \in Conns, NEW len \in SendLens \cup {0}
    PROVE  [fn |-> fn, conn |-> c, len |-> len] \in Functors /\ Functor(fn, c) \in Functors
BY DEF Functors, Functor

LEMMA QueuedNames ==
    ASSUME NEW k, NEW len
    PROVE  sendQueues(k, len) \in Seq(SharedFns) /\ writeQueues(k) \in Seq(SharedFns)
<1>1. /\ <<"writeComplete">> \in Seq(SharedFns) /\ <<"highWaterMark">> \in Seq(SharedFns)
      /\ << >> \in Seq(SharedFns)
  BY DEF SharedFns
<1>2. writeQueues(k) \in Seq(SharedFns)
  BY <1>1 DEF writeQueues
<1>3. \A s, t \in Seq(SharedFns) : s \o t \in Seq(SharedFns)
  OBVIOUS
<1>4. QED
  BY <1>1, <1>2, <1>3 DEF sendQueues

LEMMA QueueNamesType ==
    ASSUME TypeOK, NEW l \in Loops, NEW c \in Conns, NEW names \in Seq(SharedFns),
           queueNames(l, c, names)
    PROVE  /\ queue' \in [Loops -> Seq(Functors)]
           /\ [i \in DOMAIN names |-> Functor(names[i], c)] \in Seq(Functors)
<1>1. ASSUME NEW i \in DOMAIN names PROVE Functor(names[i], c) \in Functors
  <2>1. names[i] \in SharedFns
    OBVIOUS
  <2>2. QED
    BY <2>1, FunctorType
<1>2. PICK n \in Nat : DOMAIN names = 1..n
  <2>1. DOMAIN names = 1..Len(names) /\ Len(names) \in Nat
    OBVIOUS
  <2>2. QED
    BY <2>1
<1>3. PICK s : s = [i \in DOMAIN names |-> Functor(names[i], c)]
  OBVIOUS
<1>4. s \in [1..n -> Functors]
  BY <1>1, <1>2, <1>3
<1>5. s \in Seq(Functors)
  BY <1>4
<1>6. queue \in [Loops -> Seq(Functors)]
  BY DEF TypeOK
<1>7. queue[l] \o s \in Seq(Functors)
  BY <1>5, <1>6
<1>8. queue' = [queue EXCEPT ![l] = queue[l] \o s]
  BY <1>3 DEF queueNames
<1>9. QED
  BY <1>3, <1>5, <1>6, <1>7, <1>8

LEMMA QueueOne ==
    ASSUME TypeOK, NEW x, NEW f \in Functors, queue' = [queue EXCEPT ![x] = Append(@, f)]
    PROVE  queue' \in [Loops -> Seq(Functors)]
<1>1. queue \in [Loops -> Seq(Functors)]
  BY DEF TypeOK
<1>2. x \in Loops => Append(queue[x], f) \in Seq(Functors)
  BY <1>1
<1>3. QED
  BY <1>1, <1>2

LEMMA CallbacksType ==
    ASSUME NEW revs
    PROVE  callbacks(revs) \in Seq({"close", "error", "read", "write"})
<1> DEFINE S == {"close", "error", "read", "write"}
<1>1. /\ <<"close">> \in Seq(S) /\ <<"error">> \in Seq(S) /\ <<"read">> \in Seq(S)
      /\ <<"write">> \in Seq(S) /\ << >> \in Seq(S)
  OBVIOUS
<1>2. \A s, t \in Seq(S) : s \o t \in Seq(S)
  OBVIOUS
<1> HIDE DEF S
<1>3. callbacks(revs) \in Seq(S)
  BY <1>1, <1>2 DEF callbacks
<1>4. QED
  BY <1>3 DEF S

LEMMA ReadyType ==
    ASSUME TypeOK, NEW l \in Loops
    PROVE  Ready(l) \in SUBSET ((Conns \cup {Acceptor}) \X SUBSET Revents)
<1>1. ASSUME NEW c \in Conns PROVE revents(conn[c]) \in SUBSET Revents
  BY DEF revents, Revents, Events
<1>2. {"EPOLLIN"} \in SUBSET Revents
  BY DEF Revents, Events
<1>3. QED
  BY <1>1, <1>2 DEF Ready

Types == TypeOK /\ Busy /\ Sound

LEMMA SoundConn ==
    ASSUME Types, NEW c \in Conns
    PROVE  ConnInv(conn[c]) /\ conn[c] \in ConnectionType
<1>1. ConnInv(conn[c])
  BY DEF Types, Sound
<1>2. QED
  BY <1>1 DEF ConnInv

LEMMA TypesClient ==
    ASSUME Types, SoundStep, NEW c \in Conns, Client(c)
    PROVE  TypeOK' /\ Busy'
<1>1. conn' \in [Conns -> ConnectionType]
  BY DEF SoundStep
<1>2. CASE ClientConnects(c)
  BY <1>2 DEF Types, TypeOK, Busy, ClientConnects, loopVars, userVars
<1>3. CASE ClientSends(c)
  <2>1. msgs' \in [Conns -> 0..MaxMsgs]
    BY <1>3, BoundsAssumption DEF Types, TypeOK, ClientSends
  <2>2. QED
    BY <1>1, <1>3, <2>1 DEF Types, TypeOK, Busy, ClientSends, loopVars, userVars, serverVars
<1>4. CASE ClientReads(c) \/ ClientCloses(c) \/ ClientResets(c)
  BY <1>1, <1>4 DEF Types, TypeOK, Busy, ClientReads, ClientCloses, ClientResets,
                    loopVars, userVars, serverVars
<1>5. QED
  BY <1>2, <1>3, <1>4 DEF Client

LEMMA TypesAccept ==
    ASSUME Types, SoundStep, Accept
    PROVE  TypeOK' /\ Busy'
<1>1. conn' \in [Conns -> ConnectionType] /\ Base \in Loops
  BY DEF SoundStep, Loops
<1>2. CASE HandleAcceptFails
  BY <1>1, <1>2 DEF Types, TypeOK, Busy, HandleAcceptFails, userVars, serverVars
<1>3. ASSUME NEW c \in Conns, HandleAccept(c) PROVE TypeOK' /\ Busy'
  <2>1. queue' \in [Loops -> Seq(Functors)]
    <3>1. CASE getNextLoop = Base
      BY <1>3, <3>1 DEF HandleAccept, newConnection, Types, TypeOK
    <3>2. CASE getNextLoop # Base
      <4>1. Functor("connectEstablished", c) \in Functors
        BY FunctorType DEF SharedFns
      <4>2. queue' = [queue EXCEPT ![getNextLoop] = Append(@, Functor("connectEstablished", c))]
        BY <1>3, <3>2 DEF HandleAccept, newConnection
      <4>3. QED
        BY <4>1, <4>2, QueueOne DEF Types
    <3>3. QED
      BY <3>1, <3>2
  <2>2. /\ getNextLoop \in Loops
        /\ nextIndex \in IF loops_ = << >> THEN {1} ELSE DOMAIN loops_
    BY NextLoop DEF Types
  <2>3. /\ ioLoop' = [ioLoop EXCEPT ![c] = getNextLoop] /\ next_' = nextIndex /\ loops_' = loops_
        /\ connections_' = connections_ \cup {c} /\ backlog' = backlog \ {c}
        /\ active' = [active EXCEPT ![Base] = @ \ {<<Acceptor, {"EPOLLIN"}>>}]
        /\ UNCHANGED <<phase, cur, todo, batch, pos, msgs, userVars>>
    BY <1>3 DEF HandleAccept, newConnection
  <2>4. QED
    BY <1>1, <2>1, <2>2, <2>3 DEF Types, TypeOK, Busy, userVars
<1>4. QED
  BY <1>2, <1>3 DEF Accept

LEMMA TypesMessage ==
    ASSUME Types, SoundStep, NEW l \in Loops, Message(l)
    PROVE  TypeOK' /\ Busy'
<1>1. conn' \in [Conns -> ConnectionType]
  BY DEF SoundStep
<1>2. CASE MessageShutsDown(l)
  BY <1>1, <1>2 DEF Types, TypeOK, Busy, MessageShutsDown, loopVars, userVars, serverVars
<1>3. ASSUME NEW len \in SendLens, MessageSends(l, len) PROVE TypeOK' /\ Busy'
  <2>1. cur[l] \in Conns
    BY <1>3 DEF Types, Busy, MessageSends
  <2>2. queue' \in [Loops -> Seq(Functors)]
    BY <1>3, <2>1, QueuedNames, QueueNamesType DEF MessageSends, Types
  <2>3. QED
    BY <1>1, <1>3, <2>2 DEF Types, TypeOK, Busy, MessageSends, loopVars, userVars, serverVars
<1>4. QED
  BY <1>2, <1>3 DEF Message

\* A step of a user thread leaves the loops and the server alone.
LEMMA TypesUserOnly ==
    ASSUME Types, UNCHANGED <<loopVars, serverVars, msgs, users>>,
           conn' \in [Conns -> ConnectionType], queue' \in [Loops -> Seq(Functors)],
           userPc' \in [UserThreads -> {"idle", "sending", "shutting", "shut"}],
           userConn' \in [UserThreads -> Conns \cup {Acceptor}],
           calls' \in [UserThreads -> 0..MaxCalls],
           \A u \in UserThreads : userPc'[u] # "idle" => userConn'[u] \in Conns
    PROVE  TypeOK' /\ Busy'
<1>1. UNCHANGED <<phase, active, cur, todo, batch, pos>>
  BY DEF loopVars
<1>2. UNCHANGED <<backlog, connections_, loops_, next_, ioLoop>>
  BY DEF serverVars
<1>3. TypeOK'
  BY <1>1, <1>2 DEF Types, TypeOK
<1>4. Busy'
  BY <1>1 DEF Types, Busy
<1>5. QED
  BY <1>3, <1>4

LEMMA TypesUser ==
    ASSUME Types, SoundStep, NEW u \in UserThreads, User(u)
    PROVE  TypeOK' /\ Busy'
<1>1. conn' \in [Conns -> ConnectionType]
  BY DEF SoundStep
<1>2. ASSUME NEW c \in Conns, UserSend(u, c) \/ UserShutdown(u, c) PROVE TypeOK' /\ Busy'
  <2>1. calls' \in [UserThreads -> 0..MaxCalls]
    <3>1. /\ calls \in [UserThreads -> 0..MaxCalls] /\ calls[u] < MaxCalls
          /\ calls' = [calls EXCEPT ![u] = @ + 1]
      BY <1>2 DEF Types, TypeOK, UserSend, UserShutdown, UserTests
    <3>2. calls[u] + 1 \in 0..MaxCalls
      BY <3>1, BoundsAssumption
    <3>3. QED
      BY <3>1, <3>2
  <2>2. PICK pc \in {"sending", "shutting"} :
          /\ userPc' = [userPc EXCEPT ![u] = pc] /\ userConn' = [userConn EXCEPT ![u] = c]
          /\ UNCHANGED <<loopVars, serverVars, queue, msgs, users>>
    BY <1>2 DEF UserSend, UserShutdown, UserTests
  <2>3. /\ userPc' \in [UserThreads -> {"idle", "sending", "shutting", "shut"}]
        /\ userConn' \in [UserThreads -> Conns \cup {Acceptor}]
    BY <2>2 DEF Types, TypeOK
  <2>4. \A v \in UserThreads : userPc'[v] # "idle" => userConn'[v] \in Conns
    BY <2>2 DEF Types, TypeOK, Busy
  <2>5. queue' \in [Loops -> Seq(Functors)]
    BY <2>2 DEF Types, TypeOK
  <2>6. QED
    BY <1>1, <2>1, <2>2, <2>3, <2>4, <2>5, TypesUserOnly
<1>3. ASSUME NEW f \in Functors, NEW pc, UserQueues(u, pc, f) PROVE TypeOK' /\ Busy'
  <2>1. queue' \in [Loops -> Seq(Functors)]
    BY <1>3, QueueOne DEF Types, UserQueues
  <2>2. /\ userPc' = [userPc EXCEPT ![u] = "idle"]
        /\ userConn' = [userConn EXCEPT ![u] = Acceptor]
        /\ UNCHANGED <<loopVars, serverVars, msgs, users, calls>>
    BY <1>3 DEF UserQueues
  <2>3. /\ userPc' \in [UserThreads -> {"idle", "sending", "shutting", "shut"}]
        /\ userConn' \in [UserThreads -> Conns \cup {Acceptor}]
        /\ calls' \in [UserThreads -> 0..MaxCalls]
    BY <2>2 DEF Types, TypeOK
  <2>4. \A v \in UserThreads : userPc'[v] # "idle" => userConn'[v] \in Conns
    BY <2>2 DEF Types, TypeOK, Busy
  <2>5. QED
    BY <1>1, <2>1, <2>2, <2>3, <2>4, TypesUserOnly
<1>4. ASSUME NEW len \in SendLens, UserSendQueues(u, len) PROVE TypeOK' /\ Busy'
  <2>1. userConn[u] \in Conns
    BY <1>4 DEF Types, Busy, UserSendQueues, UserQueues
  <2>2. [fn |-> "sendInLoop", conn |-> userConn[u], len |-> len] \in Functors
    BY <2>1, FunctorType DEF RawFns
  <2>3. QED
    BY <1>3, <1>4, <2>2 DEF UserSendQueues
<1>5. CASE UserShutdownQueues(u)
  <2>1. userConn[u] \in Conns
    BY <1>5 DEF Types, Busy, UserShutdownQueues, UserQueues
  <2>2. Functor("shutdownInLoop", userConn[u]) \in Functors
    BY <2>1, FunctorType DEF RawFns
  <2>3. QED
    BY <1>3, <1>5, <2>2 DEF UserShutdownQueues
<1>6. CASE UserSetsState(u)
  <2>1. /\ userPc[u] = "shutting" /\ userPc' = [userPc EXCEPT ![u] = "shut"]
        /\ UNCHANGED <<loopVars, serverVars, queue, msgs, users, userConn, calls>>
    BY <1>6 DEF UserSetsState
  <2>2. /\ userPc' \in [UserThreads -> {"idle", "sending", "shutting", "shut"}]
        /\ userConn' \in [UserThreads -> Conns \cup {Acceptor}]
        /\ calls' \in [UserThreads -> 0..MaxCalls] /\ queue' \in [Loops -> Seq(Functors)]
    BY <2>1 DEF Types, TypeOK
  <2>3. \A v \in UserThreads : userPc'[v] # "idle" => userConn'[v] \in Conns
    BY <2>1 DEF Types, TypeOK, Busy
  <2>4. QED
    BY <1>1, <2>1, <2>2, <2>3, TypesUserOnly
<1>7. QED
  BY <1>2, <1>4, <1>5, <1>6 DEF User

\* The callbacks and the functors of a loop change these variables only.
LEMMA TypesEvent ==
    ASSUME Types, SoundStep, NEW l \in Loops,
           queue' \in [Loops -> Seq(Functors)], connections_' \in SUBSET Conns,
           phase' \in {phase, [phase EXCEPT ![l] = "message"]},
           \/ \E name : Callback(l, name)
           \/ phase' = phase /\ \E fn : Running(l, fn)
    PROVE  TypeOK' /\ Busy'
<1>1. conn' \in [Conns -> ConnectionType]
  BY DEF SoundStep
<1>2. ASSUME NEW name, Callback(l, name) PROVE TypeOK' /\ Busy'
  <2>1. todo' \in [Loops -> Seq({"close", "error", "read", "write"})]
    BY <1>2 DEF Types, TypeOK, Callback
  <2>2. phase[l] = "event"
    BY <1>2 DEF Callback
  <2>3. phase' \in [Loops -> {"poll", "handle", "event", "message", "pending"}]
    BY DEF Types, TypeOK
  <2>4. \A m \in Loops : phase'[m] \in {"event", "message"} => phase[m] \in {"event", "message"}
    BY <2>2 DEF Types, TypeOK
  <2>5. QED
    BY <1>1, <1>2, <2>1, <2>3, <2>4 DEF Types, TypeOK, Busy, Callback, userVars
<1>3. ASSUME NEW fn, Running(l, fn), phase' = phase PROVE TypeOK' /\ Busy'
  <2>1. pos' \in [Loops -> Nat \ {0}]
    BY <1>3 DEF Types, TypeOK, Running
  <2>2. QED
    BY <1>1, <1>3, <2>1 DEF Types, TypeOK, Busy, Running, userVars
<1>4. QED
  BY <1>2, <1>3

LEMMA RemoveType ==
    ASSUME TypeOK, NEW c \in Conns, NEW l,
           removeConnection(l, c) \/ removeConnectionInLoop(c)
    PROVE  queue' \in [Loops -> Seq(Functors)] /\ connections_' \in SUBSET Conns
<1>1. /\ Functor("connectDestroyed", c) \in Functors
      /\ Functor("removeConnectionInLoop", c) \in Functors
  BY FunctorType DEF SharedFns
<1>2. CASE removeConnectionInLoop(c)
  BY <1>1, <1>2, QueueOne DEF removeConnectionInLoop, TypeOK
<1>3. CASE /\ queue' = [queue EXCEPT ![Base] = Append(@, Functor("removeConnectionInLoop", c))]
           /\ UNCHANGED connections_
  BY <1>1, <1>3, QueueOne DEF TypeOK
<1>4. QED
  BY <1>2, <1>3 DEF removeConnection

LEMMA TypesLoop ==
    ASSUME Types, SoundStep, NEW l \in Loops, LoopStep(l)
    PROVE  TypeOK' /\ Busy'
<1>1. conn' \in [Conns -> ConnectionType] /\ TypeOK
  BY DEF SoundStep, Types
<1>2. CASE Poll(l)
  <2>1. Ready(l) \in SUBSET ((Conns \cup {Acceptor}) \X SUBSET Revents)
    BY <1>1, ReadyType
  <2>2. QED
    BY <1>1, <1>2, <2>1 DEF Types, TypeOK, Busy, Poll, serverVars, userVars
<1>3. CASE EventHandled(l)
  BY <1>1, <1>3 DEF Types, TypeOK, Busy, EventHandled, serverVars, userVars
<1>4. CASE BeginPending(l)
  <2>1. queue[l] \in Seq(Functors) /\ << >> \in Seq(Functors)
    BY DEF Types, TypeOK
  <2>2. QED
    BY <1>1, <1>4, <2>1 DEF Types, TypeOK, Busy, BeginPending, serverVars, userVars
<1>5. CASE EndPending(l)
  <2>1. << >> \in Seq(Functors)
    OBVIOUS
  <2>2. QED
    BY <1>1, <1>5, <2>1 DEF Types, TypeOK, Busy, EndPending, serverVars, userVars
<1>6. ASSUME NEW a \in active[l], HandleEvent(l, a[1], a[2]) PROVE TypeOK' /\ Busy'
  <2>1. a[1] \in Conns
    BY <1>6 DEF Types, TypeOK, HandleEvent
  <2>2. callbacks(a[2]) \in Seq({"close", "error", "read", "write"})
    BY CallbacksType
  <2>3. QED
    BY <1>1, <1>6, <2>1, <2>2 DEF Types, TypeOK, Busy, HandleEvent, serverVars, userVars
<1>7. CASE MessageReturns(l)
  BY <1>1, <1>7 DEF Types, TypeOK, Busy, MessageReturns, serverVars, userVars
<1>8. CASE HandleClose(l) \/ HandleReadEnd(l)
  <2>1. cur[l] \in Conns /\ \E name : Callback(l, name)
    BY <1>8 DEF Types, Busy, HandleClose, HandleReadEnd, Callback
  <2>2. removeConnection(l, cur[l]) /\ phase' = phase
    BY <1>8 DEF HandleClose, HandleReadEnd
  <2>3. queue' \in [Loops -> Seq(Functors)] /\ connections_' \in SUBSET Conns
    BY <1>1, <2>1, <2>2, RemoveType
  <2>4. QED
    BY <2>1, <2>2, <2>3, TypesEvent
<1>9. CASE HandleError(l) \/ HandleReadError(l) \/ HandleReadMessage(l)
  <2>1. /\ queue' = queue /\ connections_' = connections_
        /\ phase' \in {phase, [phase EXCEPT ![l] = "message"]}
        /\ \E name : Callback(l, name)
    BY <1>9 DEF HandleError, HandleReadError, HandleReadMessage
  <2>2. queue' \in [Loops -> Seq(Functors)] /\ connections_' \in SUBSET Conns
    BY <1>1, <2>1 DEF TypeOK
  <2>3. QED
    BY <2>1, <2>2, TypesEvent
<1>10. CASE HandleWrite(l)
  <2>1. cur[l] \in Conns /\ \E name : Callback(l, name)
    BY <1>10 DEF Types, Busy, HandleWrite, Callback
  <2>2. /\ queueNames(l, cur[l], writeQueues(conn[cur[l]]))
        /\ phase' = phase /\ connections_' = connections_
    BY <1>10 DEF HandleWrite
  <2>3. queue' \in [Loops -> Seq(Functors)]
    BY <1>1, <2>1, <2>2, QueuedNames, QueueNamesType
  <2>4. connections_' \in SUBSET Conns
    BY <1>1, <2>2 DEF TypeOK
  <2>5. QED
    BY <2>1, <2>2, <2>3, <2>4, TypesEvent
<1>11. CASE RunConnectEstablished(l) \/ RunConnectDestroyed(l) \/ RunShutdownInLoop(l)
            \/ RunUserCallback(l)
  <2>1. queue' = queue /\ connections_' = connections_ /\ \E fn : Running(l, fn)
    BY <1>11 DEF RunConnectEstablished, RunConnectDestroyed, RunShutdownInLoop, RunUserCallback
  <2>2. phase' = phase
    BY <2>1 DEF Running
  <2>3. queue' \in [Loops -> Seq(Functors)] /\ connections_' \in SUBSET Conns
    BY <1>1, <2>1 DEF TypeOK
  <2>4. QED
    BY <2>1, <2>2, <2>3, TypesEvent
<1>12. CASE RunRemoveConnection(l)
  <2>1. Running(l, "removeConnectionInLoop") /\ removeConnectionInLoop(Target(l))
    BY <1>12 DEF RunRemoveConnection
  <2>2. phase' = phase /\ Target(l) \in Conns
    BY <1>1, <2>1, RunningFunctor DEF Running
  <2>3. queue' \in [Loops -> Seq(Functors)] /\ connections_' \in SUBSET Conns
    BY <1>1, <2>1, <2>2, RemoveType
  <2>4. QED
    BY <2>1, <2>2, <2>3, TypesEvent
<1>13. CASE RunSendInLoop(l)
  <2>1. /\ Running(l, "sendInLoop")
        /\ queueNames(l, Target(l), sendQueues(conn[Target(l)], batch[l][pos[l]].len))
        /\ connections_' = connections_
    BY <1>13 DEF RunSendInLoop
  <2>2. phase' = phase /\ Target(l) \in Conns
    BY <1>1, <2>1, RunningFunctor DEF Running
  <2>3. queue' \in [Loops -> Seq(Functors)]
    BY <1>1, <2>1, <2>2, QueuedNames, QueueNamesType
  <2>4. connections_' \in SUBSET Conns
    BY <1>1, <2>1 DEF TypeOK
  <2>5. QED
    BY <2>1, <2>2, <2>3, <2>4, TypesEvent
<1>14. QED
  BY <1>2, <1>3, <1>4, <1>5, <1>6, <1>7, <1>8, <1>9, <1>10, <1>11, <1>12, <1>13 DEF LoopStep

LEMMA TypesInit ==
    ASSUME Init
    PROVE  Types
<1>1. Base \in Loops
  BY DEF Loops
<1>2. Sound
  BY UnbornInv DEF Init, Sound
<1>3. conn \in [Conns -> ConnectionType]
  BY UnbornInv DEF Init, ConnInv
<1>4. next_ \in IF loops_ = << >> THEN {1} ELSE DOMAIN loops_
  <2>1. PICK p \in Seq(Loops \ {Base}) : p = loops_
    BY PoolsAssumption DEF Init
  <2>2. p # << >> => 1 \in DOMAIN p
    OBVIOUS
  <2>3. QED
    BY <2>1, <2>2 DEF Init
<1>5. << >> \in Seq(Functors) /\ << >> \in Seq({"close", "error", "read", "write"})
  OBVIOUS
<1>6. 0 \in 0..MaxMsgs /\ 0 \in 0..MaxCalls
  BY BoundsAssumption
<1>7. TypeOK
  BY <1>1, <1>3, <1>4, <1>5, <1>6 DEF TypeOK, Init
<1>8. Busy
  BY DEF Busy, Init
<1>9. QED
  BY <1>2, <1>7, <1>8 DEF Types

LEMMA TypesNext ==
    ASSUME Types, [Next]_vars
    PROVE  Types' /\ SoundStep
<1>1. SoundStep
  BY SoundNext DEF Types
<1>2. Sound'
  BY <1>1 DEF Sound, SoundStep
<1>3. TypeOK' /\ Busy'
  <2>1. CASE UNCHANGED vars
    BY <2>1 DEF vars, loopVars, serverVars, userVars, Types, TypeOK, Busy
  <2>2. CASE Next
    <3>1. \A u \in users : u \in UserThreads
      BY KnownUsers DEF Types
    <3>2. QED
      BY <1>1, <2>2, <3>1, TypesClient, TypesLoop, TypesMessage, TypesAccept, TypesUser DEF Next
  <2>3. QED
    BY <2>1, <2>2
<1>4. QED
  BY <1>1, <1>2, <1>3 DEF Types

LEMMA TypesAlways == Spec => []Types
<1>1. Init => Types
  BY TypesInit
<1>2. Types /\ [Next]_vars => Types'
  BY TypesNext
<1>3. QED
  BY <1>1, <1>2, PTL DEF Spec

(***************************************************************************)
(* The poller's books and the epoll set agree on the channel of every      *)
(* connection, whatever its callbacks, its user and its client do and in   *)
(* whatever order (EPollPoller::updateChannel, removeChannel).             *)
(***************************************************************************)
THEOREM ChannelsAlwaysInStep == Spec => []ChannelsInStep
<1>1. Types => ChannelsInStep
  BY DEF Types, Sound, ConnInv, ChannelsInStep
<1>2. QED
  BY <1>1, TypesAlways, PTL

(***************************************************************************)
(* No byte is lost, doubled or overtaken between send() and the socket:    *)
(* sendInLoop's shortcut past an empty buffer and handleWrite's partial    *)
(* writes leave the stream the user sent, for every size of the messages   *)
(* and of the send buffer.                                                 *)
(***************************************************************************)
THEOREM StreamAlwaysInOrder == Spec => []StreamInOrder
<1>1. ASSUME NEW w \in Seq(Nat), NEW o \in Seq(Nat), InOrder(w, o), NEW i \in DOMAIN (w \o o)
      PROVE  (w \o o)[i] = i
  <2>1. /\ i \in 1..(Len(w) + Len(o)) /\ Len(w) \in Nat /\ Len(o) \in Nat
    BY <1>1
  <2>2. CASE i <= Len(w)
    <3>1. i \in 1..Len(w)
      BY <2>1, <2>2
    <3>2. QED
      BY <1>1, <3>1, Concat DEF InOrder
  <2>3. CASE i > Len(w)
    <3>1. i - Len(w) \in 1..Len(o) /\ (w \o o)[i] = o[i - Len(w)]
      BY <2>1, <2>3, Concat
    <3>2. o[i - Len(w)] = Len(w) + (i - Len(w))
      BY <1>1, <3>1 DEF InOrder
    <3>3. QED
      BY <2>1, <3>1, <3>2
  <2>4. QED
    BY <2>1, <2>2, <2>3
<1>2. Types => StreamInOrder
  <2>1. SUFFICES ASSUME Types, NEW c \in Conns
                 PROVE  \A i \in DOMAIN (conn[c].wire \o conn[c].outputBuffer_) :
                            (conn[c].wire \o conn[c].outputBuffer_)[i] = i
    BY DEF StreamInOrder
  <2>2. /\ conn[c].wire \in Seq(Nat) /\ conn[c].outputBuffer_ \in Seq(Nat)
        /\ InOrder(conn[c].wire, conn[c].outputBuffer_)
    <3>1. PICK k \in ConnectionType : k = conn[c] /\ ConnInv(k)
      BY <2>1, SoundConn
    <3>2. k.wire \in Seq(Nat) /\ k.outputBuffer_ \in Seq(Nat) /\ InOrder(k.wire, k.outputBuffer_)
      BY <3>1, ConnFields DEF ConnInv, Stream
    <3>3. QED
      BY <3>1, <3>2
  <2>3. QED
    BY <1>1, <2>2
<1>3. QED
  BY <1>2, TypesAlways, PTL

(***************************************************************************)
(* Until the connection is closed, bytes wait in the output buffer exactly *)
(* when the channel waits for EPOLLOUT (TcpConnection.cpp:136-139, 215):   *)
(* no buffered byte is forgotten and no loop spins on a writable socket.   *)
(***************************************************************************)
THEOREM AlwaysWritesWhileBuffered == Spec => []WritesWhileBuffered
<1>1. Types => WritesWhileBuffered
  <2>1. SUFFICES ASSUME Types, NEW c \in Conns, conn[c].down = 0
                 PROVE  isWriting(conn[c].channel_) <=> conn[c].outputBuffer_ # << >>
    BY DEF WritesWhileBuffered
  <2>2. conn[c].outputBuffer_ \in Seq(Nat) /\ Buffered(conn[c])
    <3>1. PICK k \in ConnectionType : k = conn[c] /\ ConnInv(k)
      BY <2>1, SoundConn
    <3>2. k.outputBuffer_ \in Seq(Nat) /\ Buffered(k)
      BY <3>1, ConnFields DEF ConnInv
    <3>3. QED
      BY <3>1, <3>2
  <2>3. Len(conn[c].outputBuffer_) > 0 <=> conn[c].outputBuffer_ # << >>
    BY <2>2
  <2>4. QED
    BY <2>1, <2>2, <2>3 DEF Buffered
<1>2. QED
  BY <1>1, TypesAlways, PTL

(***************************************************************************)
(* SHUT_WR comes after the last buffered byte of a connection that is not  *)
(* closed, whether shutdownInLoop does it at once or handleWrite does it   *)
(* when the buffer is empty (TcpConnection.cpp:154-160, 224-227).          *)
(***************************************************************************)
THEOREM FinComesAfterOutput == Spec => FinAfterOutput
<1>1. Types /\ [Next]_vars =>
          [\A c \in Conns : ~conn[c].shutWr /\ conn'[c].shutWr =>
               conn'[c].outputBuffer_ = << >> \/ conn[c].down > 0]_vars
  <2>1. SUFFICES ASSUME Types, [Next]_vars, NEW c \in Conns, ~conn[c].shutWr, conn'[c].shutWr
                 PROVE  conn'[c].outputBuffer_ = << >> \/ conn[c].down > 0
    OBVIOUS
  <2>2. FinStep(conn[c], conn'[c]) /\ conn'[c].outputBuffer_ \in Seq(Nat)
    BY <2>1, TypesNext, ConnFields DEF SoundStep
  <2>3. Len(conn'[c].outputBuffer_) = 0 => conn'[c].outputBuffer_ = << >>
    BY <2>2
  <2>4. QED
    BY <2>1, <2>2, <2>3 DEF FinStep
<1>2. QED
  BY <1>1, TypesAlways, PTL DEF Spec, FinAfterOutput

=============================================================================

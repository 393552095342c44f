--------------------------- MODULE TcpConnection ----------------------------
(***************************************************************************)
(* A TcpConnection of mymuduo/net and the kernel socket under it.  A       *)
(* connection is a record of the object's own state                        *)
(*   state_, channel_, outputBuffer_                                       *)
(* (output bytes are numbered in the order they reach sendInLoop), of the  *)
(* socket                                                                  *)
(*   unread   data of the peer waits to be read                            *)
(*   peer     the peer's side: "open", "fin" (it has closed), "reset"      *)
(*   err      SO_ERROR is set                                              *)
(*   sndbuf   bytes in the send buffer, which holds SndBuf                 *)
(*   shutWr   SHUT_WR was done                                             *)
(*   wire     the bytes write() has taken, in order                        *)
(* and of history: bytes passed to sendInLoop (sent) and calls of the      *)
(* connection callback for a new and for a lost connection (up, down).     *)
(* Every method that runs in the loop's thread is a function from          *)
(* connections to connections.  SIGPIPE is taken to be ignored.            *)
(***************************************************************************)
EXTENDS Channel, Naturals

CONSTANTS
    SndBuf,             \* size of the socket's send buffer
    HighWaterMark,      \* highWaterMark_
    HasWriteComplete    \* writeCompleteCallback_ is set

ASSUME SndBufAssumption == SndBuf \in Nat \ {0}

States == {"unborn", "kConnecting", "kConnected", "kDisconnecting", "kDisconnected"}

ConnectionType ==
    [state_ : States, channel_ : ChannelType, outputBuffer_ : Seq(Nat),
     unread : BOOLEAN, peer : {"open", "fin", "reset"}, err : BOOLEAN,
     sndbuf : 0..SndBuf, shutWr : BOOLEAN, wire : Seq(Nat),
     sent : Nat, up : Nat, down : Nat]

\* A socket in the backlog of the listening socket, with no object yet.
Unborn ==
    [state_ |-> "unborn", channel_ |-> NewChannel, outputBuffer_ |-> << >>,
     unread |-> FALSE, peer |-> "open", err |-> FALSE,
     sndbuf |-> 0, shutWr |-> FALSE, wire |-> << >>,
     sent |-> 0, up |-> 0, down |-> 0]

-----------------------------------------------------------------------------
(* The socket, as epoll_wait, read and write show it.                      *)

revents(k) ==
    LET wanted == (IF k.unread \/ k.peer # "open" THEN {"EPOLLIN"} ELSE {}) \cup
                  (IF k.sndbuf < SndBuf \/ k.shutWr \/ k.peer = "reset"
                   THEN {"EPOLLOUT"} ELSE {})
        always == (IF k.err THEN {"EPOLLERR"} ELSE {}) \cup
                  (IF k.peer = "reset" \/ (k.peer = "fin" /\ k.shutWr)
                   THEN {"EPOLLHUP"} ELSE {})
    IN  IF k.channel_.registered THEN (wanted \cap k.channel_.mask) \cup always ELSE {}

\* write() fails with EPIPE or ECONNRESET unless:
writable(k) == ~k.shutWr /\ k.peer # "reset"

\* How many of len bytes write() takes; none stands for EWOULDBLOCK too.
nwritten(k, len) ==
    IF ~writable(k) THEN 0
    ELSE IF len <= SndBuf - k.sndbuf THEN len ELSE SndBuf - k.sndbuf

\* A failed write() or getsockopt(SO_ERROR) reports the error and clears it.
clearError(k) == [k EXCEPT !.err = FALSE]

-----------------------------------------------------------------------------
(* Sending.                                                                *)

\* n bytes numbered from + 1 on.
Bytes(from, n) == [i \in 1..n |-> from + i]

\* sendInLoop writes at once when nothing waits to be written before.
writesDirectly(k) == ~isWriting(k.channel_) /\ k.outputBuffer_ = << >>

\* What sendInLoop must keep of len bytes; after EPIPE or ECONNRESET nothing.
\* (Any other error keeps them all, as EWOULDBLOCK does on a full socket.)
remaining(k, len) ==
    IF ~writesDirectly(k) THEN len
    ELSE IF writable(k) THEN len - nwritten(k, len) ELSE 0

\* Mutant: every send writes first what it can.
sendInLoopAlwaysWrites(k, len) ==
    LET n == nwritten(k, len)
    IN  [k EXCEPT !.sent = @ + len,
                  !.wire = @ \o Bytes(k.sent, n),
                  !.sndbuf = @ + n,
                  !.outputBuffer_ = @ \o Bytes(k.sent + n, len - n),
                  !.channel_ = IF n < len /\ ~isWriting(@) THEN enableWriting(@) ELSE @]

\* Mutant: bytes are kept and the write event is not asked for.
sendInLoopForgetsEvent(k, len) ==
    LET n == IF writesDirectly(k) THEN nwritten(k, len) ELSE 0
        r == remaining(k, len)
    IN  [k EXCEPT !.sent = @ + len,
                  !.wire = @ \o Bytes(k.sent, n),
                  !.sndbuf = @ + n,
                  !.err = @ /\ ~(writesDirectly(k) /\ ~writable(k)),
                  !.outputBuffer_ = @ \o Bytes(k.sent + n, r)]

\* The test for kDisconnected only logs.
sendInLoop(k, len) ==
    LET n == IF writesDirectly(k) THEN nwritten(k, len) ELSE 0
        r == remaining(k, len)
    IN  [k EXCEPT !.sent = @ + len,
                  !.wire = @ \o Bytes(k.sent, n),
                  !.sndbuf = @ + n,
                  !.err = @ /\ ~(writesDirectly(k) /\ ~writable(k)),
                  !.outputBuffer_ = @ \o Bytes(k.sent + n, r),
                  !.channel_ = IF r > 0 /\ ~isWriting(@) THEN enableWriting(@) ELSE @]

\* The callbacks sendInLoop queues in its own loop.
sendQueues(k, len) ==
    LET oldLen == Len(k.outputBuffer_)
        r == remaining(k, len)
    IN  (IF HasWriteComplete /\ writesDirectly(k) /\ nwritten(k, len) = len
         THEN <<"writeComplete">> ELSE << >>) \o
        (IF r > 0 /\ oldLen + r >= HighWaterMark /\ oldLen < HighWaterMark
         THEN <<"highWaterMark">> ELSE << >>)

\* Mutant: shutdown does not wait for the output buffer.
shutdownInLoopAtOnce(k) == [k EXCEPT !.shutWr = TRUE]

shutdownInLoop(k) == IF isWriting(k.channel_) THEN k ELSE [k EXCEPT !.shutWr = TRUE]

\* What handleWrite's write() takes.
flushed(k) ==
    IF isWriting(k.channel_) THEN nwritten(k, Len(k.outputBuffer_)) ELSE 0

flushes(k) == flushed(k) > 0 /\ flushed(k) = Len(k.outputBuffer_)

\* Mutant: a shutdown that waited for the output is forgotten.
handleWriteForgetsShutdown(k) ==
    LET n == flushed(k)
    IN  IF n = 0 THEN clearError(k)
        ELSE [k EXCEPT !.wire = @ \o SubSeq(k.outputBuffer_, 1, n),
                       !.sndbuf = @ + n,
                       !.outputBuffer_ = SubSeq(@, n + 1, Len(@)),
                       !.channel_ = IF flushes(k) THEN disableWriting(@) ELSE @]

handleWrite(k) ==
    LET n == flushed(k)
        written == [k EXCEPT !.wire = @ \o SubSeq(k.outputBuffer_, 1, n),
                             !.sndbuf = @ + n,
                             !.outputBuffer_ = SubSeq(@, n + 1, Len(@))]
        finished == [written EXCEPT !.channel_ = disableWriting(@)]
    IN  CASE ~isWriting(k.channel_) -> k
          [] isWriting(k.channel_) /\ n = 0 -> IF writable(k) THEN k ELSE clearError(k)
          [] n > 0 /\ ~flushes(k) -> written
          [] flushes(k) -> IF k.state_ = "kDisconnecting"
                           THEN shutdownInLoop(finished) ELSE finished

\* The callback handleWrite queues in its own loop.
writeQueues(k) == IF HasWriteComplete /\ flushes(k) THEN <<"writeComplete">> ELSE << >>

-----------------------------------------------------------------------------
(* Receiving, and the life of the connection.                              *)

\* The three outcomes of handleRead's readFd; a message goes to the user.
readsMessage(k) == k.unread
readsEnd(k)     == ~k.unread /\ ~k.err /\ k.peer # "open"
readsError(k)   == ~k.unread /\ ~readsEnd(k)

readMessage(k) == [k EXCEPT !.unread = FALSE]

handleError(k) == clearError(k)

connectEstablished(k) ==
    [k EXCEPT !.state_ = "kConnected", !.channel_ = enableReading(@), !.up = @ + 1]

handleClose(k) ==
    [k EXCEPT !.state_ = "kDisconnected", !.channel_ = disableAll(@), !.down = @ + 1]

\* Mutant: the down callback is made whatever state_ is.
connectDestroyedReportsAgain(k) ==
    [k EXCEPT !.state_ = "kDisconnected", !.channel_ = removeChannel(disableAll(@)),
              !.down = @ + 1]

connectDestroyed(k) ==
    LET disconnected == IF k.state_ = "kConnected"
                        THEN [k EXCEPT !.state_ = "kDisconnected",
                                       !.channel_ = disableAll(@), !.down = @ + 1]
                        ELSE k
    IN  [disconnected EXCEPT !.channel_ = removeChannel(@)]

=============================================================================

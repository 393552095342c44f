---------------------------- MODULE Buffer_proofs ---------------------------
(***************************************************************************)
(* Proofs about Buffer for every size: of the reserved and initial space,  *)
(* of extrabuf, of the data of a call and of what waits in the buffer.     *)
(***************************************************************************)
EXTENDS Buffer, SequenceTheorems, TLAPS

\* An object in which the indices are in order.
Ordered(b) ==
    /\ b \in BufferType
    /\ kCheapPrepend <= b.readerIndex_
    /\ b.readerIndex_ <= b.writerIndex_
    /\ b.writerIndex_ <= Len(b.buffer_)

\* The readable bytes, one by one.
LEMMA ReadableBytes ==
    ASSUME NEW b, Ordered(b)
    PROVE  /\ Readable(b) \in Seq(Byte)
           /\ Len(Readable(b)) = readableBytes(b)
           /\ readableBytes(b) \in Nat
           /\ \A i \in 1..readableBytes(b) : Readable(b)[i] = b.buffer_[b.readerIndex_ + i]
  <1> DEFINE m == b.readerIndex_ + 1
             n == b.writerIndex_
  <1>1. /\ b.buffer_ \in Seq(Byte)
        /\ b.readerIndex_ \in Nat /\ b.writerIndex_ \in Nat
        /\ b.readerIndex_ <= b.writerIndex_ /\ b.writerIndex_ <= Len(b.buffer_)
      BY DEF Ordered, BufferType
  <1>2. \A i \in m..n : b.buffer_[i] \in Byte
      BY <1>1
  <1>3. /\ SubSeq(b.buffer_, m, n) \in Seq(Byte)
        /\ Len(SubSeq(b.buffer_, m, n)) = IF m <= n THEN n - m + 1 ELSE 0
        /\ \A i \in 1..(n - m + 1) : SubSeq(b.buffer_, m, n)[i] = b.buffer_[m + i - 1]
    <2>1. m \in Int /\ n \in Int
        BY <1>1
    <2> HIDE DEF m, n
    <2> QED BY <1>2, <2>1, SubSeqProperties
  <1>4. n - m + 1 = readableBytes(b) /\ readableBytes(b) \in Nat
      BY <1>1 DEF readableBytes
  <1>5. (IF m <= n THEN n - m + 1 ELSE 0) = readableBytes(b)
      BY <1>1, <1>4
  <1>6. \A i \in 1..readableBytes(b) : m + i - 1 = b.readerIndex_ + i
      BY <1>1, <1>4
  <1>7. Readable(b) = SubSeq(b.buffer_, m, n)
      BY DEF Readable
  <1> HIDE DEF m, n
  <1> QED BY <1>3, <1>4, <1>5, <1>6, <1>7

\* copy() writes in place.
LEMMA CopyInPlace ==
    ASSUME NEW mem \in Seq(Byte), NEW at \in Nat, NEW data \in Seq(Byte),
           at + Len(data) <= Len(mem)
    PROVE  /\ copy(mem, at, data) \in Seq(Byte)
           /\ Len(copy(mem, at, data)) = Len(mem)
           /\ \A i \in 1..Len(mem) : copy(mem, at, data)[i] =
                 IF i - at \in 1..Len(data) THEN data[i - at] ELSE mem[i]
  <1>1. \A i \in 1..Len(mem) :
            (IF i - at \in 1..Len(data) THEN data[i - at] ELSE mem[i]) \in Byte
      OBVIOUS
  <1>2. copy(mem, at, data) \in [1..Len(mem) -> Byte]
      BY <1>1 DEF copy
  <1>3. copy(mem, at, data) \in Seq(Byte) /\ Len(copy(mem, at, data)) = Len(mem)
      BY <1>2
  <1> QED BY <1>3 DEF copy

\* resize() keeps what is there.
LEMMA ResizeKeeps ==
    ASSUME NEW mem \in Seq(Byte), NEW n \in Nat, Len(mem) <= n
    PROVE  /\ resize(mem, n) \in Seq(Byte)
           /\ Len(resize(mem, n)) = n
           /\ \A i \in 1..Len(mem) : resize(mem, n)[i] = mem[i]
  <1>1. \A i \in 1..n : (IF i <= Len(mem) THEN mem[i] ELSE Zero) \in Byte
      BY ByteAssumption
  <1>2. resize(mem, n) \in [1..n -> Byte]
      BY <1>1 DEF resize
  <1>3. resize(mem, n) \in Seq(Byte) /\ Len(resize(mem, n)) = n
      BY <1>2
  <1> QED BY <1>3 DEF resize

\* Data stored where there is room is readable behind what was readable.
LEMMA StoreAppends ==
    ASSUME NEW b, Ordered(b), NEW data \in Seq(Byte), Len(data) <= writableBytes(b)
    PROVE  /\ Ordered(Store(b, data))
           /\ Readable(Store(b, data)) = Readable(b) \o data
           /\ Len(Store(b, data).buffer_) = Len(b.buffer_)
           /\ readableBytes(Store(b, data)) = readableBytes(b) + Len(data)
           /\ Store(b, data).writerIndex_ = b.writerIndex_ + Len(data)
  <1> DEFINE c == Store(b, data)
             mem == copy(b.buffer_, b.writerIndex_, data)
  <1>1. /\ b.buffer_ \in Seq(Byte) /\ b.readerIndex_ \in Nat /\ b.writerIndex_ \in Nat
        /\ kCheapPrepend <= b.readerIndex_ /\ b.readerIndex_ <= b.writerIndex_
        /\ b.writerIndex_ + Len(data) <= Len(b.buffer_)
      BY DEF Ordered, BufferType, writableBytes
  <1>2. /\ mem \in Seq(Byte) /\ Len(mem) = Len(b.buffer_)
        /\ \A i \in 1..Len(b.buffer_) : mem[i] =
              IF i - b.writerIndex_ \in 1..Len(data) THEN data[i - b.writerIndex_] ELSE b.buffer_[i]
      BY <1>1, CopyInPlace
  <1> HIDE DEF mem
  <1>3. c = [buffer_ |-> mem, readerIndex_ |-> b.readerIndex_,
             writerIndex_ |-> b.writerIndex_ + Len(data)]
      BY DEF Store, mem
  <1>4. Ordered(c)
      BY <1>1, <1>2, <1>3, SizeAssumption DEF Ordered, BufferType
  <1>5. /\ readableBytes(c) = readableBytes(b) + Len(data)
        /\ c.writerIndex_ = b.writerIndex_ + Len(data)
        /\ Len(c.buffer_) = Len(b.buffer_)
      BY <1>1, <1>2, <1>3 DEF readableBytes
  <1>6. Readable(c) = Readable(b) \o data
    <2>1. /\ Readable(b) \in Seq(Byte) /\ Len(Readable(b)) = readableBytes(b)
          /\ \A i \in 1..readableBytes(b) : Readable(b)[i] = b.buffer_[b.readerIndex_ + i]
          /\ readableBytes(b) \in Nat
        BY ReadableBytes
    <2>2. /\ Readable(c) \in Seq(Byte) /\ Len(Readable(c)) = readableBytes(c)
          /\ \A i \in 1..readableBytes(c) : Readable(c)[i] = c.buffer_[c.readerIndex_ + i]
        BY <1>4, ReadableBytes
    <2> DEFINE both == Readable(b) \o data
    <2>3. /\ both \in Seq(Byte) /\ Len(both) = readableBytes(b) + Len(data)
          /\ \A i \in 1..(readableBytes(b) + Len(data)) : both[i] =
                IF i <= readableBytes(b) THEN Readable(b)[i] ELSE data[i - readableBytes(b)]
      <3>1. /\ both \in Seq(Byte) /\ Len(both) = Len(Readable(b)) + Len(data)
            /\ \A i \in 1..(Len(Readable(b)) + Len(data)) : both[i] =
                  IF i <= Len(Readable(b)) THEN Readable(b)[i] ELSE data[i - Len(Readable(b))]
          BY <2>1, ConcatProperties
      <3> HIDE DEF both
      <3> QED BY <3>1, <2>1
    <2>4. \A i \in 1..Len(both) : Readable(c)[i] = both[i]
      <3> SUFFICES ASSUME NEW i \in 1..(readableBytes(b) + Len(data))
                   PROVE  Readable(c)[i] = both[i]
          BY <2>3
      <3> DEFINE j == b.readerIndex_ + i
      <3>1. Readable(c)[i] = mem[j]
          BY <2>2, <1>5, <1>3
      <3>2. j \in 1..Len(b.buffer_) /\ j - b.writerIndex_ = i - readableBytes(b)
        <4>1. Len(data) \in Nat /\ Len(b.buffer_) \in Nat
            BY <1>1
        <4>2. readableBytes(b) = b.writerIndex_ - b.readerIndex_
            BY DEF readableBytes
        <4> QED BY <4>1, <4>2, <1>1
      <3>3. CASE i <= readableBytes(b)
        <4>1. i - readableBytes(b) \notin 1..Len(data)
            BY <3>3, <2>1
        <4>2. mem[j] = b.buffer_[j]
          <5> HIDE DEF j
          <5> QED BY <4>1, <3>2, <1>2
        <4> QED BY <4>2, <3>1, <3>3, <2>1, <2>3
      <3>4. CASE i > readableBytes(b)
        <4>1. i - readableBytes(b) \in 1..Len(data)
            BY <3>4, <2>1
        <4>2. mem[j] = data[i - readableBytes(b)]
          <5> HIDE DEF j
          <5> QED BY <4>1, <3>2, <1>2
        <4>3. both[i] = data[i - readableBytes(b)]
          <5> HIDE DEF both
          <5> QED BY <3>4, <2>1, <2>3
        <4> QED BY <4>2, <4>3, <3>1
      <3> QED BY <3>3, <3>4, <2>1
    <2> HIDE DEF both, c
    <2> QED BY <2>2, <2>3, <2>4, <1>5, SeqEqual DEF both
  <1> QED BY <1>4, <1>5, <1>6

\* makeSpace() keeps the readable bytes and makes room, and makes the vector
\* longer only when the bytes and the data need it.
LEMMA MakeSpaceMakesRoom ==
    ASSUME NEW b, Ordered(b), NEW len \in Nat, writableBytes(b) < len
    PROVE  /\ Ordered(makeSpace(b, len))
           /\ Readable(makeSpace(b, len)) = Readable(b)
           /\ readableBytes(makeSpace(b, len)) = readableBytes(b)
           /\ len <= writableBytes(makeSpace(b, len))
           /\ \/ Len(makeSpace(b, len).buffer_) = Len(b.buffer_)
              \/ Len(makeSpace(b, len).buffer_) <= kCheapPrepend + 2 * (readableBytes(b) + len)
  <1> DEFINE c == makeSpace(b, len)
  <1>1. /\ b.buffer_ \in Seq(Byte) /\ b.readerIndex_ \in Nat /\ b.writerIndex_ \in Nat
        /\ kCheapPrepend <= b.readerIndex_ /\ b.readerIndex_ <= b.writerIndex_
        /\ b.writerIndex_ <= Len(b.buffer_) /\ Len(b.buffer_) \in Nat
        /\ kCheapPrepend \in Nat
      BY SizeAssumption DEF Ordered, BufferType
  <1>2. /\ Readable(b) \in Seq(Byte) /\ Len(Readable(b)) = readableBytes(b)
        /\ \A i \in 1..readableBytes(b) : Readable(b)[i] = b.buffer_[b.readerIndex_ + i]
        /\ readableBytes(b) \in Nat
      BY ReadableBytes
  <1>3. Ordered(c) /\ readableBytes(c) = readableBytes(b)
        /\ (\A i \in 1..readableBytes(b) :
                c.buffer_[c.readerIndex_ + i] = b.buffer_[b.readerIndex_ + i])
        => Readable(c) = Readable(b)
    <2> HIDE DEF c
    <2> SUFFICES ASSUME Ordered(c), readableBytes(c) = readableBytes(b),
                        \A i \in 1..readableBytes(b) :
                            c.buffer_[c.readerIndex_ + i] = b.buffer_[b.readerIndex_ + i]
                 PROVE  Readable(c) = Readable(b)
        OBVIOUS
    <2>1. /\ Readable(c) \in Seq(Byte) /\ Len(Readable(c)) = readableBytes(c)
          /\ \A i \in 1..readableBytes(c) : Readable(c)[i] = c.buffer_[c.readerIndex_ + i]
        BY ReadableBytes
    <2> QED BY <2>1, <1>2, SeqEqual
  <1>4. CASE writableBytes(b) + prependableBytes(b) < len + kCheapPrepend
    <2> DEFINE mem == resize(b.buffer_, b.writerIndex_ + len)
    <2>1. Len(b.buffer_) <= b.writerIndex_ + len /\ b.writerIndex_ + len \in Nat
        BY <1>1 DEF writableBytes
    <2>2. /\ mem \in Seq(Byte) /\ Len(mem) = b.writerIndex_ + len
          /\ \A i \in 1..Len(b.buffer_) : mem[i] = b.buffer_[i]
        BY <2>1, <1>1, ResizeKeeps
    <2>3. c = [buffer_ |-> mem, readerIndex_ |-> b.readerIndex_, writerIndex_ |-> b.writerIndex_]
        BY <1>4 DEF makeSpace, Ordered, BufferType
    <2> HIDE DEF mem, c
    <2>4. Ordered(c)
        BY <2>2, <2>3, <1>1 DEF Ordered, BufferType
    <2>5. /\ c.buffer_ = mem /\ c.readerIndex_ = b.readerIndex_
          /\ c.writerIndex_ = b.writerIndex_
        BY <2>3
    <2>6. readableBytes(c) = readableBytes(b) /\ len <= writableBytes(c)
        BY <2>2, <2>5, <1>1 DEF readableBytes, writableBytes
    <2>7. \A i \in 1..readableBytes(b) : b.readerIndex_ + i \in 1..Len(b.buffer_)
        BY <1>1 DEF readableBytes
    <2>8. Readable(c) = Readable(b)
        BY <2>2, <2>4, <2>5, <2>6, <2>7, <1>3
    <2>9. Len(c.buffer_) <= kCheapPrepend + 2 * (readableBytes(b) + len)
      <3>1. Len(c.buffer_) = b.writerIndex_ + len
          BY <2>2, <2>5
      <3>2. Len(b.buffer_) - b.writerIndex_ + b.readerIndex_ < len + kCheapPrepend
          BY <1>4 DEF writableBytes, prependableBytes
      <3>3. b.readerIndex_ < len + kCheapPrepend
          BY <3>2, <1>1
      <3>4. b.writerIndex_ + len <= kCheapPrepend + 2 * ((b.writerIndex_ - b.readerIndex_) + len)
          BY <3>3, <1>1
      <3> QED BY <3>1, <3>4 DEF readableBytes
    <2> QED BY <2>4, <2>6, <2>8, <2>9 DEF c
  <1>5. CASE ~(writableBytes(b) + prependableBytes(b) < len + kCheapPrepend)
    <2> DEFINE mem == copy(b.buffer_, kCheapPrepend, Readable(b))
    <2>1. kCheapPrepend + readableBytes(b) <= Len(b.buffer_)
        BY <1>1 DEF readableBytes
    <2>2. /\ mem \in Seq(Byte) /\ Len(mem) = Len(b.buffer_)
          /\ \A i \in 1..Len(b.buffer_) : mem[i] =
                IF i - kCheapPrepend \in 1..readableBytes(b)
                THEN Readable(b)[i - kCheapPrepend] ELSE b.buffer_[i]
        BY <2>1, <1>1, <1>2, CopyInPlace
    <2>3. c = [buffer_ |-> mem, readerIndex_ |-> kCheapPrepend,
               writerIndex_ |-> kCheapPrepend + readableBytes(b)]
        BY <1>5 DEF makeSpace
    <2> HIDE DEF mem, c
    <2>4. /\ c.buffer_ = mem /\ c.readerIndex_ = kCheapPrepend
          /\ c.writerIndex_ = kCheapPrepend + readableBytes(b)
        BY <2>3
    <2>5. Ordered(c)
        BY <2>1, <2>2, <2>3, <1>1, <1>2 DEF Ordered, BufferType
    <2>6. readableBytes(c) = readableBytes(b)
        BY <2>4, <1>1, <1>2 DEF readableBytes
    <2>7. len <= writableBytes(c)
        BY <2>2, <2>4, <1>1, <1>5 DEF readableBytes, writableBytes, prependableBytes
    <2>8. ASSUME NEW i \in 1..readableBytes(b)
          PROVE  c.buffer_[c.readerIndex_ + i] = b.buffer_[b.readerIndex_ + i]
      <3> DEFINE j == kCheapPrepend + i
      <3>1. j \in 1..Len(b.buffer_) /\ j - kCheapPrepend = i
          BY <2>1, <1>1, <1>2
      <3> HIDE DEF j
      <3>2. mem[j] = Readable(b)[i]
          BY <3>1, <2>2
      <3> QED BY <3>2, <2>4, <1>2 DEF j
    <2>9. Readable(c) = Readable(b)
        BY <2>5, <2>6, <2>8, <1>3
    <2> QED BY <2>2, <2>4, <2>5, <2>6, <2>7, <2>9 DEF c
  <1> QED BY <1>4, <1>5

\* What append() does, whether or not it has to make space.
LEMMA AppendAppends ==
    ASSUME NEW b, Ordered(b), NEW data \in Seq(Byte)
    PROVE  /\ Ordered(append(b, data))
           /\ Readable(append(b, data)) = Readable(b) \o data
           /\ readableBytes(append(b, data)) = readableBytes(b) + Len(data)
           /\ \/ Len(append(b, data).buffer_) = Len(b.buffer_)
              \/ Len(append(b, data).buffer_) <=
                    kCheapPrepend + 2 * (readableBytes(b) + Len(data))
  <1> DEFINE e == ensureWritableBytes(b, Len(data))
  <1>1. /\ Ordered(e) /\ Readable(e) = Readable(b) /\ readableBytes(e) = readableBytes(b)
        /\ Len(data) <= writableBytes(e)
        /\ \/ Len(e.buffer_) = Len(b.buffer_)
           \/ Len(e.buffer_) <= kCheapPrepend + 2 * (readableBytes(b) + Len(data))
    <2>1. Len(data) \in Nat
        OBVIOUS
    <2>2. CASE writableBytes(b) < Len(data)
      <3>1. e = makeSpace(b, Len(data))
          BY <2>2 DEF ensureWritableBytes
      <3> HIDE DEF e
      <3> QED BY <3>1, <2>1, <2>2, MakeSpaceMakesRoom
    <2>3. CASE ~(writableBytes(b) < Len(data))
      <3>1. e = b
          BY <2>3 DEF ensureWritableBytes
      <3>2. writableBytes(b) \in Int
          BY DEF writableBytes, Ordered, BufferType
      <3>3. Len(data) <= writableBytes(b)
          BY <2>1, <2>3, <3>2
      <3> HIDE DEF e
      <3> QED BY <3>1, <3>3
    <2> QED BY <2>2, <2>3
  <1>2. append(b, data) = Store(e, data)
      BY DEF append
  <1> HIDE DEF e
  <1>3. /\ Ordered(Store(e, data)) /\ Readable(Store(e, data)) = Readable(e) \o data
        /\ Len(Store(e, data).buffer_) = Len(e.buffer_)
        /\ readableBytes(Store(e, data)) = readableBytes(e) + Len(data)
      BY <1>1, StoreAppends
  <1> QED BY <1>1, <1>2, <1>3

\* What readFd() does: the two iovecs together are one append.
LEMMA ReadFdAppends ==
    ASSUME NEW b, Ordered(b), NEW data \in Seq(Byte)
    PROVE  /\ Ordered(readFd(b, data))
           /\ Readable(readFd(b, data)) = Readable(b) \o data
           /\ readableBytes(readFd(b, data)) = readableBytes(b) + Len(data)
           /\ \/ Len(readFd(b, data).buffer_) = Len(b.buffer_)
              \/ Len(readFd(b, data).buffer_) <=
                    kCheapPrepend + 2 * (readableBytes(b) + Len(data))
  <1>1. writableBytes(b) \in Nat /\ Len(data) \in Nat
    <2>1. /\ b.buffer_ \in Seq(Byte) /\ b.writerIndex_ \in Nat /\ b.writerIndex_ <= Len(b.buffer_)
        BY DEF Ordered, BufferType
    <2>2. Len(b.buffer_) \in Nat /\ Len(data) \in Nat
        BY <2>1
    <2> QED BY <2>1, <2>2 DEF writableBytes
  <1>2. CASE Len(data) <= writableBytes(b)
    <2>1. readFd(b, data) = Store(b, data)
        BY <1>2 DEF readFd
    <2> QED BY <2>1, <1>2, StoreAppends
  <1>3. CASE ~(Len(data) <= writableBytes(b))
    <2> DEFINE w == writableBytes(b)
               d1 == SubSeq(data, 1, w)
               d2 == SubSeq(data, w + 1, Len(data))
               c == Store(b, d1)
    <2>1. w \in Nat /\ w < Len(data)
        BY <1>1, <1>3
    <2>2. readFd(b, data) = append(c, d2)
        BY <1>3 DEF readFd
    <2> HIDE DEF w
    <2>3. d1 \in Seq(Byte) /\ Len(d1) = w
      <3>1. \A i \in 1..w : data[i] \in Byte
          BY <1>1, <2>1
      <3>2. 1 \in Int /\ w \in Int
          BY <2>1
      <3>3. d1 \in Seq(Byte) /\ Len(d1) = IF 1 <= w THEN w - 1 + 1 ELSE 0
          BY <3>1, <3>2, SubSeqProperties
      <3> HIDE DEF d1
      <3> QED BY <3>3, <2>1
    <2>4. d2 \in Seq(Byte) /\ Len(d2) = Len(data) - w
      <3>1. \A i \in (w + 1)..Len(data) : data[i] \in Byte
          BY <1>1, <2>1
      <3>2. w + 1 \in Int /\ Len(data) \in Int
          BY <1>1, <2>1
      <3>3. /\ d2 \in Seq(Byte)
            /\ Len(d2) = IF w + 1 <= Len(data) THEN Len(data) - (w + 1) + 1 ELSE 0
          BY <3>1, <3>2, SubSeqProperties
      <3> HIDE DEF d2
      <3> QED BY <3>3, <2>1, <1>1
    <2>5. d1 \o d2 = data
      <3>1. 1 \in 1..(Len(data) + 1) /\ w \in (1 - 1)..Len(data) /\ Len(data) \in w..Len(data)
          BY <1>1, <2>1
      <3>2. SubSeq(data, 1, w) \o SubSeq(data, w + 1, Len(data)) = SubSeq(data, 1, Len(data))
          BY <3>1, ConcatAdjacentSubSeq
      <3> QED BY <3>2, SubSeqFull
    <2> HIDE DEF d1, d2
    <2>6. /\ Ordered(c) /\ Readable(c) = Readable(b) \o d1
          /\ Len(c.buffer_) = Len(b.buffer_) /\ readableBytes(c) = readableBytes(b) + w
        BY <2>1, <2>3, StoreAppends DEF w
    <2> HIDE DEF c
    <2>7. /\ Ordered(append(c, d2)) /\ Readable(append(c, d2)) = Readable(c) \o d2
          /\ readableBytes(append(c, d2)) = readableBytes(c) + Len(d2)
          /\ \/ Len(append(c, d2).buffer_) = Len(c.buffer_)
             \/ Len(append(c, d2).buffer_) <= kCheapPrepend + 2 * (readableBytes(c) + Len(d2))
        BY <2>4, <2>6, AppendAppends
    <2>8. Readable(b) \in Seq(Byte) /\ readableBytes(b) \in Nat
        BY ReadableBytes
    <2>9. (Readable(b) \o d1) \o d2 = Readable(b) \o data
      <3>1. \A s, t, u \in Seq(Byte) : (s \o t) \o u = s \o (t \o u)
          OBVIOUS
      <3>2. (Readable(b) \o d1) \o d2 = Readable(b) \o (d1 \o d2)
          BY <2>3, <2>4, <2>8, <3>1, Zenon
      <3> QED BY <3>2, <2>5
    <2>10. readableBytes(c) + Len(d2) = readableBytes(b) + Len(data)
        BY <2>1, <2>4, <2>6, <2>8, <1>1
    <2> QED BY <2>2, <2>6, <2>7, <2>9, <2>10
  <1> QED BY <1>2, <1>3

\* retrieve() leaves what is behind the first n readable bytes.
LEMMA RetrieveDrops ==
    ASSUME NEW b, Ordered(b), NEW len \in Nat, NEW n \in Nat,
           n = IF len < readableBytes(b) THEN len ELSE readableBytes(b)
    PROVE  /\ Ordered(retrieve(b, len))
           /\ Readable(retrieve(b, len)) = SubSeq(Readable(b), n + 1, Len(Readable(b)))
           /\ Len(retrieve(b, len).buffer_) = Len(b.buffer_)
  <1> DEFINE c == retrieve(b, len)
             rest == SubSeq(Readable(b), n + 1, Len(Readable(b)))
  <1>1. /\ b.buffer_ \in Seq(Byte) /\ b.readerIndex_ \in Nat /\ b.writerIndex_ \in Nat
        /\ kCheapPrepend <= b.readerIndex_ /\ b.readerIndex_ <= b.writerIndex_
        /\ b.writerIndex_ <= Len(b.buffer_) /\ Len(b.buffer_) \in Nat
        /\ kCheapPrepend \in Nat
      BY SizeAssumption DEF Ordered, BufferType
  <1>2. /\ Readable(b) \in Seq(Byte) /\ Len(Readable(b)) = readableBytes(b)
        /\ \A i \in 1..readableBytes(b) : Readable(b)[i] = b.buffer_[b.readerIndex_ + i]
        /\ readableBytes(b) \in Nat
      BY ReadableBytes
  <1>3. n <= readableBytes(b)
      BY <1>2
  <1>4. /\ rest \in Seq(Byte) /\ Len(rest) = readableBytes(b) - n
        /\ \A i \in 1..(readableBytes(b) - n) : rest[i] = Readable(b)[n + i]
    <2>1. \A i \in (n + 1)..Len(Readable(b)) : Readable(b)[i] \in Byte
        BY <1>2
    <2>2. n + 1 \in Int /\ Len(Readable(b)) \in Int
        BY <1>2
    <2>3. /\ rest \in Seq(Byte)
          /\ Len(rest) = IF n + 1 <= Len(Readable(b)) THEN Len(Readable(b)) - (n + 1) + 1 ELSE 0
          /\ \A i \in 1..(Len(Readable(b)) - (n + 1) + 1) : rest[i] = Readable(b)[n + 1 + i - 1]
        BY <2>1, <2>2, SubSeqProperties
    <2> HIDE DEF rest
    <2>4. Len(rest) = readableBytes(b) - n
        BY <2>3, <1>2, <1>3
    <2>5. Len(Readable(b)) - (n + 1) + 1 = readableBytes(b) - n
        BY <1>2
    <2>6. \A i \in 1..(readableBytes(b) - n) : n + 1 + i - 1 = n + i
        BY <1>2
    <2> QED BY <2>3, <2>4, <2>5, <2>6
  <1>5. /\ Ordered(c) /\ c.buffer_ = b.buffer_ /\ readableBytes(c) = readableBytes(b) - n
        /\ n < readableBytes(b) => c.readerIndex_ = b.readerIndex_ + n
    <2>1. CASE len < readableBytes(b)
      <3>1. c = [buffer_ |-> b.buffer_, readerIndex_ |-> b.readerIndex_ + len,
                 writerIndex_ |-> b.writerIndex_]
          BY <2>1 DEF retrieve, Ordered, BufferType
      <3> HIDE DEF c
      <3>2. /\ c.buffer_ = b.buffer_ /\ c.readerIndex_ = b.readerIndex_ + len
            /\ c.writerIndex_ = b.writerIndex_
          BY <3>1
      <3>3. b.readerIndex_ + len <= b.writerIndex_ /\ n = len
          BY <2>1, <1>1 DEF readableBytes
      <3>4. Ordered(c)
          BY <3>1, <3>3, <1>1 DEF Ordered, BufferType
      <3>5. readableBytes(c) = readableBytes(b) - n
          BY <3>2, <3>3, <1>1 DEF readableBytes
      <3> QED BY <3>2, <3>3, <3>4, <3>5
    <2>2. CASE ~(len < readableBytes(b))
      <3>1. c = [buffer_ |-> b.buffer_, readerIndex_ |-> kCheapPrepend,
                 writerIndex_ |-> kCheapPrepend]
          BY <2>2 DEF retrieve, retrieveAll
      <3> HIDE DEF c
      <3>2. c.buffer_ = b.buffer_ /\ c.readerIndex_ = kCheapPrepend /\ c.writerIndex_ = kCheapPrepend
          BY <3>1
      <3>3. Ordered(c)
          BY <3>1, <1>1 DEF Ordered, BufferType
      <3>4. n = readableBytes(b) /\ readableBytes(c) = 0
          BY <2>2, <3>2, <1>1 DEF readableBytes
      <3> QED BY <3>2, <3>3, <3>4, <1>2
    <2> QED BY <2>1, <2>2
  <1> HIDE DEF c, rest
  <1>6. /\ Readable(c) \in Seq(Byte) /\ Len(Readable(c)) = readableBytes(c)
        /\ \A i \in 1..readableBytes(c) : Readable(c)[i] = c.buffer_[c.readerIndex_ + i]
      BY <1>5, ReadableBytes
  <1>7. ASSUME NEW i \in 1..Len(rest) PROVE Readable(c)[i] = rest[i]
    <2>1. i \in 1..(readableBytes(b) - n) /\ n + i \in 1..readableBytes(b) /\ n < readableBytes(b)
        BY <1>2, <1>3, <1>4
    <2>2. rest[i] = b.buffer_[b.readerIndex_ + (n + i)]
        BY <2>1, <1>2, <1>4
    <2>3. Readable(c)[i] = b.buffer_[b.readerIndex_ + n + i]
        BY <2>1, <1>5, <1>6
    <2>4. b.readerIndex_ + (n + i) = b.readerIndex_ + n + i
        BY <1>1
    <2> QED BY <2>2, <2>3, <2>4
  <1>8. Readable(c) = rest
      BY <1>4, <1>5, <1>6, <1>7, SeqEqual
  <1> QED BY <1>5, <1>8 DEF c, rest

-----------------------------------------------------------------------------

\* The inductive invariant: the two properties and the type of peak.
Inv == Ordered(buf) /\ peak \in Nat /\ MemoryBounded

\* A step that leaves the object as b, with a vector that is no longer than
\* before or than the bytes in it call for, keeps the invariant.
LEMMA DoesKeepsInv ==
    ASSUME Inv, NEW b, Ordered(b), NEW kind, NEW data, Does(kind, b, data),
           \/ Len(b.buffer_) = Len(buf.buffer_)
           \/ Len(b.buffer_) <= kCheapPrepend + 2 * readableBytes(b)
    PROVE  Inv'
  <1>1. buf' = b /\ peak' = IF readableBytes(b) > peak THEN readableBytes(b) ELSE peak
      BY DEF Does
  <1>2. readableBytes(b) \in Nat
      BY ReadableBytes
  <1>3. peak \in Nat /\ MemoryBounded
      BY DEF Inv
  <1>4. peak' \in Nat /\ peak <= peak' /\ readableBytes(b) <= peak'
      BY <1>1, <1>2, <1>3
  <1>5. Len(b.buffer_) \in Nat /\ Len(buf.buffer_) \in Nat
      BY DEF Inv, Ordered, BufferType
  <1>6. MemoryBounded'
    <2>1. \/ Len(b.buffer_) <= kCheapPrepend + kInitialSize
          \/ Len(b.buffer_) <= kCheapPrepend + 2 * peak'
      <3>1. \/ Len(buf.buffer_) <= kCheapPrepend + kInitialSize
            \/ Len(buf.buffer_) <= kCheapPrepend + 2 * peak
          BY <1>3 DEF MemoryBounded
      <3> QED BY <3>1, <1>2, <1>3, <1>4, <1>5, SizeAssumption
    <2> QED BY <2>1, <1>1 DEF MemoryBounded
  <1>7. Ordered(buf)'
      BY <1>1 DEF Ordered
  <1> QED BY <1>4, <1>6, <1>7 DEF Inv

\* The front of the readable bytes, as ByteStream speaks of it.
LEMMA FrontOfReadable ==
    ASSUME NEW b, Ordered(b), NEW n \in Nat, n <= readableBytes(b)
    PROVE  /\ SubSeq(Readable(b), 1, n) \in Seq(Byte)
           /\ Len(SubSeq(Readable(b), 1, n)) = n
           /\ \A i \in 1..n : SubSeq(Readable(b), 1, n)[i] = Readable(b)[i]
           /\ n <= Len(Readable(b))
  <1> DEFINE front == SubSeq(Readable(b), 1, n)
  <1>1. /\ Readable(b) \in Seq(Byte) /\ Len(Readable(b)) = readableBytes(b)
        /\ readableBytes(b) \in Nat
      BY ReadableBytes
  <1>2. \A i \in 1..n : Readable(b)[i] \in Byte
      BY <1>1
  <1>3. 1 \in Int /\ n \in Int
      OBVIOUS
  <1>4. /\ front \in Seq(Byte) /\ Len(front) = IF 1 <= n THEN n - 1 + 1 ELSE 0
        /\ \A i \in 1..(n - 1 + 1) : front[i] = Readable(b)[1 + i - 1]
      BY <1>2, <1>3, SubSeqProperties
  <1> HIDE DEF front
  <1>5. n - 1 + 1 = n /\ \A i \in 1..n : 1 + i - 1 = i
      OBVIOUS
  <1>6. Len(front) = n
      BY <1>4
  <1> QED BY <1>1, <1>4, <1>5, <1>6 DEF front

\* Every call keeps the invariant and is a step of ByteStream.
LEMMA StepCorrect ==
    ASSUME Inv, Next
    PROVE  Inv' /\ BS!Next
  <1>1. Ordered(buf)
      BY DEF Inv
  <1>2. /\ Readable(buf) \in Seq(Byte) /\ Len(Readable(buf)) = readableBytes(buf)
        /\ readableBytes(buf) \in Nat
      BY <1>1, ReadableBytes
  <1>3. \A data \in Data : data \in Seq(Byte)
    <2> SUFFICES ASSUME NEW n \in 0..MaxData, NEW data \in [1..n -> Byte]
                 PROVE  data \in Seq(Byte)
        BY DEF Data
    <2> QED BY SizeAssumption
  <1>4. ASSUME NEW data \in Data, AppendData(data)
        PROVE  Inv' /\ BS!Next
    <2> DEFINE b == append(buf, data)
    <2>1. data \in Seq(Byte)
        BY <1>3
    <2>2. Does("put", b, data)
        BY <1>4 DEF AppendData
    <2>3. /\ Ordered(b) /\ Readable(b) = Readable(buf) \o data
          /\ readableBytes(b) = readableBytes(buf) + Len(data)
          /\ \/ Len(b.buffer_) = Len(buf.buffer_)
             \/ Len(b.buffer_) <= kCheapPrepend + 2 * (readableBytes(buf) + Len(data))
        BY <1>1, <2>1, AppendAppends
    <2> HIDE DEF b
    <2>4. Inv'
        BY <2>2, <2>3, DoesKeepsInv
    <2>5. buf' = b /\ io' = <<"put", data>>
        BY <2>2 DEF Does
    <2>6. Readable(buf)' = Readable(buf) \o data
        BY <2>3, <2>5 DEF Readable
    <2> QED BY <2>1, <2>4, <2>5, <2>6 DEF BS!Next, BS!Put
  <1>5. ASSUME NEW data \in Data, ReadFd(data)
        PROVE  Inv' /\ BS!Next
    <2> DEFINE b == readFd(buf, data)
    <2>1. data \in Seq(Byte)
        BY <1>3
    <2>2. Does("put", b, data)
        BY <1>5 DEF ReadFd
    <2>3. /\ Ordered(b) /\ Readable(b) = Readable(buf) \o data
          /\ readableBytes(b) = readableBytes(buf) + Len(data)
          /\ \/ Len(b.buffer_) = Len(buf.buffer_)
             \/ Len(b.buffer_) <= kCheapPrepend + 2 * (readableBytes(buf) + Len(data))
        BY <1>1, <2>1, ReadFdAppends
    <2> HIDE DEF b
    <2>4. Inv'
        BY <2>2, <2>3, DoesKeepsInv
    <2>5. buf' = b /\ io' = <<"put", data>>
        BY <2>2 DEF Does
    <2>6. Readable(buf)' = Readable(buf) \o data
        BY <2>3, <2>5 DEF Readable
    <2> QED BY <2>1, <2>4, <2>5, <2>6 DEF BS!Next, BS!Put
  <1>6. ASSUME NEW n \in 0..MaxReadable, WriteFd(n)
        PROVE  Inv' /\ BS!Next
    <2> DEFINE data == SubSeq(Readable(buf), 1, n)
    <2>1. n \in Nat /\ n <= readableBytes(buf)
        BY <1>6, SizeAssumption DEF WriteFd
    <2>2. /\ data \in Seq(Byte) /\ Len(data) = n /\ n <= Len(Readable(buf))
        BY <1>1, <2>1, FrontOfReadable
    <2>3. Does("look", buf, data)
        BY <1>6 DEF WriteFd
    <2>4. data = SubSeq(Readable(buf), 1, Len(data))
        BY <2>2
    <2> HIDE DEF data
    <2>5. Inv'
        BY <1>1, <2>3, DoesKeepsInv
    <2>6. buf' = buf /\ io' = <<"look", data>>
        BY <2>3 DEF Does
    <2>7. Readable(buf)' = Readable(buf)
        BY <2>6 DEF Readable
    <2> QED BY <2>2, <2>4, <2>5, <2>6, <2>7 DEF BS!Next, BS!Look, BS!IsFront
  <1>7. ASSUME NEW len \in Nat, NEW n \in Nat,
               n = IF len < readableBytes(buf) THEN len ELSE readableBytes(buf),
               NEW kind \in {"take", "line"},
               Does(kind, retrieve(buf, len), SubSeq(Readable(buf), 1, n)),
               kind = "line" => BS!IsLine(SubSeq(Readable(buf), 1, n))
        PROVE  Inv' /\ BS!Next
    <2> DEFINE data == SubSeq(Readable(buf), 1, n)
               b == retrieve(buf, len)
    <2>1. n <= readableBytes(buf)
        BY <1>2, <1>7
    <2>2. /\ data \in Seq(Byte) /\ Len(data) = n /\ n <= Len(Readable(buf))
        BY <1>1, <2>1, FrontOfReadable
    <2>3. /\ Ordered(b) /\ Len(b.buffer_) = Len(buf.buffer_)
          /\ Readable(b) = SubSeq(Readable(buf), n + 1, Len(Readable(buf)))
        BY <1>1, <1>7, RetrieveDrops
    <2>4. Does(kind, b, data)
        BY <1>7
    <2>5. data = SubSeq(Readable(buf), 1, Len(data))
        BY <2>2
    <2>6. kind = "line" => BS!IsLine(data)
        BY <1>7
    <2> HIDE DEF data, b
    <2>7. Inv'
        BY <2>3, <2>4, DoesKeepsInv
    <2>8. buf' = b /\ io' = <<kind, data>>
        BY <2>4 DEF Does
    <2>9. Readable(buf)' = SubSeq(Readable(buf), Len(data) + 1, Len(Readable(buf)))
        BY <2>2, <2>3, <2>8 DEF Readable
    <2>10. BS!Take(data)
        BY <2>2, <2>5, <2>9 DEF BS!Take, BS!IsFront
    <2>11. io'[2] = data
        BY <2>8
    <2> QED BY <2>2, <2>6, <2>7, <2>8, <2>10, <2>11 DEF BS!Next
  <1>8. ASSUME NEW len \in 0..(MaxReadable + 1), Retrieve(len)
        PROVE  Inv' /\ BS!Next
    <2> DEFINE n == IF len < readableBytes(buf) THEN len ELSE readableBytes(buf)
    <2>1. len \in Nat /\ n \in Nat
        BY <1>2, SizeAssumption
    <2>2. Does("take", retrieve(buf, len), SubSeq(Readable(buf), 1, n))
        BY <1>8 DEF Retrieve
    <2> QED BY <2>1, <2>2, <1>7
  <1>9. ASSUME NEW crlf \in 0..MaxReadable, RetrieveLine(crlf)
        PROVE  Inv' /\ BS!Next
    <2> DEFINE n == crlf + 2
               data == SubSeq(Readable(buf), 1, n)
    <2>1. /\ crlf \in findCRLF(buf) /\ \A i \in findCRLF(buf) : crlf <= i
          /\ Does("line", retrieve(buf, n), data)
        BY <1>9 DEF RetrieveLine
    <2>2. crlf \in 0..(readableBytes(buf) - 2)
        BY <2>1 DEF findCRLF
    <2>3. n \in Nat /\ n <= readableBytes(buf)
        BY <2>2, <1>2
    <2>4. n = IF n < readableBytes(buf) THEN n ELSE readableBytes(buf)
        BY <2>3, <1>2
    <2>5. /\ data \in Seq(Byte) /\ Len(data) = n
          /\ \A i \in 1..n : data[i] = Readable(buf)[i]
        BY <2>3, <1>1, FrontOfReadable
    <2>6. \A i \in 1..n : data[i] = buf.buffer_[buf.readerIndex_ + i]
      <3>1. \A i \in 1..readableBytes(buf) :
                Readable(buf)[i] = buf.buffer_[buf.readerIndex_ + i]
          BY <1>1, ReadableBytes
      <3>2. \A i \in 1..n : i \in 1..readableBytes(buf)
          BY <2>3, <1>2
      <3> HIDE DEF data, n
      <3> QED BY <3>1, <3>2, <2>5
    <2> HIDE DEF data
    <2>7. buf.readerIndex_ \in Nat
        BY <1>1 DEF Ordered, BufferType
    <2>8. \A i \in 0..crlf : i \in findCRLF(buf) <=> BS!CRLFAt(data, i + 1)
      <3> SUFFICES ASSUME NEW i \in 0..crlf
                   PROVE  i \in findCRLF(buf) <=> BS!CRLFAt(data, i + 1)
          OBVIOUS
      <3>1. i \in 0..(readableBytes(buf) - 2) /\ i + 1 \in 1..n /\ i + 2 \in 1..n
          BY <2>2, <1>2
      <3>2. /\ data[i + 1] = buf.buffer_[buf.readerIndex_ + (i + 1)]
            /\ data[i + 2] = buf.buffer_[buf.readerIndex_ + (i + 2)]
          BY <3>1, <2>6
      <3>3. /\ buf.readerIndex_ + (i + 1) = buf.readerIndex_ + i + 1
            /\ buf.readerIndex_ + (i + 2) = buf.readerIndex_ + i + 2
            /\ i + 1 + 1 = i + 2
          BY <2>7
      <3> QED BY <3>1, <3>2, <3>3 DEF findCRLF, BS!CRLFAt
    <2>9. BS!IsLine(data)
      <3>1. BS!CRLFAt(data, Len(data) - 1)
        <4>1. Len(data) - 1 = crlf + 1 /\ crlf \in 0..crlf
            BY <2>5
        <4> QED BY <4>1, <2>1, <2>8
      <3>2. ASSUME NEW i \in 1..(Len(data) - 2) PROVE ~BS!CRLFAt(data, i)
        <4>1. i - 1 \in 0..crlf /\ i - 1 < crlf /\ (i - 1) + 1 = i
            BY <2>5
        <4>2. i - 1 \notin findCRLF(buf)
            BY <4>1, <2>1
        <4> QED BY <4>1, <4>2, <2>8
      <3>3. Len(data) >= 2
          BY <2>5
      <3> QED BY <3>1, <3>2, <3>3 DEF BS!IsLine
    <2> QED BY <2>1, <2>3, <2>4, <2>9, <1>7 DEF data
  <1> QED BY <1>4, <1>5, <1>6, <1>8, <1>9 DEF Next

\* The new object satisfies the invariant and is an empty stream.
LEMMA InitCorrect == Init => Inv /\ BS!Init
  <1> SUFFICES ASSUME Init PROVE Inv /\ BS!Init
      OBVIOUS
  <1> DEFINE mem == [i \in 1..(kCheapPrepend + kInitialSize) |-> Zero]
  <1>1. mem \in Seq(Byte) /\ Len(mem) = kCheapPrepend + kInitialSize
    <2>1. kCheapPrepend + kInitialSize \in Nat
        BY SizeAssumption
    <2>2. mem \in [1..(kCheapPrepend + kInitialSize) -> Byte]
        BY ByteAssumption
    <2> HIDE DEF mem
    <2> QED BY <2>1, <2>2
  <1>2. buf = [buffer_ |-> mem, readerIndex_ |-> kCheapPrepend, writerIndex_ |-> kCheapPrepend]
      BY DEF Init
  <1> HIDE DEF mem
  <1>3. /\ buf.buffer_ = mem /\ buf.readerIndex_ = kCheapPrepend /\ buf.writerIndex_ = kCheapPrepend
      BY <1>2
  <1>4. Ordered(buf)
      BY <1>1, <1>2, <1>3, SizeAssumption DEF Ordered, BufferType
  <1>5. Inv
      BY <1>1, <1>3, <1>4, SizeAssumption DEF Inv, Init, MemoryBounded
  <1>6. Readable(buf) = << >>
      BY <1>3, SubSeqEmpty, SizeAssumption DEF Readable
  <1> QED BY <1>5, <1>6 DEF Init, BS!Init

(***************************************************************************)
(* The invariant holds for every size of the constants: the base of the    *)
(* three theorems.                                                         *)
(***************************************************************************)
LEMMA InvHolds == Spec => []Inv
  <1>1. Inv /\ UNCHANGED vars => Inv'
      BY DEF Inv, vars, Ordered, MemoryBounded
  <1> QED BY <1>1, InitCorrect, StepCorrect, PTL DEF Spec

(***************************************************************************)
(* Buffer.h:35-124: the indices of a Buffer stay in order, so that no      *)
(* size_t difference wraps and no copy leaves the vector.                  *)
(***************************************************************************)
THEOREM IndicesAlwaysInOrder == Spec => []IndicesInOrder
  <1>1. Inv => IndicesInOrder
      BY DEF Inv, Ordered, IndicesInOrder
  <1> QED BY <1>1, InvHolds, PTL

(***************************************************************************)
(* Buffer.h:111: the vector of a Buffer is never longer than its initial   *)
(* size or twice the most bytes that ever waited in it.                    *)
(***************************************************************************)
THEOREM MemoryAlwaysBounded == Spec => []MemoryBounded
  <1>1. Inv => MemoryBounded
      BY DEF Inv
  <1> QED BY <1>1, InvHolds, PTL

(***************************************************************************)
(* A Buffer implements a queue of bytes: makeSpace() and the two iovecs of *)
(* readFd() lose, double and reorder nothing, and a line is cut at the     *)
(* first CRLF received.                                                    *)
(***************************************************************************)
THEOREM BufferIsByteStream == Spec => IsByteStream
  <1>1. Init => BS!Init
      BY InitCorrect
  <1>2. Inv /\ [Next]_vars => [BS!Next]_BS!vars
    <2>1. ASSUME UNCHANGED vars PROVE UNCHANGED BS!vars
        BY <2>1 DEF vars, BS!vars, Readable
    <2> QED BY <2>1, StepCorrect
  <1> QED BY <1>1, <1>2, InvHolds, PTL DEF Spec, IsByteStream, BS!Spec

=============================================================================

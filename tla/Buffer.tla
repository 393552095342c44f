------------------------------- MODULE Buffer -------------------------------
(***************************************************************************)
(* Buffer of mymuduo/net: a vector of bytes with a reader and a writer     *)
(* index, through which every byte a connection receives or sends goes.    *)
(*                                                                         *)
(* Indices count from 0 as in the code; byte i of the vector is            *)
(* buffer_[i + 1].  A buffer belongs to the thread of one loop, so a step  *)
(* is one call.                                                            *)
(***************************************************************************)
EXTENDS Naturals, Sequences

CONSTANTS
    Byte,           \* the values of a byte, of which ...
    CR, LF, Zero,   \* ... '\r', '\n' and the 0 that resize() fills with
    kCheapPrepend,
    kInitialSize,
    ExtraBufSize,   \* sizeof extrabuf, 65536
    MaxData,        \* bound: bytes in one append() or readv()
    MaxReadable     \* bound: bytes waiting in the buffer

ASSUME ByteAssumption == {CR, LF, Zero} \subseteq Byte
ASSUME SizeAssumption ==
    /\ kCheapPrepend \in Nat
    /\ kInitialSize \in Nat
    /\ ExtraBufSize \in Nat
    /\ MaxData \in Nat
    /\ MaxReadable \in Nat

VARIABLES
    buf,    \* the object: buffer_, readerIndex_ and writerIndex_
    io,     \* the last call, as in ByteStream
    peak    \* the most bytes that have waited in the buffer

vars == <<buf, io, peak>>

BufferType == [buffer_ : Seq(Byte), readerIndex_ : Nat, writerIndex_ : Nat]

readableBytes(b) == b.writerIndex_ - b.readerIndex_
writableBytes(b) == Len(b.buffer_) - b.writerIndex_
prependableBytes(b) == b.readerIndex_

\* The readable bytes, from peek() to beginWrite().
Readable(b) == SubSeq(b.buffer_, b.readerIndex_ + 1, b.writerIndex_)

Init ==
    /\ buf = [buffer_ |-> [i \in 1..(kCheapPrepend + kInitialSize) |-> Zero],
              readerIndex_ |-> kCheapPrepend, writerIndex_ |-> kCheapPrepend]
    /\ io = <<"new", << >>>>
    /\ peak = 0

-----------------------------------------------------------------------------
(* Writing.                                                                *)

\* std::copy of data to begin() + at.
copy(mem, at, data) ==
    [i \in 1..Len(mem) |-> IF i - at \in 1..Len(data) THEN data[i - at] ELSE mem[i]]

resize(mem, n) == [i \in 1..n |-> IF i <= Len(mem) THEN mem[i] ELSE Zero]

\* Mutant: the vector is made longer even if the space in front would do.
makeSpaceAlwaysGrows(b, len) == [b EXCEPT !.buffer_ = resize(@, b.writerIndex_ + len)]

\* Mutant: the reserved bytes in front are taken for free space.
makeSpaceForgetsPrepend(b, len) ==
    IF writableBytes(b) + prependableBytes(b) < len
    THEN [b EXCEPT !.buffer_ = resize(@, b.writerIndex_ + len)]
    ELSE [buffer_ |-> copy(b.buffer_, kCheapPrepend, Readable(b)),
          readerIndex_ |-> kCheapPrepend,
          writerIndex_ |-> kCheapPrepend + readableBytes(b)]

makeSpace(b, len) ==
    IF writableBytes(b) + prependableBytes(b) < len + kCheapPrepend
    THEN [b EXCEPT !.buffer_ = resize(@, b.writerIndex_ + len)]
    ELSE [buffer_ |-> copy(b.buffer_, kCheapPrepend, Readable(b)),
          readerIndex_ |-> kCheapPrepend,
          writerIndex_ |-> kCheapPrepend + readableBytes(b)]

ensureWritableBytes(b, len) == IF writableBytes(b) < len THEN makeSpace(b, len) ELSE b

\* Copies data behind the readable bytes, where there is room for it.
Store(b, data) ==
    [buffer_ |-> copy(b.buffer_, b.writerIndex_, data),
     readerIndex_ |-> b.readerIndex_,
     writerIndex_ |-> b.writerIndex_ + Len(data)]

append(b, data) == Store(ensureWritableBytes(b, Len(data)), data)

\* How many bytes readv() may return: one iovec or two.
readvMax(b) ==
    IF writableBytes(b) < ExtraBufSize THEN writableBytes(b) + ExtraBufSize ELSE writableBytes(b)

\* Mutant: the bytes in extrabuf are not appended.
readFdLosesExtra(b, data) ==
    Store(b, SubSeq(data, 1, IF Len(data) <= writableBytes(b) THEN Len(data) ELSE writableBytes(b)))

\* readFd() when readv() returned data: what does not fit is in extrabuf.
readFd(b, data) ==
    IF Len(data) <= writableBytes(b)
    THEN Store(b, data)
    ELSE append(Store(b, SubSeq(data, 1, writableBytes(b))),
                SubSeq(data, writableBytes(b) + 1, Len(data)))

-----------------------------------------------------------------------------
(* Reading.                                                                *)

retrieveAll(b) ==
    [buffer_ |-> b.buffer_, readerIndex_ |-> kCheapPrepend, writerIndex_ |-> kCheapPrepend]

retrieve(b, len) ==
    IF len < readableBytes(b) THEN [b EXCEPT !.readerIndex_ = @ + len] ELSE retrieveAll(b)

\* Where a CRLF is, counted from peek(); findCRLF() returns the least, NULL
\* if there is none.
findCRLF(b) ==
    {i \in 0..(readableBytes(b) - 2) :
        b.buffer_[b.readerIndex_ + i + 1] = CR /\ b.buffer_[b.readerIndex_ + i + 2] = LF}

-----------------------------------------------------------------------------
(* The calls.                                                              *)

\* data of at most MaxData bytes.
Data == UNION {[1..n -> Byte] : n \in 0..MaxData}

\* The call of a kind has left the object as b and moved these bytes.
Does(kind, b, data) ==
    /\ buf' = b
    /\ io' = <<kind, data>>
    /\ peak' = IF readableBytes(b) > peak THEN readableBytes(b) ELSE peak

AppendData(data) ==
    /\ readableBytes(buf) + Len(data) <= MaxReadable
    /\ Does("put", append(buf, data), data)

\* readv() returned n >= 0; a failed one changes nothing.
ReadFd(data) ==
    /\ Len(data) <= readvMax(buf)
    /\ readableBytes(buf) + Len(data) <= MaxReadable
    /\ Does("put", readFd(buf, data), data)

\* write() takes n of the readable bytes, which stay until retrieve(n).
WriteFd(n) ==
    /\ n <= readableBytes(buf)
    /\ Does("look", buf, SubSeq(Readable(buf), 1, n))

\* retrieve(len), also of more than there is, as HttpContext does with a body
\* that has not arrived in full; retrieveAsString() and retrieveAllAsString(),
\* given no more than there is, return these bytes.
Retrieve(len) ==
    Does("take", retrieve(buf, len),
         SubSeq(Readable(buf), 1, IF len < readableBytes(buf) THEN len ELSE readableBytes(buf)))

\* retrieveUntil(findCRLF() + 2), of HttpContext::parseRequest.
RetrieveLine(crlf) ==
    /\ crlf \in findCRLF(buf)
    /\ \A i \in findCRLF(buf) : crlf <= i
    /\ Does("line", retrieve(buf, crlf + 2), SubSeq(Readable(buf), 1, crlf + 2))

Next ==
    \/ \E data \in Data : AppendData(data) \/ ReadFd(data)
    \/ \E n \in 0..MaxReadable : WriteFd(n)
    \/ \E len \in 0..(MaxReadable + 1) : Retrieve(len)
    \/ \E crlf \in 0..MaxReadable : RetrieveLine(crlf)

Spec == Init /\ [][Next]_vars

-----------------------------------------------------------------------------
(* Properties.                                                             *)

(***************************************************************************)
(* The indices stay in order and the reserved bytes in front stay free, so *)
(* no size_t difference of Buffer.h:22-24 wraps and no copy leaves the     *)
(* vector, through any sequence of moves, resizes and short reads.         *)
(***************************************************************************)
IndicesInOrder ==
    /\ buf \in BufferType
    /\ kCheapPrepend <= buf.readerIndex_
    /\ buf.readerIndex_ <= buf.writerIndex_
    /\ buf.writerIndex_ <= Len(buf.buffer_)

(***************************************************************************)
(* makeSpace() reuses the space in front before it makes the vector longer *)
(* (Buffer.h:111): however long the connection lives, the vector is never  *)
(* longer than twice the most bytes that ever waited in it.                *)
(***************************************************************************)
MemoryBounded ==
    \/ Len(buf.buffer_) <= kCheapPrepend + kInitialSize
    \/ Len(buf.buffer_) <= kCheapPrepend + 2 * peak

(***************************************************************************)
(* The vector and its indices implement a queue of bytes: nothing is lost, *)
(* doubled or put out of order by makeSpace() or by the two iovecs of      *)
(* readFd(), and a line ends at the first CRLF that has been received.     *)
(***************************************************************************)
BS == INSTANCE ByteStream WITH stream <- Readable(buf)

IsByteStream == BS!Spec

=============================================================================

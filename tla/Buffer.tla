------------------------------- MODULE Buffer -------------------------------
(***************************************************************************)
(* A Buffer (Buffer.h, Buffer.cc): a vector with a reader and a writer     *)
(* index, used by one thread.  Its operations are operators on a buffer    *)
(* value, and the state machine below is a client that calls them in any   *)
(* order with any arguments.                                               *)
(***************************************************************************)
EXTENDS Naturals, Sequences

CONSTANTS
    Byte,
    ZeroByte,      \* what resize() fills with
    kCheapPrepend,
    kInitialSize,
    ExtraSize,     \* sizeof extrabuf in readFd
    MaxReadable    \* bound: the bytes a client keeps in the buffer

ASSUME BufferAssumption ==
    /\ ZeroByte \in Byte
    /\ kCheapPrepend \in Nat
    /\ kInitialSize \in Nat
    /\ ExtraSize \in Nat
    /\ MaxReadable \in Nat

\* A buffer value: bytes[0] to bytes[size - 1] is the vector.
IsBuffer(b) ==
    /\ DOMAIN b = {"bytes", "size", "readerIndex", "writerIndex"}
    /\ b.size \in Nat
    /\ b.readerIndex \in Nat
    /\ b.writerIndex \in Nat
    /\ b.bytes \in [0..(b.size - 1) -> Byte]

NewBuffer ==
    [bytes |-> [i \in 0..(kCheapPrepend + kInitialSize - 1) |-> ZeroByte],
     size |-> kCheapPrepend + kInitialSize,
     readerIndex |-> kCheapPrepend,
     writerIndex |-> kCheapPrepend]

readableBytes(b) == b.writerIndex - b.readerIndex
writableBytes(b) == b.size - b.writerIndex
prependableBytes(b) == b.readerIndex

\* The len bytes from peek() on.
peek(b, len) == [i \in 1..len |-> b.bytes[b.readerIndex + i - 1]]

\* Mutant of retrieveAll: the vector is believed to be back to its first size.
retrieveAllShrinking(b) ==
    [b EXCEPT !.readerIndex = kCheapPrepend, !.writerIndex = kCheapPrepend,
              !.size = kCheapPrepend + kInitialSize]

retrieveAll(b) ==
    [b EXCEPT !.readerIndex = kCheapPrepend, !.writerIndex = kCheapPrepend]

\* Mutant of retrieve: the length is not checked.
retrieveUnchecked(b, len) == [b EXCEPT !.readerIndex = b.readerIndex + len]

retrieve(b, len) ==
    IF len < readableBytes(b)
      THEN [b EXCEPT !.readerIndex = b.readerIndex + len]
      ELSE retrieveAll(b)

\* buffer_.resize(size).
resized(b, size) ==
    [b EXCEPT !.bytes = [i \in 0..(size - 1) |-> IF i < b.size THEN b.bytes[i] ELSE ZeroByte],
              !.size = size]

\* The readable bytes moved down to the cheap-prepend position.
compacted(b) ==
    [b EXCEPT !.bytes = [i \in 0..(b.size - 1) |->
                           IF kCheapPrepend <= i /\ i < kCheapPrepend + readableBytes(b)
                             THEN b.bytes[b.readerIndex + i - kCheapPrepend]
                             ELSE b.bytes[i]],
              !.readerIndex = kCheapPrepend,
              !.writerIndex = kCheapPrepend + readableBytes(b)]

\* Mutant of mustGrow: the room freed at the front is not used.
mustGrowAlways(b, len) == writableBytes(b) < len

\* makeSpace's test: even compacted, len more bytes would not fit.
mustGrow(b, len) == writableBytes(b) + prependableBytes(b) < len + kCheapPrepend

makeSpace(b, len) ==
    IF mustGrow(b, len) THEN resized(b, b.writerIndex + len) ELSE compacted(b)

ensureWritableBytes(b, len) ==
    IF writableBytes(b) < len THEN makeSpace(b, len) ELSE b

\* std::copy of s to beginWrite(), and the writer index moved past it.
written(b, s) ==
    [b EXCEPT !.bytes = [i \in 0..(b.size - 1) |->
                           IF b.writerIndex <= i /\ i < b.writerIndex + Len(s)
                             THEN s[i - b.writerIndex + 1]
                             ELSE b.bytes[i]],
              !.writerIndex = b.writerIndex + Len(s)]

append(b, s) == written(ensureWritableBytes(b, Len(s)), s)

\* The bytes one readv can deliver: the second iovec is only offered when the
\* buffer has less room than it.
readCapacity(b) ==
    writableBytes(b) + (IF writableBytes(b) < ExtraSize THEN ExtraSize ELSE 0)

\* Mutant of readFd: the overflow is appended from its second byte.
readFdLosingOne(b, s) ==
    IF Len(s) < writableBytes(b)
      THEN written(b, s)
      ELSE append(written(b, SubSeq(s, 1, writableBytes(b))),
                  SubSeq(s, writableBytes(b) + 2, Len(s)))

\* readFd when readv delivered s.
readFd(b, s) ==
    IF Len(s) < writableBytes(b)
      THEN written(b, s)
      ELSE append(written(b, SubSeq(s, 1, writableBytes(b))),
                  SubSeq(s, writableBytes(b) + 1, Len(s)))
-----------------------------------------------------------------------------
VARIABLES
    buffer,
    op,    \* the last operation, with the bytes it took in or handed out
    peak   \* history: the most readable bytes there have been

vars == <<buffer, op, peak>>

readable == peek(buffer, readableBytes(buffer))

TypeOK ==
    /\ IsBuffer(buffer)
    /\ op \in [name: {"none", "put", "peek", "take", "drop"}, bytes: Seq(Byte)]
    /\ peak \in Nat

Init ==
    /\ buffer = NewBuffer
    /\ op = [name |-> "none", bytes |-> <<>>]
    /\ peak = 0

\* The client's operation name(bytes) leaves the buffer as b.
Does(name, bytes, b) ==
    /\ op' = [name |-> name, bytes |-> bytes]
    /\ buffer' = b
    /\ peak' = IF readableBytes(b) > peak THEN readableBytes(b) ELSE peak

\* What a client appends or a socket delivers.
Input == UNION {[1..n -> Byte] : n \in 0..(MaxReadable - readableBytes(buffer))}

Append_(s) == Does("put", s, append(buffer, s))

ReadFd(s) ==
    /\ Len(s) <= readCapacity(buffer)
    /\ Does("put", s, readFd(buffer, s))

\* writeFd: the socket takes the first n bytes; the buffer is left alone.
writeFd(n) ==
    /\ n <= readableBytes(buffer)
    /\ Does("peek", peek(buffer, n), buffer)

Retrieve(len) == Does("drop", <<>>, retrieve(buffer, len))

\* len bytes are copied from peek() on, however many are readable: then come
\* those left behind writerIndex_, then whatever memory follows the vector.
retrieveAsString(len) ==
    \E s \in [1..len -> Byte] :
        /\ \A i \in 1..len : buffer.readerIndex + i <= buffer.size => s[i] = peek(buffer, len)[i]
        /\ Does("take", s, retrieve(buffer, len))

Next ==
    \/ \E s \in Input : Append_(s) \/ ReadFd(s)
    \/ \E n \in 0..(MaxReadable + 1) : writeFd(n) \/ Retrieve(n) \/ retrieveAsString(n)

Spec == Init /\ [][Next]_vars
-----------------------------------------------------------------------------
(***************************************************************************)
(* Properties.                                                             *)
(***************************************************************************)

\* The order of the diagram in Buffer.h:9-15, with the header kept free.
IndexesOrdered ==
    /\ kCheapPrepend <= buffer.readerIndex
    /\ buffer.readerIndex <= buffer.writerIndex
    /\ buffer.writerIndex <= buffer.size

\* The vector never grows past twice the bytes it has had to hold at once
\* (plus the header): space freed at the front is used before more is
\* allocated, though every growth keeps the free front where it is
\* (makeSpace, Buffer.h:135-153).
GrowthIsBounded ==
    \/ buffer.size = kCheapPrepend + kInitialSize
    \/ buffer.size < kCheapPrepend + 2 * peak

\* A buffer with nothing to read has its whole vector to write: there is no
\* way to drain it that leaves the indexes behind.  TcpConnection::sendInLoop
\* tests writableBytes() of an empty buffer (TcpConnection.cc:89).
EmptyIsReset ==
    readableBytes(buffer) = 0 => writableBytes(buffer) >= kInitialSize

\* Bytes come out as they went in, whatever the compactions and growths; only
\* retrieveAsString asked for more than is readable adds bytes that nobody put
\* in, behind those that somebody did (Buffer.h:81-86).
BQ == INSTANCE ByteQueue WITH queue <- readable
ByteQueueSpec == BQ!Spec
=============================================================================

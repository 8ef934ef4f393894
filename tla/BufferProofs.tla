---------------------------- MODULE BufferProofs ----------------------------
(***************************************************************************)
(* For any sizes, any bytes and any sequence of operations: the indexes of *)
(* a Buffer stay in order, its vector stays within its bound, and what     *)
(* comes out is what went in.                                              *)
(***************************************************************************)
EXTENDS Buffer, SequenceTheorems, TLAPS

\* A buffer value with its indexes in order.
Sound(b) ==
    /\ IsBuffer(b)
    /\ kCheapPrepend <= b.readerIndex
    /\ b.readerIndex <= b.writerIndex
    /\ b.writerIndex <= b.size

contents(b) == peek(b, readableBytes(b))

\* Nothing to read means that the indexes are where they started.
ResetWhenEmpty(b) == readableBytes(b) = 0 => b.writerIndex = kCheapPrepend

LEMMA NewBufferSound ==
  Sound(NewBuffer) /\ contents(NewBuffer) = <<>> /\ ResetWhenEmpty(NewBuffer)
<1> USE BufferAssumption
<1>1. Sound(NewBuffer)
  BY DEF Sound, IsBuffer, NewBuffer
<1>2. readableBytes(NewBuffer) = 0 /\ ResetWhenEmpty(NewBuffer)
  BY DEF readableBytes, NewBuffer, ResetWhenEmpty
<1>3. contents(NewBuffer) = <<>>
  <2>1. contents(NewBuffer) = [i \in 1..0 |-> NewBuffer.bytes[NewBuffer.readerIndex + i - 1]]
    BY <1>2 DEF contents, peek
  <2>2. QED
    BY <2>1
<1>4. QED
  BY <1>1, <1>2, <1>3

LEMMA CountsAreNat ==
  ASSUME NEW b, Sound(b)
  PROVE  readableBytes(b) \in Nat /\ writableBytes(b) \in Nat /\ prependableBytes(b) \in Nat
BY DEF Sound, IsBuffer, readableBytes, writableBytes, prependableBytes

LEMMA ArrayIsSeq ==
  ASSUME NEW len \in Nat, NEW f \in [1..len -> Byte]
  PROVE  f \in Seq(Byte) /\ Len(f) = len
OBVIOUS

LEMMA PeekIsSeq ==
  ASSUME NEW b, Sound(b), NEW len \in 0..readableBytes(b)
  PROVE  /\ peek(b, len) \in Seq(Byte)
         /\ Len(peek(b, len)) = len
         /\ \A i \in 1..len : peek(b, len)[i] = b.bytes[b.readerIndex + i - 1]
<1>1. len \in Nat /\ \A i \in 1..len : b.readerIndex + i - 1 \in 0..(b.size - 1)
  BY BufferAssumption DEF Sound, IsBuffer, readableBytes
<1>2. \A i \in 1..len : b.bytes[b.readerIndex + i - 1] \in Byte
  BY <1>1 DEF Sound, IsBuffer
<1>3. peek(b, len) \in [1..len -> Byte]
  BY <1>2 DEF peek
<1>4. QED
  BY <1>1, <1>3, ArrayIsSeq DEF peek

LEMMA ContentsIsSeq ==
  ASSUME NEW b, Sound(b)
  PROVE  /\ contents(b) \in Seq(Byte)
         /\ Len(contents(b)) = readableBytes(b)
         /\ \A i \in 1..readableBytes(b) :
                contents(b)[i] = b.bytes[b.readerIndex + i - 1]
<1>1. readableBytes(b) \in 0..readableBytes(b)
  BY CountsAreNat
<1>2. QED
  BY <1>1, PeekIsSeq DEF contents

LEMMA ContentsAre ==
  ASSUME NEW c, Sound(c), NEW t \in Seq(Byte), Len(t) = readableBytes(c),
         \A i \in 1..Len(t) : c.bytes[c.readerIndex + i - 1] = t[i]
  PROVE  contents(c) = t
<1>1. \A i \in 1..Len(t) : contents(c)[i] = t[i]
  BY ContentsIsSeq
<1>2. contents(c) \in Seq(Byte) /\ Len(contents(c)) = Len(t)
  BY ContentsIsSeq
<1>3. QED
  BY <1>1, <1>2, SeqEqual

\* What written makes of a buffer that has room for s.
LEMMA Written ==
  ASSUME NEW b, Sound(b), NEW s \in Seq(Byte), Len(s) <= writableBytes(b)
  PROVE  /\ Sound(written(b, s))
         /\ written(b, s).size = b.size
         /\ written(b, s).readerIndex = b.readerIndex
         /\ written(b, s).writerIndex = b.writerIndex + Len(s)
         /\ contents(written(b, s)) = contents(b) \o s
<1> DEFINE w == written(b, s)
<1> USE BufferAssumption
<1>0. /\ Len(s) \in Nat
      /\ \A i \in 1..Len(s) : s[i] \in Byte
      /\ b.size \in Nat /\ b.readerIndex \in Nat /\ b.writerIndex \in Nat
      /\ b.bytes \in [0..(b.size - 1) -> Byte]
      /\ b.writerIndex + Len(s) <= b.size
      /\ b.readerIndex <= b.writerIndex
      /\ kCheapPrepend <= b.readerIndex
  BY DEF Sound, IsBuffer, writableBytes
<1>1. /\ DOMAIN w = {"bytes", "size", "readerIndex", "writerIndex"}
      /\ w.size = b.size
      /\ w.readerIndex = b.readerIndex
      /\ w.writerIndex = b.writerIndex + Len(s)
      /\ w.bytes = [i \in 0..(b.size - 1) |->
                      IF b.writerIndex <= i /\ i < b.writerIndex + Len(s)
                        THEN s[i - b.writerIndex + 1] ELSE b.bytes[i]]
  BY SMT DEF written, Sound, IsBuffer
<1> HIDE DEF w
<1>3. \A i \in 0..(b.size - 1) :
          w.bytes[i] = IF b.writerIndex <= i /\ i < b.writerIndex + Len(s)
                         THEN s[i - b.writerIndex + 1] ELSE b.bytes[i]
  BY <1>1
<1>4. w.bytes \in [0..(w.size - 1) -> Byte]
  <2>1. ASSUME NEW i \in 0..(b.size - 1)
        PROVE  w.bytes[i] \in Byte
    <3>1. CASE b.writerIndex <= i /\ i < b.writerIndex + Len(s)
      <4>1. i - b.writerIndex + 1 \in 1..Len(s)
        BY <1>0, <3>1
      <4>2. w.bytes[i] = s[i - b.writerIndex + 1]
        BY <1>3, <3>1
      <4>3. QED
        BY <1>0, <4>1, <4>2
    <3>2. CASE ~(b.writerIndex <= i /\ i < b.writerIndex + Len(s))
      BY <1>0, <1>3, <3>2
    <3>3. QED
      BY <3>1, <3>2
  <2>2. QED
    BY <1>1, <2>1
<1>5. Sound(w)
  BY <1>0, <1>1, <1>4 DEF Sound, IsBuffer
<1>6. contents(w) = contents(b) \o s
  <2> DEFINE t == contents(b) \o s
             r == readableBytes(b)
  <2>1. r \in Nat /\ r = b.writerIndex - b.readerIndex
    BY CountsAreNat DEF readableBytes
  <2>2. contents(b) \in Seq(Byte) /\ Len(contents(b)) = r
    BY ContentsIsSeq
  <2>3. /\ t \in Seq(Byte)
        /\ Len(t) = r + Len(s)
        /\ \A i \in 1..(r + Len(s)) : t[i] = IF i <= r THEN contents(b)[i] ELSE s[i - r]
    <3>1. /\ t \in Seq(Byte)
          /\ Len(t) = Len(contents(b)) + Len(s)
          /\ \A i \in 1..(Len(contents(b)) + Len(s)) :
                 t[i] = IF i <= Len(contents(b)) THEN contents(b)[i] ELSE s[i - Len(contents(b))]
      BY <2>2, ConcatProperties
    <3>2. QED
      BY <2>2, <3>1
  <2>4. readableBytes(w) = r + Len(s)
    BY <1>0, <1>1, <2>1 DEF readableBytes
  <2> HIDE DEF t, r
  <2>5. ASSUME NEW i \in 1..(r + Len(s))
        PROVE  w.bytes[w.readerIndex + i - 1] = t[i]
    <3>1. PICK size \in Nat, reader \in Nat, writer \in Nat, len \in Nat, k \in Nat :
            /\ size = b.size /\ reader = b.readerIndex /\ writer = b.writerIndex
            /\ len = Len(s) /\ k = r
      BY <1>0, <2>1, Zenon
    <3>2. /\ k = writer - reader
          /\ writer + len <= size
          /\ i \in 1..(k + len)
      BY <1>0, <2>1, <3>1
    <3> DEFINE j == reader + i - 1
    <3>3. /\ j \in 0..(size - 1)
          /\ j < writer + len
          /\ (writer <= j) <=> ~(i <= k)
          /\ j - writer + 1 = i - k
          /\ i <= k => i \in 1..k
      BY <3>2
    <3> HIDE DEF j
    <3>4. CASE i <= r
      <4>1. w.bytes[j] = b.bytes[j]
        BY <1>3, <3>1, <3>3, <3>4
      <4>2. contents(b)[i] = b.bytes[j]
        BY <3>1, <3>3, <3>4, ContentsIsSeq DEF r, j
      <4>3. QED
        BY <4>1, <4>2, <2>3, <3>1, <3>4, <1>1 DEF j
    <3>5. CASE ~(i <= r)
      <4>1. w.bytes[j] = s[j - writer + 1]
        BY <1>3, <3>1, <3>3, <3>5
      <4>2. t[i] = s[i - r]
        BY <2>3, <3>5
      <4>3. QED
        BY <4>1, <4>2, <3>1, <3>3, <1>1 DEF j
    <3>6. QED
      BY <3>4, <3>5
  <2>6. QED
    BY <1>5, <2>3, <2>4, <2>5, ContentsAre DEF t
<1>7. QED
  BY <1>1, <1>5, <1>6 DEF w

\* Moving or copying the vector leaves the contents when every readable byte
\* is where the indexes say.
LEMMA SameContents ==
  ASSUME NEW b, Sound(b), NEW c, Sound(c), readableBytes(c) = readableBytes(b),
         \A i \in 1..readableBytes(b) :
             c.bytes[c.readerIndex + i - 1] = b.bytes[b.readerIndex + i - 1]
  PROVE  contents(c) = contents(b)
<1>1. \A i \in 1..Len(contents(b)) : c.bytes[c.readerIndex + i - 1] = contents(b)[i]
  BY ContentsIsSeq
<1>2. QED
  BY <1>1, ContentsIsSeq, ContentsAre

LEMMA Resized ==
  ASSUME NEW b, Sound(b), NEW n \in Nat, b.size <= n
  PROVE  /\ Sound(resized(b, n))
         /\ resized(b, n).size = n
         /\ resized(b, n).readerIndex = b.readerIndex
         /\ resized(b, n).writerIndex = b.writerIndex
         /\ contents(resized(b, n)) = contents(b)
<1> DEFINE c == resized(b, n)
<1> USE BufferAssumption
<1>0. /\ b.size \in Nat /\ b.readerIndex \in Nat /\ b.writerIndex \in Nat
      /\ b.bytes \in [0..(b.size - 1) -> Byte]
      /\ b.writerIndex <= b.size
      /\ b.readerIndex <= b.writerIndex
      /\ kCheapPrepend <= b.readerIndex
  BY DEF Sound, IsBuffer
<1>1. /\ DOMAIN c = {"bytes", "size", "readerIndex", "writerIndex"}
      /\ c.size = n
      /\ c.readerIndex = b.readerIndex
      /\ c.writerIndex = b.writerIndex
      /\ c.bytes = [i \in 0..(n - 1) |-> IF i < b.size THEN b.bytes[i] ELSE ZeroByte]
  BY SMT DEF resized, Sound, IsBuffer
<1> HIDE DEF c
<1>2. c.bytes \in [0..(n - 1) -> Byte]
  <2>1. \A i \in 0..(n - 1) : i < b.size => b.bytes[i] \in Byte
    BY <1>0
  <2>2. QED
    BY <1>1, <2>1
<1>3. Sound(c)
  BY <1>0, <1>1, <1>2 DEF Sound, IsBuffer
<1>4. readableBytes(c) = readableBytes(b)
  BY <1>1 DEF readableBytes
<1>5. ASSUME NEW i \in 1..readableBytes(b)
      PROVE  c.bytes[c.readerIndex + i - 1] = b.bytes[b.readerIndex + i - 1]
  <2> DEFINE j == b.readerIndex + i - 1
  <2>1. j \in 0..(n - 1) /\ j < b.size
    BY <1>0 DEF readableBytes
  <2> HIDE DEF j
  <2>2. c.bytes[j] = b.bytes[j]
    BY <1>1, <2>1
  <2>3. QED
    BY <1>1, <2>2 DEF j
<1>6. contents(c) = contents(b)
  BY <1>3, <1>4, <1>5, SameContents
<1>7. QED
  BY <1>1, <1>3, <1>6 DEF c

LEMMA Compacted ==
  ASSUME NEW b, Sound(b)
  PROVE  /\ Sound(compacted(b))
         /\ compacted(b).size = b.size
         /\ compacted(b).readerIndex = kCheapPrepend
         /\ compacted(b).writerIndex = kCheapPrepend + readableBytes(b)
         /\ contents(compacted(b)) = contents(b)
<1> DEFINE c == compacted(b)
           r == readableBytes(b)
<1> USE BufferAssumption
<1>0. /\ b.size \in Nat /\ b.readerIndex \in Nat /\ b.writerIndex \in Nat
      /\ b.bytes \in [0..(b.size - 1) -> Byte]
      /\ b.writerIndex <= b.size
      /\ b.readerIndex <= b.writerIndex
      /\ kCheapPrepend <= b.readerIndex
      /\ r \in Nat /\ r = b.writerIndex - b.readerIndex
  BY CountsAreNat DEF Sound, IsBuffer, readableBytes
<1>1. /\ DOMAIN c = {"bytes", "size", "readerIndex", "writerIndex"}
      /\ c.size = b.size
      /\ c.readerIndex = kCheapPrepend
      /\ c.writerIndex = kCheapPrepend + r
      /\ c.bytes = [i \in 0..(b.size - 1) |->
                      IF kCheapPrepend <= i /\ i < kCheapPrepend + r
                        THEN b.bytes[b.readerIndex + i - kCheapPrepend]
                        ELSE b.bytes[i]]
  BY SMT DEF compacted, Sound, IsBuffer
<1> HIDE DEF c, r
<1>2. c.bytes \in [0..(b.size - 1) -> Byte]
  <2>1. ASSUME NEW i \in 0..(b.size - 1), kCheapPrepend <= i, i < kCheapPrepend + r
        PROVE  b.bytes[b.readerIndex + i - kCheapPrepend] \in Byte
    <3>1. b.readerIndex + i - kCheapPrepend \in 0..(b.size - 1)
      BY <1>0, <2>1
    <3>2. QED
      BY <1>0, <3>1
  <2>2. \A i \in 0..(b.size - 1) : b.bytes[i] \in Byte
    BY <1>0
  <2>3. QED
    BY <1>1, <2>1, <2>2
<1>3. kCheapPrepend + r <= b.size
  BY <1>0
<1>4. Sound(c)
  BY <1>0, <1>1, <1>2, <1>3 DEF Sound, IsBuffer
<1>5. readableBytes(c) = readableBytes(b)
  BY <1>0, <1>1 DEF readableBytes, r
<1>6. ASSUME NEW i \in 1..r
      PROVE  c.bytes[c.readerIndex + i - 1] = b.bytes[b.readerIndex + i - 1]
  <2> DEFINE j == kCheapPrepend + i - 1
  <2>1. /\ j \in 0..(b.size - 1)
        /\ kCheapPrepend <= j /\ j < kCheapPrepend + r
    BY <1>0, <1>3
  <2>2. b.readerIndex + j - kCheapPrepend = b.readerIndex + i - 1
    BY <1>0
  <2> HIDE DEF j
  <2>3. c.bytes[j] = b.bytes[b.readerIndex + j - kCheapPrepend]
    BY <1>1, <2>1
  <2>4. QED
    BY <1>1, <2>2, <2>3 DEF j
<1>7. contents(c) = contents(b)
  BY <1>4, <1>5, <1>6, SameContents DEF r
<1>8. QED
  BY <1>1, <1>4, <1>7 DEF c, r

\* ensureWritableBytes makes the room, keeps the contents, and only grows a
\* vector whose free front is smaller than what is asked for.
LEMMA Ensured ==
  ASSUME NEW b, Sound(b), NEW len \in Nat
  PROVE  LET e == ensureWritableBytes(b, len)
         IN  /\ Sound(e)
             /\ contents(e) = contents(b)
             /\ readableBytes(e) = readableBytes(b)
             /\ len <= writableBytes(e)
             /\ b.size <= e.size
             /\ e.size = b.size \/ e.size < kCheapPrepend + readableBytes(b) + len + len
             /\ len = 0 => e = b
<1> DEFINE e == ensureWritableBytes(b, len)
<1> USE BufferAssumption
<1>0. /\ b.size \in Nat /\ b.readerIndex \in Nat /\ b.writerIndex \in Nat
      /\ b.writerIndex <= b.size
      /\ b.readerIndex <= b.writerIndex
      /\ kCheapPrepend <= b.readerIndex
  BY DEF Sound, IsBuffer
<1>1. CASE ~(writableBytes(b) < len)
  <2>1. e = b
    BY <1>1 DEF ensureWritableBytes
  <2>2. len <= writableBytes(b)
    BY <1>1, CountsAreNat
  <2>3. QED
    BY <1>0, <2>1, <2>2
<1>2. CASE writableBytes(b) < len /\ mustGrow(b, len)
  <2> DEFINE n == b.writerIndex + len
  <2>1. e = resized(b, n)
    BY <1>2 DEF ensureWritableBytes, makeSpace
  <2>2. n \in Nat /\ b.size <= n
    BY <1>0, <1>2 DEF writableBytes
  <2>3. /\ n - b.writerIndex = len
        /\ n < kCheapPrepend + (b.writerIndex - b.readerIndex) + len + len
        /\ len # 0
    BY <1>0, <1>2 DEF mustGrow, writableBytes, prependableBytes
  <2>4. /\ Sound(e) /\ contents(e) = contents(b) /\ e.size = n
        /\ e.readerIndex = b.readerIndex /\ e.writerIndex = b.writerIndex
    BY <2>1, <2>2, Resized
  <2> HIDE DEF e, n
  <2>5. QED
    BY <2>2, <2>3, <2>4 DEF readableBytes, writableBytes, e
<1>3. CASE writableBytes(b) < len /\ ~mustGrow(b, len)
  <2>1. e = compacted(b)
    BY <1>3 DEF ensureWritableBytes, makeSpace
  <2>2. /\ Sound(e) /\ contents(e) = contents(b) /\ e.size = b.size
        /\ e.readerIndex = kCheapPrepend
        /\ e.writerIndex = kCheapPrepend + readableBytes(b)
    BY <2>1, Compacted
  <2> HIDE DEF e
  <2>3. readableBytes(e) = readableBytes(b) /\ len <= writableBytes(e) /\ len # 0
    BY <1>0, <1>3, <2>2 DEF mustGrow, readableBytes, writableBytes, prependableBytes
  <2>4. QED
    BY <1>0, <2>2, <2>3 DEF e
<1>4. QED
  BY <1>1, <1>2, <1>3

\* Buffer b, which has taken in s, is now a.
Takes(b, s, a) ==
    /\ Sound(a)
    /\ contents(a) = contents(b) \o s
    /\ readableBytes(a) = readableBytes(b) + Len(s)
    /\ b.size <= a.size
    /\ a.size = b.size \/ a.size < kCheapPrepend + readableBytes(a) + readableBytes(a)
    /\ ResetWhenEmpty(b) => ResetWhenEmpty(a)

LEMMA WrittenTakes ==
  ASSUME NEW b, Sound(b), NEW s \in Seq(Byte), Len(s) <= writableBytes(b)
  PROVE  Takes(b, s, written(b, s))
<1> DEFINE a == written(b, s)
<1>1. /\ Sound(a) /\ contents(a) = contents(b) \o s /\ a.size = b.size
      /\ a.readerIndex = b.readerIndex /\ a.writerIndex = b.writerIndex + Len(s)
  BY Written
<1> HIDE DEF a
<1>2. Len(s) \in Nat /\ b.size \in Nat /\ b.readerIndex \in Nat /\ b.writerIndex \in Nat
      /\ b.readerIndex <= b.writerIndex
  BY DEF Sound, IsBuffer
<1>3. readableBytes(a) = readableBytes(b) + Len(s)
  BY <1>1, <1>2 DEF readableBytes
<1>4. ResetWhenEmpty(b) => ResetWhenEmpty(a)
  BY <1>1, <1>2 DEF readableBytes, ResetWhenEmpty
<1>5. QED
  BY <1>1, <1>2, <1>3, <1>4 DEF Takes, a

LEMMA AppendTwice ==
  \A x, y, z \in Seq(Byte) : (x \o y) \o z = x \o (y \o z)
BY ConcatAssociative

LEMMA AppendTakes ==
  ASSUME NEW b, Sound(b), NEW s \in Seq(Byte)
  PROVE  Takes(b, s, append(b, s))
<1> DEFINE e == ensureWritableBytes(b, Len(s))
           a == append(b, s)
<1>0. Len(s) \in Nat
  OBVIOUS
<1>1. /\ Sound(e) /\ contents(e) = contents(b)
      /\ readableBytes(e) = readableBytes(b)
      /\ Len(s) <= writableBytes(e)
      /\ b.size <= e.size
      /\ e.size = b.size \/ e.size < kCheapPrepend + readableBytes(b) + Len(s) + Len(s)
      /\ Len(s) = 0 => e = b
  BY <1>0, Ensured
<1>2. a = written(e, s)
  BY DEF append
<1> HIDE DEF e, a
<1>3. Takes(e, s, a) /\ a.size = e.size
  BY <1>1, <1>2, Written, WrittenTakes
<1>4. readableBytes(b) \in Nat /\ b.size \in Nat /\ e.size \in Nat /\ kCheapPrepend \in Nat
  BY <1>1, CountsAreNat, BufferAssumption DEF Sound, IsBuffer
<1>5. /\ Sound(a) /\ contents(a) = contents(b) \o s
      /\ readableBytes(a) = readableBytes(b) + Len(s)
      /\ b.size <= a.size
  BY <1>1, <1>3 DEF Takes
<1>6. a.size = b.size \/ a.size < kCheapPrepend + readableBytes(a) + readableBytes(a)
  BY <1>0, <1>1, <1>3, <1>4, <1>5
<1>7. ASSUME ResetWhenEmpty(b) PROVE ResetWhenEmpty(a)
  <2>1. CASE Len(s) = 0
    BY <1>1, <1>3, <1>7, <2>1 DEF Takes
  <2>2. CASE Len(s) # 0
    BY <1>0, <1>4, <1>5, <2>2 DEF ResetWhenEmpty
  <2>3. QED
    BY <2>1, <2>2
<1>8. QED
  BY <1>5, <1>6, <1>7 DEF Takes, a

\* Whatever part of s goes to the second iovec, the buffer takes in all of s.
LEMMA ReadFdTakes ==
  ASSUME NEW b, Sound(b), NEW s \in Seq(Byte)
  PROVE  Takes(b, s, readFd(b, s))
<1> DEFINE w == writableBytes(b)
<1>0. Len(s) \in Nat /\ w \in Nat
  BY CountsAreNat
<1>1. CASE Len(s) < w
  BY <1>0, <1>1, WrittenTakes DEF readFd
<1>2. CASE ~(Len(s) < w)
  <2> DEFINE s1 == SubSeq(s, 1, w)
             s2 == SubSeq(s, w + 1, Len(s))
             f == written(b, s1)
             a == append(f, s2)
  <2> HIDE DEF w
  <2>0. w <= Len(s)
    BY <1>0, <1>2
  <2>1. a = readFd(b, s)
    BY <1>2 DEF readFd, w
  <2>2. s1 \in Seq(Byte) /\ Len(s1) = w
    <3>1. \A i \in 1..w : s[i] \in Byte
      BY <1>0, <2>0, ElementOfSeq
    <3>2. QED
      BY <1>0, <3>1, SubSeqProperties
  <2>3. s2 \in Seq(Byte) /\ Len(s2) = Len(s) - w
    <3>1. \A i \in (w + 1)..Len(s) : s[i] \in Byte
      BY <1>0, ElementOfSeq
    <3>2. QED
      BY <1>0, <2>0, <3>1, SubSeqProperties
  <2>4. s1 \o s2 = s
    <3>1. 1 \in 1..(Len(s) + 1) /\ w \in (1 - 1)..Len(s) /\ Len(s) \in w..Len(s)
      BY <1>0, <2>0
    <3>2. s1 \o s2 = SubSeq(s, 1, Len(s))
      BY <3>1, ConcatAdjacentSubSeq
    <3>3. QED
      BY <3>2, SubSeqFull
  <2> HIDE DEF s1, s2
  <2>5. Takes(b, s1, f) /\ f.size = b.size
    BY <1>0, <2>2, Written, WrittenTakes DEF w
  <2>6. Sound(f)
    BY <2>5 DEF Takes
  <2> HIDE DEF f
  <2>7. Takes(f, s2, a)
    BY <2>3, <2>6, AppendTakes
  <2> HIDE DEF a
  <2>8. contents(a) = contents(b) \o s
    <3>1. contents(a) = (contents(b) \o s1) \o s2
      BY <2>5, <2>7 DEF Takes
    <3>2. contents(b) \in Seq(Byte)
      BY ContentsIsSeq
    <3>3. (contents(b) \o s1) \o s2 = contents(b) \o (s1 \o s2)
      <4>1. s1 \in Seq(Byte) /\ s2 \in Seq(Byte)
        BY <2>2, <2>3
      <4>2. QED
        BY <3>2, <4>1, AppendTwice, Zenon
    <3>4. QED
      BY <2>4, <3>1, <3>3
  <2>9. readableBytes(a) = readableBytes(b) + Len(s)
    BY <1>0, <2>2, <2>3, <2>5, <2>7, CountsAreNat DEF Takes
  <2>10. QED
    BY <2>1, <2>5, <2>7, <2>8, <2>9 DEF Takes
<1>3. QED
  BY <1>1, <1>2

LEMMA Retrieved ==
  ASSUME NEW b, Sound(b), ResetWhenEmpty(b), NEW n \in Nat
  PROVE  LET a == retrieve(b, n)
         IN  /\ Sound(a)
             /\ a.size = b.size
             /\ readableBytes(a) <= readableBytes(b)
             /\ ResetWhenEmpty(a)
             /\ n < readableBytes(b) =>
                  contents(a) = SubSeq(contents(b), n + 1, readableBytes(b))
             /\ ~(n < readableBytes(b)) => contents(a) = <<>>
<1> DEFINE a == retrieve(b, n)
           r == readableBytes(b)
<1> USE BufferAssumption
<1>0. /\ b.size \in Nat /\ b.readerIndex \in Nat /\ b.writerIndex \in Nat
      /\ b.bytes \in [0..(b.size - 1) -> Byte]
      /\ b.writerIndex <= b.size
      /\ b.readerIndex <= b.writerIndex
      /\ kCheapPrepend <= b.readerIndex
      /\ r \in Nat /\ r = b.writerIndex - b.readerIndex
  BY CountsAreNat DEF Sound, IsBuffer, readableBytes
<1>1. CASE n < r
  <2>1. /\ DOMAIN a = {"bytes", "size", "readerIndex", "writerIndex"}
        /\ a.bytes = b.bytes /\ a.size = b.size
        /\ a.readerIndex = b.readerIndex + n /\ a.writerIndex = b.writerIndex
    BY <1>1, SMT DEF retrieve, Sound, IsBuffer
  <2> HIDE DEF a, r
  <2>2. Sound(a)
    BY <1>0, <1>1, <2>1 DEF Sound, IsBuffer
  <2>3. readableBytes(a) = r - n /\ r - n \in Nat /\ r - n # 0
    BY <1>0, <1>1, <2>1 DEF readableBytes
  <2> DEFINE t == SubSeq(contents(b), n + 1, r)
  <2>4. contents(b) \in Seq(Byte) /\ Len(contents(b)) = r
    BY ContentsIsSeq DEF r
  <2>5. /\ t \in Seq(Byte) /\ Len(t) = r - n
        /\ \A i \in 1..(r - n) : t[i] = contents(b)[n + i]
    <3>1. \A i \in (n + 1)..r : contents(b)[i] \in Byte
      BY <1>0, <2>4, ElementOfSeq
    <3>2. /\ t \in Seq(Byte)
          /\ Len(t) = IF n + 1 <= r THEN r - (n + 1) + 1 ELSE 0
          /\ \A i \in 1..(r - (n + 1) + 1) : t[i] = contents(b)[n + 1 + i - 1]
      BY <1>0, <3>1, SubSeqProperties
    <3>3. r - (n + 1) + 1 = r - n /\ n + 1 <= r
      BY <1>0, <1>1
    <3>4. \A i \in 1..(r - n) : n + 1 + i - 1 = n + i
      OBVIOUS
    <3>5. QED
      BY <3>2, <3>3, <3>4
  <2> HIDE DEF t
  <2>6. ASSUME NEW i \in 1..(r - n)
        PROVE  a.bytes[a.readerIndex + i - 1] = t[i]
    <3>0. b.readerIndex \in Nat /\ r \in Nat
      BY <1>0
    <3>1. n + i \in 1..r /\ b.readerIndex + (n + i) - 1 = b.readerIndex + n + i - 1
      BY <3>0, <1>1
    <3>2. contents(b)[n + i] = b.bytes[b.readerIndex + (n + i) - 1]
      BY <3>1, ContentsIsSeq DEF r
    <3>3. QED
      BY <2>1, <2>5, <3>1, <3>2
  <2>7. contents(a) = t
    BY <2>2, <2>3, <2>5, <2>6, ContentsAre
  <2>8. QED
    BY <1>0, <1>1, <2>1, <2>2, <2>3, <2>7 DEF ResetWhenEmpty, a, r, t
<1>2. CASE ~(n < r)
  <2>1. /\ DOMAIN a = {"bytes", "size", "readerIndex", "writerIndex"}
        /\ a.bytes = b.bytes /\ a.size = b.size
        /\ a.readerIndex = kCheapPrepend /\ a.writerIndex = kCheapPrepend
    BY <1>2, SMT DEF retrieve, retrieveAll, Sound, IsBuffer
  <2> HIDE DEF a
  <2>2. Sound(a)
    BY <1>0, <2>1 DEF Sound, IsBuffer
  <2>3. readableBytes(a) = 0
    BY <2>1 DEF readableBytes
  <2>4. contents(a) = <<>>
    BY <2>2, <2>3, ContentsIsSeq, EmptySeq
  <2>5. QED
    BY <1>0, <1>2, <2>1, <2>2, <2>3, <2>4 DEF ResetWhenEmpty, a
<1>3. QED
  BY <1>1, <1>2
-----------------------------------------------------------------------------
(***************************************************************************)
(* The inductive invariant: the indexes in order, the growth bound with    *)
(* the peak it speaks of, and the reset of an emptied buffer.              *)
(***************************************************************************)
IInv ==
    /\ TypeOK
    /\ Sound(buffer)
    /\ ResetWhenEmpty(buffer)
    /\ kCheapPrepend + kInitialSize <= buffer.size
    /\ readableBytes(buffer) <= peak
    /\ GrowthIsBounded

LEMMA InitIInv == Init => IInv
<1> SUFFICES ASSUME Init PROVE IInv
  OBVIOUS
<1> USE BufferAssumption
<1>1. Sound(buffer) /\ ResetWhenEmpty(buffer) /\ readable = <<>>
  BY NewBufferSound DEF Init, readable, contents
<1>2. buffer.size = kCheapPrepend + kInitialSize /\ readableBytes(buffer) = 0
  BY DEF Init, NewBuffer, readableBytes
<1>3. TypeOK
  <2>1. op \in [name: {"none", "put", "peek", "take", "drop"}, bytes: Seq(Byte)]
    BY EmptySeq DEF Init
  <2>2. QED
    BY <1>1, <2>1 DEF TypeOK, Init, Sound
<1>4. QED
  BY <1>1, <1>2, <1>3 DEF IInv, GrowthIsBounded, Init

\* What an operation must keep for the invariant to hold after it.
LEMMA DoesKeepsIInv ==
  ASSUME IInv, NEW a, Sound(a), ResetWhenEmpty(a), buffer.size <= a.size,
         a.size = buffer.size \/ a.size < kCheapPrepend + readableBytes(a) + readableBytes(a),
         NEW name \in {"none", "put", "peek", "take", "drop"},
         NEW s \in Seq(Byte), Does(name, s, a)
  PROVE  IInv'
<1> USE BufferAssumption
<1>1. buffer' = a /\ op' = [name |-> name, bytes |-> s]
  BY DEF Does
<1>2. readableBytes(a) \in Nat /\ peak \in Nat /\ a.size \in Nat /\ buffer.size \in Nat
  BY CountsAreNat DEF IInv, TypeOK, IsBuffer, Sound
<1>3. peak' \in Nat /\ peak <= peak' /\ readableBytes(a) <= peak'
  BY <1>2 DEF Does
<1>4. TypeOK'
  BY <1>1, <1>3 DEF TypeOK, Sound
<1>5. Sound(buffer)' /\ ResetWhenEmpty(buffer)' /\ (readableBytes(buffer) <= peak)'
  BY <1>1, <1>3
<1>6. (kCheapPrepend + kInitialSize <= buffer.size)'
  BY <1>1, <1>2 DEF IInv
<1>7. GrowthIsBounded'
  <2>1. CASE a.size = buffer.size
    BY <1>1, <1>2, <1>3, <2>1 DEF IInv, GrowthIsBounded
  <2>2. CASE a.size < kCheapPrepend + readableBytes(a) + readableBytes(a)
    BY <1>1, <1>2, <1>3, <2>2 DEF GrowthIsBounded
  <2>3. QED
    BY <2>1, <2>2
<1>8. QED
  BY <1>4, <1>5, <1>6, <1>7 DEF IInv

LEMMA InputIsSeq ==
  ASSUME IInv, NEW s \in Input
  PROVE  s \in Seq(Byte)
<1>1. readableBytes(buffer) \in Nat /\ MaxReadable \in Nat
  BY CountsAreNat, BufferAssumption DEF IInv
<1>2. PICK n \in 0..(MaxReadable - readableBytes(buffer)) : s \in [1..n -> Byte]
  BY DEF Input
<1>3. n \in Nat
  BY <1>1
<1>4. QED
  BY <1>2, <1>3, ArrayIsSeq

LEMMA NextIInv == IInv /\ [Next]_vars => IInv'
<1> SUFFICES ASSUME IInv, [Next]_vars PROVE IInv'
  OBVIOUS
<1>0. /\ Sound(buffer) /\ ResetWhenEmpty(buffer)
      /\ buffer.size \in Nat
      /\ <<>> \in Seq(Byte)
      /\ MaxReadable \in Nat
  BY BufferAssumption, EmptySeq DEF IInv, Sound, IsBuffer
<1>1. ASSUME NEW s \in Input, Append_(s) PROVE IInv'
  <2>1. s \in Seq(Byte) /\ Takes(buffer, s, append(buffer, s))
    BY <1>0, InputIsSeq, AppendTakes
  <2>2. QED
    BY <1>0, <1>1, <2>1, DoesKeepsIInv DEF Append_, Takes
<1>2. ASSUME NEW s \in Input, ReadFd(s) PROVE IInv'
  <2>1. s \in Seq(Byte) /\ Takes(buffer, s, readFd(buffer, s))
    BY <1>0, InputIsSeq, ReadFdTakes
  <2>2. QED
    BY <1>0, <1>2, <2>1, DoesKeepsIInv DEF ReadFd, Takes
<1>3. ASSUME NEW n \in Nat, writeFd(n) PROVE IInv'
  <2>1. peek(buffer, n) \in Seq(Byte)
    <3>1. n \in 0..readableBytes(buffer)
      BY <1>0, <1>3, CountsAreNat DEF writeFd
    <3>2. QED
      BY <1>0, <3>1, PeekIsSeq
  <2>2. QED
    BY <1>0, <1>3, <2>1, DoesKeepsIInv DEF writeFd
<1>4. ASSUME NEW n \in Nat, Retrieve(n) PROVE IInv'
  <2>1. /\ Sound(retrieve(buffer, n)) /\ ResetWhenEmpty(retrieve(buffer, n))
        /\ retrieve(buffer, n).size = buffer.size
    BY <1>0, Retrieved
  <2> DEFINE none == <<>>
  <2>2. none \in Seq(Byte) /\ Does("drop", none, retrieve(buffer, n))
    BY <1>0, <1>4 DEF Retrieve
  <2> HIDE DEF none
  <2>3. QED
    BY <1>0, <2>1, <2>2, DoesKeepsIInv
<1>5. ASSUME NEW n \in Nat, retrieveAsString(n) PROVE IInv'
  <2>1. /\ Sound(retrieve(buffer, n)) /\ ResetWhenEmpty(retrieve(buffer, n))
        /\ retrieve(buffer, n).size = buffer.size
    BY <1>0, Retrieved
  <2>2. PICK s \in [1..n -> Byte] : Does("take", s, retrieve(buffer, n))
    BY <1>5 DEF retrieveAsString
  <2>3. s \in Seq(Byte)
    BY <2>2, ArrayIsSeq
  <2>4. QED
    BY <1>0, <2>1, <2>2, <2>3, DoesKeepsIInv
<1>6. CASE UNCHANGED vars
  <2>1. buffer' = buffer /\ op' = op /\ peak' = peak
    BY <1>6 DEF vars
  <2>2. QED
    BY <2>1 DEF IInv, TypeOK, GrowthIsBounded
<1>7. \A n \in 0..(MaxReadable + 1) : n \in Nat
  BY <1>0
<1>8. QED
  BY <1>1, <1>2, <1>3, <1>4, <1>5, <1>6, <1>7 DEF Next

LEMMA IInvAlways == Spec => []IInv
<1>1. Init => IInv
  BY InitIInv
<1>2. IInv /\ [Next]_vars => IInv'
  BY NextIInv
<1>3. QED
  BY <1>1, <1>2, PTL DEF Spec

\* A buffer's vector always has the length its indexes are held against, and
\* every operation leaves it so.
THEOREM TypeCorrect == Spec => []TypeOK
<1>1. IInv => TypeOK
  BY DEF IInv
<1>2. QED
  BY <1>1, IInvAlways, PTL

\* kCheapPrepend <= readerIndex <= writerIndex <= size for every client,
\* every vector size and every second iovec of readFd.
THEOREM IndexesStayOrdered == Spec => []IndexesOrdered
<1>1. IInv => IndexesOrdered
  BY DEF IInv, Sound, IndexesOrdered
<1>2. QED
  BY <1>1, IInvAlways, PTL

\* makeSpace never lets the vector outgrow twice the most bytes it has had to
\* hold, plus its header.
THEOREM GrowthStaysBounded == Spec => []GrowthIsBounded
<1>1. IInv => GrowthIsBounded
  BY DEF IInv
<1>2. QED
  BY <1>1, IInvAlways, PTL

\* However a buffer is drained, its whole vector is writable afterwards.
THEOREM EmptyStaysReset == Spec => []EmptyIsReset
<1>1. IInv => EmptyIsReset
  BY BufferAssumption
     DEF IInv, Sound, IsBuffer, ResetWhenEmpty, EmptyIsReset, readableBytes, writableBytes
<1>2. QED
  BY <1>1, IInvAlways, PTL
-----------------------------------------------------------------------------
LEMMA ReadableIsContents == readable = contents(buffer)
BY DEF readable, contents

\* The first n bytes of the contents are what peek(n) shows.
LEMMA PeekIsFirst ==
  ASSUME NEW b, Sound(b), NEW n \in 0..readableBytes(b)
  PROVE  peek(b, n) = SubSeq(contents(b), 1, n)
<1> DEFINE t == SubSeq(contents(b), 1, n)
<1>1. /\ readableBytes(b) \in Nat /\ n \in Nat /\ n <= readableBytes(b)
      /\ contents(b) \in Seq(Byte) /\ Len(contents(b)) = readableBytes(b)
  BY CountsAreNat, ContentsIsSeq
<1>2. t \in Seq(Byte) /\ Len(t) = n /\ \A i \in 1..n : t[i] = contents(b)[i]
  <2>1. \A i \in 1..n : contents(b)[i] \in Byte
    BY <1>1, ElementOfSeq
  <2>2. /\ t \in Seq(Byte)
        /\ Len(t) = IF 1 <= n THEN n - 1 + 1 ELSE 0
        /\ \A i \in 1..(n - 1 + 1) : t[i] = contents(b)[1 + i - 1]
    BY <1>1, <2>1, SubSeqProperties
  <2>3. n - 1 + 1 = n /\ (~(1 <= n) => n = 0) /\ \A i \in 1..n : 1 + i - 1 = i
    BY <1>1
  <2>4. QED
    BY <2>2, <2>3
<1> HIDE DEF t
<1>3. \A i \in 1..n : peek(b, n)[i] = t[i]
  BY <1>1, <1>2, PeekIsSeq, ContentsIsSeq
<1>4. QED
  BY <1>2, <1>3, PeekIsSeq, SeqEqual DEF t

\* What retrieveAsString hands out begins with the readable bytes: all of it
\* when it asks for no more than there are, all of them when it asks for more.
LEMMA HandedOut ==
  ASSUME NEW b, Sound(b), NEW n \in 0..readableBytes(b), NEW s \in Seq(Byte), Len(s) = n,
         \A i \in 1..n : b.readerIndex + i <= b.size => s[i] = peek(b, n)[i]
  PROVE  SubSeq(contents(b), 1, n) = s
<1>1. /\ n \in Nat /\ b.readerIndex \in Nat /\ b.writerIndex \in Nat /\ b.size \in Nat
      /\ b.writerIndex <= b.size /\ n <= b.writerIndex - b.readerIndex
  BY CountsAreNat DEF Sound, IsBuffer, readableBytes
<1>2. \A i \in 1..n : s[i] = peek(b, n)[i]
  BY <1>1
<1>3. peek(b, n) \in Seq(Byte) /\ Len(peek(b, n)) = n
  BY PeekIsSeq
<1>4. peek(b, n) = s
  BY <1>1, <1>2, <1>3, SeqEqual
<1>5. QED
  BY <1>4, PeekIsFirst

LEMMA HandsOutAll ==
  ASSUME NEW b, Sound(b), NEW n \in Nat, readableBytes(b) < n,
         NEW s \in Seq(Byte), Len(s) = n,
         \A i \in 1..n : b.readerIndex + i <= b.size => s[i] = peek(b, n)[i]
  PROVE  SubSeq(s, 1, Len(contents(b))) = contents(b)
<1> DEFINE m == readableBytes(b)
           q == contents(b)
           t == SubSeq(s, 1, m)
<1>1. /\ m \in Nat /\ n \in Nat /\ m < n
      /\ b.readerIndex \in Nat /\ b.writerIndex \in Nat /\ b.size \in Nat
      /\ b.writerIndex <= b.size /\ m = b.writerIndex - b.readerIndex
  BY CountsAreNat DEF Sound, IsBuffer, readableBytes
<1>2. q \in Seq(Byte) /\ Len(q) = m /\ \A i \in 1..m : q[i] = b.bytes[b.readerIndex + i - 1]
  BY ContentsIsSeq
<1>3. \A i \in 1..m : s[i] = b.bytes[b.readerIndex + i - 1]
  BY <1>1 DEF peek
<1>4. t \in Seq(Byte) /\ Len(t) = m /\ \A i \in 1..m : t[i] = s[i]
  <2>1. \A i \in 1..m : s[i] \in Byte
    BY <1>1, ElementOfSeq
  <2>2. /\ t \in Seq(Byte)
        /\ Len(t) = IF 1 <= m THEN m - 1 + 1 ELSE 0
        /\ \A i \in 1..(m - 1 + 1) : t[i] = s[1 + i - 1]
    BY <1>1, <2>1, SubSeqProperties
  <2>3. m - 1 + 1 = m /\ (~(1 <= m) => m = 0) /\ \A i \in 1..m : 1 + i - 1 = i
    BY <1>1
  <2>4. QED
    BY <2>2, <2>3
<1> HIDE DEF t, q, m
<1>5. Len(t) = Len(q) /\ \A i \in 1..Len(t) : t[i] = q[i]
  BY <1>2, <1>3, <1>4
<1>6. t = q
  BY <1>2, <1>4, <1>5, SeqEqual
<1>7. QED
  BY <1>2, <1>6 DEF t, q, m

\* Retrieving n bytes, or all of them when there are fewer, leaves the rest.
LEMMA RetrieveIsRest ==
  ASSUME IInv, NEW n \in Nat, NEW m \in Nat,
         m = IF n < readableBytes(buffer) THEN n ELSE readableBytes(buffer)
  PROVE  /\ m \in 0..Len(contents(buffer))
         /\ contents(retrieve(buffer, n))
              = SubSeq(contents(buffer), m + 1, Len(contents(buffer)))
<1> DEFINE r == readableBytes(buffer)
           q == contents(buffer)
           rest == contents(retrieve(buffer, n))
<1>1. /\ r \in Nat /\ Len(q) = r
      /\ n < r => rest = SubSeq(q, n + 1, r)
      /\ ~(n < r) => rest = <<>>
  BY CountsAreNat, ContentsIsSeq, Retrieved DEF IInv
<1>2. SubSeq(q, r + 1, r) = <<>>
  BY <1>1, SubSeqEmpty
<1>3. (n < r => m = n) /\ (~(n < r) => m = r)
  OBVIOUS
<1> HIDE DEF r, q, rest
<1>4. m \in 0..Len(q) /\ rest = SubSeq(q, m + 1, Len(q))
  <2>1. CASE n < r
    BY <1>1, <1>3, <2>1
  <2>2. CASE ~(n < r)
    <3>1. m = r
      BY <1>3, <2>2
    <3>2. m \in 0..Len(q)
      BY <1>1, <3>1
    <3>3. SubSeq(q, m + 1, Len(q)) = <<>>
      BY <1>1, <1>2, <3>1
    <3>4. QED
      BY <1>1, <2>2, <3>2, <3>3
  <2>3. QED
    BY <2>1, <2>2
<1>5. QED
  BY <1>4 DEF q, rest

LEMMA NextRefines == IInv /\ [Next]_vars => [BQ!Next]_(BQ!vars)
<1> SUFFICES ASSUME IInv, [Next]_vars PROVE [BQ!Next]_(BQ!vars)
  OBVIOUS
<1> USE DEF BQ!Put, BQ!Peek, BQ!Take, BQ!Drop, BQ!First, BQ!Rest
<1>0. /\ Sound(buffer) /\ ResetWhenEmpty(buffer)
      /\ MaxReadable \in Nat /\ readableBytes(buffer) \in Nat
      /\ readable = contents(buffer) /\ readable' = contents(buffer')
      /\ Len(readable) = readableBytes(buffer)
  BY BufferAssumption, CountsAreNat, ContentsIsSeq, ReadableIsContents
     DEF IInv, readable, contents
<1>1. ASSUME NEW s \in Input, Append_(s) PROVE BQ!Next
  <2>1. Takes(buffer, s, append(buffer, s))
    BY <1>0, InputIsSeq, AppendTakes
  <2>2. QED
    BY <1>0, <1>1, <2>1 DEF Append_, Does, Takes, BQ!Next
<1>2. ASSUME NEW s \in Input, ReadFd(s) PROVE BQ!Next
  <2>1. Takes(buffer, s, readFd(buffer, s))
    BY <1>0, InputIsSeq, ReadFdTakes
  <2>2. QED
    BY <1>0, <1>2, <2>1 DEF ReadFd, Does, Takes, BQ!Next
<1>3. ASSUME NEW n \in Nat, writeFd(n) PROVE BQ!Next
  <2>1. n \in 0..Len(readable)
    BY <1>0, <1>3 DEF writeFd
  <2>2. peek(buffer, n) = SubSeq(readable, 1, n)
    BY <1>0, <2>1, PeekIsFirst
  <2>3. BQ!Peek(n)
    BY <1>0, <1>3, <2>2 DEF writeFd, Does
  <2>4. QED
    BY <2>1, <2>3 DEF BQ!Next
<1>4. ASSUME NEW n \in Nat, Retrieve(n) PROVE BQ!Next
  <2> DEFINE m == IF n < readableBytes(buffer) THEN n ELSE readableBytes(buffer)
  <2>0. m \in Nat
    BY <1>0
  <2>1. /\ m \in 0..Len(readable)
        /\ contents(retrieve(buffer, n)) = SubSeq(readable, m + 1, Len(readable))
    BY <1>0, <2>0, RetrieveIsRest
  <2> HIDE DEF m
  <2>2. BQ!Drop(m)
    BY <1>0, <1>4, <2>1 DEF Retrieve, Does
  <2>3. QED
    BY <2>1, <2>2 DEF BQ!Next
<1>5. ASSUME NEW n \in Nat, retrieveAsString(n) PROVE BQ!Next
  <2>1. PICK s \in [1..n -> Byte] :
          /\ \A i \in 1..n :
                buffer.readerIndex + i <= buffer.size => s[i] = peek(buffer, n)[i]
          /\ Does("take", s, retrieve(buffer, n))
    BY <1>5 DEF retrieveAsString
  <2>2. s \in Seq(Byte) /\ Len(s) = n
    BY <2>1, ArrayIsSeq
  <2>3. /\ op'.name = "take" /\ op'.bytes = s /\ op' = [name |-> "take", bytes |-> s]
        /\ readable' = contents(retrieve(buffer, n))
    BY <1>0, <2>1 DEF Does
  <2>4. CASE n <= Len(readable)
    <3>1. n \in 0..readableBytes(buffer)
      BY <1>0, <2>4
    <3>2. SubSeq(readable, 1, n) = s
      BY <1>0, <2>1, <2>2, <3>1, HandedOut
    <3>3. contents(retrieve(buffer, n)) = SubSeq(readable, n + 1, Len(readable))
      <4>1. (IF n < readableBytes(buffer) THEN n ELSE readableBytes(buffer)) = n
        BY <1>0, <3>1
      <4>2. QED
        BY <1>0, <4>1, RetrieveIsRest
    <3>4. BQ!Take(n)
      BY <2>3, <3>2, <3>3
    <3>5. n \in 0..Len(readable)
      BY <1>0, <3>1
    <3>6. QED
      BY <3>4, <3>5 DEF BQ!Next
  <2>5. CASE n > Len(readable)
    <3> DEFINE m == readableBytes(buffer)
    <3>1. m \in 0..m /\ m = Len(readable) /\ m \in Nat /\ m < n
      BY <1>0, <2>5
    <3>2. SubSeq(s, 1, Len(readable)) = readable
      BY <1>0, <2>1, <2>2, <3>1, HandsOutAll
    <3>3. contents(retrieve(buffer, n)) = <<>>
      BY <1>0, <3>1, Retrieved
    <3>4. BQ!Overtake
      BY <2>2, <2>3, <2>5, <3>2, <3>3 DEF BQ!Overtake
    <3>5. QED
      BY <3>4 DEF BQ!Next
  <2>6. QED
    BY <1>0, <2>4, <2>5
<1>6. CASE UNCHANGED vars
  BY <1>0, <1>6 DEF vars, BQ!vars
<1>7. \A n \in 0..(MaxReadable + 1) : n \in Nat
  BY <1>0
<1>8. QED
  BY <1>1, <1>2, <1>3, <1>4, <1>5, <1>6, <1>7 DEF Next

\* The Buffer is a FIFO of bytes: neither a compaction, nor a growth, nor the
\* split of a read over two iovecs loses, repeats or reorders any of them, and
\* retrieveAsString(len), which checks nothing, hands them out before whatever
\* else it reads.
THEOREM IsByteQueue == Spec => ByteQueueSpec
<1>1. Init => BQ!Init
  BY NewBufferSound, ReadableIsContents DEF Init, BQ!Init
<1>2. IInv /\ [Next]_vars => [BQ!Next]_(BQ!vars)
  BY NextRefines
<1>3. QED
  BY <1>1, <1>2, IInvAlways, PTL DEF Spec, ByteQueueSpec, BQ!Spec
=============================================================================

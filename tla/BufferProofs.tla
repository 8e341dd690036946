---------------------------- MODULE BufferProofs ----------------------------
(***************************************************************************)
(* Proofs about Buffer, for every size of the vector, of the room in front *)
(* and of extrabuf, and for calls of every length.                         *)
(***************************************************************************)
EXTENDS Buffer, SequenceTheorems, TLAPS

-----------------------------------------------------------------------------
(* The inductive invariant.                                                *)

\* The vector and the indices of a Buffer, none of whose assertions failed.
Sound(b) ==
    /\ b \in [data : Seq(Nat), readerIndex_ : Nat, writerIndex_ : Nat, ok : BOOLEAN]
    /\ b.ok = TRUE
    /\ kCheapPrepend <= b.readerIndex_
    /\ b.readerIndex_ <= b.writerIndex_
    /\ b.writerIndex_ <= Len(b.data)

\* The readable bytes of b are those of s, one by one.
Holds(b, s) ==
    /\ s \in Seq(Nat)
    /\ b.writerIndex_ = b.readerIndex_ + Len(s)
    /\ \A i \in 1..Len(s) : b.data[b.readerIndex_ + i] = s[i]

BufferInv == Sound(buf) /\ Holds(buf, stream) /\ fresh \in Nat

-----------------------------------------------------------------------------
(* What the operations of Buffer do.                                       *)

\* The constants are natural numbers.
LEMMA Sizes == /\ {kCheapPrepend, kInitialSize, MaxReadable, MaxLen} \subseteq Nat
               /\ kExtraBuf \in Nat
               /\ ByteValues \in Nat \ {0}
  BY BufferAssumption

\* A piece of n bytes from index r on.
LEMMA Piece ==
    ASSUME NEW data \in Seq(Nat), NEW r \in Nat, NEW n \in Nat, r + n <= Len(data)
    PROVE  /\ SubSeq(data, r + 1, r + n) \in Seq(Nat)
           /\ Len(SubSeq(data, r + 1, r + n)) = n
           /\ \A i \in 1..n : SubSeq(data, r + 1, r + n)[i] = data[r + i]
  <1>1. /\ r + 1 \in Int /\ r + n \in Int
        /\ \A i \in (r + 1)..(r + n) : data[i] \in Nat
    OBVIOUS
  <1>2. /\ SubSeq(data, r + 1, r + n) \in Seq(Nat)
        /\ Len(SubSeq(data, r + 1, r + n)) = IF r + 1 <= r + n THEN r + n - (r + 1) + 1 ELSE 0
        /\ \A i \in 1 .. r + n - (r + 1) + 1 :
              SubSeq(data, r + 1, r + n)[i] = data[r + 1 + i - 1]
    BY <1>1, SubSeqProperties
  <1>3. \A i \in 1..n : r + 1 + i - 1 = r + i
    OBVIOUS
  <1> QED
    BY <1>2, <1>3

\* Holds() says of a sequence what SubSeq() computes.
LEMMA HoldsIsReadable ==
    ASSUME NEW b, Sound(b), NEW s, Holds(b, s)
    PROVE  Readable(b) = s
  <1>1. /\ b.data \in Seq(Nat)
        /\ s \in Seq(Nat)
        /\ Len(s) \in Nat
        /\ b.readerIndex_ \in Nat
        /\ b.writerIndex_ = b.readerIndex_ + Len(s)
        /\ b.readerIndex_ + Len(s) <= Len(b.data)
    BY DEF Sound, Holds
  <1>2. /\ Readable(b) \in Seq(Nat)
        /\ Len(Readable(b)) = Len(s)
        /\ \A i \in 1..Len(s) : Readable(b)[i] = b.data[b.readerIndex_ + i]
    <2>1. Readable(b) = SubSeq(b.data, b.readerIndex_ + 1, b.readerIndex_ + Len(s))
      BY <1>1 DEF Readable
    <2>2. /\ SubSeq(b.data, b.readerIndex_ + 1, b.readerIndex_ + Len(s)) \in Seq(Nat)
          /\ Len(SubSeq(b.data, b.readerIndex_ + 1, b.readerIndex_ + Len(s))) = Len(s)
          /\ \A i \in 1..Len(s) : SubSeq(b.data, b.readerIndex_ + 1, b.readerIndex_ + Len(s))[i]
                                   = b.data[b.readerIndex_ + i]
      BY <1>1, Piece, Zenon
    <2> QED
      BY <2>1, <2>2, Zenon
  <1>3. \A i \in 1..Len(s) : Readable(b)[i] = s[i]
    BY <1>2 DEF Holds
  <1> QED
    BY <1>1, <1>2, <1>3, SeqEqual

\* std::copy() changes the bytes it is told to and no others.
LEMMA PutBytes ==
    ASSUME NEW data \in Seq(Nat), NEW at \in Nat, NEW bytes \in Seq(Nat)
    PROVE  /\ Put(data, at, bytes) \in Seq(Nat)
           /\ Len(Put(data, at, bytes)) = Len(data)
           /\ \A i \in 1..Len(bytes) :
                 at + i <= Len(data) => Put(data, at, bytes)[at + i] = bytes[i]
           /\ \A i \in 1..Len(data) : i <= at => Put(data, at, bytes)[i] = data[i]
  <1>1. /\ DOMAIN data = 1..Len(data) /\ DOMAIN bytes = 1..Len(bytes)
        /\ Len(data) \in Nat /\ Len(bytes) \in Nat
    OBVIOUS
  <1>2. \A i \in 1..Len(data) : i - at \in DOMAIN bytes <=> i > at /\ i <= at + Len(bytes)
    BY <1>1
  <1>3. Put(data, at, bytes) = [i \in 1..Len(data) |->
            IF i > at /\ i <= at + Len(bytes) THEN bytes[i - at] ELSE data[i]]
    BY <1>1, <1>2 DEF Put
  <1>4. ASSUME NEW i \in 1..Len(data)
        PROVE  (IF i > at /\ i <= at + Len(bytes) THEN bytes[i - at] ELSE data[i]) \in Nat
    BY <1>1
  <1>5. Put(data, at, bytes) \in [1..Len(data) -> Nat]
    BY <1>3, <1>4
  <1>6. Put(data, at, bytes) \in Seq(Nat)
    BY <1>1, <1>5, SeqDef
  <1>7. Len(Put(data, at, bytes)) = Len(data)
    BY <1>1, <1>5, <1>6, LenProperties
  <1>8. ASSUME NEW i \in 1..Len(bytes), at + i <= Len(data)
        PROVE  Put(data, at, bytes)[at + i] = bytes[i]
    <2>1. /\ at + i \in 1..Len(data) /\ at + i > at /\ at + i <= at + Len(bytes)
          /\ at + i - at = i
      BY <1>1, <1>8
    <2> QED
      BY <1>3, <2>1
  <1>9. ASSUME NEW i \in 1..Len(data), i <= at PROVE Put(data, at, bytes)[i] = data[i]
    BY <1>1, <1>3, <1>9
  <1> QED
    BY <1>6, <1>7, <1>8, <1>9

\* A larger vector holds what it held.
LEMMA ResizeKeeps ==
    ASSUME NEW b, Sound(b), NEW s, Holds(b, s), NEW size \in Nat, size >= Len(b.data)
    PROVE  /\ Sound(resize(b, size))
           /\ Holds(resize(b, size), s)
           /\ writableBytes(resize(b, size)) = size - b.writerIndex_
  <1> DEFINE data == [i \in 1..size |-> IF i \in DOMAIN b.data THEN b.data[i] ELSE 0]
             c == resize(b, size)
  <1>1. /\ b.data \in Seq(Nat) /\ Len(b.data) \in Nat
        /\ DOMAIN b.data = 1..Len(b.data)
        /\ b.readerIndex_ \in Nat /\ b.writerIndex_ \in Nat
        /\ b.writerIndex_ <= Len(b.data)
    BY DEF Sound
  <1>2. \A i \in 1..size : (IF i \in DOMAIN b.data THEN b.data[i] ELSE 0) \in Nat
    BY <1>1
  <1>3. data \in Seq(Nat) /\ Len(data) = size
    <2>1. data \in [1..size -> Nat]
      BY <1>2
    <2>2. data \in Seq(Nat)
      BY <2>1, SeqDef
    <2> QED
      BY <2>1, <2>2, LenProperties
  <1>4. /\ Sound(c) /\ c.data = data
        /\ c.readerIndex_ = b.readerIndex_ /\ c.writerIndex_ = b.writerIndex_
    <2>1. c = [b EXCEPT !.data = data]
      BY DEF resize
    <2> HIDE DEF data, c
    <2> QED
      BY <1>1, <1>3, <2>1, SMTT(40) DEF Sound
  <1>5. ASSUME NEW i \in 1..Len(s)
        PROVE  data[b.readerIndex_ + i] = b.data[b.readerIndex_ + i]
    <2>1. b.readerIndex_ + Len(s) <= Len(b.data) /\ Len(s) \in Nat
      BY <1>1 DEF Holds
    <2>2. b.readerIndex_ + i \in 1..size /\ b.readerIndex_ + i \in DOMAIN b.data
      BY <1>1, <2>1, SMTT(40)
    <2> QED
      BY <2>2
  <1>6. Holds(c, s)
    <2> HIDE DEF data, c
    <2> QED
      BY <1>4, <1>5 DEF Holds
  <1>7. writableBytes(c) = size - b.writerIndex_
    <2> HIDE DEF data, c
    <2> QED
      BY <1>3, <1>4 DEF writableBytes
  <1> QED
    BY <1>4, <1>6, <1>7

\* Moving the readable bytes to the front keeps them, and the room in front
\* becomes writable.
LEMMA MoveKeeps ==
    ASSUME NEW b, Sound(b), NEW s, Holds(b, s), kCheapPrepend < b.readerIndex_
    PROVE  /\ Sound(makeSpaceMoving(b))
           /\ Holds(makeSpaceMoving(b), s)
           /\ writableBytes(makeSpaceMoving(b))
                 = writableBytes(b) + prependableBytes(b) - kCheapPrepend
  <1> DEFINE data == Put(b.data, kCheapPrepend, Readable(b))
             c == makeSpaceMoving(b)
  <1>1. /\ b.data \in Seq(Nat) /\ Len(b.data) \in Nat
        /\ b.readerIndex_ \in Nat /\ b.writerIndex_ \in Nat
        /\ b.writerIndex_ <= Len(b.data)
        /\ kCheapPrepend \in Nat
        /\ s \in Seq(Nat) /\ Len(s) \in Nat
        /\ b.writerIndex_ = b.readerIndex_ + Len(s)
    BY Sizes DEF Sound, Holds
  <1>2. Readable(b) = s
    BY HoldsIsReadable
  <1>3. /\ data \in Seq(Nat) /\ Len(data) = Len(b.data)
        /\ \A i \in 1..Len(s) : kCheapPrepend + i <= Len(b.data) => data[kCheapPrepend + i] = s[i]
    <2>1. /\ Put(b.data, kCheapPrepend, s) \in Seq(Nat)
          /\ Len(Put(b.data, kCheapPrepend, s)) = Len(b.data)
          /\ \A i \in 1..Len(s) :
                kCheapPrepend + i <= Len(b.data) => Put(b.data, kCheapPrepend, s)[kCheapPrepend + i] = s[i]
      BY <1>1, PutBytes, ZenonT(60)
    <2> QED
      BY <1>2, <2>1, Zenon
  <1> HIDE DEF data
  <1>4. c = [b EXCEPT !.data = data, !.readerIndex_ = kCheapPrepend,
                      !.writerIndex_ = kCheapPrepend + Len(s)]
    <2>1. /\ (b.ok /\ kCheapPrepend < b.readerIndex_) = b.ok
          /\ readableBytes(b) = Len(s)
      BY <1>1 DEF Sound, readableBytes
    <2> QED
      BY <1>1, <2>1 DEF Sound, makeSpaceMoving, Asserting, data
  <1> HIDE DEF c
  <1>5. /\ Sound(c)
        /\ c.data = data /\ c.readerIndex_ = kCheapPrepend
        /\ c.writerIndex_ = kCheapPrepend + Len(s)
    <2>1. /\ kCheapPrepend + Len(s) \in Nat
          /\ kCheapPrepend <= kCheapPrepend
          /\ kCheapPrepend <= kCheapPrepend + Len(s)
          /\ kCheapPrepend + Len(s) <= Len(data)
      BY <1>1, <1>3, SMTT(40)
    <2> QED
      BY <1>1, <1>3, <1>4, <2>1 DEF Sound
  <1>6. ASSUME NEW i \in 1..Len(s)
        PROVE  data[kCheapPrepend + i] = s[i]
    <2>1. kCheapPrepend + i <= Len(b.data)
      BY <1>1
    <2> QED
      BY <1>3, <2>1
  <1>7. Holds(c, s)
    BY <1>1, <1>5, <1>6 DEF Holds
  <1>8. writableBytes(c) = writableBytes(b) + prependableBytes(b) - kCheapPrepend
    BY <1>1, <1>3, <1>5 DEF writableBytes, prependableBytes
  <1> QED
    BY <1>5, <1>7, <1>8 DEF c

\* ensureWritableBytes() makes the room, by moving or by growing, and the
\* assertions of both hold: makeSpace() moves only if something can be moved.
LEMMA EnsureKeeps ==
    ASSUME NEW b, Sound(b), NEW s, Holds(b, s), NEW len \in Nat
    PROVE  /\ Sound(ensureWritableBytes(b, len))
           /\ Holds(ensureWritableBytes(b, len), s)
           /\ writableBytes(ensureWritableBytes(b, len)) >= len
  <1> DEFINE c == IF writableBytes(b) < len THEN makeSpace(b, len) ELSE b
  <1>1. /\ Len(b.data) \in Nat /\ kCheapPrepend \in Nat
        /\ b.readerIndex_ \in Nat /\ b.writerIndex_ \in Nat
        /\ b.writerIndex_ <= Len(b.data)
        /\ writableBytes(b) = Len(b.data) - b.writerIndex_
        /\ prependableBytes(b) = b.readerIndex_
    BY Sizes DEF Sound, writableBytes, prependableBytes
  <1>2. /\ Sound(c) /\ Holds(c, s) /\ writableBytes(c) >= len
    <2>1. CASE writableBytes(b) >= len
      BY <1>1, <2>1
    <2>2. CASE /\ writableBytes(b) < len
               /\ writableBytes(b) + prependableBytes(b) < len + kCheapPrepend
      <3>1. /\ b.writerIndex_ + len \in Nat /\ b.writerIndex_ + len >= Len(b.data)
            /\ c = resize(b, b.writerIndex_ + len)
        BY <1>1, <2>2 DEF makeSpace
      <3> HIDE DEF c
      <3> DEFINE size == b.writerIndex_ + len
      <3> HIDE DEF size
      <3>2. size \in Nat /\ size >= Len(b.data) /\ c = resize(b, size)
        BY <3>1 DEF size
      <3>3. Sound(c) /\ Holds(c, s) /\ writableBytes(c) = size - b.writerIndex_
        BY <3>2, ResizeKeeps
      <3> QED
        BY <1>1, <3>3 DEF size
    <2>3. CASE /\ writableBytes(b) < len
               /\ ~(writableBytes(b) + prependableBytes(b) < len + kCheapPrepend)
      <3>1. /\ kCheapPrepend < b.readerIndex_
            /\ c = makeSpaceMoving(b)
        BY <1>1, <2>3 DEF makeSpace
      <3>2. /\ Sound(c) /\ Holds(c, s)
            /\ writableBytes(c) = writableBytes(b) + prependableBytes(b) - kCheapPrepend
        BY <3>1, MoveKeeps
      <3> QED
        BY <1>1, <2>3, <3>2
    <2> QED
      BY <1>1, <2>1, <2>2, <2>3
  <1> HIDE DEF c
  <1>3. Asserting(c, writableBytes(c) >= len) = c
    <2>1. (c.ok /\ writableBytes(c) >= len) = c.ok
      BY <1>2 DEF Sound
    <2> QED
      BY <1>2, <2>1 DEF Asserting, Sound
  <1>4. ensureWritableBytes(b, len) = c
    BY <1>3 DEF ensureWritableBytes, c
  <1> QED
    BY <1>2, <1>4

\* Bytes written where there is room for them are readable after the others.
LEMMA WriteAppends ==
    ASSUME NEW b, Sound(b), NEW s, Holds(b, s),
           NEW bytes \in Seq(Nat), Len(bytes) <= writableBytes(b)
    PROVE  /\ Sound(WriteAt(b, bytes))
           /\ Holds(WriteAt(b, bytes), s \o bytes)
  <1> DEFINE data == Put(b.data, b.writerIndex_, bytes)
             c == WriteAt(b, bytes)
  <1>1. /\ b.data \in Seq(Nat) /\ Len(b.data) \in Nat
        /\ b.readerIndex_ \in Nat /\ b.writerIndex_ \in Nat
        /\ s \in Seq(Nat) /\ Len(s) \in Nat /\ Len(bytes) \in Nat
        /\ b.writerIndex_ = b.readerIndex_ + Len(s)
        /\ b.writerIndex_ + Len(bytes) <= Len(b.data)
    BY DEF Sound, Holds, writableBytes
  <1>0. /\ b.writerIndex_ \in Nat /\ Len(b.data) \in Nat
        /\ b.readerIndex_ \in Nat /\ Len(s) \in Nat /\ Len(bytes) \in Nat
        /\ b.writerIndex_ = b.readerIndex_ + Len(s)
        /\ b.writerIndex_ + Len(bytes) <= Len(b.data)
    BY <1>1
  <1>2. /\ data \in Seq(Nat) /\ Len(data) = Len(b.data)
        /\ \A i \in 1..Len(bytes) :
              b.writerIndex_ + i <= Len(b.data) => data[b.writerIndex_ + i] = bytes[i]
        /\ \A i \in 1..Len(b.data) : i <= b.writerIndex_ => data[i] = b.data[i]
    BY <1>1, PutBytes, ZenonT(60)
  <1> HIDE DEF data
  <1>3. c = [b EXCEPT !.data = data, !.writerIndex_ = b.writerIndex_ + Len(bytes)]
    <2> DEFINE d == [b EXCEPT !.data = data]
    <2>1. /\ d.writerIndex_ = b.writerIndex_ /\ d.data = data /\ d.ok = b.ok
          /\ d \in [data : Seq(Nat), readerIndex_ : Nat, writerIndex_ : Nat, ok : BOOLEAN]
      BY <1>1, <1>2 DEF Sound
    <2>2. (d.ok /\ Len(bytes) <= writableBytes(d)) = d.ok
      BY <1>1, <1>2, <2>1 DEF Sound, writableBytes
    <2>3. c = hasWritten(d, Len(bytes))
      BY DEF WriteAt, data
    <2> HIDE DEF d, c
    <2>4. c = [d EXCEPT !.writerIndex_ = @ + Len(bytes)]
      BY <2>1, <2>2, <2>3 DEF hasWritten, Asserting
    <2> QED
      BY <1>1, <1>2, <2>1, <2>4 DEF d, Sound
  <1> HIDE DEF c
  <1>4. /\ Sound(c)
        /\ c.data = data /\ c.readerIndex_ = b.readerIndex_
        /\ c.writerIndex_ = b.writerIndex_ + Len(bytes)
    <2>1. /\ b.writerIndex_ + Len(bytes) \in Nat
          /\ b.readerIndex_ <= b.writerIndex_ + Len(bytes)
          /\ b.writerIndex_ + Len(bytes) <= Len(data)
      BY <1>0, <1>2
    <2> QED
      BY <1>2, <1>3, <2>1 DEF Sound
  <1>5. /\ s \o bytes \in Seq(Nat)
        /\ Len(s \o bytes) = Len(s) + Len(bytes)
        /\ \A i \in 1..Len(s) + Len(bytes) :
              (s \o bytes)[i] = IF i <= Len(s) THEN s[i] ELSE bytes[i - Len(s)]
    BY <1>1, ConcatProperties
  <1>6. ASSUME NEW i \in 1..Len(s) + Len(bytes)
        PROVE  data[b.readerIndex_ + i] = (s \o bytes)[i]
    <2>1. CASE i <= Len(s)
      <3>1. b.readerIndex_ + i \in 1..Len(b.data) /\ b.readerIndex_ + i <= b.writerIndex_
        BY <1>0, <2>1, SMTT(40)
      <3>2. data[b.readerIndex_ + i] = b.data[b.readerIndex_ + i]
        BY <1>2, <3>1
      <3>3. b.data[b.readerIndex_ + i] = s[i]
        BY <1>1, <2>1 DEF Holds
      <3> QED
        BY <1>5, <2>1, <3>2, <3>3
    <2>2. CASE i > Len(s)
      <3>1. /\ i - Len(s) \in 1..Len(bytes)
            /\ b.writerIndex_ + (i - Len(s)) <= Len(b.data)
            /\ b.writerIndex_ + (i - Len(s)) = b.readerIndex_ + i
        BY <1>0, <2>2, SMTT(40)
      <3>2. data[b.writerIndex_ + (i - Len(s))] = bytes[i - Len(s)]
        BY <1>2, <3>1
      <3> QED
        BY <1>1, <1>5, <2>2, <3>1, <3>2
    <2> QED
      BY <1>1, <2>1, <2>2
  <1>7. Holds(c, s \o bytes)
    <2>1. c.writerIndex_ = c.readerIndex_ + Len(s \o bytes)
      BY <1>1, <1>4, <1>5
    <2> QED
      BY <1>4, <1>5, <1>6, <2>1 DEF Holds
  <1> QED
    BY <1>4, <1>7 DEF c

\* append() is the two together.
LEMMA AppendAppends ==
    ASSUME NEW b, Sound(b), NEW s, Holds(b, s), NEW bytes \in Seq(Nat)
    PROVE  /\ Sound(append(b, bytes))
           /\ Holds(append(b, bytes), s \o bytes)
  <1> DEFINE c == ensureWritableBytes(b, Len(bytes))
  <1>1. Len(bytes) \in Nat
    OBVIOUS
  <1>2. Sound(c) /\ Holds(c, s) /\ writableBytes(c) >= Len(bytes)
    BY <1>1, EnsureKeeps
  <1> HIDE DEF c
  <1>3. writableBytes(c) \in Int
    BY <1>2 DEF Sound, writableBytes
  <1>4. Len(bytes) <= writableBytes(c)
    BY <1>1, <1>2, <1>3
  <1>5. Sound(WriteAt(c, bytes)) /\ Holds(WriteAt(c, bytes), s \o bytes)
    BY <1>2, <1>4, WriteAppends
  <1> QED
    BY <1>5 DEF append, c

\* readFd() puts the overflow from extrabuf behind what filled the tail.
LEMMA ReadFdAppends ==
    ASSUME NEW b, Sound(b), NEW s, Holds(b, s), NEW bytes \in Seq(Nat)
    PROVE  /\ Sound(readFd(b, bytes))
           /\ Holds(readFd(b, bytes), s \o bytes)
  <1> DEFINE writable == writableBytes(b)
             front == SubSeq(bytes, 1, writable)
             rest == SubSeq(bytes, writable + 1, Len(bytes))
  <1>1. writable \in Nat /\ Len(bytes) \in Nat /\ s \in Seq(Nat)
    BY DEF Sound, Holds, writableBytes
  <1>2. CASE Len(bytes) <= writable
    <2>1. Sound(WriteAt(b, bytes)) /\ Holds(WriteAt(b, bytes), s \o bytes)
      BY <1>2, WriteAppends
    <2> QED
      BY <1>2, <2>1 DEF readFd
  <1>3. CASE ~(Len(bytes) <= writable)
    <2>1. /\ front \in Seq(Nat) /\ Len(front) = writable
          /\ rest \in Seq(Nat)
      <3>1. /\ \A i \in 1..writable : bytes[i] \in Nat
            /\ \A i \in (writable + 1)..Len(bytes) : bytes[i] \in Nat
        BY <1>1, <1>3
      <3> QED
        BY <1>1, <3>1, SubSeqProperties
    <2>2. front \o rest = bytes
      <3>1. /\ 1 \in 1..Len(bytes) + 1 /\ writable \in 1 - 1..Len(bytes)
            /\ Len(bytes) \in writable..Len(bytes)
        BY <1>1, <1>3
      <3>2. front \o rest = SubSeq(bytes, 1, Len(bytes))
        BY <3>1, ConcatAdjacentSubSeq, Zenon
      <3> QED
        BY <3>2, SubSeqFull
    <2>3. readFd(b, bytes) = append(WriteAt(b, front), rest)
      BY <1>3 DEF readFd
    <2> HIDE DEF front, rest
    <2>4. Len(front) <= writableBytes(b)
      BY <1>1, <2>1
    <2>5. Sound(WriteAt(b, front)) /\ Holds(WriteAt(b, front), s \o front)
      BY <2>1, <2>4, WriteAppends
    <2>6. /\ Sound(append(WriteAt(b, front), rest))
          /\ Holds(append(WriteAt(b, front), rest), (s \o front) \o rest)
      BY <2>1, <2>5, AppendAppends
    <2>7. (s \o front) \o rest = s \o (front \o rest)
      BY <1>1, <2>1, ConcatAssociative, SMTT(40)
    <2> QED
      BY <2>2, <2>3, <2>6, <2>7
  <1> QED
    BY <1>2, <1>3

\* retrieve() takes bytes from the front; when it takes all of them the
\* indices go back to the beginning.
LEMMA RetrieveTakes ==
    ASSUME NEW b, Sound(b), NEW s, Holds(b, s), NEW len \in Nat, len <= Len(s)
    PROVE  /\ Sound(retrieve(b, len))
           /\ Holds(retrieve(b, len), SubSeq(s, len + 1, Len(s)))
  <1> DEFINE c == retrieve(b, len)
             t == SubSeq(s, len + 1, Len(s))
  <1>1. /\ b.data \in Seq(Nat) /\ Len(b.data) \in Nat
        /\ b.readerIndex_ \in Nat /\ b.writerIndex_ \in Nat
        /\ s \in Seq(Nat) /\ Len(s) \in Nat
        /\ b.writerIndex_ = b.readerIndex_ + Len(s)
        /\ b.writerIndex_ <= Len(b.data)
        /\ kCheapPrepend \in Nat /\ kCheapPrepend <= b.readerIndex_
        /\ readableBytes(b) = Len(s)
    BY Sizes DEF Sound, Holds, readableBytes
  <1>2. /\ t \in Seq(Nat) /\ Len(t) = Len(s) - len
        /\ \A i \in 1..Len(s) - len : t[i] = s[len + i]
    <2>1. Len(s) - len \in Nat /\ len + (Len(s) - len) = Len(s) /\ len + (Len(s) - len) <= Len(s)
      BY <1>1
    <2> DEFINE n == Len(s) - len
    <2> HIDE DEF n
    <2>2. n \in Nat /\ len + n = Len(s) /\ len + n <= Len(s)
      BY <2>1 DEF n
    <2>3. /\ SubSeq(s, len + 1, len + n) \in Seq(Nat)
          /\ Len(SubSeq(s, len + 1, len + n)) = n
          /\ \A i \in 1..n : SubSeq(s, len + 1, len + n)[i] = s[len + i]
      BY <1>1, <2>2, Piece, ZenonT(60)
    <2> QED
      BY <2>2, <2>3 DEF n
  <1> HIDE DEF t
  <1>3. CASE len < Len(s)
    <2>1. c = [b EXCEPT !.readerIndex_ = b.readerIndex_ + len]
      BY <1>1, <1>3 DEF retrieve
    <2> HIDE DEF c
    <2>2. /\ b.readerIndex_ + len \in Nat
          /\ kCheapPrepend <= b.readerIndex_ + len
          /\ b.readerIndex_ + len <= b.writerIndex_
      BY <1>1
    <2>3. /\ Sound(c)
          /\ c.data = b.data /\ c.readerIndex_ = b.readerIndex_ + len
          /\ c.writerIndex_ = b.writerIndex_
      BY <1>1, <2>1, <2>2 DEF Sound
    <2>4. ASSUME NEW i \in 1..Len(t) PROVE b.data[b.readerIndex_ + len + i] = t[i]
      <3>1. /\ len + i \in 1..Len(s) /\ i \in 1..Len(s) - len
            /\ b.readerIndex_ + (len + i) = b.readerIndex_ + len + i
        BY <1>1, <1>2, SMTT(40)
      <3>2. b.data[b.readerIndex_ + (len + i)] = s[len + i]
        BY <3>1 DEF Holds
      <3> QED
        BY <1>2, <3>1, <3>2
    <2>5. c.writerIndex_ = c.readerIndex_ + Len(t)
      <3>0. /\ b.readerIndex_ \in Int /\ len \in Int /\ Len(s) \in Int
            /\ b.writerIndex_ = b.readerIndex_ + Len(s)
        BY <1>1
      <3>1. b.writerIndex_ = b.readerIndex_ + len + (Len(s) - len)
        BY ONLY <3>0
      <3> QED
        BY <1>2, <2>3, <3>1
    <2> QED
      BY <1>2, <2>3, <2>4, <2>5 DEF Holds, c, t
  <1>4. CASE len = Len(s)
    <2>1. c = [b EXCEPT !.readerIndex_ = kCheapPrepend, !.writerIndex_ = kCheapPrepend]
      BY <1>1, <1>4 DEF retrieve, retrieveAll
    <2> HIDE DEF c
    <2>2. /\ Sound(c)
          /\ c.readerIndex_ = kCheapPrepend /\ c.writerIndex_ = kCheapPrepend
      <3>1. kCheapPrepend \in Nat /\ kCheapPrepend <= kCheapPrepend /\ kCheapPrepend <= Len(b.data)
        BY <1>1
      <3> QED
        BY <2>1, <3>1 DEF Sound
    <2>3. Len(t) = 0
      BY <1>1, <1>2, <1>4
    <2> QED
      BY <1>1, <1>2, <2>2, <2>3 DEF Holds, c, t
  <1> QED
    BY <1>1, <1>3, <1>4

\* unwrite() takes bytes back from the end.
LEMMA UnwriteTakesBack ==
    ASSUME NEW b, Sound(b), NEW s, Holds(b, s), NEW len \in Nat, len <= Len(s)
    PROVE  /\ Sound(unwrite(b, len))
           /\ Holds(unwrite(b, len), SubSeq(s, 1, Len(s) - len))
  <1> DEFINE c == unwrite(b, len)
             n == Len(s) - len
  <1>1. /\ Len(b.data) \in Nat /\ b.readerIndex_ \in Nat /\ b.writerIndex_ \in Nat
        /\ s \in Seq(Nat) /\ Len(s) \in Nat
        /\ b.writerIndex_ = b.readerIndex_ + Len(s)
        /\ b.writerIndex_ <= Len(b.data)
    BY DEF Sound, Holds
  <1>2. n \in Nat /\ n <= Len(s) /\ b.writerIndex_ - len = b.readerIndex_ + n
    BY <1>1
  <1>3. /\ c = [b EXCEPT !.writerIndex_ = b.writerIndex_ - len]
    BY DEF unwrite
  <1> HIDE DEF c, n
  <1>4. /\ SubSeq(s, 1, n) \in Seq(Nat) /\ Len(SubSeq(s, 1, n)) = n
        /\ \A i \in 1..n : SubSeq(s, 1, n)[i] = s[i]
    <2>1. \A i \in 1..n : s[i] \in Nat
      BY <1>1, <1>2, SMTT(40)
    <2>2. /\ SubSeq(s, 1, n) \in Seq(Nat)
          /\ Len(SubSeq(s, 1, n)) = IF 1 <= n THEN n - 1 + 1 ELSE 0
          /\ \A i \in 1 .. n - 1 + 1 : SubSeq(s, 1, n)[i] = s[1 + i - 1]
      BY <1>2, <2>1, SubSeqProperties
    <2> QED
      BY <1>2, <2>2
  <1>5. /\ Sound(c)
        /\ c.data = b.data /\ c.readerIndex_ = b.readerIndex_
        /\ c.writerIndex_ = b.readerIndex_ + n
    <2>1. /\ b.writerIndex_ - len \in Nat
          /\ b.readerIndex_ <= b.writerIndex_ - len
          /\ b.writerIndex_ - len <= Len(b.data)
      BY <1>1, <1>2
    <2> QED
      BY <1>2, <1>3, <2>1 DEF Sound
  <1>6. Holds(c, SubSeq(s, 1, n))
    <2>1. \A i \in 1..n : b.data[b.readerIndex_ + i] = s[i]
      BY <1>1, <1>2 DEF Holds
    <2> QED
      BY <1>4, <1>5, <2>1 DEF Holds
  <1> QED
    BY <1>5, <1>6 DEF c, n

\* The bytes written are bytes.
LEMMA FreshBytes ==
    ASSUME NEW len \in Nat, fresh \in Nat
    PROVE  /\ Fresh(len) \in Seq(Nat) /\ Len(Fresh(len)) = len
           /\ ((fresh + len - 1) % ByteValues) + 1 \in Nat
  <1>1. \A n \in Int : (n % ByteValues) + 1 \in Nat
    BY Sizes
  <1>2. Fresh(len) \in [1..len -> Nat]
    BY <1>1 DEF Fresh
  <1>3. Fresh(len) \in Seq(Nat)
    BY <1>2, SeqDef
  <1>4. Len(Fresh(len)) = len
    BY <1>2, <1>3, LenProperties
  <1> QED
    BY <1>1, <1>3, <1>4

-----------------------------------------------------------------------------
(* BufferInv is inductive.                                                 *)

\* A new buffer is empty.
LEMMA BufferInvInit == BufferInit => BufferInv
  <1> SUFFICES ASSUME BufferInit PROVE BufferInv
    OBVIOUS
  <1> DEFINE n == kCheapPrepend + kInitialSize
             data == [i \in 1..n |-> 0]
  <1>1. n \in Nat /\ kCheapPrepend \in Nat /\ kCheapPrepend <= n
    BY Sizes
  <1>2. data \in Seq(Nat) /\ Len(data) = n
    <2>1. data \in [1..n -> Nat]
      OBVIOUS
    <2>2. data \in Seq(Nat)
      BY <1>1, <2>1, SeqDef
    <2> QED
      BY <1>1, <2>1, <2>2, LenProperties
  <1>3. /\ buf = [data |-> data, readerIndex_ |-> kCheapPrepend,
                  writerIndex_ |-> kCheapPrepend, ok |-> TRUE]
        /\ stream = <<>> /\ fresh = 0
    BY DEF BufferInit
  <1> HIDE DEF n, data
  <1>4. Sound(buf)
    BY <1>1, <1>2, <1>3 DEF Sound
  <1>5. Holds(buf, stream)
    BY <1>1, <1>3 DEF Holds
  <1> QED
    BY <1>3, <1>4, <1>5 DEF BufferInv

\* Every call of the interface keeps it.
LEMMA BufferInvStep == BufferInv /\ [BufferNext]_bufferVars => BufferInv'
  <1> SUFFICES ASSUME BufferInv, [BufferNext]_bufferVars PROVE BufferInv'
    OBVIOUS
  <1>0. Sound(buf) /\ Holds(buf, stream) /\ fresh \in Nat
    BY DEF BufferInv
  <1>1. \A len \in Lengths : len \in Nat
    BY Sizes DEF Lengths
  <1>2. readableBytes(buf) = Len(stream)
    BY <1>0 DEF Sound, Holds, readableBytes
  <1>3. ASSUME NEW len \in Nat, NEW b, Sound(b), Holds(b, stream \o Fresh(len)), Wrote(len, b)
        PROVE  BufferInv'
    BY <1>0, <1>3, FreshBytes DEF Wrote, BufferInv
  <1>4. ASSUME NEW len \in Lengths, AppendBytes(len) PROVE BufferInv'
    <2>1. /\ Sound(append(buf, Fresh(len)))
          /\ Holds(append(buf, Fresh(len)), stream \o Fresh(len))
      BY <1>0, <1>1, FreshBytes, AppendAppends
    <2> QED
      BY <1>1, <1>3, <1>4, <2>1 DEF AppendBytes
  <1>5. ASSUME NEW len \in Lengths, NEW room \in Lengths, EnsureAndWrite(room, len)
        PROVE  BufferInv'
    <2> DEFINE c == ensureWritableBytes(buf, room)
    <2>1. Sound(c) /\ Holds(c, stream) /\ writableBytes(c) >= room
      BY <1>0, <1>1, EnsureKeeps
    <2>2. Fresh(len) \in Seq(Nat) /\ Len(Fresh(len)) = len
      BY <1>0, <1>1, FreshBytes
    <2>3. len < room /\ Wrote(len, WriteAt(c, Fresh(len)))
      BY <1>5 DEF EnsureAndWrite
    <2> HIDE DEF c
    <2>4. writableBytes(c) \in Int
      BY <2>1 DEF Sound, writableBytes
    <2>5. Len(Fresh(len)) <= writableBytes(c)
      BY <1>1, <2>1, <2>2, <2>3, <2>4
    <2>6. Sound(WriteAt(c, Fresh(len))) /\ Holds(WriteAt(c, Fresh(len)), stream \o Fresh(len))
      BY <2>1, <2>2, <2>5, WriteAppends
    <2> QED
      BY <1>1, <1>3, <2>3, <2>6
  <1>6. ASSUME NEW len \in Lengths, ReadFd(len) PROVE BufferInv'
    <2>1. /\ Sound(readFd(buf, Fresh(len)))
          /\ Holds(readFd(buf, Fresh(len)), stream \o Fresh(len))
      BY <1>0, <1>1, FreshBytes, ReadFdAppends
    <2> QED
      BY <1>1, <1>3, <1>6, <2>1 DEF ReadFd
  <1>7. ASSUME NEW len \in Lengths, Retrieve(len) PROVE BufferInv'
    <2>1. len \in Nat /\ len <= Len(stream)
      BY <1>1, <1>2, <1>7 DEF Retrieve
    <2>2. /\ Sound(retrieve(buf, len))
          /\ Holds(retrieve(buf, len), SubSeq(stream, len + 1, Len(stream)))
      BY <1>0, <2>1, RetrieveTakes
    <2> QED
      BY <1>0, <1>7, <2>2 DEF Retrieve, BufferInv
  <1>8. ASSUME NEW len \in Lengths, Unwrite(len) PROVE BufferInv'
    <2>1. len \in Nat /\ len <= Len(stream)
      BY <1>1, <1>2, <1>8 DEF Unwrite
    <2>2. /\ Sound(unwrite(buf, len))
          /\ Holds(unwrite(buf, len), SubSeq(stream, 1, Len(stream) - len))
      BY <1>0, <2>1, UnwriteTakesBack
    <2> QED
      BY <1>0, <1>8, <2>2 DEF Unwrite, BufferInv
  <1>9. CASE UNCHANGED bufferVars
    BY <1>0, <1>9 DEF bufferVars, BufferInv
  <1> QED
    BY <1>4, <1>5, <1>6, <1>7, <1>8, <1>9 DEF BufferNext

-----------------------------------------------------------------------------
(* The invariant of Buffer.                                                *)

\* A Buffer of any size is a queue of bytes: whatever calls append to it, read
\* a socket into it, retrieve and take back, and whether it moves or grows,
\* the readable bytes are those put in and not taken out, in order, and no
\* assertion of Buffer fails.
THEOREM BufferIsAQueue == BufferSpec => []BufferIsQueue
  <1>1. BufferInv => BufferIsQueue
    BY HoldsIsReadable DEF BufferInv, BufferIsQueue, IndicesInRange, Sound
  <1> QED
    BY <1>1, BufferInvInit, BufferInvStep, PTL DEF BufferSpec
=============================================================================

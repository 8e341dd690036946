------------------------------- MODULE Buffer -------------------------------
(***************************************************************************)
(* net/Buffer: a byte queue in one vector.  The bytes in                   *)
(* [readerIndex_, writerIndex_) are readable; what was read before them is *)
(* reused by moving the readable bytes back to kCheapPrepend, or, when     *)
(* that does not make room, the vector grows.  readFd() scatters its input *)
(* over the writable tail and a second array and appends the overflow.     *)
(*                                                                         *)
(* Indices count from 0 as in the code; the vector is a sequence.          *)
(***************************************************************************)
EXTENDS Integers, Sequences

CONSTANTS
    kCheapPrepend,   \* bytes kept free in front
    kInitialSize,    \* bytes writable at first
    kExtraBuf,       \* sizeof extrabuf in readFd()
    MaxReadable,     \* bound on the bytes held at a time
    MaxLen,          \* bound on the length of one call
    ByteValues       \* byte values 1..ByteValues are written in turn, 0 fills

ASSUME BufferAssumption ==
    /\ kCheapPrepend \in Nat
    /\ kInitialSize \in Nat
    /\ {kExtraBuf, ByteValues} \subseteq Nat \ {0}
    /\ {MaxReadable, MaxLen} \subseteq Nat

VARIABLES
    buf,     \* [data, readerIndex_, writerIndex_, and whether assertions held]
    stream,  \* what was put in and has neither been retrieved nor unwritten
    fresh    \* the byte written last

bufferVars == <<buf, stream, fresh>>

readableBytes(b) == b.writerIndex_ - b.readerIndex_
writableBytes(b) == Len(b.data) - b.writerIndex_
prependableBytes(b) == b.readerIndex_

Readable(b) == SubSeq(b.data, b.readerIndex_ + 1, b.writerIndex_)

\* std::copy of bytes to data, from index at on.
Put(data, at, bytes) ==
    [i \in DOMAIN data |->
        IF i - at \in DOMAIN bytes THEN bytes[i - at] ELSE data[i]]

Asserting(b, p) == [b EXCEPT !.ok = @ /\ p]

resize(b, size) ==
    [b EXCEPT !.data = [i \in 1..size |-> IF i \in DOMAIN @ THEN @[i] ELSE 0]]

makeSpaceMoving(b) ==
    [Asserting(b, kCheapPrepend < b.readerIndex_) EXCEPT
        !.data = Put(@, kCheapPrepend, Readable(b)),
        !.readerIndex_ = kCheapPrepend,
        !.writerIndex_ = kCheapPrepend + readableBytes(b)]

\* Mutant: the bytes kept free in front are counted as room.
makeSpaceEager(b, len) ==
    IF writableBytes(b) + prependableBytes(b) < len
    THEN resize(b, b.writerIndex_ + len)
    ELSE makeSpaceMoving(b)

makeSpace(b, len) ==
    IF writableBytes(b) + prependableBytes(b) < len + kCheapPrepend
    THEN resize(b, b.writerIndex_ + len)
    ELSE makeSpaceMoving(b)

ensureWritableBytes(b, len) ==
    LET c == IF writableBytes(b) < len THEN makeSpace(b, len) ELSE b
    IN  Asserting(c, writableBytes(c) >= len)

hasWritten(b, len) ==
    [Asserting(b, len <= writableBytes(b)) EXCEPT !.writerIndex_ = @ + len]

WriteAt(b, bytes) ==
    hasWritten([b EXCEPT !.data = Put(@, b.writerIndex_, bytes)], Len(bytes))

append(b, bytes) == WriteAt(ensureWritableBytes(b, Len(bytes)), bytes)

retrieveAll(b) ==
    [b EXCEPT !.readerIndex_ = kCheapPrepend, !.writerIndex_ = kCheapPrepend]

retrieve(b, len) ==
    IF len < readableBytes(b)
    THEN [b EXCEPT !.readerIndex_ = @ + len]
    ELSE retrieveAll(b)

unwrite(b, len) == [b EXCEPT !.writerIndex_ = @ - len]

\* readv() has filled the writable tail first, and then extrabuf.
readFd(b, bytes) ==
    LET writable == writableBytes(b)
    IN  IF Len(bytes) <= writable
        THEN WriteAt(b, bytes)
        ELSE append(WriteAt(b, SubSeq(bytes, 1, writable)),
                    SubSeq(bytes, writable + 1, Len(bytes)))

\* What one readv() can return: extrabuf is offered only while the tail is
\* shorter than it.
readvCapacity(b) ==
    writableBytes(b)
        + IF writableBytes(b) < kExtraBuf THEN kExtraBuf ELSE 0

-----------------------------------------------------------------------------
BufferInit ==
    /\ buf = [data |-> [i \in 1..(kCheapPrepend + kInitialSize) |-> 0],
              readerIndex_ |-> kCheapPrepend, writerIndex_ |-> kCheapPrepend,
              ok |-> TRUE]
    /\ stream = <<>>
    /\ fresh = 0

Fresh(len) == [i \in 1..len |-> ((fresh + i - 1) % ByteValues) + 1]

Lengths == 1..MaxLen

\* The bytes put in are new ones, and the buffer becomes b.
Wrote(len, b) ==
    /\ Len(stream) + len <= MaxReadable
    /\ buf' = b
    /\ stream' = stream \o Fresh(len)
    /\ fresh' = ((fresh + len - 1) % ByteValues) + 1

AppendBytes(len) == Wrote(len, append(buf, Fresh(len)))

\* ensureWritableBytes() and then fewer bytes through beginWrite().
EnsureAndWrite(room, len) ==
    /\ len < room
    /\ Wrote(len, WriteAt(ensureWritableBytes(buf, room), Fresh(len)))

ReadFd(len) ==
    /\ len <= readvCapacity(buf)
    /\ Wrote(len, readFd(buf, Fresh(len)))

Retrieve(len) ==
    /\ len <= readableBytes(buf)
    /\ buf' = retrieve(buf, len)
    /\ stream' = SubSeq(stream, len + 1, Len(stream))
    /\ UNCHANGED fresh

Unwrite(len) ==
    /\ len <= readableBytes(buf)
    /\ buf' = unwrite(buf, len)
    /\ stream' = SubSeq(stream, 1, Len(stream) - len)
    /\ UNCHANGED fresh

BufferNext ==
    \E len \in Lengths :
        \/ AppendBytes(len)
        \/ \E room \in Lengths : EnsureAndWrite(room, len)
        \/ ReadFd(len)
        \/ Retrieve(len)
        \/ Unwrite(len)

BufferSpec == BufferInit /\ [][BufferNext]_bufferVars

-----------------------------------------------------------------------------
\* The indices stay in order and inside the vector, and the room in front
\* is never used for data.
IndicesInRange ==
    /\ kCheapPrepend <= buf.readerIndex_
    /\ buf.readerIndex_ <= buf.writerIndex_
    /\ buf.writerIndex_ <= Len(buf.data)

\* However calls that append, read a socket, retrieve and take back are mixed,
\* the readable bytes are those put in, in order, without the ones retrieved:
\* no makeSpace(), whether it moves or grows, and no overflow of readFd() loses
\* or repeats a byte, and none of Buffer's assertions fails.
BufferIsQueue ==
    /\ buf.ok
    /\ IndicesInRange
    /\ Readable(buf) = stream
=============================================================================

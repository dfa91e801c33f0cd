------------------------------- MODULE Buffer -------------------------------
(***************************************************************************)
(* muduo::net::Buffer (src/muduo/net/Buffer.h, Buffer.cc): a vector with a *)
(* reader and a writer index, and room before the reader index to prepend  *)
(* a length.  A byte is a digit of base Base, so that integers of a few    *)
(* bytes keep their sign and their wrap-around in a small instance.        *)
(***************************************************************************)
EXTENDS Integers, Sequences

CONSTANTS Base,            \* 256 in the code
          kCheapPrepend, kInitialSize,
          ExtraBuf,        \* sizeof extrabuf
          Width,           \* bytes of an integer
          MaxSize          \* bound: bytes that the vector grows to

ASSUME BufferAssumption ==
    /\ Base \in Nat \ {0, 1} /\ Width \in Nat \ {0}
    /\ \A k \in 0..Width : Base^k \in Nat \ {0}
    /\ kCheapPrepend \in Nat /\ kInitialSize \in Nat
    /\ ExtraBuf \in Nat /\ MaxSize \in Nat

VARIABLES buffer_, readerIndex_, writerIndex_

bufferVars == <<buffer_, readerIndex_, writerIndex_>>

Byte == 0..(Base - 1)
Zeros(n) == [i \in 1..n |-> 0]

\* The vector holds bytes and the indices are unsigned.
BufferTypeOK ==
    buffer_ \in Seq(Byte) /\ readerIndex_ \in Nat /\ writerIndex_ \in Nat

BufferInit ==
    /\ buffer_ = Zeros(kCheapPrepend + kInitialSize)
    /\ readerIndex_ = kCheapPrepend
    /\ writerIndex_ = kCheapPrepend

readableBytes == writerIndex_ - readerIndex_
writableBytes == Len(buffer_) - writerIndex_
prependableBytes == readerIndex_
Contents == SubSeq(buffer_, readerIndex_ + 1, writerIndex_)

\* The vector b with the bytes xs written from index k on.
Put(b, k, xs) == [i \in 1..Len(b) |-> IF i > k /\ i <= k + Len(xs) THEN xs[i - k] ELSE b[i]]

-----------------------------------------------------------------------------
(* Integers in network byte order: hostToNetwork, networkToHost.           *)
Ints == -(Base^Width \div 2)..((Base^Width - 1) \div 2)

\* Fault: the bytes are left in the order of a little-endian host, or are not
\* cut to a byte.
HostOrder(x) == [i \in 1..Width |-> (x \div Base^(i - 1)) % Base]
WideDigits(x) == [i \in 1..Width |-> x \div Base^(Width - i)]

NetworkOrder(x) == [i \in 1..Width |-> (x \div Base^(Width - i)) % Base]

\* The unsigned value of the first k bytes, and peekInt.
Unsigned(xs) == LET f[k \in 0..Width] == IF k = 0 THEN 0 ELSE f[k - 1] * Base + xs[k]
                IN f[Width]

peekInt(xs) == LET u == Unsigned(xs) IN
               IF u > (Base^Width - 1) \div 2 THEN u - Base^Width ELSE u

-----------------------------------------------------------------------------
(* makeSpace and the operations, for a vector b with indices r and w.      *)

\* Fault: the room kept for prepending is not counted.
MustGrowLate(b, r, w, len) == (Len(b) - w) + r < len

MustGrow(b, r, w, len) == (Len(b) - w) + r < len + kCheapPrepend

\* append() of xs: ensureWritableBytes, makeSpace, copy, hasWritten.
Appended(b, r, w, xs) ==
    LET grown == b \o Zeros(w + Len(xs) - Len(b))
        moved == Put(b, kCheapPrepend, SubSeq(b, r + 1, w))
        w2 == kCheapPrepend + (w - r) IN
    IF Len(b) - w >= Len(xs)
    THEN [buf |-> Put(b, w, xs), reader |-> r, writer |-> w + Len(xs)]
    ELSE IF MustGrow(b, r, w, Len(xs))
    THEN [buf |-> Put(grown, w, xs), reader |-> r, writer |-> w + Len(xs)]
    ELSE [buf |-> Put(moved, w2, xs), reader |-> kCheapPrepend, writer |-> w2 + Len(xs)]

Becomes(s) ==
    /\ Len(s.buf) <= MaxSize
    /\ buffer_' = s.buf /\ readerIndex_' = s.reader /\ writerIndex_' = s.writer

append(xs) == Becomes(Appended(buffer_, readerIndex_, writerIndex_, xs))

appendInt(x) == append(NetworkOrder(x))

\* Fault: retrieving everything resets one index only.
ResetReader == readerIndex_' = kCheapPrepend /\ UNCHANGED writerIndex_

retrieveAll == readerIndex_' = kCheapPrepend /\ writerIndex_' = kCheapPrepend

retrieve(n) ==
    /\ n <= readableBytes
    /\ IF n < readableBytes
       THEN readerIndex_' = readerIndex_ + n /\ UNCHANGED writerIndex_
       ELSE retrieveAll
    /\ UNCHANGED buffer_

prepend(xs) ==
    /\ Len(xs) <= prependableBytes
    /\ readerIndex_' = readerIndex_ - Len(xs)
    /\ buffer_' = Put(buffer_, readerIndex_ - Len(xs), xs)
    /\ UNCHANGED writerIndex_

prependInt(x) == prepend(NetworkOrder(x))

unwrite(n) ==
    /\ n <= readableBytes
    /\ writerIndex_' = writerIndex_ - n
    /\ UNCHANGED <<buffer_, readerIndex_>>

\* A new buffer, with ensureWritableBytes(readableBytes() + reserve), takes
\* the contents and is swapped in.
shrink(reserve) ==
    LET need == readableBytes + reserve
        fresh == Zeros(kCheapPrepend + kInitialSize)
        wide == IF kInitialSize >= need THEN fresh
                ELSE Zeros(kCheapPrepend + need) IN
    Becomes(Appended(wide, kCheapPrepend, kCheapPrepend, Contents))

\* readv into the vector and, unless there is room enough, into extrabuf.
readFd(xs) ==
    LET writable == writableBytes
        room == IF writable < ExtraBuf THEN writable + ExtraBuf ELSE writable
        inside == SubSeq(xs, 1, writable)
        extra == SubSeq(xs, writable + 1, Len(xs))
        full == Put(buffer_, writerIndex_, inside) IN
    /\ Len(xs) <= room
    /\ IF Len(xs) <= writable
       THEN /\ buffer_' = Put(buffer_, writerIndex_, xs)
            /\ writerIndex_' = writerIndex_ + Len(xs)
            /\ UNCHANGED readerIndex_
       ELSE Becomes(Appended(full, readerIndex_, Len(full), extra))

\* findCRLF and retrieveUntil: a line ends with the bytes CR and LF.
CR == 1
LF == 0

findCRLF == {i \in 1..(readableBytes - 1) : Contents[i] = CR /\ Contents[i + 1] = LF}

retrieveLine ==
    \E i \in findCRLF : (\A j \in findCRLF : i <= j) /\ retrieve(i + 1)

Inputs == UNION {[1..n -> Byte] : n \in 1..(Width + 1)}

BufferNext ==
    \/ \E xs \in Inputs : append(xs) \/ prepend(xs) \/ readFd(xs)
    \/ \E x \in Ints : appendInt(x) \/ prependInt(x)
    \/ \E n \in 0..readableBytes : retrieve(n) \/ unwrite(n)
    \/ \E n \in 0..Width : shrink(n)
    \/ retrieveLine

BufferSpec == BufferInit /\ [][BufferNext]_bufferVars

-----------------------------------------------------------------------------
(***************************************************************************)
(* The indices are ordered as the comment of the class draws them          *)
(* (Buffer.h:40), after any moves and growth.                              *)
(***************************************************************************)
IndicesOrdered == readerIndex_ <= writerIndex_ /\ writerIndex_ <= Len(buffer_)

\* A step of this buffer: TLC looks no further in steps of other parts.
Moves == bufferVars' # bufferVars

(***************************************************************************)
(* Bytes come out as they went in: append and readFd add at the end of the *)
(* contents, prepend at the front, retrieve and unwrite take away, shrink  *)
(* changes nothing, whether makeSpace moves, grows or does neither         *)
(* (Buffer.h:390) and wherever readFd splits its input (Buffer.cc:43).     *)
(***************************************************************************)
ContentsKept ==
    Moves =>
       /\ \A xs \in Inputs :
             /\ append(xs) \/ readFd(xs) => Contents' = Contents \o xs
             /\ prepend(xs) => Contents' = xs \o Contents
       /\ \A n \in 0..readableBytes :
             /\ retrieve(n) => Contents' = SubSeq(Contents, n + 1, readableBytes)
             /\ unwrite(n) => Contents' = SubSeq(Contents, 1, readableBytes - n)
       /\ \A n \in 0..Width : shrink(n) => Contents' = Contents

(***************************************************************************)
(* An integer that is appended to an empty buffer or prepended is the one  *)
(* that peekInt reads, negative or not (Buffer.h:224, :290, :328), and its *)
(* first byte on the wire is the most significant one.                     *)
(***************************************************************************)
IntsRoundTrip ==
    Moves =>
       \A x \in Ints :
          prependInt(x) \/ (readableBytes = 0 /\ appendInt(x)) =>
              /\ peekInt(Contents') = x
              /\ Contents'[1] >= (Base + 1) \div 2 <=> x < 0

(***************************************************************************)
(* The types of a buffer and the order of its indices.                     *)
(***************************************************************************)
BufferInv ==
    /\ BufferTypeOK
    /\ IndicesOrdered

(***************************************************************************)
(* Bytes and integers come out of the buffer as they went in.              *)
(***************************************************************************)
BytesKept ==
    [][ContentsKept /\ IntsRoundTrip]_bufferVars
=============================================================================

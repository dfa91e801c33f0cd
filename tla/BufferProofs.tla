---------------------------- MODULE BufferProofs ----------------------------
(***************************************************************************)
(* Theorems about Buffer, for every initial size, every room to prepend    *)
(* and every size of extrabuf: the indices stay ordered inside the vector, *)
(* and bytes come out as they went in.                                     *)
(***************************************************************************)
EXTENDS Buffer, SequenceTheorems, TLAPS

-----------------------------------------------------------------------------
(* The vector.                                                             *)

LEMMA BytesNonEmpty == 0 \in Byte
BY BufferAssumption DEF Byte

LEMMA ZerosType ==
    ASSUME NEW n \in Nat
    PROVE  Zeros(n) \in Seq(Byte) /\ Len(Zeros(n)) = n
<1>1. Zeros(n) \in [1..n -> Byte] /\ DOMAIN Zeros(n) = 1..n
    BY BytesNonEmpty DEF Zeros
<1> QED
    BY <1>1, LenProperties

\* What Put leaves of a vector.
LEMMA PutType ==
    ASSUME NEW b \in Seq(Byte), NEW k \in Nat, NEW xs \in Seq(Byte)
    PROVE  /\ Put(b, k, xs) \in Seq(Byte) /\ Len(Put(b, k, xs)) = Len(b)
           /\ \A i \in 1..Len(b) : Put(b, k, xs)[i] =
                 IF i > k /\ i <= k + Len(xs) THEN xs[i - k] ELSE b[i]
<1>1. /\ Len(b) \in Nat /\ Len(xs) \in Nat
      /\ \A i \in 1..Len(b) : b[i] \in Byte
      /\ \A i \in 1..Len(xs) : xs[i] \in Byte
    BY LenProperties
<1>2. \A i \in 1..Len(b) : (IF i > k /\ i <= k + Len(xs) THEN xs[i - k] ELSE b[i]) \in Byte
    BY <1>1
<1>3. Put(b, k, xs) \in [1..Len(b) -> Byte] /\ DOMAIN Put(b, k, xs) = 1..Len(b)
    BY <1>2 DEF Put
<1>4. Put(b, k, xs) \in Seq(Byte) /\ Len(Put(b, k, xs)) = Len(b)
    BY <1>1, <1>3, LenProperties
<1> QED
    BY <1>4 DEF Put

\* The bytes between two indices of a vector.
LEMMA SliceType ==
    ASSUME NEW b \in Seq(Byte), NEW r \in Nat, NEW w \in Nat, r <= w, w <= Len(b)
    PROVE  /\ SubSeq(b, r + 1, w) \in Seq(Byte)
           /\ Len(SubSeq(b, r + 1, w)) = w - r
           /\ \A i \in 1..(w - r) : SubSeq(b, r + 1, w)[i] = b[r + i]
<1>1. Len(b) \in Nat /\ \A i \in 1..Len(b) : b[i] \in Byte
    BY LenProperties
<1>2. \A i \in (r + 1)..w : b[i] \in Byte
    BY <1>1
<1> QED
    BY <1>1, <1>2, SubSeqProperties

LEMMA InputType ==
    ASSUME NEW xs \in Inputs
    PROVE  xs \in Seq(Byte)
BY BufferAssumption DEF Inputs

LEMMA NetworkOrderType ==
    ASSUME NEW x \in Ints
    PROVE  NetworkOrder(x) \in Seq(Byte) /\ Len(NetworkOrder(x)) = Width
<1>1. x \in Int /\ Width \in Nat \ {0} /\ Base \in Nat \ {0, 1}
    BY BufferAssumption DEF Ints
<1>2. ASSUME NEW i \in 1..Width
      PROVE  (x \div Base^(Width - i)) % Base \in Byte
  <2>1. Width - i \in 0..Width
        BY <1>1
  <2> DEFINE p == Base^(Width - i)
  <2>2. p \in Nat \ {0}
        BY <2>1, BufferAssumption
  <2> HIDE DEF p
  <2>3. x \div p \in Int
        BY <1>1, <2>2
  <2> DEFINE d == x \div p
  <2> HIDE DEF d
  <2>4. d % Base \in 0..(Base - 1)
        BY <1>1, <2>3 DEF d
  <2> QED
        BY <2>4 DEF d, p, Byte
<1>3. NetworkOrder(x) \in [1..Width -> Byte] /\ DOMAIN NetworkOrder(x) = 1..Width
    BY <1>2 DEF NetworkOrder
<1> QED
    BY <1>1, <1>3, LenProperties

-----------------------------------------------------------------------------
(* append, in its three cases.                                             *)

\* BufferInv, and that the vector keeps the room for prepending: retrieveAll
\* sets both indices to kCheapPrepend whatever the vector has become.
Ordered(b, r, w) ==
    /\ b \in Seq(Byte) /\ r \in Nat /\ w \in Nat
    /\ r <= w /\ w <= Len(b)
    /\ kCheapPrepend <= Len(b)

\* The vector c holds the bytes old behind index q.
HoldsAt(c, q, old) == \A i \in 1..Len(old) : c[q + i] = old[i]

\* The bytes xs written at index v end up behind the bytes old.
PutsBehind(c, q, v, xs, old) ==
    /\ Ordered(Put(c, v, xs), q, v + Len(xs))
    /\ SubSeq(Put(c, v, xs), q + 1, v + Len(xs)) = old \o xs

\* They do when the vector has room for them.
LEMMA PutBehind ==
    ASSUME NEW c \in Seq(Byte), NEW q \in Nat, NEW v \in Nat, q <= v,
           NEW xs \in Seq(Byte), v + Len(xs) <= Len(c), kCheapPrepend <= Len(c),
           NEW old \in Seq(Byte), Len(old) = v - q,
           HoldsAt(c, q, old)
    PROVE  PutsBehind(c, q, v, xs, old)
<1> DEFINE p == Put(c, v, xs)
           n == Len(xs)
           z == SubSeq(p, q + 1, v + n)
           y == old \o xs
<1>1. /\ p \in Seq(Byte) /\ Len(p) = Len(c)
      /\ \A i \in 1..Len(c) : p[i] = IF i > v /\ i <= v + n THEN xs[i - v] ELSE c[i]
    BY PutType
<1>2. n \in Nat /\ Len(c) \in Nat /\ Len(old) \in Nat
    BY LenProperties
<1>3. /\ y \in Seq(Byte) /\ Len(y) = Len(old) + n
      /\ \A i \in 1..Len(old) + n : y[i] = IF i <= Len(old) THEN old[i] ELSE xs[i - Len(old)]
    BY ConcatProperties
<1> HIDE DEF p, n, y
<1>4. v + n \in Nat /\ q <= v + n /\ v + n <= Len(p)
    BY <1>1, <1>2 DEF n
<1>5. Ordered(p, q, v + n)
    BY <1>1, <1>4 DEF Ordered
<1>6. /\ z \in Seq(Byte) /\ Len(z) = (v + n) - q
      /\ \A i \in 1..((v + n) - q) : z[i] = p[q + i]
    BY <1>1, <1>4, SliceType, SMTT(30)
<1> HIDE DEF z
<1>7. Len(z) = Len(y)
    BY <1>2, <1>3, <1>6
<1>8. ASSUME NEW i \in 1..Len(z) PROVE z[i] = y[i]
  <2>1. /\ i \in Nat /\ i \in 1..((v + n) - q) /\ i \in 1..(Len(old) + n)
        /\ q + i \in 1..Len(c)
        BY <1>1, <1>2, <1>4, <1>6
  <2>2. z[i] = p[q + i]
        BY <1>6, <2>1
  <2>3. CASE i <= Len(old)
    <3>1. p[q + i] = c[q + i]
          BY <1>1, <1>2, <2>1, <2>3
    <3>2. y[i] = old[i]
          BY <1>3, <2>1, <2>3
    <3>3. i \in 1..Len(old)
          BY <1>2, <2>1, <2>3
    <3> QED
          BY <2>2, <3>1, <3>2, <3>3 DEF HoldsAt
  <2>4. CASE i > Len(old)
    <3>1. q + i > v /\ q + i <= v + n /\ (q + i) - v = i - Len(old)
          BY <1>2, <2>1, <2>4
    <3>2. p[q + i] = xs[(q + i) - v]
          BY <1>1, <2>1, <3>1
    <3>3. y[i] = xs[i - Len(old)]
          BY <1>2, <1>3, <2>1, <2>4, SMTT(30)
    <3> QED
          BY <2>2, <3>1, <3>2, <3>3
  <2> QED
        BY <1>2, <2>1, <2>3, <2>4
<1>9. z = y
    BY <1>3, <1>6, <1>7, <1>8, SeqEqual
<1> QED
    BY <1>5, <1>9 DEF p, n, z, y, PutsBehind

\* The buffer s is that of b, r and w with the bytes xs behind its own.
AppendsTo(s, b, r, w, xs) ==
    /\ Ordered(s.buf, s.reader, s.writer)
    /\ SubSeq(s.buf, s.reader + 1, s.writer) = SubSeq(b, r + 1, w) \o xs

\* Whether makeSpace moves, grows or does neither, the bytes between the
\* indices are followed by the new ones and the indices stay ordered.
LEMMA AppendedKeeps ==
    ASSUME NEW b, NEW r, NEW w, Ordered(b, r, w), NEW xs \in Seq(Byte)
    PROVE  AppendsTo(Appended(b, r, w, xs), b, r, w, xs)
<1> DEFINE old == SubSeq(b, r + 1, w)
           n == Len(xs)
<1>1. /\ b \in Seq(Byte) /\ r \in Nat /\ w \in Nat /\ r <= w /\ w <= Len(b)
      /\ kCheapPrepend <= Len(b)
      /\ Len(b) \in Nat /\ n \in Nat /\ kCheapPrepend \in Nat
    BY LenProperties, BufferAssumption DEF Ordered
<1>2. /\ old \in Seq(Byte) /\ Len(old) = w - r
      /\ \A i \in 1..(w - r) : old[i] = b[r + i]
    BY <1>1, SliceType
<1> HIDE DEF old
<1>5. CASE Len(b) - w >= n
  <2>1. PutsBehind(b, r, w, xs, old)
    <3>1. /\ b \in Seq(Byte) /\ r \in Nat /\ w \in Nat /\ r <= w
          /\ w + Len(xs) <= Len(b) /\ kCheapPrepend <= Len(b)
          /\ old \in Seq(Byte) /\ Len(old) = w - r
          BY <1>1, <1>2, <1>5
    <3>2. HoldsAt(b, r, old)
          BY <1>1, <1>2 DEF HoldsAt
    <3> QED
          BY <3>1, <3>2, PutBehind
  <2> QED
        BY <1>5, <2>1 DEF Appended, AppendsTo, PutsBehind, old
<1>6. CASE ~(Len(b) - w >= n) /\ MustGrow(b, r, w, n)
  <2> DEFINE z == Zeros(w + n - Len(b))
             grown == b \o z
  <2>1. z \in Seq(Byte) /\ Len(z) = w + n - Len(b)
    <3>1. w + n - Len(b) \in Nat
          BY <1>1, <1>6
    <3> QED
          BY <3>1, ZerosType
  <2> HIDE DEF z
  <2>2. /\ grown \in Seq(Byte) /\ Len(grown) = w + n
        /\ \A i \in 1..Len(b) : grown[i] = b[i]
    <3>1. /\ grown \in Seq(Byte) /\ Len(grown) = Len(b) + Len(z)
          /\ \A i \in 1..Len(b) + Len(z) : grown[i] = IF i <= Len(b) THEN b[i] ELSE z[i - Len(b)]
          BY <1>1, <2>1, ConcatProperties
    <3> HIDE DEF grown
    <3>2. Len(z) \in Nat
          BY <2>1, LenProperties
    <3> QED
          BY <1>1, <2>1, <3>1, <3>2
  <2> HIDE DEF grown
  <2>3. HoldsAt(grown, r, old)
    <3> SUFFICES ASSUME NEW i \in 1..Len(old) PROVE grown[r + i] = old[i]
          BY DEF HoldsAt
    <3>1. i \in 1..(w - r) /\ r + i \in 1..Len(b)
          BY <1>1, <1>2
    <3> QED
          BY <1>2, <2>2, <3>1
  <2>4. PutsBehind(grown, r, w, xs, old)
    <3>1. /\ r \in Nat /\ w \in Nat /\ r <= w /\ w + Len(xs) <= Len(grown)
          /\ kCheapPrepend <= Len(grown)
          /\ old \in Seq(Byte) /\ Len(old) = w - r
          BY <1>1, <1>2, <1>6, <2>2
    <3> QED
          BY <2>2, <2>3, <3>1, PutBehind
  <2> QED
        BY <1>6, <2>4 DEF Appended, AppendsTo, PutsBehind, old, grown, z
<1>7. CASE ~(Len(b) - w >= n) /\ ~MustGrow(b, r, w, n)
  <2> DEFINE moved == Put(b, kCheapPrepend, old)
             w2 == kCheapPrepend + (w - r)
  <2>1. /\ w2 \in Nat /\ w2 + n <= Len(b)
        BY <1>1, <1>7 DEF MustGrow
  <2>2. /\ moved \in Seq(Byte) /\ Len(moved) = Len(b)
        /\ \A i \in 1..Len(b) : moved[i] =
              IF i > kCheapPrepend /\ i <= kCheapPrepend + Len(old)
              THEN old[i - kCheapPrepend] ELSE b[i]
        BY <1>1, <1>2, PutType
  <2> HIDE DEF moved
  <2>3. HoldsAt(moved, kCheapPrepend, old)
    <3> SUFFICES ASSUME NEW i \in 1..Len(old) PROVE moved[kCheapPrepend + i] = old[i]
          BY DEF HoldsAt
    <3>1. i \in Nat \ {0} /\ i <= Len(old) /\ kCheapPrepend + i \in 1..Len(b)
          BY <1>1, <1>2, <2>1
    <3>2. (kCheapPrepend + i) - kCheapPrepend = i
          BY <1>1, <3>1
    <3> QED
          BY <1>1, <1>2, <2>2, <3>1, <3>2
  <2>4. PutsBehind(moved, kCheapPrepend, w2, xs, old)
    <3>1. /\ kCheapPrepend \in Nat /\ w2 \in Nat /\ kCheapPrepend <= w2
          /\ w2 + Len(xs) <= Len(moved) /\ kCheapPrepend <= Len(moved)
          /\ old \in Seq(Byte) /\ Len(old) = w2 - kCheapPrepend
          BY <1>1, <1>2, <2>1, <2>2
    <3> HIDE DEF w2
    <3> QED
          BY <2>2, <2>3, <3>1, PutBehind
  <2> QED
        BY <1>7, <2>4 DEF Appended, AppendsTo, PutsBehind, old, moved
<1> QED
    BY <1>5, <1>6, <1>7

-----------------------------------------------------------------------------
(* The operations.                                                         *)

Slice(b, r, w) == SubSeq(b, r + 1, w)

\* The slice of a vector that holds the bytes y there is y.
LEMMA SliceIs ==
    ASSUME NEW b, NEW r, NEW w, Ordered(b, r, w), NEW y \in Seq(Byte),
           Len(y) = w - r, HoldsAt(b, r, y)
    PROVE  Slice(b, r, w) = y
<1> DEFINE z == Slice(b, r, w)
<1>1. /\ z \in Seq(Byte) /\ Len(z) = w - r
      /\ \A i \in 1..(w - r) : z[i] = b[r + i]
    BY SliceType DEF Ordered, Slice
<1> HIDE DEF z
<1>2. \A i \in 1..Len(z) : z[i] = y[i]
    BY <1>1 DEF HoldsAt
<1>3. z = y
    BY <1>1, <1>2, SeqEqual
<1> QED
    BY <1>3 DEF z

VectorInv == Ordered(buffer_, readerIndex_, writerIndex_)

\* The readable bytes.
LEMMA ContentsType ==
    ASSUME VectorInv
    PROVE  /\ Contents \in Seq(Byte) /\ readableBytes \in Nat
           /\ Len(Contents) = readableBytes
           /\ HoldsAt(buffer_, readerIndex_, Contents)
<1>1. /\ buffer_ \in Seq(Byte) /\ readerIndex_ \in Nat /\ writerIndex_ \in Nat
      /\ readerIndex_ <= writerIndex_ /\ writerIndex_ <= Len(buffer_)
    BY DEF VectorInv, Ordered
<1>2. /\ Contents \in Seq(Byte) /\ Len(Contents) = readableBytes
      /\ \A i \in 1..readableBytes : Contents[i] = buffer_[readerIndex_ + i]
    BY <1>1, SliceType DEF Contents, readableBytes
<1>3. readableBytes \in Nat
    BY <1>1 DEF readableBytes
<1> QED
    BY <1>2, <1>3 DEF HoldsAt

LEMMA AppendKeeps ==
    ASSUME VectorInv, NEW xs \in Seq(Byte), append(xs)
    PROVE  VectorInv' /\ Contents' = Contents \o xs
<1> DEFINE s == Appended(buffer_, readerIndex_, writerIndex_, xs)
<1>1. AppendsTo(s, buffer_, readerIndex_, writerIndex_, xs)
    BY AppendedKeeps DEF VectorInv
<1> HIDE DEF s
<1>2. buffer_' = s.buf /\ readerIndex_' = s.reader /\ writerIndex_' = s.writer
    BY DEF append, Becomes, s
<1> QED
    BY <1>1, <1>2 DEF VectorInv, Contents, AppendsTo

LEMMA RetrieveKeeps ==
    ASSUME VectorInv, NEW n \in 0..readableBytes, retrieve(n)
    PROVE  VectorInv' /\ Contents' = SubSeq(Contents, n + 1, readableBytes)
<1>0. /\ buffer_ \in Seq(Byte) /\ readerIndex_ \in Nat /\ writerIndex_ \in Nat
      /\ readerIndex_ <= writerIndex_ /\ writerIndex_ <= Len(buffer_)
      /\ Len(buffer_) \in Nat /\ readableBytes = writerIndex_ - readerIndex_
      /\ kCheapPrepend \in Nat /\ kCheapPrepend <= Len(buffer_)
    BY LenProperties, BufferAssumption
       DEF VectorInv, Ordered, readableBytes
<1>1. /\ Contents \in Seq(Byte) /\ readableBytes \in Nat
      /\ Len(Contents) = readableBytes
      /\ HoldsAt(buffer_, readerIndex_, Contents)
    BY ContentsType
<1> DEFINE y == SubSeq(Contents, n + 1, readableBytes)
<1>2. /\ y \in Seq(Byte) /\ Len(y) = readableBytes - n
      /\ \A i \in 1..(readableBytes - n) : y[i] = Contents[n + i]
    BY <1>1, SliceType
<1> HIDE DEF y
<1>3. CASE n < readableBytes
  <2>1. /\ readerIndex_' = readerIndex_ + n /\ writerIndex_' = writerIndex_
        /\ buffer_' = buffer_
        BY <1>3 DEF retrieve
  <2>2. Ordered(buffer_', readerIndex_', writerIndex_')
        BY <1>0, <1>3, <2>1 DEF Ordered
  <2>3. HoldsAt(buffer_', readerIndex_', y)
    <3> SUFFICES ASSUME NEW i \in 1..Len(y) PROVE buffer_[(readerIndex_ + n) + i] = y[i]
          BY <2>1 DEF HoldsAt
    <3>1. i \in 1..(readableBytes - n) /\ n + i \in 1..Len(Contents)
          BY <1>1, <1>2
    <3>2. (readerIndex_ + n) + i = readerIndex_ + (n + i)
          BY <1>0, <1>1, <3>1
    <3> QED
          BY <1>1, <1>2, <3>1, <3>2 DEF HoldsAt
  <2>4. Len(y) = writerIndex_' - readerIndex_'
        BY <1>0, <1>2, <2>1
  <2>5. Slice(buffer_', readerIndex_', writerIndex_') = y
        BY <1>2, <2>2, <2>3, <2>4, SliceIs
  <2> QED
        BY <2>2, <2>5 DEF VectorInv, Contents, Slice, y
<1>4. CASE n = readableBytes
  <2>1. /\ readerIndex_' = kCheapPrepend /\ writerIndex_' = kCheapPrepend
        /\ buffer_' = buffer_
        BY <1>0, <1>1, <1>4 DEF retrieve, retrieveAll
  <2>2. VectorInv'
        BY <1>0, <2>1 DEF VectorInv, Ordered
  <2>3. Contents' = <<>>
    <3>1. kCheapPrepend < kCheapPrepend + 1
          BY <1>0
    <3> QED
          BY <1>0, <2>1, <3>1, SubSeqEmpty DEF Contents
  <2>4. y = <<>>
        BY <1>1, <1>2, <1>4, EmptySeq
  <2> QED
        BY <2>2, <2>3, <2>4 DEF y
<1> QED
    BY <1>1, <1>3, <1>4

LEMMA UnwriteKeeps ==
    ASSUME VectorInv, NEW n \in 0..readableBytes, unwrite(n)
    PROVE  VectorInv' /\ Contents' = SubSeq(Contents, 1, readableBytes - n)
<1>0. /\ buffer_ \in Seq(Byte) /\ readerIndex_ \in Nat /\ writerIndex_ \in Nat
      /\ readerIndex_ <= writerIndex_ /\ writerIndex_ <= Len(buffer_)
      /\ Len(buffer_) \in Nat /\ readableBytes = writerIndex_ - readerIndex_
      /\ kCheapPrepend \in Nat /\ kCheapPrepend <= Len(buffer_)
    BY LenProperties, BufferAssumption
       DEF VectorInv, Ordered, readableBytes
<1>1. /\ Contents \in Seq(Byte) /\ readableBytes \in Nat
      /\ Len(Contents) = readableBytes
      /\ HoldsAt(buffer_, readerIndex_, Contents)
    BY ContentsType
<1> DEFINE y == SubSeq(Contents, 1, readableBytes - n)
<1>2. /\ y \in Seq(Byte) /\ Len(y) = readableBytes - n
      /\ \A i \in 1..(readableBytes - n) : y[i] = Contents[i]
  <2> DEFINE k == readableBytes - n
  <2>1. k \in Nat /\ 0 <= k /\ k <= Len(Contents) /\ 0 + 1 = 1 /\ k - 0 = k
        BY <1>1
  <2> HIDE DEF k
  <2>2. /\ SubSeq(Contents, 0 + 1, k) \in Seq(Byte)
        /\ Len(SubSeq(Contents, 0 + 1, k)) = k - 0
        /\ \A i \in 1..(k - 0) : SubSeq(Contents, 0 + 1, k)[i] = Contents[0 + i]
        BY <1>1, <2>1, SliceType
  <2> QED
        BY <2>1, <2>2 DEF k
<1> HIDE DEF y
<1>3. /\ readerIndex_' = readerIndex_ /\ writerIndex_' = writerIndex_ - n
      /\ buffer_' = buffer_
    BY DEF unwrite
<1>4. Ordered(buffer_', readerIndex_', writerIndex_')
    BY <1>0, <1>3 DEF Ordered
<1>5. HoldsAt(buffer_', readerIndex_', y)
  <2> SUFFICES ASSUME NEW i \in 1..Len(y) PROVE buffer_[readerIndex_ + i] = y[i]
        BY <1>3 DEF HoldsAt
  <2>1. i \in 1..(readableBytes - n) /\ i \in 1..Len(Contents)
        BY <1>1, <1>2
  <2> QED
        BY <1>1, <1>2, <2>1 DEF HoldsAt
<1>6. Len(y) = writerIndex_' - readerIndex_'
    BY <1>0, <1>2, <1>3
<1>7. Slice(buffer_', readerIndex_', writerIndex_') = y
    BY <1>2, <1>4, <1>5, <1>6, SliceIs
<1> QED
    BY <1>4, <1>7 DEF VectorInv, Contents, Slice, y

LEMMA PrependKeeps ==
    ASSUME VectorInv, NEW xs \in Seq(Byte), prepend(xs)
    PROVE  VectorInv' /\ Contents' = xs \o Contents
<1> DEFINE n == Len(xs)
           k == readerIndex_ - n
           y == xs \o Contents
<1>0. /\ buffer_ \in Seq(Byte) /\ readerIndex_ \in Nat /\ writerIndex_ \in Nat
      /\ readerIndex_ <= writerIndex_ /\ writerIndex_ <= Len(buffer_)
      /\ Len(buffer_) \in Nat /\ readableBytes = writerIndex_ - readerIndex_
      /\ kCheapPrepend \in Nat /\ kCheapPrepend <= Len(buffer_) /\ n \in Nat
    BY LenProperties, BufferAssumption
       DEF VectorInv, Ordered, readableBytes
<1>1. /\ Contents \in Seq(Byte) /\ readableBytes \in Nat
      /\ Len(Contents) = readableBytes
      /\ HoldsAt(buffer_, readerIndex_, Contents)
    BY ContentsType
<1>2. /\ y \in Seq(Byte) /\ Len(y) = n + Len(Contents)
      /\ \A i \in 1..n + Len(Contents) : y[i] = IF i <= n THEN xs[i] ELSE Contents[i - n]
    BY <1>1, ConcatProperties
<1> HIDE DEF y
<1>3. /\ n <= readerIndex_ /\ readerIndex_' = k /\ writerIndex_' = writerIndex_
      /\ buffer_' = Put(buffer_, k, xs)
    BY DEF prepend, prependableBytes
<1>4. k \in Nat /\ k + n = readerIndex_ /\ k <= writerIndex_
    BY <1>0, <1>3
<1> HIDE DEF k
<1>5. /\ buffer_' \in Seq(Byte) /\ Len(buffer_') = Len(buffer_)
      /\ \A i \in 1..Len(buffer_) : buffer_'[i] =
            IF i > k /\ i <= k + n THEN xs[i - k] ELSE buffer_[i]
    BY <1>0, <1>3, <1>4, PutType
<1> HIDE DEF n
<1>6. Ordered(buffer_', readerIndex_', writerIndex_')
    BY <1>0, <1>3, <1>4, <1>5 DEF Ordered
<1>7. HoldsAt(buffer_', readerIndex_', y)
  <2> SUFFICES ASSUME NEW i \in 1..Len(y) PROVE buffer_'[k + i] = y[i]
        BY <1>3 DEF HoldsAt
  <2>1. i \in Nat \ {0} /\ i \in 1..n + Len(Contents) /\ k + i \in 1..Len(buffer_)
        BY <1>0, <1>1, <1>2, <1>4
  <2>2. CASE i <= n
    <3>1. k + i > k /\ k + i <= k + n /\ (k + i) - k = i
          BY <1>0, <1>4, <2>1, <2>2
    <3>2. buffer_'[k + i] = xs[(k + i) - k]
          BY <1>5, <2>1, <3>1
    <3> QED
          BY <1>2, <2>1, <2>2, <3>1, <3>2
  <2>3. CASE i > n
    <3>1. ~(k + i <= k + n) /\ k + i = readerIndex_ + (i - n) /\ i - n \in 1..Len(Contents)
          BY <1>0, <1>1, <1>4, <2>1, <2>3
    <3>2. buffer_'[k + i] = buffer_[k + i]
          BY <1>5, <2>1, <3>1
    <3>3. y[i] = Contents[i - n]
          BY <1>0, <1>2, <2>1, <2>3
    <3> QED
          BY <1>1, <3>1, <3>2, <3>3 DEF HoldsAt
  <2> QED
        BY <1>0, <2>1, <2>2, <2>3
<1>8. Len(y) = writerIndex_' - readerIndex_'
    BY <1>0, <1>1, <1>2, <1>3, <1>4
<1>9. Slice(buffer_', readerIndex_', writerIndex_') = y
    BY <1>2, <1>6, <1>7, <1>8, SliceIs
<1> QED
    BY <1>6, <1>9 DEF VectorInv, Contents, Slice, y

Assoc(a, b, c) == (a \o b) \o c = a \o (b \o c)

LEMMA AssocOfBytes ==
    ASSUME NEW a \in Seq(Byte), NEW b \in Seq(Byte), NEW c \in Seq(Byte)
    PROVE  Assoc(a, b, c)
<1> DEFINE l == (a \o b) \o c
           r == a \o (b \o c)
<1>1. /\ a \o b \in Seq(Byte) /\ Len(a \o b) = Len(a) + Len(b)
      /\ b \o c \in Seq(Byte) /\ Len(b \o c) = Len(b) + Len(c)
      /\ Len(a) \in Nat /\ Len(b) \in Nat /\ Len(c) \in Nat
    BY ConcatProperties, LenProperties
<1>2. /\ l \in Seq(Byte) /\ Len(l) = Len(a) + Len(b) + Len(c)
      /\ r \in Seq(Byte) /\ Len(r) = Len(a) + Len(b) + Len(c)
    BY <1>1, ConcatProperties
<1>3. \A i \in 1..Len(l) : l[i] = r[i]
    OBVIOUS
<1> HIDE DEF l, r
<1>4. l = r
    BY <1>2, <1>3, SeqEqual
<1> QED
    BY <1>4 DEF l, r, Assoc

\* The bytes of a read, split between the vector and extrabuf.
LEMMA ReadFdKeeps ==
    ASSUME VectorInv, NEW xs \in Seq(Byte), readFd(xs)
    PROVE  VectorInv' /\ Contents' = Contents \o xs
<1> DEFINE writable == writableBytes
           inside == SubSeq(xs, 1, writable)
           extra == SubSeq(xs, writable + 1, Len(xs))
           full == Put(buffer_, writerIndex_, inside)
<1>0. /\ buffer_ \in Seq(Byte) /\ readerIndex_ \in Nat /\ writerIndex_ \in Nat
      /\ readerIndex_ <= writerIndex_ /\ writerIndex_ <= Len(buffer_)
      /\ Len(buffer_) \in Nat /\ readableBytes = writerIndex_ - readerIndex_
      /\ kCheapPrepend \in Nat /\ kCheapPrepend <= Len(buffer_) /\ Len(xs) \in Nat
      /\ writable \in Nat /\ writerIndex_ + writable = Len(buffer_)
    BY LenProperties, BufferAssumption
       DEF VectorInv, Ordered, readableBytes, writableBytes
<1>1. /\ Contents \in Seq(Byte) /\ Len(Contents) = writerIndex_ - readerIndex_
      /\ HoldsAt(buffer_, readerIndex_, Contents)
    BY <1>0, ContentsType
<1>2. CASE Len(xs) <= writable
  <2>1. writerIndex_ + Len(xs) <= Len(buffer_)
        BY <1>0, <1>2
  <2>2. PutsBehind(buffer_, readerIndex_, writerIndex_, xs, Contents)
        BY <1>0, <1>1, <2>1, PutBehind
  <2>3. /\ buffer_' = Put(buffer_, writerIndex_, xs)
        /\ writerIndex_' = writerIndex_ + Len(xs) /\ readerIndex_' = readerIndex_
        BY <1>2 DEF readFd
  <2> QED
        BY <2>2, <2>3 DEF PutsBehind, VectorInv, Contents
<1>3. CASE ~(Len(xs) <= writable)
  <2>1. /\ inside \in Seq(Byte) /\ Len(inside) = writable
        /\ extra \in Seq(Byte) /\ inside \o extra = xs
    <3>1. \A i \in 1..Len(xs) : xs[i] \in Byte
          BY LenProperties
    <3>2. (\A i \in 1..writable : xs[i] \in Byte) /\ (\A i \in (writable + 1)..Len(xs) : xs[i] \in Byte)
          BY <1>0, <1>3, <3>1
    <3>3. inside \in Seq(Byte) /\ Len(inside) = writable /\ extra \in Seq(Byte)
          BY <1>0, <3>2, SubSeqProperties
    <3>4. inside \o extra = SubSeq(xs, 1, Len(xs))
      <4>1. 1 \in 1..Len(xs) + 1 /\ writable \in 1 - 1..Len(xs) /\ Len(xs) \in writable..Len(xs)
            BY <1>0, <1>3
      <4> QED
            BY <4>1, ConcatAdjacentSubSeq
    <3> QED
          BY <3>3, <3>4, SubSeqFull
  <2>2. Becomes(Appended(full, readerIndex_, Len(full), extra))
        BY <1>3 DEF readFd
  <2> HIDE DEF inside, extra
  <2>3. PutsBehind(buffer_, readerIndex_, writerIndex_, inside, Contents)
    <3>1. writerIndex_ + Len(inside) <= Len(buffer_)
          BY <1>0, <2>1
    <3> QED
          BY <1>0, <1>1, <2>1, <3>1, PutBehind
  <2>4. Len(full) = writerIndex_ + Len(inside)
        BY <1>0, <2>1, PutType
  <2>5. /\ Ordered(full, readerIndex_, Len(full))
        /\ SubSeq(full, readerIndex_ + 1, Len(full)) = Contents \o inside
        BY <2>3, <2>4 DEF PutsBehind
  <2> HIDE DEF full
  <2> DEFINE s == Appended(full, readerIndex_, Len(full), extra)
  <2>6. AppendsTo(s, full, readerIndex_, Len(full), extra)
        BY <2>1, <2>5, AppendedKeeps
  <2> HIDE DEF s
  <2>7. buffer_' = s.buf /\ readerIndex_' = s.reader /\ writerIndex_' = s.writer
        BY <2>2 DEF Becomes, s
  <2>8. Contents' = (Contents \o inside) \o extra
        BY <2>5, <2>6, <2>7 DEF AppendsTo, Contents
  <2>9. Assoc(Contents, inside, extra)
        BY <1>1, <2>1, AssocOfBytes
  <2> QED
        BY <2>1, <2>6, <2>7, <2>8, <2>9 DEF AppendsTo, VectorInv, Assoc
<1> QED
    BY <1>2, <1>3

LEMMA ShrinkKeeps ==
    ASSUME VectorInv, NEW n \in Nat, shrink(n)
    PROVE  VectorInv' /\ Contents' = Contents
<1> DEFINE need == readableBytes + n
           wide == IF kInitialSize >= need THEN Zeros(kCheapPrepend + kInitialSize)
                   ELSE Zeros(kCheapPrepend + need)
<1>1. Contents \in Seq(Byte) /\ readableBytes \in Nat
    BY ContentsType
<1>2. kCheapPrepend \in Nat /\ kInitialSize \in Nat /\ need \in Nat
    BY <1>1, BufferAssumption
<1>3. wide \in Seq(Byte) /\ Len(wide) >= kCheapPrepend
    BY <1>2, ZerosType, SMTT(30)
<1> DEFINE s == Appended(wide, kCheapPrepend, kCheapPrepend, Contents)
<1>4. buffer_' = s.buf /\ readerIndex_' = s.reader /\ writerIndex_' = s.writer
    BY DEF shrink, Becomes
<1> HIDE DEF wide
<1>5. Ordered(wide, kCheapPrepend, kCheapPrepend)
    BY <1>2, <1>3, LenProperties DEF Ordered
<1>6. AppendsTo(s, wide, kCheapPrepend, kCheapPrepend, Contents)
    BY <1>1, <1>5, AppendedKeeps
<1> HIDE DEF s
<1>7. SubSeq(wide, kCheapPrepend + 1, kCheapPrepend) = <<>>
    BY <1>2, SubSeqEmpty
<1>8. <<>> \o Contents = Contents
    BY <1>1, ConcatEmptySeq
<1>9. SubSeq(s.buf, s.reader + 1, s.writer) = Contents
    BY <1>6, <1>7, <1>8 DEF AppendsTo
<1> QED
    BY <1>4, <1>6, <1>9 DEF VectorInv, AppendsTo, Contents

-----------------------------------------------------------------------------
(* Theorems.                                                               *)

LEMMA VectorInit == BufferInit => VectorInv
<1> SUFFICES ASSUME BufferInit PROVE VectorInv
    OBVIOUS
<1>1. kCheapPrepend \in Nat /\ kInitialSize \in Nat /\ kCheapPrepend + kInitialSize \in Nat
    BY BufferAssumption
<1>2. /\ buffer_ \in Seq(Byte) /\ Len(buffer_) = kCheapPrepend + kInitialSize
    BY <1>1, ZerosType DEF BufferInit
<1> QED
    BY <1>1, <1>2 DEF BufferInit, VectorInv, Ordered

LEMMA VectorStep == VectorInv /\ [BufferNext]_bufferVars => VectorInv'
<1> SUFFICES ASSUME VectorInv, [BufferNext]_bufferVars PROVE VectorInv'
    OBVIOUS
<1>1. ASSUME NEW xs \in Inputs, append(xs) \/ prepend(xs) \/ readFd(xs)
      PROVE  VectorInv'
    BY <1>1, InputType, AppendKeeps, PrependKeeps, ReadFdKeeps
<1>2. ASSUME NEW x \in Ints, appendInt(x) \/ prependInt(x)
      PROVE  VectorInv'
    BY <1>2, NetworkOrderType, AppendKeeps, PrependKeeps DEF appendInt, prependInt
<1>3. ASSUME NEW n \in 0..readableBytes, retrieve(n) \/ unwrite(n)
      PROVE  VectorInv'
    BY <1>3, RetrieveKeeps, UnwriteKeeps
<1>4. ASSUME NEW n \in 0..Width, shrink(n)
      PROVE  VectorInv'
  <2>1. n \in Nat
        BY BufferAssumption
  <2> QED
        BY <1>4, <2>1, ShrinkKeeps
<1>5. CASE retrieveLine
  <2>1. PICK i \in findCRLF : retrieve(i + 1)
        BY <1>5 DEF retrieveLine
  <2>2. i + 1 \in 0..readableBytes
    <3>1. readableBytes \in Nat
          BY ContentsType
    <3> QED
          BY <2>1, <3>1 DEF findCRLF
  <2> QED
        BY <2>1, <2>2, RetrieveKeeps
<1>6. CASE UNCHANGED bufferVars
    BY <1>6 DEF bufferVars, VectorInv, Ordered
<1> QED
    BY <1>1, <1>2, <1>3, <1>4, <1>5, <1>6 DEF BufferNext

(***************************************************************************)
(* The indices stay in the order that the comment of the class draws       *)
(* (Buffer.h:40), through every move and growth of makeSpace, for every    *)
(* size of the vector and of extrabuf.                                     *)
(***************************************************************************)
THEOREM IndicesStayOrdered == BufferSpec => []BufferInv
<1>1. VectorInv => BufferInv
    BY DEF VectorInv, Ordered, BufferInv, BufferTypeOK, IndicesOrdered
<1> QED
    BY <1>1, VectorInit, VectorStep, PTL DEF BufferSpec

(***************************************************************************)
(* Bytes come out of the buffer as they went in, whether makeSpace moves,  *)
(* grows or does neither (Buffer.h:390) and wherever readFd splits its     *)
(* input (Buffer.cc:43): the part of BytesKept that needs no arithmetic    *)
(* of bytes.                                                               *)
(***************************************************************************)
THEOREM ContentsAreKept == BufferSpec => [][ContentsKept]_bufferVars
<1>1. ASSUME VectorInv PROVE ContentsKept
  <2>1. ASSUME NEW xs \in Inputs
        PROVE  /\ append(xs) \/ readFd(xs) => Contents' = Contents \o xs
               /\ prepend(xs) => Contents' = xs \o Contents
        BY <1>1, InputType, AppendKeeps, ReadFdKeeps, PrependKeeps
  <2>2. ASSUME NEW n \in 0..readableBytes
        PROVE  /\ retrieve(n) => Contents' = SubSeq(Contents, n + 1, readableBytes)
               /\ unwrite(n) => Contents' = SubSeq(Contents, 1, readableBytes - n)
        BY <1>1, RetrieveKeeps, UnwriteKeeps
  <2>3. ASSUME NEW n \in 0..Width PROVE shrink(n) => Contents' = Contents
    <3>1. n \in Nat
          BY BufferAssumption
    <3> QED
          BY <1>1, <3>1, ShrinkKeeps
  <2> QED
        BY <2>1, <2>2, <2>3 DEF ContentsKept
<1>2. VectorInv => [ContentsKept]_bufferVars
    BY <1>1
<1> QED
    BY <1>2, VectorInit, VectorStep, PTL DEF BufferSpec
=============================================================================

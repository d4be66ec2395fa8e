----------------------------- MODULE BufferProofs -----------------------------
(***************************************************************************)
(* The buffer is a FIFO of bytes up to the first overrun, and makeSpace    *)
(* would be right, for every size, byte set and sequence of calls.         *)
(***************************************************************************)
EXTENDS Buffer, SequenceTheorems, TLAPS

BufferInv == TypeOK /\ Fifo

Vector == [0..(Size - 1) -> Byte]

-----------------------------------------------------------------------------
LEMMA DataIsSeq == ASSUME NEW d \in Data PROVE d \in Seq(Byte)
<1>1. PICK n \in 0..MaxLen : d \in [1..n -> Byte]
  BY DEF Data
<1> QED
  BY <1>1, BufferAssumption DEF BufferAssumption

LEMMA SizeIsNat == Size \in Nat
  BY BufferAssumption DEF BufferAssumption, Size

LEMMA BytesIsSeq ==
  ASSUME NEW v \in Vector, NEW r \in Nat, NEW w \in Nat, r <= w, w <= Size
  PROVE  Bytes(v, r, w) \in Seq(Byte) /\ Len(Bytes(v, r, w)) = w - r
<1>1. \A i \in 1..(w - r) : v[r + i - 1] \in Byte
  BY SizeIsNat DEF Vector
<1>2. Bytes(v, r, w) \in [1..(w - r) -> Byte]
  BY <1>1 DEF Bytes
<1> QED
  BY <1>2

(* A copy that fits keeps the vector's type and lands behind the unread    *)
(* bytes.                                                                  *)
LEMMA CopyAppends ==
  ASSUME NEW v \in Vector, NEW r \in Nat, NEW w \in Nat, NEW d \in Seq(Byte),
         r <= w, w + Len(d) <= Size
  PROVE  Bytes(Copy(v, w, d), r, w + Len(d)) = Bytes(v, r, w) \o d
<1> DEFINE c == Copy(v, w, d)
           new == Bytes(c, r, w + Len(d))
           old == Bytes(v, r, w)
<1>1. /\ Len(d) \in Nat /\ Size \in Nat /\ w <= Size
      /\ w + Len(d) \in Nat /\ r <= w + Len(d)
  BY SizeIsNat, LenProperties
<1>2. c \in Vector
  BY <1>1, ElementOfSeq DEF Copy, Vector
<1> HIDE DEF c
<1>3. new \in Seq(Byte) /\ Len(new) = w + Len(d) - r
  BY <1>1, <1>2, BytesIsSeq
<1>4. old \in Seq(Byte) /\ Len(old) = w - r
  BY <1>1, BytesIsSeq
<1>5. old \o d \in Seq(Byte) /\ Len(old \o d) = w - r + Len(d)
  BY <1>1, <1>4, ConcatProperties
<1>6. ASSUME NEW i \in 1..(w + Len(d) - r) PROVE new[i] = (old \o d)[i]
  <2>1. new[i] = c[r + i - 1] /\ r + i - 1 \in 0..(Size - 1)
    BY <1>1 DEF Bytes
  <2>2. CASE i <= w - r
    <3>1. c[r + i - 1] = v[r + i - 1]
      BY <1>1, <2>1, <2>2 DEF c, Copy, Vector
    <3>2. (old \o d)[i] = old[i]
      BY <1>1, <1>4, <2>2, ConcatProperties
    <3> QED
      BY <2>1, <2>2, <3>1, <3>2 DEF Bytes
  <2>3. CASE i > w - r
    <3>1. c[r + i - 1] = d[r + i - 1 - w + 1]
      BY <1>1, <2>1, <2>3 DEF c, Copy, Vector
    <3>2. (old \o d)[i] = d[i - (w - r)]
      BY <1>1, <1>4, <2>3, ConcatProperties
    <3>3. r + i - 1 - w + 1 = i - (w - r)
      OBVIOUS
    <3> QED
      BY <2>1, <3>1, <3>2, <3>3
  <2>4. i <= w - r \/ i > w - r
    BY <1>1
  <2> QED
    BY <2>2, <2>3, <2>4
<1>7. w + Len(d) - r = w - r + Len(d)
  BY <1>1
<1>8. new = old \o d
  <2> HIDE DEF new, old
  <2> QED
    BY <1>3, <1>5, <1>6, <1>7, SeqEqual
<1> QED
  BY <1>8 DEF c

(* Advancing the read index drops bytes from the front.                    *)
LEMMA SkipIsSubSeq ==
  ASSUME NEW v \in Vector, NEW r \in Nat, NEW w \in Nat, NEW len \in Nat,
         w <= Size, len < w - r
  PROVE  Bytes(v, r + len, w) = SubSeq(Bytes(v, r, w), len + 1, w - r)
<1> DEFINE all == Bytes(v, r, w)
           rest == Bytes(v, r + len, w)
           sub == SubSeq(all, len + 1, w - r)
<1>0. r <= w /\ r + len \in Nat /\ r + len <= w /\ w - (r + len) = w - r - len
  OBVIOUS
<1>1. all \in Seq(Byte) /\ Len(all) = w - r
  BY <1>0, BytesIsSeq
<1>2. rest \in Seq(Byte) /\ Len(rest) = w - r - len
  BY <1>0, BytesIsSeq
<1>3. \A i \in (len + 1)..(w - r) : all[i] \in Byte
  BY <1>1, ElementOfSeq
<1>4. /\ sub \in Seq(Byte) /\ Len(sub) = w - r - len
      /\ \A i \in 1..(w - r - len) : sub[i] = all[len + i]
  <2>1. w - r \in Int /\ len + 1 \in Int /\ len + 1 <= w - r
    OBVIOUS
  <2> HIDE DEF all
  <2>2. /\ sub \in Seq(Byte)
        /\ Len(sub) = IF len + 1 <= w - r THEN (w - r) - (len + 1) + 1 ELSE 0
        /\ \A i \in 1..((w - r) - (len + 1) + 1) : sub[i] = all[(len + 1) + i - 1]
    BY <1>3, <2>1, SubSeqProperties
  <2>3. (w - r) - (len + 1) + 1 = w - r - len
    OBVIOUS
  <2>4. \A i \in 1..(w - r - len) : (len + 1) + i - 1 = len + i
    OBVIOUS
  <2> QED
    BY <2>1, <2>2, <2>3, <2>4
<1>5. ASSUME NEW i \in 1..(w - r - len) PROVE rest[i] = sub[i]
  <2>1. rest[i] = v[r + len + i - 1]
    BY DEF Bytes
  <2>2. all[len + i] = v[r + (len + i) - 1]
    BY DEF Bytes
  <2>3. r + len + i - 1 = r + (len + i) - 1
    OBVIOUS
  <2>4. sub[i] = all[len + i]
    BY <1>4
  <2> HIDE DEF rest, sub, all
  <2> QED
    BY <2>1, <2>2, <2>3, <2>4
<1> HIDE DEF rest, sub
<1> QED
  BY <1>2, <1>4, <1>5, SeqEqual DEF rest, sub

-----------------------------------------------------------------------------
(* Both append() and readFd() put d behind the unread bytes, or overrun.   *)
LEMMA PutPreserves ==
  ASSUME BufferInv, NEW d \in Data, ~Overrun,
         buffer_' = Copy(buffer_, writerIndex_, d),
         writerIndex_' = writerIndex_ + Len(d),
         content' = content \o d, UNCHANGED readerIndex_
  PROVE  BufferInv'
<1> USE BufferAssumption DEF BufferAssumption, BufferInv, TypeOK, Overrun
<1>1. d \in Seq(Byte) /\ Len(d) \in Nat /\ Size \in Nat
  BY DataIsSeq, SizeIsNat, LenProperties
<1>2. buffer_' \in Vector
  BY <1>1, ElementOfSeq DEF Copy, Vector
<1>3. TypeOK'
  BY <1>1, <1>2, ConcatProperties DEF Vector
<1>4. ASSUME ~Overrun' PROVE Bytes(buffer_', readerIndex_', writerIndex_') = content'
  <2>1. writerIndex_ + Len(d) <= Size
    BY <1>1, <1>4
  <2>2. readerIndex_ \in Nat /\ readerIndex_ <= writerIndex_ /\ buffer_ \in Vector
    BY DEF Vector
  <2>3. Bytes(buffer_', readerIndex_, writerIndex_ + Len(d))
          = Bytes(buffer_, readerIndex_, writerIndex_) \o d
    BY <1>1, <2>1, <2>2, CopyAppends
  <2>4. Bytes(buffer_, readerIndex_, writerIndex_) = content
    BY DEF Fifo
  <2> QED
    BY <2>3, <2>4
<1> QED
  BY <1>3, <1>4 DEF Fifo

LEMMA RetrieveAllPreserves == BufferInv /\ retrieveAll => BufferInv'
<1> SUFFICES ASSUME BufferInv, retrieveAll PROVE BufferInv'
  OBVIOUS
<1>1. Bytes(buffer_', readerIndex_', writerIndex_') = << >>
  <2>1. 1..(kPrepend - kPrepend) = {}
    BY BufferAssumption DEF BufferAssumption
  <2>2. Bytes(buffer_', kPrepend, kPrepend) = << >>
    BY <2>1 DEF Bytes
  <2> QED
    BY <2>2 DEF retrieveAll
<1> QED
  BY <1>1, BufferAssumption, EmptySeq
     DEF BufferAssumption, BufferInv, TypeOK, Fifo, retrieveAll

(* Type correctness and the FIFO order of the bytes, for every sequence of *)
(* append, readFd, retrieve and retrieveAll.                               *)
THEOREM BufferIsFifo == Spec => [](TypeOK /\ Fifo)
<1>1. Init => BufferInv
  <2> SUFFICES ASSUME Init PROVE BufferInv
    OBVIOUS
  <2>1. (CHOOSE b \in Byte : TRUE) \in Byte
    BY BufferAssumption DEF BufferAssumption
  <2>2. 1..(kPrepend - kPrepend) = {}
    BY BufferAssumption DEF BufferAssumption
  <2>3. Bytes(buffer_, kPrepend, kPrepend) = << >>
    BY <2>2 DEF Bytes
  <2>4. TypeOK
    <3>1. << >> \in Seq(Byte)
      BY EmptySeq
    <3>2. buffer_ \in [0..(Size - 1) -> Byte]
      BY <2>1, Zenon DEF Init
    <3>3. kPrepend \in Nat /\ kPrepend \in kPrepend..kPrepend
      BY BufferAssumption DEF BufferAssumption
    <3> QED
      BY <3>1, <3>2, <3>3 DEF Init, TypeOK
  <2> QED
    BY <2>3, <2>4 DEF Init, BufferInv, Fifo
<1>2. BufferInv /\ [Next]_vars => BufferInv'
  <2> SUFFICES ASSUME BufferInv, [Next]_vars PROVE BufferInv'
    OBVIOUS
  <2>1. ASSUME NEW d \in Data, append(d) PROVE BufferInv'
    BY <2>1, PutPreserves DEF append
  <2>2. ASSUME NEW d \in Data, readFd(d) PROVE BufferInv'
    <3>1. writerIndex_' = writerIndex_ + Len(d)
      BY <2>2, SizeIsNat, DataIsSeq, LenProperties
         DEF readFd, writeableBytes, BufferInv, TypeOK
    <3> QED
      BY <2>2, <3>1, PutPreserves DEF readFd
  <2>3. ASSUME NEW len \in 0..MaxLen, retrieve(len) PROVE BufferInv'
    <3>1. CASE retrieveAll
      BY <3>1, RetrieveAllPreserves
    <3>2. CASE /\ ~Overrun /\ len < readableBytes
               /\ readerIndex_' = readerIndex_ + len
               /\ content' = SubSeq(content, len + 1, Len(content))
               /\ UNCHANGED <<buffer_, writerIndex_>>
      <4> USE BufferAssumption DEF BufferAssumption, BufferInv, TypeOK
      <4>1. /\ len \in Nat /\ Size \in Nat /\ buffer_ \in Vector
            /\ readerIndex_ \in Nat /\ readerIndex_ <= writerIndex_
            /\ writerIndex_ <= Size /\ len < writerIndex_ - readerIndex_
            /\ readerIndex_ + len \in Nat /\ readerIndex_ + len <= writerIndex_
            /\ writerIndex_ \in Nat
        BY <3>2, SizeIsNat DEF Overrun, Vector, readableBytes
      <4>2. content = Bytes(buffer_, readerIndex_, writerIndex_)
        BY <3>2 DEF Fifo
      <4>3. Len(content) = writerIndex_ - readerIndex_
        BY <4>1, <4>2, BytesIsSeq
      <4>4. content' = Bytes(buffer_, readerIndex_ + len, writerIndex_)
        <5>1. SubSeq(Bytes(buffer_, readerIndex_, writerIndex_), len + 1,
                     writerIndex_ - readerIndex_)
                = Bytes(buffer_, readerIndex_ + len, writerIndex_)
          BY <4>1, SkipIsSubSeq
        <5> QED
          BY <3>2, <4>2, <4>3, <5>1
      <4>5. content' \in Seq(Byte)
        BY <4>1, <4>4, BytesIsSeq
      <4> QED
        BY <3>2, <4>1, <4>4, <4>5 DEF Fifo
    <3> QED
      BY <2>3, <3>1, <3>2 DEF retrieve
  <2>4. CASE retrieveAll
    BY <2>4, RetrieveAllPreserves
  <2>5. CASE UNCHANGED vars
    BY <2>5 DEF vars, BufferInv, TypeOK, Fifo, Overrun, Bytes
  <2> QED
    BY <2>1, <2>2, <2>3, <2>4, <2>5 DEF Next
<1> QED
  BY <1>1, <1>2, PTL DEF Spec, BufferInv

-----------------------------------------------------------------------------
(* Both branches of makeSpace are right in every reachable state: the      *)
(* missing growth (Buffer.h:53-57) is a missing call, not a wrong helper.  *)
THEOREM MakeSpaceIsRight == Spec => []MakeSpaceSuffices
<1>1. BufferInv => MakeSpaceSuffices
  <2> SUFFICES ASSUME BufferInv, ~Overrun, NEW len \in 0..MaxLen
               PROVE  /\ makeSpace(len).size - makeSpace(len).w >= len
                      /\ Bytes(makeSpace(len).v, makeSpace(len).r, makeSpace(len).w) = content
    BY DEF MakeSpaceSuffices
  <2> DEFINE r == readerIndex_
             w == writerIndex_
  <2>1. /\ kPrepend \in Nat /\ Size \in Nat /\ len \in Nat /\ r \in Nat /\ w \in Nat
        /\ kPrepend <= r /\ r <= w /\ w <= Size /\ buffer_ \in Vector
    BY BufferAssumption, SizeIsNat
       DEF BufferAssumption, BufferInv, TypeOK, Overrun, Vector
  <2>2. content \in Seq(Byte) /\ content = Bytes(buffer_, r, w) /\ Len(content) = w - r
    BY <2>1, BytesIsSeq DEF BufferInv, TypeOK, Fifo
  <2>3. CASE writeableBytes + prependableBytes < len + kPrepend
    <3> DEFINE v == [i \in 0..(len + w - 1) |->
                       IF i \in DOMAIN buffer_ THEN buffer_[i] ELSE CHOOSE b \in Byte : TRUE]
    <3>1. makeSpace(len) = [v |-> v, r |-> r, w |-> w, size |-> len + w]
      BY <2>3 DEF makeSpace
    <3>2. ASSUME NEW i \in 1..(w - r) PROVE v[r + i - 1] = buffer_[r + i - 1]
      BY <2>1 DEF Vector
    <3>3. Bytes(v, r, w) = Bytes(buffer_, r, w)
      <4> HIDE DEF v
      <4> QED
        BY <3>2 DEF Bytes
    <3> HIDE DEF v
    <3> QED
      BY <2>1, <2>2, <3>1, <3>3
  <2>4. CASE ~(writeableBytes + prependableBytes < len + kPrepend)
    <3> DEFINE v == Copy(buffer_, kPrepend, content)
    <3>1. makeSpace(len) = [v |-> v, r |-> kPrepend, w |-> kPrepend + (w - r), size |-> Size]
      BY <2>2, <2>4 DEF makeSpace, readableBytes
    <3>2. Size - (kPrepend + (w - r)) >= len
      BY <2>1, <2>4 DEF writeableBytes, prependableBytes
    <3>3. kPrepend + Len(content) <= Size
      BY <2>1, <2>2
    <3>4. Bytes(v, kPrepend, kPrepend + Len(content))
            = Bytes(buffer_, kPrepend, kPrepend) \o content
      <4>1. content \in Seq(Byte) /\ kPrepend \in Nat /\ kPrepend <= kPrepend
            /\ buffer_ \in Vector
        BY <2>1, <2>2
      <4> QED
        BY <3>3, <4>1, CopyAppends, Zenon
    <3>5. Bytes(buffer_, kPrepend, kPrepend) = << >>
      <4>1. 1..(kPrepend - kPrepend) = {}
        BY <2>1
      <4> QED
        BY <4>1 DEF Bytes
    <3>6. << >> \o content = content
      BY <2>2, ConcatEmptySeq
    <3> HIDE DEF v
    <3> QED
      BY <2>2, <3>1, <3>2, <3>4, <3>5, <3>6
  <2> QED
    BY <2>3, <2>4
<1> QED
  BY <1>1, BufferIsFifo, PTL DEF BufferInv
=============================================================================

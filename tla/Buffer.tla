-------------------------------- MODULE Buffer --------------------------------
(***************************************************************************)
(* Buffer: a vector of bytes with a read and a write index, used as the    *)
(* input and the output buffer of every TcpConnection.  append() does not  *)
(* check that the data fits: a copy beyond the vector is undefined         *)
(* behaviour, so no step is described after one (Overrun).                 *)
(***************************************************************************)
EXTENDS Integers, Sequences

CONSTANTS Byte,          \* byte values
          kPrepend, kInitialSize,
          kExtrabuf,     \* sizeof extrabuf in readFd
          MaxLen         \* longest data of one call (bounds the model)

ASSUME BufferAssumption ==
  /\ kPrepend \in Nat /\ kInitialSize \in Nat /\ kExtrabuf \in Nat /\ MaxLen \in Nat
  /\ Byte # {}

VARIABLES buffer_, readerIndex_, writerIndex_,
          content   \* history: the bytes put in and not yet retrieved

vars == <<buffer_, readerIndex_, writerIndex_, content>>

Size == kPrepend + kInitialSize       \* the vector is never resized

Data == UNION {[1..n -> Byte] : n \in 0..MaxLen}

TypeOK ==
  /\ buffer_ \in [0..(Size - 1) -> Byte]
  /\ writerIndex_ \in Nat /\ readerIndex_ \in kPrepend..writerIndex_
  /\ content \in Seq(Byte)

Init ==
  /\ buffer_ = [i \in 0..(Size - 1) |-> CHOOSE b \in Byte : TRUE]
  /\ readerIndex_ = kPrepend /\ writerIndex_ = kPrepend
  /\ content = << >>

-----------------------------------------------------------------------------
writeableBytes   == Size - writerIndex_
readableBytes    == writerIndex_ - readerIndex_
prependableBytes == readerIndex_

Overrun == writerIndex_ > Size

(* The bytes from index r up to w of a vector.                             *)
Bytes(v, r, w) == [i \in 1..(w - r) |-> v[r + i - 1]]

(* The vector v after the copy of d to position w; what does not fit hits  *)
(* other memory.                                                           *)
Copy(v, w, d) == [i \in DOMAIN v |-> IF i \in w..(w + Len(d) - 1) THEN d[i - w + 1]
                                                                  ELSE v[i]]

-----------------------------------------------------------------------------
(* Deliberate defects of the definitions below, used to see the properties *)
(* fail.                                                                   *)

(* readv is given the room one byte behind writerIndex_.                   *)
readFd_offset(d) ==
  /\ ~Overrun
  /\ buffer_' = Copy(buffer_, writerIndex_ + 1, d)
  /\ writerIndex_' = writerIndex_ + Len(d)
  /\ content' = content \o d
  /\ UNCHANGED readerIndex_

-----------------------------------------------------------------------------
(* The code's operations.                                                  *)

append(d) ==
  /\ ~Overrun
  /\ buffer_' = Copy(buffer_, writerIndex_, d)
  /\ writerIndex_' = writerIndex_ + Len(d)
  /\ content' = content \o d
  /\ UNCHANGED readerIndex_

retrieveAll ==
  /\ ~Overrun
  /\ readerIndex_' = kPrepend /\ writerIndex_' = kPrepend
  /\ content' = << >>
  /\ UNCHANGED buffer_

retrieve(len) ==
  \/ /\ ~Overrun /\ len < readableBytes
     /\ readerIndex_' = readerIndex_ + len
     /\ content' = SubSeq(content, len + 1, Len(content))
     /\ UNCHANGED <<buffer_, writerIndex_>>
  \/ len >= readableBytes /\ retrieveAll

(* readv fills the writable bytes and then extrabuf, which is appended.    *)
readFd(d) ==
  /\ ~Overrun
  /\ Len(d) <= IF writeableBytes < kExtrabuf THEN writeableBytes + kExtrabuf
                                             ELSE writeableBytes
  /\ buffer_' = Copy(buffer_, writerIndex_, d)
  /\ writerIndex_' = IF Len(d) <= writeableBytes THEN writerIndex_ + Len(d)
                     ELSE Size + (Len(d) - writeableBytes)
  /\ content' = content \o d
  /\ UNCHANGED readerIndex_

(* makeSpace() has no caller; this is what it would return.                *)
makeSpace(len) ==
  IF writeableBytes + prependableBytes < len + kPrepend
  THEN [v |-> [i \in 0..(len + writerIndex_ - 1) |->
                 IF i \in DOMAIN buffer_ THEN buffer_[i] ELSE CHOOSE b \in Byte : TRUE],
        r |-> readerIndex_, w |-> writerIndex_, size |-> len + writerIndex_]
  ELSE [v |-> Copy(buffer_, kPrepend, Bytes(buffer_, readerIndex_, writerIndex_)),
        r |-> kPrepend, w |-> kPrepend + readableBytes, size |-> Size]

Next ==
  \/ \E d \in Data : append(d) \/ readFd(d)
  \/ \E len \in 0..MaxLen : retrieve(len)
  \/ retrieveAll

Spec == Init /\ [][Next]_vars

-----------------------------------------------------------------------------
(* Properties.                                                             *)

(* Up to an overrun, peek() and readableBytes() show exactly the bytes put *)
(* in and not retrieved, in order: the resets of the two indices, the      *)
(* partial retrieve and the two parts of a readFd agree.                   *)
Fifo == ~Overrun => Bytes(buffer_, readerIndex_, writerIndex_) = content

(* makeSpace(), were it called, would make room for len bytes and keep the *)
(* unread ones: in every reachable state both of its branches are right.   *)
MakeSpaceSuffices ==
  ~Overrun => \A len \in 0..MaxLen : LET b == makeSpace(len) IN
                /\ b.size - b.w >= len
                /\ Bytes(b.v, b.r, b.w) = content

(* What "dynamic buffer" (README.md:8) promises: data never goes beyond    *)
(* the storage.                                                            *)
NeverOverrun == ~Overrun
=============================================================================

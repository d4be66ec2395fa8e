-------------------------- MODULE AsyncLoggingProofs --------------------------
(***************************************************************************)
(* Memory safety of the buffer exchange and the fate of every line, for    *)
(* any set of lines, any buffer size and any drop limit of at least two.   *)
(***************************************************************************)
EXTENDS AsyncLogging, SequenceTheorems, WellFoundedInduction, TLAPS

(* The pointers that may be null, and when.  append() empties nextBuffer_  *)
(* only together with a push to buffers_; the logging thread owns both     *)
(* spares whenever it can reach the exchange; and between the exchange and *)
(* the recycling it holds at least as many buffers as it lacks spares.     *)
PointerInv ==
  /\ currentBuffer_ # Null
  /\ nextBuffer_ = Null => buffers_ # << >>
  /\ tpc \in {"while", "lock", "wait"} => newBuffer1 # Null /\ newBuffer2 # Null
  /\ tpc \in {"drop", "write", "recycle"} => Len(buffersToWrite) >= Nulls
  /\ spc = "idle" => tpc = "none"

SafetyInv == TypeOK /\ PointerInv

-----------------------------------------------------------------------------
(* A buffer without lines.                                                 *)
LEMMA EmptyIsBuffer == EmptyBuffer \in Buffer
  BY AsyncLoggingAssumption, EmptySeq DEF AsyncLoggingAssumption, EmptyBuffer, Buffer

(* A buffer is not the null pointer.                                       *)
LEMMA BufferNotNull == \A b \in Buffer : b # Null
  BY AsyncLoggingAssumption DEF AsyncLoggingAssumption

(* FixedBuffer::append never fills a buffer to its last byte.              *)
LEMMA PutIsBuffer ==
  ASSUME NEW b \in Buffer, NEW l \in Lines
  PROVE  Put(b, l) \in Buffer
<1> USE AsyncLoggingAssumption DEF AsyncLoggingAssumption, Put, Buffer
<1>1. CASE Fits(b, l)
  <2>1. b.len + LineLen[l] \in 0..(SIZE - 1)
    BY <1>1 DEF Fits, avail
  <2>2. Append(b.data, l) \in Seq(Lines)
    BY AppendProperties
  <2> QED
    BY <1>1, <2>1, <2>2
<1>2. CASE ~Fits(b, l)
  BY <1>2
<1> QED
  BY <1>1, <1>2

(* The exchange under the lock, from a state where both spares are there.  *)
LEMMA CollectSafe ==
  ASSUME SafetyInv, tpc \in {"lock", "wait"}, collect,
         UNCHANGED <<running_, spc, hist>>
  PROVE  SafetyInv'
<1> USE DEF SafetyInv, TypeOK, PointerInv, collect, hist
<1>1. currentBuffer_ \in Buffer /\ newBuffer1 \in Buffer /\ newBuffer2 \in Buffer
  OBVIOUS
<1>2. Append(buffers_, currentBuffer_) \in Seq(Buffer)
  BY <1>1, AppendProperties
<1>3. TypeOK'
  BY <1>1, <1>2, EmptySeq
<1>4. Len(buffersToWrite') = Len(buffers_) + 1
  BY <1>1, AppendProperties
<1>5. CASE nextBuffer_ = Null
  <2>1. Len(buffers_) >= 1
    BY <1>5, EmptySeq
  <2>2. Len(buffersToWrite') >= Nulls'
    BY <1>4, <2>1, LenProperties DEF Nulls
  <2>3. nextBuffer_' = newBuffer2
    BY <1>5
  <2> QED
    BY <1>1, <1>3, <2>2, <2>3, BufferNotNull
<1>6. CASE nextBuffer_ # Null
  <2>1. newBuffer2' # Null /\ nextBuffer_' # Null
    BY <1>1, <1>6, BufferNotNull
  <2>2. Len(buffersToWrite') >= Nulls'
    BY <1>4, <2>1, LenProperties DEF Nulls
  <2> QED
    BY <1>1, <1>3, <2>1, <2>2, BufferNotNull
<1> QED
  BY <1>5, <1>6

(* append() never dereferences a null currentBuffer_, threadFunc never     *)
(* calls back() on an empty vector, and no buffer overflows.               *)
THEOREM LoggerSafe == Spec => []SafetyInv
<1>1. Init => SafetyInv
  BY EmptyIsBuffer, BufferNotNull, EmptySeq DEF Init, SafetyInv, TypeOK, PointerInv
<1>2. SafetyInv /\ [Next]_vars => SafetyInv'
  <2> SUFFICES ASSUME SafetyInv, [Next]_vars PROVE SafetyInv'
    OBVIOUS
  <2> USE DEF SafetyInv, TypeOK, PointerInv, Nulls, front, back_, hist
  <2>1. ASSUME NEW l \in Lines, append(l) PROVE SafetyInv'
    <3>1. appended' \in Seq(Lines)
      BY <2>1, AppendProperties DEF append
    <3>2. CASE Fits(currentBuffer_, l)
      <4>1. currentBuffer_' \in Buffer
        BY <2>1, <3>2, PutIsBuffer DEF append
      <4> QED
        BY <2>1, <3>1, <3>2, <4>1, BufferNotNull DEF append
    <3>3. CASE ~Fits(currentBuffer_, l)
      <4>1. currentBuffer_' \in Buffer
        BY <2>1, <3>3, PutIsBuffer, EmptyIsBuffer DEF append, rotate
      <4>2. buffers_' \in Seq(Buffer) /\ Len(buffers_') = Len(buffers_) + 1
        <5>1. currentBuffer_ \in Buffer
          OBVIOUS
        <5>2. buffers_' = Append(buffers_, currentBuffer_)
          BY <2>1, <3>3 DEF append, rotate
        <5> QED
          BY <5>1, <5>2, AppendProperties
      <4>3. buffers_' # << >>
        BY <4>2, LenProperties, EmptySeq
      <4>4. notified' \in BOOLEAN
        BY <2>1, <3>3 DEF append, notify_all
      <4> QED
        BY <2>1, <3>1, <3>3, <4>1, <4>2, <4>3, <4>4, BufferNotNull DEF append, rotate
    <3> QED
      BY <3>2, <3>3
  <2>2. CASE start
    BY <2>2, EmptyIsBuffer, BufferNotNull DEF start
  <2>3. CASE stop
    BY <2>3 DEF stop
  <2>4. CASE stopNotify
    BY <2>4 DEF stopNotify, notify_all
  <2>5. CASE stopJoin
    BY <2>5 DEF stopJoin
  <2>6. CASE whileRunning
    BY <2>6 DEF whileRunning
  <2>7. CASE lock
    <3>1. CASE buffers_ = << >>
      BY <2>7, <3>1 DEF lock
    <3>2. CASE buffers_ # << >>
      BY <2>7, <3>2, CollectSafe DEF lock
    <3> QED
      BY <3>1, <3>2
  <2>8. CASE woken
    BY <2>8, CollectSafe DEF woken
  <2>9. CASE timeout
    BY <2>9, CollectSafe DEF timeout
  <2>10. CASE dropExcess
    <3>1. CASE Len(buffersToWrite) > DropLimit
      <4>1. Len(buffersToWrite) > 2
        BY <3>1, AsyncLoggingAssumption, LenProperties DEF AsyncLoggingAssumption
      <4>2. \A i \in 1..2 : buffersToWrite[i] \in Buffer
        BY <4>1, ElementOfSeq
      <4>3. /\ SubSeq(buffersToWrite, 1, 2) \in Seq(Buffer)
            /\ Len(SubSeq(buffersToWrite, 1, 2)) = 2
        BY <4>2, SubSeqProperties
      <4>4. /\ buffersToWrite' = SubSeq(buffersToWrite, 1, 2) /\ tpc = "drop" /\ tpc' = "write"
            /\ UNCHANGED <<running_, front, newBuffer1, newBuffer2, notified, spc, appended>>
        BY <2>10, <3>1, Zenon DEF dropExcess
      <4> QED
        BY <4>3, <4>4
    <3>2. CASE ~(Len(buffersToWrite) > DropLimit)
      BY <2>10, <3>2 DEF dropExcess
    <3> QED
      BY <3>1, <3>2
  <2>11. CASE write
    <3>1. CASE Len(buffersToWrite) > 2
      <4>1. \A i \in 1..2 : buffersToWrite[i] \in Buffer
        BY <3>1, ElementOfSeq
      <4>2. /\ SubSeq(buffersToWrite, 1, 2) \in Seq(Buffer)
            /\ Len(SubSeq(buffersToWrite, 1, 2)) = 2
        BY <4>1, SubSeqProperties
      <4> QED
        BY <2>11, <3>1, <4>2 DEF write
    <3>2. CASE ~(Len(buffersToWrite) > 2)
      BY <2>11, <3>2 DEF write
    <3> QED
      BY <3>1, <3>2
  <2>12. CASE recycle
    BY <2>12, EmptyIsBuffer, BufferNotNull, EmptySeq DEF recycle
  <2>13. CASE UNCHANGED vars
    BY <2>13 DEF vars
  <2> QED
    BY <2>1, <2>2, <2>3, <2>4, <2>5, <2>6, <2>7, <2>8, <2>9, <2>10, <2>11, <2>12,
       <2>13 DEF Next, terminated
<1> QED
  BY <1>1, <1>2, PTL DEF Spec

(* The statement the model checker checks follows.                         *)
THEOREM BuffersAlwaysSuffice == Spec => []BuffersSuffice
<1>1. SafetyInv => BuffersSuffice
  BY DEF SafetyInv, PointerInv, BuffersSuffice
<1> QED
  BY <1>1, LoggerSafe, PTL

-----------------------------------------------------------------------------
(* Induction over the natural numbers and over sequences, for sets: with   *)
(* sets the steps need no operator as a parameter.                         *)
LEMMA NatSetInduction ==
  ASSUME NEW T, 0 \in T, \A n \in Nat : n \in T => n + 1 \in T
  PROVE  Nat \subseteq T
<1> DEFINE U == Nat \ T
<1>1. U = {}
  <2> SUFFICES ASSUME U # {} PROVE FALSE
    OBVIOUS
  <2>1. PICK n \in U : \A m \in U : ~(<<m, n>> \in OpToRel(<, Nat))
    BY WFMin, NatLessThanWellFounded
  <2>2. n \in Nat /\ n # 0 /\ n - 1 \in Nat /\ n - 1 < n
    OBVIOUS
  <2>3. n - 1 \in U
    BY <2>2
  <2>4. <<n - 1, n>> \in OpToRel(<, Nat)
    BY <2>2 DEF OpToRel
  <2> QED BY <2>1, <2>3, <2>4
<1> QED BY <1>1

LEMMA SeqSetInduction ==
  ASSUME NEW S, NEW T, << >> \in T, \A s \in Seq(S), e \in S : s \in T => Append(s, e) \in T
  PROVE  Seq(S) \subseteq T
<1> DEFINE N == {n \in Nat : \A s \in Seq(S) : Len(s) = n => s \in T}
<1>1. 0 \in N
  BY EmptySeq
<1>2. ASSUME NEW n \in Nat, n \in N PROVE n + 1 \in N
  <2> SUFFICES ASSUME NEW s \in Seq(S), Len(s) = n + 1 PROVE s \in T
    OBVIOUS
  <2>1. s # << >>
    OBVIOUS
  <2>2. PICK u \in Seq(S), e \in S : s = Append(u, e)
    BY <2>1, SequenceEmptyOrAppend
  <2>3. Len(u) = n
    BY <2>2, AppendProperties
  <2> QED BY <1>2, <2>2, <2>3
<1>3. Nat \subseteq N
  <2> HIDE DEF N
  <2> QED BY <1>1, <1>2, NatSetInduction
<1> QED BY <1>3, LenProperties

(* g[i] is the concatenation of the first i sequences of q.                *)
IsFlat(q, g) == g = [i \in 1..Len(q) |-> IF i = 1 THEN q[i] ELSE g[i - 1] \o q[i]]

LEMMA FlatStep ==
  ASSUME NEW q, NEW g, IsFlat(q, g), NEW i \in 1..Len(q)
  PROVE  g[i] = IF i = 1 THEN q[i] ELSE g[i - 1] \o q[i]
BY DEF IsFlat

(* Every sequence of sequences has such a g: that is FlattenSeq, which is  *)
(* a sequence of elements and grows at its end.                            *)
LEMMA FlatExists ==
  ASSUME NEW S, NEW q \in Seq(S) PROVE \E g : IsFlat(q, g)
<1> DEFINE T == {u \in Seq(S) : \E g : IsFlat(u, g)}
<1>1. << >> \in T
  <2>1. IsFlat(<< >>, [i \in 1..0 |-> << >>])
    BY DEF IsFlat
  <2> QED BY <2>1, EmptySeq
<1>2. ASSUME NEW u \in Seq(S), NEW e \in S, u \in T PROVE Append(u, e) \in T
  <2> DEFINE v == Append(u, e)
             n == Len(u) + 1
  <2>1. v \in Seq(S) /\ Len(v) = n /\ n \in Nat /\ v[n] = e /\ \A i \in 1..(n - 1) : v[i] = u[i]
    BY AppendProperties
  <2>2. PICK g : IsFlat(u, g)
    BY <1>2
  <2> HIDE DEF v
  <2> DEFINE h == [i \in 1..n |-> IF i # n THEN g[i]
                                  ELSE IF i = 1 THEN v[i] ELSE g[i - 1] \o v[i]]
  <2>3. Len(u) = n - 1 /\ n \in Nat \ {0}
    OBVIOUS
  <2> HIDE DEF n
  <2>4. \A i \in 1..(n - 1) : g[i] = IF i = 1 THEN v[i] ELSE g[i - 1] \o v[i]
    BY <2>1, <2>2, <2>3 DEF IsFlat
  <2>5. ASSUME NEW i \in 1..n PROVE h[i] = IF i = 1 THEN v[i] ELSE h[i - 1] \o v[i]
    <3>1. i # 1 => h[i - 1] = g[i - 1]
      BY <2>3
    <3>2. CASE i = n
      BY <2>3, <3>1, <3>2
    <3>3. CASE i # n
      <4>1. i \in 1..(n - 1) /\ h[i] = g[i]
        BY <2>3, <3>3
      <4> QED BY <2>4, <3>1, <4>1
    <3> QED BY <3>2, <3>3
  <2>6. h = [i \in 1..n |-> h[i]]
    OBVIOUS
  <2> HIDE DEF h
  <2>7. IsFlat(v, h)
    BY <2>1, <2>5, <2>6 DEF IsFlat
  <2> QED BY <2>1, <2>7 DEF v
<1>3. Seq(S) \subseteq T
  <2> HIDE DEF T
  <2> QED BY <1>1, <1>2, SeqSetInduction
<1> QED BY <1>3

LEMMA FlatSeq ==
  ASSUME NEW S, NEW q \in Seq(S), q # << >>
  PROVE  \E g : IsFlat(q, g) /\ FlattenSeq(q) = g[Len(q)]
<1> DEFINE g == CHOOSE h : IsFlat(q, h)
<1>1. IsFlat(q, g)
  BY FlatExists
<1>2. Len(q) # 0
  OBVIOUS
<1>3. FlattenSeq(q) = g[Len(q)]
  BY <1>2 DEF FlattenSeq, IsFlat
<1> HIDE DEF g
<1> QED BY <1>1, <1>3

LEMMA FlatPrefix ==
  ASSUME NEW S, NEW q \in Seq(Seq(S)), NEW s \in Seq(S), NEW g, NEW h,
         IsFlat(q, g), IsFlat(Append(q, s), h)
  PROVE  \A i \in 1..Len(q) : h[i] = g[i] /\ g[i] \in Seq(S)
<1> DEFINE n == Len(q)
           r == Append(q, s)
           T == {i \in Nat : i \in 1..n => h[i] = g[i] /\ g[i] \in Seq(S)}
<1>1. /\ n \in Nat /\ Len(r) = n + 1
      /\ \A i \in 1..n : r[i] = q[i] /\ q[i] \in Seq(S)
  BY AppendProperties, ElementOfSeq, LenProperties
<1>2. \A i \in 1..n : /\ g[i] = IF i = 1 THEN q[i] ELSE g[i - 1] \o q[i]
                      /\ h[i] = IF i = 1 THEN q[i] ELSE h[i - 1] \o q[i]
  <2> SUFFICES ASSUME NEW i \in 1..n
               PROVE  /\ g[i] = IF i = 1 THEN q[i] ELSE g[i - 1] \o q[i]
                      /\ h[i] = IF i = 1 THEN q[i] ELSE h[i - 1] \o q[i]
    OBVIOUS
  <2>1. g[i] = IF i = 1 THEN q[i] ELSE g[i - 1] \o q[i]
    BY FlatStep
  <2>2. IsFlat(r, h)
    OBVIOUS
  <2> HIDE DEF r, n
  <2>3. i \in 1..Len(r) /\ r[i] = q[i]
    BY <1>1
  <2>4. h[i] = IF i = 1 THEN r[i] ELSE h[i - 1] \o r[i]
    BY <2>2, <2>3, FlatStep
  <2> QED BY <2>1, <2>3, <2>4
<1> HIDE DEF n, r
<1>3. 0 \in T
  BY <1>1
<1>4. ASSUME NEW i \in Nat, i \in T PROVE i + 1 \in T
  <2> SUFFICES ASSUME i + 1 \in 1..n PROVE h[i + 1] = g[i + 1] /\ g[i + 1] \in Seq(S)
    OBVIOUS
  <2>1. CASE i = 0
    BY <1>1, <1>2, <2>1
  <2>2. CASE i # 0
    <3>1. i \in 1..n /\ i + 1 # 1 /\ (i + 1) - 1 = i
      BY <1>1, <2>2
    <3>2. h[i] = g[i] /\ g[i] \in Seq(S)
      BY <1>4, <3>1
    <3>3. g[i + 1] = g[i] \o q[i + 1] /\ h[i + 1] = h[i] \o q[i + 1]
      BY <1>2, <3>1
    <3>4. g[i] \o q[i + 1] \in Seq(S)
      BY <1>1, <3>2, ConcatProperties
    <3> QED BY <3>2, <3>3, <3>4
  <2> QED BY <2>1, <2>2
<1>5. Nat \subseteq T
  <2> HIDE DEF T
  <2> QED BY <1>3, <1>4, NatSetInduction
<1> QED BY <1>1, <1>5 DEF n

LEMMA FlattenEmpty == FlattenSeq(<< >>) = << >>
  BY DEF FlattenSeq

LEMMA FlattenAppend ==
  ASSUME NEW S, NEW q \in Seq(Seq(S)), NEW s \in Seq(S)
  PROVE  /\ FlattenSeq(q) \in Seq(S)
         /\ FlattenSeq(Append(q, s)) = FlattenSeq(q) \o s
<1> DEFINE r == Append(q, s)
           n == Len(q)
<1>1. r \in Seq(Seq(S)) /\ r # << >> /\ n \in Nat /\ Len(r) = n + 1 /\ r[n + 1] = s
  BY AppendProperties, LenProperties
<1>2. PICK h : IsFlat(r, h) /\ FlattenSeq(r) = h[n + 1]
  BY <1>1, FlatSeq
<1>3. h[n + 1] = IF n = 0 THEN s ELSE h[n] \o s
  <2> HIDE DEF r, n
  <2>1. h[n + 1] = IF n + 1 = 1 THEN r[n + 1] ELSE h[(n + 1) - 1] \o r[n + 1]
    <3>1. n + 1 \in 1..Len(r)
      BY <1>1
    <3> QED BY <1>2, <3>1, FlatStep
  <2>2. (n + 1) - 1 = n /\ (n + 1 = 1 <=> n = 0)
    BY <1>1
  <2> QED BY <1>1, <2>1, <2>2
<1>4. CASE q = << >>
  <2>1. n = 0 /\ FlattenSeq(q) = << >>
    BY <1>4, FlattenEmpty, EmptySeq
  <2> QED BY <1>2, <1>3, <2>1, EmptySeq, ConcatEmptySeq
<1>5. CASE q # << >>
  <2>1. PICK g : IsFlat(q, g) /\ FlattenSeq(q) = g[n]
    BY <1>5, FlatSeq
  <2>2. n \in 1..n
    BY <1>1, <1>5, EmptySeq
  <2>3. h[n] = g[n] /\ g[n] \in Seq(S)
    BY <1>2, <2>1, <2>2, FlatPrefix
  <2> QED BY <1>2, <1>3, <2>1, <2>2, <2>3
<1> QED BY <1>4, <1>5

(* The filter of the history: what it does to an appended line and to a    *)
(* concatenation.                                                          *)
LEMMA KeptEmpty == ASSUME NEW D PROVE Kept(<< >>, D) = << >>
<1>1. [i \in DOMAIN << >> |-> IF << >>[i] \in D THEN << >> ELSE << << >>[i] >>] = << >>
  OBVIOUS
<1> QED BY <1>1, FlattenEmpty DEF Kept

LEMMA KeptAppend ==
  ASSUME NEW S, NEW s \in Seq(S), NEW l \in S, NEW D
  PROVE  /\ Kept(s, D) \in Seq(S)
         /\ Kept(Append(s, l), D) = IF l \in D THEN Kept(s, D) ELSE Append(Kept(s, D), l)
<1> DEFINE one(x) == IF x \in D THEN << >> ELSE <<x>>
           p == [i \in DOMAIN s |-> one(s[i])]
           u == Append(s, l)
           r == [i \in DOMAIN u |-> one(u[i])]
           n == Len(s)
<1>1. \A x \in S : one(x) \in Seq(S)
  BY EmptySeq
<1>2. /\ n \in Nat /\ DOMAIN s = 1..n /\ DOMAIN u = 1..(n + 1) /\ u[n + 1] = l
      /\ \A i \in 1..n : u[i] = s[i] /\ s[i] \in S
  BY AppendProperties, LenProperties, ElementOfSeq
<1>3. Kept(s, D) = FlattenSeq(p) /\ Kept(u, D) = FlattenSeq(r)
  BY DEF Kept
<1> HIDE DEF u, n, one
<1>4. p \in Seq(Seq(S)) /\ Len(p) = n
  BY <1>1, <1>2, IsASeq
<1>5. r = Append(p, one(l))
  <2>1. /\ Append(p, one(l)) \in Seq(Seq(S)) /\ Len(Append(p, one(l))) = n + 1
        /\ \A i \in 1..n : Append(p, one(l))[i] = p[i]
        /\ Append(p, one(l))[n + 1] = one(l)
    BY <1>1, <1>4, AppendProperties
  <2>2. r \in Seq(Seq(S)) /\ Len(r) = n + 1
    <3>1. \A i \in 1..(n + 1) : u[i] \in S
      <4> TAKE i \in 1..(n + 1)
      <4>1. i \in 1..n \/ i = n + 1
        BY <1>2
      <4> QED BY <1>2, <4>1
    <3> QED BY <1>1, <1>2, <3>1, IsASeq
  <2>3. \A i \in 1..(n + 1) : r[i] = Append(p, one(l))[i]
    <3> TAKE i \in 1..(n + 1)
    <3>1. CASE i = n + 1
      BY <1>2, <2>1, <3>1
    <3>2. CASE i \in 1..n
      BY <1>2, <2>1, <3>2
    <3> QED BY <1>2, <3>1, <3>2
  <2> HIDE DEF p, r
  <2> QED BY <2>1, <2>2, <2>3, SeqEqual
<1> HIDE DEF p, r
<1>6. FlattenSeq(p) \in Seq(S) /\ FlattenSeq(r) = FlattenSeq(p) \o one(l)
  BY <1>1, <1>4, <1>5, FlattenAppend
<1>7. l \in D => FlattenSeq(p) \o one(l) = FlattenSeq(p)
  BY <1>6, ConcatEmptySeq DEF one
<1>8. l \notin D => FlattenSeq(p) \o one(l) = Append(FlattenSeq(p), l)
  BY <1>6, AppendIsConcat DEF one
<1> QED BY <1>3, <1>6, <1>7, <1>8 DEF u

(* It keeps the type.                                                      *)
LEMMA KeptType ==
  ASSUME NEW S, NEW s \in Seq(S), NEW D PROVE Kept(s, D) \in Seq(S)
<1>1. CASE s = << >>
  BY <1>1, KeptEmpty, EmptySeq
<1>2. CASE s # << >>
  <2>1. PICK u \in Seq(S), e \in S : s = Append(u, e)
    BY <1>2, SequenceEmptyOrAppend
  <2> QED BY <2>1, KeptAppend
<1> QED BY <1>1, <1>2

KeptDistributes(S, D) ==
  \A s \in Seq(S) : \A u \in Seq(S) : Kept(s \o u, D) = Kept(s, D) \o Kept(u, D)

LEMMA KeptConcat ==
  ASSUME NEW S, NEW D PROVE KeptDistributes(S, D)
<1> SUFFICES ASSUME NEW s \in Seq(S)
             PROVE  \A u \in Seq(S) : Kept(s \o u, D) = Kept(s, D) \o Kept(u, D)
  BY DEF KeptDistributes
<1> DEFINE T == {u \in Seq(S) : Kept(s \o u, D) = Kept(s, D) \o Kept(u, D)}
<1>1. << >> \in T
  BY KeptEmpty, KeptType, ConcatEmptySeq, EmptySeq
<1>2. ASSUME NEW u \in Seq(S), NEW e \in S, u \in T PROVE Append(u, e) \in T
  <2>1. Append(u, e) \in Seq(S) /\ s \o u \in Seq(S) /\ s \o Append(u, e) = Append(s \o u, e)
    OBVIOUS
  <2>2. Kept(s, D) \in Seq(S) /\ Kept(u, D) \in Seq(S)
    BY KeptType
  <2>3. Kept(s \o u, D) = Kept(s, D) \o Kept(u, D)
    BY <1>2
  <2>4. Kept(Append(u, e), D) = IF e \in D THEN Kept(u, D) ELSE Append(Kept(u, D), e)
    BY KeptAppend
  <2>5. Kept(Append(s \o u, e), D)
          = IF e \in D THEN Kept(s \o u, D) ELSE Append(Kept(s \o u, D), e)
    <3> DEFINE v == s \o u
    <3>1. v \in Seq(S)
      OBVIOUS
    <3> HIDE DEF v
    <3>2. Kept(Append(v, e), D) = IF e \in D THEN Kept(v, D) ELSE Append(Kept(v, D), e)
      BY <3>1, KeptAppend
    <3> QED BY <3>2 DEF v
  <2>6. Kept(s, D) \o Append(Kept(u, D), e) = Append(Kept(s, D) \o Kept(u, D), e)
    BY <2>2
  <2> QED BY <2>1, <2>3, <2>4, <2>5, <2>6
<1>3. Seq(S) \subseteq T
  <2> HIDE DEF T
  <2> QED BY <1>1, <1>2, SeqSetInduction
<1> QED BY <1>3

(* Filtering by two sets, one after the other or together.                 *)
LEMMA KeptTwice ==
  ASSUME NEW S, NEW D, NEW E, NEW F, F = D \cup E
  PROVE  \A s \in Seq(S) : Kept(s, F) = Kept(Kept(s, D), E)
<1> DEFINE T == {s \in Seq(S) : Kept(s, F) = Kept(Kept(s, D), E)}
<1>1. << >> \in T
  BY KeptEmpty, EmptySeq
<1>2. ASSUME NEW s \in Seq(S), NEW l \in S, s \in T PROVE Append(s, l) \in T
  <2> DEFINE k == Kept(s, D)
  <2>1. k \in Seq(S) /\ Append(s, l) \in Seq(S) /\ Kept(s, F) = Kept(k, E)
    BY <1>2, KeptType
  <2>2. Kept(Append(s, l), D) = IF l \in D THEN k ELSE Append(k, l)
    BY KeptAppend
  <2>3. Kept(Append(s, l), F) = IF l \in F THEN Kept(s, F) ELSE Append(Kept(s, F), l)
    BY KeptAppend
  <2> HIDE DEF k
  <2>4. Kept(Append(k, l), E) = IF l \in E THEN Kept(k, E) ELSE Append(Kept(k, E), l)
    BY <2>1, KeptAppend
  <2> QED BY <2>1, <2>2, <2>3, <2>4
<1>3. Seq(S) \subseteq T
  <2> HIDE DEF T
  <2> QED BY <1>1, <1>2, SeqSetInduction
<1> QED BY <1>3

LEMMA ToSetAppend ==
  ASSUME NEW S, NEW s \in Seq(S), NEW l \in S
  PROVE  ToSet(Append(s, l)) = ToSet(s) \cup {l}
BY AppendProperties DEF ToSet

(* Filtering by a set that holds none, or all, of the elements.            *)
LEMMA KeptAllOrNone ==
  ASSUME NEW S, NEW D
  PROVE  \A s \in Seq(S) : /\ ToSet(s) \cap D = {} => Kept(s, D) = s
                           /\ ToSet(s) \subseteq D => Kept(s, D) = << >>
<1> DEFINE P(s) == /\ ToSet(s) \cap D = {} => Kept(s, D) = s
                   /\ ToSet(s) \subseteq D => Kept(s, D) = << >>
           T == {s \in Seq(S) : P(s)}
<1>1. << >> \in T
  BY KeptEmpty, EmptySeq DEF ToSet
<1>2. ASSUME NEW s \in Seq(S), NEW l \in S, s \in T PROVE Append(s, l) \in T
  <2>1. P(s) /\ ToSet(Append(s, l)) = ToSet(s) \cup {l} /\ Append(s, l) \in Seq(S)
    BY <1>2, ToSetAppend
  <2>2. Kept(Append(s, l), D) = IF l \in D THEN Kept(s, D) ELSE Append(Kept(s, D), l)
    BY KeptAppend
  <2> QED BY <2>1, <2>2
<1>3. Seq(S) \subseteq T
  <2> HIDE DEF T
  <2> QED BY <1>1, <1>2, SeqSetInduction
<1> QED BY <1>3

(* What is kept of a sequence without repetitions.                         *)
Distinct(s) == \A i, j \in DOMAIN s : s[i] = s[j] => i = j

(* Which elements are left, and that none is repeated.                     *)
LEMMA KeptSet ==
  ASSUME NEW S, NEW D
  PROVE  \A s \in Seq(S) : /\ ToSet(Kept(s, D)) = ToSet(s) \ D
                           /\ Distinct(s) => Distinct(Kept(s, D))
<1> DEFINE P(s) == /\ ToSet(Kept(s, D)) = ToSet(s) \ D
                   /\ Distinct(s) => Distinct(Kept(s, D))
           T == {s \in Seq(S) : P(s)}
<1>1. << >> \in T
  BY KeptEmpty, EmptySeq DEF ToSet
<1>2. ASSUME NEW s \in Seq(S), NEW l \in S, s \in T PROVE Append(s, l) \in T
  <2>1. P(s) /\ ToSet(Append(s, l)) = ToSet(s) \cup {l} /\ Append(s, l) \in Seq(S)
    BY <1>2, ToSetAppend
  <2>2. Kept(Append(s, l), D) = IF l \in D THEN Kept(s, D) ELSE Append(Kept(s, D), l)
    BY KeptAppend
  <2>3. Kept(s, D) \in Seq(S)
    BY KeptType
  <2>4. ToSet(Append(Kept(s, D), l)) = ToSet(Kept(s, D)) \cup {l}
    BY <2>3, ToSetAppend
  <2>5. ToSet(Kept(Append(s, l), D)) = ToSet(Append(s, l)) \ D
    BY <2>1, <2>2, <2>4
  <2>6. ASSUME Distinct(Append(s, l)) PROVE Distinct(s) /\ l \notin ToSet(s)
    <3> DEFINE u == Append(s, l)
               n == Len(s)
    <3>1. /\ n \in Nat /\ DOMAIN s = 1..n /\ DOMAIN u = 1..(n + 1) /\ u[n + 1] = l
          /\ \A i \in 1..n : u[i] = s[i]
      BY AppendProperties, LenProperties
    <3>2. \A i, j \in 1..(n + 1) : u[i] = u[j] => i = j
      BY <2>6, <3>1 DEF Distinct
    <3> HIDE DEF u, n
    <3>3. \A i \in 1..n : i \in 1..(n + 1) /\ i # n + 1
      BY <3>1
    <3>4. n + 1 \in 1..(n + 1)
      BY <3>1
    <3> QED BY <3>1, <3>2, <3>3, <3>4 DEF Distinct, ToSet
  <2>7. ASSUME Distinct(Kept(s, D)), l \notin ToSet(Kept(s, D)) PROVE Distinct(Append(Kept(s, D), l))
    <3> DEFINE k == Kept(s, D)
               u == Append(k, l)
               n == Len(k)
    <3>1. /\ n \in Nat /\ DOMAIN k = 1..n /\ DOMAIN u = 1..(n + 1) /\ u[n + 1] = l
          /\ \A i \in 1..n : u[i] = k[i]
      BY <2>3, AppendProperties, LenProperties
    <3>2. /\ \A i, j \in 1..n : k[i] = k[j] => i = j
          /\ \A i \in 1..n : k[i] # l
      BY <2>7, <3>1 DEF Distinct, ToSet
    <3> HIDE DEF k, u, n
    <3>3. \A i \in 1..(n + 1) : i \in 1..n \/ i = n + 1
      BY <3>1
    <3> QED BY <3>1, <3>2, <3>3 DEF Distinct, u, k
  <2>8. ASSUME Distinct(Append(s, l)) PROVE Distinct(Kept(Append(s, l), D))
    BY <2>1, <2>2, <2>6, <2>7, <2>8
  <2> QED BY <2>1, <2>5, <2>8
<1>3. Seq(S) \subseteq T
  <2> HIDE DEF T
  <2> QED BY <1>1, <1>2, SeqSetInduction
<1> QED BY <1>3

(* m is a part of what is kept of s without D, w is the rest of it, and F  *)
(* has the elements of D and of m.                                         *)
PartOfKept(s, D, a, m, b, w, F) ==
  /\ Distinct(s) /\ Kept(s, D) = a \o m \o b
  /\ w = a \o b /\ F = D \cup ToSet(m)

(* Of a sequence a \o m \o b without repetition, a filter by the elements  *)
(* of m leaves a \o b.                                                     *)
LEMMA KeptWithout ==
  ASSUME NEW S, NEW s \in Seq(S), NEW D, NEW a \in Seq(S), NEW m \in Seq(S), NEW b \in Seq(S),
         NEW w, NEW F,
         PartOfKept(s, D, a, m, b, w, F)
  PROVE  Kept(s, F) = w
<1> USE DEF PartOfKept
<1> DEFINE k == a \o m \o b
           M == ToSet(m)
<1>1. Distinct(k)
  <2>1. Distinct(Kept(s, D))
    BY KeptSet
  <2> QED BY <2>1
<1>2. ToSet(a) \cap M = {} /\ ToSet(b) \cap M = {}
  <2>1. \A i \in DOMAIN a : i \in DOMAIN k /\ k[i] = a[i]
    OBVIOUS
  <2>2. \A i \in DOMAIN m : Len(a) + i \in DOMAIN k /\ k[Len(a) + i] = m[i] /\ Len(a) + i \notin DOMAIN a
    OBVIOUS
  <2>3. \A i \in DOMAIN b : /\ Len(a) + Len(m) + i \in DOMAIN k
                            /\ k[Len(a) + Len(m) + i] = b[i]
                            /\ \A j \in DOMAIN m : Len(a) + j # Len(a) + Len(m) + i
    OBVIOUS
  <2> HIDE DEF k
  <2> QED BY <1>1, <2>1, <2>2, <2>3 DEF ToSet, Distinct
<1>3. Kept(a, M) = a /\ Kept(b, M) = b /\ Kept(m, M) = << >>
  BY <1>2, KeptAllOrNone
<1> HIDE DEF M
<1>4. /\ a \o m \in Seq(S) /\ Kept(s, D) = (a \o m) \o b
      /\ a \o << >> = a /\ w = a \o b
  BY ConcatEmptySeq
<1>5. KeptDistributes(S, M)
  BY KeptConcat, Zenon
<1>6. Kept(a \o m, M) = a \o << >>
  BY <1>3, <1>5, Zenon DEF KeptDistributes
<1>7. Kept((a \o m) \o b, M) = Kept(a \o m, M) \o Kept(b, M)
  BY <1>4, <1>5, Zenon DEF KeptDistributes
<1>8. F = D \cup M
  BY DEF M
<1>9. \A u \in Seq(S) : Kept(u, F) = Kept(Kept(u, D), M)
  BY ONLY <1>8, KeptTwice
<1> QED BY <1>3, <1>4, <1>6, <1>7, <1>9, Zenon

-----------------------------------------------------------------------------
(* The content of a list of buffers.                                       *)

(* Concatenation is associative.                                           *)
LEMMA Regroup ==
  \A a, b, c \in Seq(Lines) : (a \o b) \o c = a \o (b \o c) /\ a \o b \in Seq(Lines)
OBVIOUS

LEMMA RegroupLast ==
  \A w, d \in Seq(Lines), l \in Lines : Append(w \o d, l) = w \o Append(d, l)
OBVIOUS

(* The lines of a sequence of buffers.                                     *)
LEMMA ContentEmpty == Content(<< >>) = << >>
<1>1. [i \in DOMAIN << >> |-> << >>[i].data] = << >>
  OBVIOUS
<1> QED
  BY <1>1, FlattenEmpty DEF Content

LEMMA ContentAppend ==
  ASSUME NEW bufs \in Seq(Buffer), NEW b \in Buffer
  PROVE  /\ Content(bufs) \in Seq(Lines)
         /\ Content(Append(bufs, b)) = Content(bufs) \o b.data
<1> DEFINE p == [i \in DOMAIN bufs |-> bufs[i].data]
           u == Append(bufs, b)
           r == [i \in DOMAIN u |-> u[i].data]
           n == Len(bufs)
<1>1. \A x \in Buffer : x.data \in Seq(Lines)
  BY DEF Buffer
<1>2. /\ n \in Nat /\ DOMAIN bufs = 1..n /\ DOMAIN u = 1..(n + 1) /\ u[n + 1] = b
      /\ \A i \in 1..n : u[i] = bufs[i] /\ bufs[i] \in Buffer
  BY AppendProperties, LenProperties, ElementOfSeq
<1>3. Content(bufs) = FlattenSeq(p) /\ Content(u) = FlattenSeq(r)
  BY DEF Content
<1> HIDE DEF u, n
<1>4. p \in Seq(Seq(Lines)) /\ Len(p) = n
  BY <1>1, <1>2, IsASeq
<1>5. r = Append(p, b.data)
  <2>1. /\ Append(p, b.data) \in Seq(Seq(Lines)) /\ Len(Append(p, b.data)) = n + 1
        /\ \A i \in 1..n : Append(p, b.data)[i] = p[i]
        /\ Append(p, b.data)[n + 1] = b.data
    BY <1>1, <1>4, AppendProperties
  <2>2. \A i \in 1..(n + 1) : i \in 1..n \/ i = n + 1
    BY <1>2
  <2>3. \A i \in 1..(n + 1) : u[i] \in Buffer
    BY <1>2, <2>2
  <2>4. r \in Seq(Seq(Lines)) /\ Len(r) = n + 1
    BY <1>1, <1>2, <2>3, IsASeq
  <2>5. \A i \in 1..(n + 1) : r[i] = Append(p, b.data)[i]
    BY <1>2, <2>1, <2>2
  <2> HIDE DEF p, r
  <2> QED
    BY <2>1, <2>4, <2>5, SeqEqual
<1> HIDE DEF p, r
<1>6. FlattenSeq(p) \in Seq(Lines) /\ FlattenSeq(r) = FlattenSeq(p) \o b.data
  BY <1>1, <1>4, <1>5, FlattenAppend
<1> QED
  BY <1>3, <1>6 DEF u

LEMMA ContentType ==
  ASSUME NEW bufs \in Seq(Buffer) PROVE Content(bufs) \in Seq(Lines)
  BY ContentAppend, EmptyIsBuffer

LEMMA ContentConcat ==
  ASSUME NEW a \in Seq(Buffer)
  PROVE  \A b \in Seq(Buffer) : Content(a \o b) = Content(a) \o Content(b)
<1> DEFINE T == {b \in Seq(Buffer) : Content(a \o b) = Content(a) \o Content(b)}
<1>1. << >> \in T
  BY ContentEmpty, ContentType, ConcatEmptySeq, EmptySeq
<1>2. ASSUME NEW b \in Seq(Buffer), NEW e \in Buffer, b \in T PROVE Append(b, e) \in T
  <2> DEFINE c == a \o b
  <2>1. /\ Append(b, e) \in Seq(Buffer) /\ c \in Seq(Buffer)
        /\ a \o Append(b, e) = Append(c, e)
    OBVIOUS
  <2>2. Content(c) = Content(a) \o Content(b)
    BY <1>2
  <2> HIDE DEF c
  <2>3. Content(Append(c, e)) = Content(c) \o e.data
    BY <2>1, ContentAppend
  <2>4. Content(Append(b, e)) = Content(b) \o e.data
    BY ContentAppend
  <2>5. Content(a) \in Seq(Lines) /\ Content(b) \in Seq(Lines) /\ e.data \in Seq(Lines)
    <3>1. e.data \in Seq(Lines)
      BY DEF Buffer
    <3> QED
      BY <3>1, ContentType
  <2>6. (Content(a) \o Content(b)) \o e.data = Content(a) \o (Content(b) \o e.data)
    BY <2>5, Regroup, Zenon
  <2> QED
    BY <2>1, <2>2, <2>3, <2>4, <2>6
<1>3. Seq(Buffer) \subseteq T
  <2> HIDE DEF T
  <2> QED
    BY <1>1, <1>2, SeqSetInduction
<1> QED
  BY <1>3

(* The buffers that are kept, and those that are thrown away.              *)
LEMMA ContentSplit ==
  ASSUME NEW bufs \in Seq(Buffer), Len(bufs) > 2
  PROVE  /\ SubSeq(bufs, 1, 2) \in Seq(Buffer) /\ SubSeq(bufs, 3, Len(bufs)) \in Seq(Buffer)
         /\ Content(bufs) = Content(SubSeq(bufs, 1, 2)) \o Content(SubSeq(bufs, 3, Len(bufs)))
<1> DEFINE a == SubSeq(bufs, 1, 2)
           b == SubSeq(bufs, 3, Len(bufs))
<1>1. a \in Seq(Buffer) /\ b \in Seq(Buffer)
  <2>1. Len(bufs) \in Nat /\ \A i \in 1..Len(bufs) : bufs[i] \in Buffer
    BY LenProperties, ElementOfSeq
  <2>2. \A i \in 1..2 : bufs[i] \in Buffer
    BY <2>1
  <2>3. \A i \in 3..Len(bufs) : bufs[i] \in Buffer
    BY <2>1
  <2> QED
    BY <2>1, <2>2, <2>3, SubSeqProperties
<1>2. bufs = a \o b
  OBVIOUS
<1> HIDE DEF a, b
<1>3. Content(a \o b) = Content(a) \o Content(b)
  BY <1>1, ContentConcat
<1> QED
  BY <1>1, <1>2, <1>3 DEF a, b

-----------------------------------------------------------------------------
(* The lines.  No line is appended twice, a dropped line was appended, and *)
(* a spare buffer, wherever it waits, is empty: append() may start to fill *)
(* it and collect may put it in front without a reset.                     *)
Spare == {Null, EmptyBuffer}

LineInv ==
  /\ Distinct(appended) /\ dropped \subseteq ToSet(appended)
  /\ nextBuffer_ \in Spare /\ newBuffer1 \in Spare /\ newBuffer2 \in Spare
  /\ output \in Seq(Lines)
  /\ LinesConserved

(* A sequence without repetition and an element that is new to it.         *)
LEMMA DistinctAppend ==
  ASSUME NEW S, NEW s \in Seq(S), NEW l \in S, Distinct(s), l \notin ToSet(s)
  PROVE  Distinct(Append(s, l))
<1> DEFINE u == Append(s, l)
           n == Len(s)
<1>1. /\ n \in Nat /\ DOMAIN s = 1..n /\ DOMAIN u = 1..(n + 1) /\ u[n + 1] = l
      /\ \A i \in 1..n : u[i] = s[i]
  BY AppendProperties, LenProperties
<1>2. /\ \A i, j \in 1..n : s[i] = s[j] => i = j
      /\ \A i \in 1..n : s[i] # l
  BY <1>1 DEF Distinct, ToSet
<1> HIDE DEF u, n
<1>3. \A i \in 1..(n + 1) : i \in 1..n \/ i = n + 1
  BY <1>1
<1> QED
  BY <1>1, <1>2, <1>3 DEF Distinct, u

(* The types of the four parts of the log.                                 *)
LEMMA PartsType ==
  ASSUME SafetyInv, LineInv
  PROVE  /\ currentBuffer_ \in Buffer /\ currentBuffer_.data \in Seq(Lines)
         /\ Content(buffers_) \in Seq(Lines) /\ InFlight \in Seq(Lines)
         /\ output \in Seq(Lines) /\ appended \in Seq(Lines)
<1>1. currentBuffer_ \in Buffer /\ buffers_ \in Seq(Buffer) /\ buffersToWrite \in Seq(Buffer)
  BY DEF SafetyInv, TypeOK, PointerInv
<1>2. Content(buffers_) \in Seq(Lines) /\ Content(buffersToWrite) \in Seq(Lines)
  BY <1>1, ContentType
<1>3. currentBuffer_.data \in Seq(Lines)
  BY <1>1 DEF Buffer
<1>4. InFlight \in Seq(Lines)
  BY <1>2, EmptySeq DEF InFlight
<1> QED
  BY <1>1, <1>2, <1>3, <1>4 DEF SafetyInv, TypeOK, LineInv

(* What a step that changes none of it leaves as it was.                   *)
LEMMA LinesUnchanged ==
  ASSUME LineInv, InFlight' = InFlight, UNCHANGED <<currentBuffer_, buffers_, hist>>,
         {nextBuffer_', newBuffer1', newBuffer2'} \subseteq Spare
  PROVE  LineInv'
<1>1. LinesConserved'
  <2>1. Content(buffers_)' = Content(buffers_) /\ Kept(appended, dropped)' = Kept(appended, dropped)
    BY DEF hist, Content, Kept
  <2> QED
    BY <2>1 DEF LineInv, LinesConserved, hist
<1>2. Distinct(appended)' /\ (dropped \subseteq ToSet(appended))'
  BY DEF LineInv, hist, Distinct, ToSet
<1> QED
  BY <1>1, <1>2 DEF LineInv, hist

(* The exchange under the lock puts all the buffered lines in flight.      *)
LEMMA CollectLines ==
  ASSUME SafetyInv, LineInv, tpc \in {"lock", "wait"}, collect, UNCHANGED hist
  PROVE  LineInv'
<1> DEFINE C == Content(buffers_)
           d == currentBuffer_.data
<1>1. /\ d \in Seq(Lines) /\ C \in Seq(Lines) /\ output \in Seq(Lines)
      /\ currentBuffer_ \in Buffer /\ buffers_ \in Seq(Buffer)
  BY PartsType DEF SafetyInv, TypeOK
<1>2. newBuffer1 = EmptyBuffer /\ newBuffer2 = EmptyBuffer
  BY DEF SafetyInv, PointerInv, LineInv, Spare
<1>3. InFlight = << >>
  BY DEF InFlight
<1>4. InFlight' = C \o d
  <2>1. InFlight' = Content(Append(buffers_, currentBuffer_))
    BY DEF InFlight, collect, Content
  <2> QED
    BY <1>1, <2>1, ContentAppend
<1>5. Content(buffers_)' = << >>
  BY ContentEmpty DEF collect, Content
<1>6. currentBuffer_'.data = << >>
  BY <1>2 DEF collect, EmptyBuffer
<1>7. Kept(appended, dropped)' = Kept(appended, dropped) /\ output' = output
  BY DEF hist, Kept
<1>8. Kept(appended, dropped) = output \o << >> \o C \o d
  BY <1>3 DEF LineInv, LinesConserved
<1>9. output \o << >> \o C \o d = output \o (C \o d) \o << >> \o << >>
  <2> HIDE DEF C, d
  <2> QED
    BY <1>1
<1>10. LinesConserved'
  <2> HIDE DEF C, d
  <2> QED
    BY <1>4, <1>5, <1>6, <1>7, <1>8, <1>9 DEF LinesConserved
<1>11. Distinct(appended)' /\ (dropped \subseteq ToSet(appended))' /\ output' \in Seq(Lines)
  BY DEF LineInv, hist, Distinct, ToSet
<1>12. nextBuffer_' \in Spare /\ newBuffer1' \in Spare /\ newBuffer2' \in Spare
  BY <1>2 DEF collect, LineInv, Spare
<1> QED
  BY <1>10, <1>11, <1>12 DEF LineInv

(* append() puts its line behind all others, in a buffer that may be new;  *)
(* or ignores it.                                                          *)
LEMMA AppendLines ==
  ASSUME SafetyInv, LineInv, NEW l \in Lines, append(l)
  PROVE  LineInv'
<1> DEFINE K == Kept(appended, dropped)
           I == InFlight
           C == Content(buffers_)
           d == currentBuffer_.data
<1>1. /\ d \in Seq(Lines) /\ C \in Seq(Lines) /\ I \in Seq(Lines) /\ output \in Seq(Lines)
      /\ currentBuffer_ \in Buffer /\ buffers_ \in Seq(Buffer) /\ appended \in Seq(Lines)
  BY PartsType DEF SafetyInv, TypeOK
<1>2. K = output \o I \o C \o d
  BY DEF LineInv, LinesConserved
<1>3. /\ l \notin ToSet(appended) /\ appended' = Append(appended, l) /\ output' = output
      /\ I' = I
  BY DEF append, InFlight, Content, back_
<1>4. Distinct(appended)' /\ ToSet(appended)' = ToSet(appended) \cup {l}
  <2>1. Distinct(Append(appended, l)) /\ ToSet(Append(appended, l)) = ToSet(appended) \cup {l}
    BY <1>1, <1>3, DistinctAppend, ToSetAppend DEF LineInv
  <2> QED
    BY <1>3, <2>1 DEF Distinct, ToSet
<1>5. l \notin dropped /\ K \in Seq(Lines) /\ Kept(appended', dropped) = Append(K, l)
  BY <1>1, <1>3, KeptAppend DEF LineInv
<1>6. CASE Fits(currentBuffer_, l)
  <2>1. /\ currentBuffer_' = [data |-> Append(d, l), len |-> currentBuffer_.len + LineLen[l]]
        /\ UNCHANGED <<nextBuffer_, buffers_, dropped, newBuffer1, newBuffer2>>
    BY <1>6 DEF append, Put, back_
  <2>2. currentBuffer_'.data = Append(d, l) /\ C' = C /\ K' = Append(K, l)
    BY <1>5, <2>1 DEF Content, Kept
  <2>3. Append(output \o I \o C \o d, l) = output \o I \o C \o Append(d, l)
    <3> HIDE DEF I, C, d
    <3>1. output \o I \o C \in Seq(Lines)
      BY <1>1
    <3> QED
      BY <1>1, <3>1, RegroupLast, Zenon
  <2>4. LinesConserved'
    <3> HIDE DEF I, C, d, K
    <3>1. K' = output' \o I' \o C' \o currentBuffer_'.data
      BY <1>2, <1>3, <2>2, <2>3
    <3> QED
      BY <3>1 DEF LinesConserved, I, C, K
  <2> QED
    BY <1>1, <1>3, <1>4, <2>1, <2>4 DEF LineInv
<1>7. CASE ~Fits(currentBuffer_, l)
  <2>1. /\ buffers_' = Append(buffers_, currentBuffer_) /\ nextBuffer_' = Null
        /\ currentBuffer_' = Put(EmptyBuffer, l)
        /\ dropped' = IF Fits(EmptyBuffer, l) THEN dropped ELSE dropped \cup {l}
        /\ UNCHANGED <<newBuffer1, newBuffer2>>
    BY <1>7 DEF append, rotate, back_, LineInv, Spare
  <2>2. C' = C \o d
    <3>1. Content(Append(buffers_, currentBuffer_)) = C \o d
      BY <1>1, ContentAppend
    <3> QED
      BY <2>1, <3>1 DEF Content
  <2>3. CASE Fits(EmptyBuffer, l)
    <3>1. dropped' = dropped /\ currentBuffer_'.data = <<l>>
      BY <2>1, <2>3 DEF Put, EmptyBuffer
    <3>2. K' = Append(K, l)
      BY <1>5, <3>1 DEF Kept
    <3>3. Append(output \o I \o C \o d, l) = output \o I \o (C \o d) \o <<l>>
      <4> HIDE DEF I, C, d
      <4> QED
        BY <1>1
    <3>4. LinesConserved'
      <4> HIDE DEF I, C, d, K
      <4>1. K' = output' \o I' \o C' \o currentBuffer_'.data
        BY <1>2, <1>3, <2>2, <3>1, <3>2, <3>3
      <4> QED
        BY <4>1 DEF LinesConserved, I, C, K
    <3> QED
      BY <1>1, <1>3, <1>4, <2>1, <3>1, <3>4 DEF LineInv, Spare
  <2>4. CASE ~Fits(EmptyBuffer, l)
    <3>1. dropped' = dropped \cup {l} /\ currentBuffer_'.data = << >>
      BY <2>1, <2>4 DEF Put, EmptyBuffer
    <3>2. K' = K
      <4> DEFINE D == dropped'
      <4>1. D = dropped \cup {l} /\ K' = Kept(appended', D)
        BY <3>1 DEF Kept
      <4> HIDE DEF D
      <4>2. Kept(Append(appended, l), D) = Kept(appended, D)
        BY <1>1, <4>1, KeptAppend
      <4>3. \A s \in Seq(Lines) : Kept(s, D) = Kept(Kept(s, dropped), {l})
        BY ONLY <4>1, KeptTwice
      <4>4. ToSet(K) \cap {l} = {}
        BY <1>1, <1>3, KeptSet
      <4>5. Kept(K, {l}) = K
        <5> HIDE DEF K
        <5> QED
          BY <1>5, <4>4, KeptAllOrNone
      <4> QED
        BY <1>1, <1>3, <4>1, <4>2, <4>3, <4>5
    <3>3. output \o I \o C \o d = output \o I \o (C \o d) \o << >>
      <4> HIDE DEF I, C, d
      <4> QED
        BY <1>1
    <3>4. LinesConserved'
      <4> HIDE DEF I, C, d, K
      <4>1. K' = output' \o I' \o C' \o currentBuffer_'.data
        BY <1>2, <1>3, <2>2, <3>1, <3>2, <3>3
      <4> QED
        BY <4>1 DEF LinesConserved, I, C, K
    <3> QED
      BY <1>1, <1>3, <1>4, <2>1, <3>1, <3>4 DEF LineInv, Spare
  <2> QED
    BY <2>3, <2>4
<1> QED
  BY <1>6, <1>7

(* Too many buffers: the lines behind the second one are in flight no      *)
(* more, and they are those that are recorded as dropped.                  *)
LEMMA DropLines ==
  ASSUME SafetyInv, LineInv, dropExcess
  PROVE  LineInv'
<1>1. CASE ~(Len(buffersToWrite) > DropLimit)
  <2>1. /\ UNCHANGED <<front, newBuffer1, newBuffer2, buffersToWrite, hist>>
        /\ tpc = "drop" /\ tpc' = "write"
    BY <1>1 DEF dropExcess, hist
  <2>2. InFlight' = InFlight
    BY <2>1 DEF InFlight, Content
  <2> QED
    BY <2>1, <2>2, LinesUnchanged DEF front, LineInv
<1>2. CASE Len(buffersToWrite) > DropLimit
  <2> DEFINE B == buffersToWrite
             h == Content(SubSeq(B, 1, 2))
             m == Content(SubSeq(B, 3, Len(B)))
             C == Content(buffers_)
             d == currentBuffer_.data
             K == Kept(appended, dropped)
  <2>1. /\ B \in Seq(Buffer) /\ Len(B) > 2
        /\ d \in Seq(Lines) /\ C \in Seq(Lines) /\ output \in Seq(Lines)
        /\ appended \in Seq(Lines)
    <3>1. B \in Seq(Buffer)
      BY DEF SafetyInv, TypeOK
    <3>2. Len(B) > 2
      BY <1>2, <3>1, AsyncLoggingAssumption, LenProperties DEF AsyncLoggingAssumption
    <3> QED
      BY <3>1, <3>2, PartsType
  <2>2. h \in Seq(Lines) /\ m \in Seq(Lines) /\ Content(B) = h \o m
    BY <2>1, ContentSplit, ContentType
  <2>3. /\ tpc = "drop" /\ tpc' = "write" /\ buffersToWrite' = SubSeq(B, 1, 2)
        /\ dropped' = dropped \cup ToSet(m)
        /\ UNCHANGED <<currentBuffer_, buffers_, nextBuffer_, newBuffer1, newBuffer2, appended, output>>
    BY <1>2, Zenon DEF dropExcess, front
  <2>4. K = output \o (h \o m) \o C \o d
    BY <2>2, <2>3 DEF LineInv, LinesConserved, InFlight
  <2>5. InFlight' = h /\ C' = C
    BY <2>3 DEF InFlight, Content
  <2> HIDE DEF h, m, C, d
  <2>6. /\ output \o (h \o m) \o C \o d = (output \o h) \o m \o (C \o d)
        /\ (output \o h) \o (C \o d) = output \o h \o C \o d
        /\ output \o h \in Seq(Lines) /\ C \o d \in Seq(Lines)
    <3> DEFINE w == output \o h
    <3>1. w \in Seq(Lines)
      BY <2>1, <2>2, Regroup, Zenon
    <3>2. output \o (h \o m) = w \o m
      BY <2>1, <2>2, Regroup, Zenon
    <3> HIDE DEF w
    <3> DEFINE v == w \o m
    <3>3. v \in Seq(Lines)
      BY <2>2, <3>1, Regroup, Zenon
    <3> HIDE DEF v
    <3>4. (v \o C) \o d = v \o (C \o d)
      BY <2>1, <3>3, Regroup, Zenon
    <3>5. (w \o C) \o d = w \o (C \o d)
      BY <2>1, <3>1, Regroup, Zenon
    <3>6. C \o d \in Seq(Lines)
      BY <2>1, Regroup, Zenon
    <3> QED
      BY <3>1, <3>2, <3>4, <3>5, <3>6, Zenon DEF v, w
  <2>7. K' = (output \o h) \o (C \o d)
    <3> DEFINE F == dropped'
               a == output \o h
               b == C \o d
               w == a \o b
    <3>1. a \in Seq(Lines) /\ b \in Seq(Lines) /\ K = a \o m \o b
      BY <2>4, <2>6
    <3>2. F = dropped \cup ToSet(m)
      BY <2>3
    <3>3. K' = Kept(appended, F)
      BY <2>3 DEF Kept
    <3> HIDE DEF a, b, w, F
    <3>4. Kept(appended, F) = w
      <4>1. Distinct(appended)
        BY DEF LineInv
      <4> QED
        <5>1. PartOfKept(appended, dropped, a, m, b, w, F)
          BY <3>1, <3>2, <4>1 DEF PartOfKept, w
        <5>2. /\ appended \in Seq(Lines) /\ a \in Seq(Lines) /\ m \in Seq(Lines)
              /\ b \in Seq(Lines)
          BY <2>1, <2>2, <3>1
        <5> QED
          BY ONLY <5>1, <5>2, KeptWithout
    <3> QED
      BY <3>3, <3>4 DEF a, b, w
  <2>8. LinesConserved'
    <3> HIDE DEF K
    <3>1. K' = output' \o InFlight' \o C' \o currentBuffer_'.data
      BY <2>3, <2>5, <2>6, <2>7 DEF d
    <3> QED
      BY <3>1 DEF LinesConserved, C, K
  <2>9. dropped' \subseteq ToSet(appended)
    <3>1. ToSet(K) = ToSet(appended) \ dropped
      BY <2>1, KeptSet
    <3>2. \A i \in DOMAIN m : /\ Len(output \o h) + i \in DOMAIN ((output \o h) \o m \o (C \o d))
                              /\ ((output \o h) \o m \o (C \o d))[Len(output \o h) + i] = m[i]
      BY <2>1, <2>2
    <3>3. ToSet(m) \subseteq ToSet(K)
      BY <2>4, <2>6, <3>2 DEF ToSet
    <3> QED
      BY <2>3, <3>1, <3>3 DEF LineInv
  <2> QED
    BY <2>3, <2>8, <2>9 DEF LineInv, Distinct, ToSet
<1> QED
  BY <1>1, <1>2

(* The lines in flight are written behind those in the file.               *)
LEMMA WriteLines ==
  ASSUME SafetyInv, LineInv, write
  PROVE  LineInv'
<1> DEFINE I == InFlight
           C == Content(buffers_)
           d == currentBuffer_.data
<1>1. /\ d \in Seq(Lines) /\ C \in Seq(Lines) /\ I \in Seq(Lines) /\ output \in Seq(Lines)
  BY PartsType
<1>2. /\ output' = output \o I /\ InFlight' = << >> /\ C' = C
      /\ UNCHANGED <<currentBuffer_, nextBuffer_, newBuffer1, newBuffer2, appended, dropped>>
  BY DEF write, InFlight, Content, front
<1>3. Kept(appended, dropped)' = output \o I \o C \o d
  BY <1>2 DEF LineInv, LinesConserved, Kept
<1>4. output \o I \o C \o d = (output \o I) \o << >> \o C \o d /\ output \o I \in Seq(Lines)
  <2> HIDE DEF I, C, d
  <2> QED
    BY <1>1
<1>5. LinesConserved'
  <2>1. Kept(appended, dropped)' = output' \o InFlight' \o C' \o currentBuffer_'.data
    BY <1>2, <1>3, <1>4
  <2> QED
    BY <2>1 DEF LinesConserved
<1> QED
  BY <1>2, <1>4, <1>5 DEF LineInv, Distinct, ToSet

(* LineInv, and with it LinesConserved, is inductive: no interleaving of   *)
(* append() with the exchange under the lock loses, repeats or reorders a  *)
(* line, and the only ones missing are those that are thrown away.         *)
THEOREM LinesSafe == Spec => []LinesConserved
<1>1. Init => LineInv
  <2> SUFFICES ASSUME Init PROVE LineInv
    OBVIOUS
  <2>1. /\ Kept(appended, dropped) = << >> /\ Content(buffers_) = << >> /\ InFlight = << >>
        /\ currentBuffer_.data = << >> /\ output = << >>
    BY KeptEmpty, ContentEmpty DEF Init, InFlight, EmptyBuffer
  <2>2. LinesConserved
    BY <2>1 DEF LinesConserved
  <2> QED
    BY <2>1, <2>2, EmptySeq DEF Init, LineInv, Spare, Distinct, ToSet
<1>2. SafetyInv /\ LineInv /\ [Next]_vars => LineInv'
  <2> SUFFICES ASSUME SafetyInv, LineInv, [Next]_vars PROVE LineInv'
    OBVIOUS
  <2> USE DEF front, back_
  <2>1. ASSUME NEW l \in Lines, append(l) PROVE LineInv'
    BY <2>1, AppendLines
  <2>2. CASE start
    <3>1. tpc = "none" /\ tpc' = "while"
      BY <2>2 DEF start, SafetyInv, PointerInv
    <3>2. InFlight' = InFlight
      BY <3>1 DEF InFlight
    <3> QED
      BY <2>2, <3>2, LinesUnchanged DEF start, LineInv, Spare
  <2>3. CASE stop \/ stopNotify \/ stopJoin
    <3>1. UNCHANGED <<front, back_, tpc, hist>>
      BY <2>3 DEF stop, stopNotify, stopJoin
    <3>2. InFlight' = InFlight
      BY <3>1 DEF InFlight, Content
    <3> QED
      BY <3>1, <3>2, LinesUnchanged DEF LineInv
  <2>4. CASE whileRunning
    <3>1. UNCHANGED <<front, back_, hist>> /\ tpc = "while" /\ tpc' \in {"lock", "done"}
      BY <2>4 DEF whileRunning
    <3>2. InFlight' = InFlight
      BY <3>1 DEF InFlight
    <3> QED
      BY <3>1, <3>2, LinesUnchanged DEF LineInv
  <2>5. CASE lock
    <3>1. CASE buffers_ = << >>
      <4>1. UNCHANGED <<front, back_, hist>> /\ tpc = "lock" /\ tpc' = "wait"
        BY <2>5, <3>1 DEF lock
      <4>2. InFlight' = InFlight
        BY <4>1 DEF InFlight
      <4> QED
        BY <4>1, <4>2, LinesUnchanged DEF LineInv
    <3>2. CASE buffers_ # << >>
      BY <2>5, <3>2, CollectLines DEF lock
    <3> QED
      BY <3>1, <3>2
  <2>6. CASE woken
    BY <2>6, CollectLines DEF woken
  <2>7. CASE timeout
    BY <2>7, CollectLines DEF timeout
  <2>8. CASE dropExcess
    BY <2>8, DropLines
  <2>9. CASE write
    BY <2>9, WriteLines
  <2>10. CASE recycle
    <3>1. tpc = "recycle" /\ tpc' = "while" /\ UNCHANGED <<front, hist>>
      BY <2>10 DEF recycle
    <3>2. InFlight' = InFlight
      BY <3>1 DEF InFlight
    <3>3. nextBuffer_' \in Spare /\ newBuffer1' \in Spare /\ newBuffer2' \in Spare
      BY <2>10 DEF recycle, LineInv, Spare
    <3> QED
      BY <3>1, <3>2, <3>3, LinesUnchanged
  <2>11. CASE UNCHANGED vars
    <3>1. UNCHANGED <<front, back_, tpc, hist>>
      BY <2>11 DEF vars
    <3>2. InFlight' = InFlight
      BY <3>1 DEF InFlight, Content
    <3> QED
      BY <3>1, <3>2, LinesUnchanged DEF LineInv
  <2> QED
    BY <2>1, <2>2, <2>3, <2>4, <2>5, <2>6, <2>7, <2>8, <2>9, <2>10, <2>11
    DEF Next, terminated
<1>3. LineInv => LinesConserved
  BY DEF LineInv
<1> QED
  BY <1>1, <1>2, <1>3, LoggerSafe, PTL DEF Spec
=============================================================================

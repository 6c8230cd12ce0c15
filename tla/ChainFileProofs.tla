--------------------------- MODULE ChainFileProofs ---------------------------
(***************************************************************************)
(* What the readers of a chain file make of it when a frame is appended or *)
(* the file is cut: lemmas for the proofs about its writers.               *)
(***************************************************************************)
EXTENDS ChainFile, SequenceTheorems, FiniteSetTheorems, WellFoundedInduction, TLAPS

(* A set of numbers that is not empty has a smallest one. *)
LEMMA SmallestNumber ==
  ASSUME NEW T, T \subseteq Nat, T # {}
  PROVE  \E n \in T : \A m \in T : n <= m
<1> DEFINE R == OpToRel(<, Nat)
<1>1. IsWellFoundedOn(R, Nat)
  BY NatLessThanWellFounded
<1>2. \A x, y \in Nat : y < x => <<y, x>> \in R
  BY DEF OpToRel
<1> HIDE DEF R
<1>3. PICK n \in T : \A m \in T : <<m, n>> \notin R
  BY <1>1, WFMin
<1>4. ASSUME NEW m \in T PROVE n <= m
  <2>1. m \in Nat /\ n \in Nat
    BY <1>3
  <2>2. ~(m < n)
    BY <2>1, <1>2, <1>3
  <2> QED BY <2>1, <2>2
<1> QED BY <1>3, <1>4

(* A reader stops before the first frame it cannot read, or at the end. *)
LEMMA ReadableLenType ==
  ASSUME NEW fs, fs \in Seq(Frame)
  PROVE  /\ ReadableLen(fs) \in 0 .. Len(fs)
         /\ \A i \in 1 .. ReadableLen(fs) : fs[i] # Torn
         /\ ReadableLen(fs) < Len(fs) => fs[ReadableLen(fs) + 1] = Torn
<1> DEFINE Bad == {i \in 1 .. Len(fs) : fs[i] = Torn}
           Stops(n) == /\ \A i \in 1 .. n : fs[i] # Torn
                       /\ n < Len(fs) => fs[n + 1] = Torn
<1>0. Len(fs) \in Nat
  BY LenProperties
<1>1. \E n \in 0 .. Len(fs) : Stops(n)
  <2>1. CASE Bad = {}
    <3>1. Stops(Len(fs))
      BY <2>1, <1>0
    <3> QED BY <3>1, <1>0
  <2>2. CASE Bad # {}
    <3>1. Bad \subseteq Nat
      BY <1>0
    <3> HIDE DEF Bad
    <3>2. PICK b \in Bad : \A m \in Bad : b <= m
      BY <2>2, <3>1, SmallestNumber
    <3> USE DEF Bad
    <3>3. b \in 1 .. Len(fs) /\ fs[b] = Torn
      BY <3>2
    <3>4. \A i \in 1 .. b - 1 : fs[i] # Torn
      BY <3>2, <3>3, <1>0
    <3>5. b - 1 \in 0 .. Len(fs) /\ Stops(b - 1)
      BY <3>3, <3>4, <1>0
    <3> QED BY <3>5
  <2> QED BY <2>1, <2>2
<1>2. ReadableLen(fs) = CHOOSE n \in 0 .. Len(fs) : Stops(n)
  BY DEF ReadableLen
<1> HIDE DEF Stops
<1>3. ReadableLen(fs) \in 0 .. Len(fs) /\ Stops(ReadableLen(fs))
  BY <1>1, <1>2
<1> QED BY <1>3 DEF Stops

(* What is readable is a sequence of records. *)
LEMMA ReadableType ==
  ASSUME NEW fs, fs \in Seq(Frame)
  PROVE  /\ Readable(fs) \in Seq(Frame)
         /\ Len(Readable(fs)) = ReadableLen(fs)
         /\ ~Damaged(fs) => Readable(fs) = fs
<1>1. /\ ReadableLen(fs) \in 0 .. Len(fs) /\ Len(fs) \in Nat
      /\ ReadableLen(fs) < Len(fs) => fs[ReadableLen(fs) + 1] = Torn
  BY ReadableLenType, LenProperties
<1>2. /\ SubSeq(fs, 1, ReadableLen(fs)) \in Seq(Frame)
      /\ Len(SubSeq(fs, 1, ReadableLen(fs))) = ReadableLen(fs)
  BY <1>1, SubSeqProperties
<1>3. ASSUME ~Damaged(fs) PROVE ReadableLen(fs) = Len(fs)
  BY <1>1, <1>3 DEF Damaged
<1>4. SubSeq(fs, 1, Len(fs)) = fs
  BY SMT
<1> QED BY <1>2, <1>3, <1>4 DEF Readable

(* What recovery takes from the readable records fits a writer's head. *)
LEMMA LastType ==
  ASSUME NEW fs, fs \in Seq(Frame)
  PROVE  LastHash(fs) \in Nat /\ LastSeq(fs) \in Nat
<1>1. fs = <<>> \/ fs[Len(fs)] \in Frame
  BY EmptySeq, LenProperties, ElementOfSeq
<1>2. \A rec \in Frame : rec.id \in Nat /\ rec.seq \in Nat
  BY DEF Frame, Record, Torn
<1> QED BY <1>1, <1>2 DEF LastHash, LastSeq, Hash, ZeroHash

(* Appending to the second of two sequences appends to their               *)
(* concatenation.                                                          *)
LEMMA ConcatAppend ==
  ASSUME NEW S, NEW s \in Seq(S), NEW t \in Seq(S), NEW e \in S
  PROVE  s \o Append(t, e) = Append(s \o t, e)
<1> DEFINE l == s \o Append(t, e)
           r == Append(s \o t, e)
<1>1. /\ Len(s) \in Nat /\ Len(t) \in Nat
      /\ Append(t, e) \in Seq(S) /\ s \o t \in Seq(S)
      /\ Len(s \o t) = Len(s) + Len(t)
  BY LenProperties, AppendProperties, ConcatProperties
<1>2. /\ l \in Seq(S) /\ r \in Seq(S)
      /\ Len(l) = Len(s) + Len(t) + 1 /\ Len(r) = Len(s) + Len(t) + 1
  BY <1>1, AppendProperties, ConcatProperties
<1>3. ASSUME NEW i \in 1 .. Len(l)
      PROVE  l[i] = r[i]
  <2>1. CASE i <= Len(s)
    BY <1>1, <1>2, <2>1, AppendProperties, ConcatProperties
  <2>2. CASE i > Len(s) /\ i <= Len(s) + Len(t)
    <3>1. i - Len(s) \in 1 .. Len(t)
      BY <1>1, <1>2, <2>2
    <3>2. l[i] = Append(t, e)[i - Len(s)] /\ (s \o t)[i] = t[i - Len(s)]
      BY <1>1, <1>2, <2>2, AppendProperties, ConcatProperties
    <3> QED BY <1>1, <1>2, <2>2, <3>1, <3>2, AppendProperties
  <2>3. CASE i = Len(s) + Len(t) + 1
    BY <1>1, <1>2, <2>3, AppendProperties, ConcatProperties
  <2> QED BY <1>1, <1>2, <2>1, <2>2, <2>3
<1> QED BY <1>2, <1>3, SeqEqual

(* Appending a frame adds it at the end. *)
LEMMA AppendFrame ==
  ASSUME NEW fs, fs \in Seq(Frame), NEW rec \in Frame
  PROVE  /\ Append(fs, rec) \in Seq(Frame)
         /\ Len(fs) \in Nat /\ Len(Append(fs, rec)) = Len(fs) + 1
         /\ Append(fs, rec)[Len(fs) + 1] = rec
         /\ \A i \in 1 .. Len(fs) : Append(fs, rec)[i] = fs[i]
         /\ LastHash(Append(fs, rec)) = rec.id /\ LastSeq(Append(fs, rec)) = rec.seq
<1>1. /\ Append(fs, rec) \in Seq(Frame)
      /\ Len(fs) \in Nat /\ Len(Append(fs, rec)) = Len(fs) + 1
      /\ Append(fs, rec)[Len(fs) + 1] = rec
      /\ \A i \in 1 .. Len(fs) : Append(fs, rec)[i] = fs[i]
  BY LenProperties, AppendProperties
<1>2. Append(fs, rec) # <<>>
  BY <1>1, EmptySeq
<1> QED BY <1>1, <1>2 DEF LastHash, LastSeq, Hash

(* Appending one frame, as a sequence of its own. *)
LEMMA AppendOne ==
  ASSUME NEW fs, fs \in Seq(Frame), NEW frame \in Frame
  PROVE  fs \o <<frame>> = Append(fs, frame) /\ fs \o <<>> = fs
<1>1. <<>> \in Seq(Frame) /\ <<frame>> \in Seq(Frame)
  BY EmptySeq
<1>2. /\ Len(fs \o <<frame>>) = Len(fs) + 1 /\ Len(fs) \in Nat
      /\ \A i \in 1 .. Len(fs) + 1 :
           (fs \o <<frame>>)[i] = IF i <= Len(fs) THEN fs[i] ELSE <<frame>>[i - Len(fs)]
  BY <1>1, ConcatProperties, LenProperties
<1>3. (fs \o <<frame>>)[Len(fs) + 1] = frame
  <2>1. (Len(fs) + 1) - Len(fs) = 1 /\ ~(Len(fs) + 1 <= Len(fs)) /\ Len(fs) + 1 \in 1 .. Len(fs) + 1
    BY <1>2
  <2> QED BY <1>2, <2>1
<1>4. fs \o <<frame>> \in Seq(Frame)
  BY <1>1, ConcatProperties
<1>5. fs \o <<frame>> = Append(fs, frame)
  <2>1. \A i \in 1 .. Len(fs) + 1 : (fs \o <<frame>>)[i] = Append(fs, frame)[i]
    <3> TAKE i \in 1 .. Len(fs) + 1
    <3>1. CASE i \in 1 .. Len(fs)
      BY <1>2, <3>1, AppendFrame
    <3>2. CASE i = Len(fs) + 1
      BY <1>3, <3>2, AppendFrame
    <3> QED BY <1>2, <3>1, <3>2
  <2> QED BY <1>2, <1>4, <2>1, AppendFrame, SeqEqual
<1> QED BY <1>5, ConcatEmptySeq

(* The first n frames of a file. *)
LEMMA FirstFrames ==
  ASSUME NEW fs, fs \in Seq(Frame), NEW n \in 0 .. Len(fs)
  PROVE  /\ SubSeq(fs, 1, n) \in Seq(Frame) /\ Len(SubSeq(fs, 1, n)) = n
         /\ \A i \in 1 .. n : SubSeq(fs, 1, n)[i] = fs[i]
<1>1. Len(fs) \in Nat /\ n \in Nat
  BY LenProperties
<1> QED BY <1>1, SubSeqProperties

-----------------------------------------------------------------------------
(* The readable prefix.                                                    *)

(* Where a reader stops is the only place that can be called so. *)
LEMMA ReadableLenIs ==
  ASSUME NEW fs, fs \in Seq(Frame), NEW n \in 0 .. Len(fs),
         \A i \in 1 .. n : fs[i] # Torn,
         n < Len(fs) => fs[n + 1] = Torn
  PROVE  ReadableLen(fs) = n
<1> DEFINE m == ReadableLen(fs)
<1>1. /\ m \in 0 .. Len(fs) /\ Len(fs) \in Nat
      /\ \A i \in 1 .. m : fs[i] # Torn
      /\ m < Len(fs) => fs[m + 1] = Torn
  BY ReadableLenType, LenProperties
<1> HIDE DEF m
<1>2. ~(m < n)
  BY <1>1
<1>3. ~(n < m)
  BY <1>1
<1> QED BY <1>1, <1>2, <1>3 DEF m

(* What is readable is not damaged, and reading it again changes nothing. *)
LEMMA ReadableIsWhole ==
  ASSUME NEW fs, fs \in Seq(Frame)
  PROVE  ~Damaged(Readable(fs)) /\ Readable(Readable(fs)) = Readable(fs)
<1>1. ReadableLen(fs) \in 0 .. Len(fs) /\ \A i \in 1 .. ReadableLen(fs) : fs[i] # Torn
  BY ReadableLenType
<1>2. /\ Readable(fs) \in Seq(Frame) /\ Len(Readable(fs)) = ReadableLen(fs)
      /\ \A i \in 1 .. ReadableLen(fs) : Readable(fs)[i] = fs[i]
  BY <1>1, FirstFrames DEF Readable
<1>3. ~Damaged(Readable(fs))
  BY <1>1, <1>2 DEF Damaged
<1> QED BY <1>2, <1>3, ReadableType

(* A frame behind a damaged one is never read; behind an undamaged file a  *)
(* record is read and a torn frame is not.                                 *)
LEMMA ReadableAppend ==
  ASSUME NEW fs, fs \in Seq(Frame), NEW frame \in Frame
  PROVE  /\ Damaged(fs) \/ frame = Torn => Readable(Append(fs, frame)) = Readable(fs)
         /\ ~Damaged(fs) /\ frame # Torn => Readable(Append(fs, frame)) = Append(fs, frame)
<1> DEFINE gs == Append(fs, frame)
           n == ReadableLen(fs)
<1>1. /\ gs \in Seq(Frame) /\ Len(fs) \in Nat /\ Len(gs) = Len(fs) + 1
      /\ gs[Len(fs) + 1] = frame /\ \A i \in 1 .. Len(fs) : gs[i] = fs[i]
  BY AppendFrame
<1>2. /\ n \in 0 .. Len(fs) /\ \A i \in 1 .. n : fs[i] # Torn
      /\ n < Len(fs) => fs[n + 1] = Torn
  BY ReadableLenType
<1> HIDE DEF gs, n
<1>3. ASSUME Damaged(fs) \/ frame = Torn
      PROVE  Readable(gs) = Readable(fs)
  <2>1. n \in 0 .. Len(gs) /\ \A i \in 1 .. n : gs[i] # Torn
    BY <1>1, <1>2
  <2>2. n < Len(fs) \/ n = Len(fs)
    BY <1>1, <1>2
  <2>3. gs[n + 1] = Torn
    <3>1. CASE n < Len(fs)
      BY <1>1, <1>2, <3>1
    <3>2. CASE n = Len(fs)
      BY <1>1, <1>2, <1>3, <3>2 DEF Damaged
    <3> QED BY <2>2, <3>1, <3>2
  <2>4. ReadableLen(gs) = n
    BY <1>1, <2>1, <2>3, ReadableLenIs
  <2>5. /\ Readable(gs) \in Seq(Frame) /\ Len(Readable(gs)) = n
        /\ \A i \in 1 .. n : Readable(gs)[i] = gs[i]
    BY <1>1, <2>1, <2>4, FirstFrames DEF Readable
  <2>6. /\ Readable(fs) \in Seq(Frame) /\ Len(Readable(fs)) = n
        /\ \A i \in 1 .. n : Readable(fs)[i] = fs[i]
    BY <1>2, FirstFrames DEF Readable, n
  <2>7. \A i \in 1 .. n : Readable(gs)[i] = Readable(fs)[i]
    BY <1>1, <1>2, <2>5, <2>6
  <2> QED BY <2>5, <2>6, <2>7, SeqEqual
<1>4. ASSUME ~Damaged(fs), frame # Torn
      PROVE  Readable(gs) = gs
  <2>1. ~Damaged(gs)
    BY <1>1, <1>4 DEF Damaged
  <2> QED BY <1>1, <2>1, ReadableType
<1> QED BY <1>3, <1>4 DEF gs

(* Of the first n frames, those before the first damaged one are readable. *)
LEMMA ReadablePrefix ==
  ASSUME NEW fs, fs \in Seq(Frame), NEW n \in 0 .. Len(fs)
  PROVE  \E m \in 0 .. Len(Readable(fs)) :
           /\ Readable(SubSeq(fs, 1, n)) = SubSeq(Readable(fs), 1, m)
           /\ m = n \/ (m = Len(Readable(fs)) /\ m <= n)
<1> DEFINE gs == SubSeq(fs, 1, n)
           k == ReadableLen(fs)
           m == IF n <= k THEN n ELSE k
<1>1. /\ gs \in Seq(Frame) /\ Len(gs) = n /\ n \in Nat /\ Len(fs) \in Nat
      /\ \A i \in 1 .. n : gs[i] = fs[i]
  BY FirstFrames, LenProperties
<1>2. /\ k \in 0 .. Len(fs) /\ \A i \in 1 .. k : fs[i] # Torn
      /\ k < Len(fs) => fs[k + 1] = Torn
  BY ReadableLenType
<1>3. /\ Readable(fs) \in Seq(Frame) /\ Len(Readable(fs)) = k
      /\ \A i \in 1 .. k : Readable(fs)[i] = fs[i]
  BY <1>2, FirstFrames DEF Readable
<1> HIDE DEF gs, k
<1>4. m \in 0 .. k /\ m \in 0 .. n /\ (m = n \/ (m = k /\ m <= n))
  BY <1>1, <1>2
<1>5. ReadableLen(gs) = m
  <2>1. m < n => gs[m + 1] = Torn
    BY <1>1, <1>2
  <2>2. \A i \in 1 .. m : gs[i] # Torn
    BY <1>1, <1>2
  <2> QED BY <1>1, <1>4, <2>1, <2>2, ReadableLenIs
<1> HIDE DEF m
<1>6. /\ Readable(gs) \in Seq(Frame) /\ Len(Readable(gs)) = m
      /\ \A i \in 1 .. m : Readable(gs)[i] = gs[i]
  BY <1>1, <1>4, <1>5, FirstFrames DEF Readable
<1>7. /\ SubSeq(Readable(fs), 1, m) \in Seq(Frame) /\ Len(SubSeq(Readable(fs), 1, m)) = m
      /\ \A i \in 1 .. m : SubSeq(Readable(fs), 1, m)[i] = Readable(fs)[i]
  BY <1>3, <1>4, FirstFrames
<1>8. \A i \in 1 .. m : Readable(gs)[i] = SubSeq(Readable(fs), 1, m)[i]
  BY <1>1, <1>3, <1>4, <1>6, <1>7
<1>9. Readable(gs) = SubSeq(Readable(fs), 1, m)
  BY <1>6, <1>7, <1>8, SeqEqual
<1> QED BY <1>3, <1>4, <1>9 DEF gs

-----------------------------------------------------------------------------
(* The chain.                                                              *)

(* A linked chain stays linked with a record that names its last hash. *)
LEMMA AppendLinks ==
  ASSUME NEW fs, fs \in Seq(Frame), NEW rec \in Frame, HashLinkedFrames(fs),
         rec.prev = LastHash(fs)
  PROVE  HashLinkedFrames(Append(fs, rec))
<1> DEFINE n == Len(fs)
           gs == Append(fs, rec)
<1>1. /\ n \in Nat /\ Len(gs) = n + 1 /\ gs[n + 1] = rec
      /\ \A i \in 1 .. n : gs[i] = fs[i]
  BY AppendFrame
<1>2. fs = <<>> <=> n = 0
  BY EmptySeq, LenProperties
<1> HIDE DEF gs
<1>3. ASSUME NEW i \in 1 .. Len(gs) PROVE LinkOK(gs, i, FALSE)
  <2>1. CASE i \in 1 .. n
    <3>1. gs[i] = fs[i] /\ (i # 1 => gs[i - 1] = fs[i - 1])
      BY <1>1, <2>1
    <3>2. LinkOK(fs, i, FALSE)
      BY <2>1 DEF HashLinkedFrames
    <3> QED BY <3>1, <3>2 DEF LinkOK
  <2>2. CASE i = n + 1 /\ n = 0
    BY <1>1, <1>2, <2>2 DEF LinkOK, LastHash
  <2>3. CASE i = n + 1 /\ n # 0
    <3>1. i # 1 /\ i - 1 = n /\ gs[i] = rec /\ gs[i - 1] = fs[n]
      BY <1>1, <2>3
    <3>2. rec.prev = Hash(fs[n])
      BY <1>2, <2>3 DEF LastHash
    <3> QED BY <3>1, <3>2 DEF LinkOK
  <2>4. i \in 1 .. n \/ (i = n + 1 /\ n = 0) \/ (i = n + 1 /\ n # 0)
    BY <1>1
  <2> QED BY <2>1, <2>2, <2>3, <2>4, Zenon
<1> QED BY <1>3 DEF HashLinkedFrames, gs

(* An empty file is whole, verifies, and starts a chain. *)
LEMMA EmptyFile ==
  /\ ~Damaged(<<>>) /\ Verifies(<<>>, FALSE)
  /\ LastHash(<<>>) = ZeroHash /\ LastSeq(<<>>) = 0
<1>1. \A i : i \notin 1 .. Len(<<>>)
  OBVIOUS
<1>2. ~Damaged(<<>>)
  BY <1>1 DEF Damaged
<1> QED BY <1>1, <1>2 DEF Verifies, LastHash, LastSeq

(* What verify_chain wants of the record after fs: the hash of the last    *)
(* one, and the next number, or a gap that starts there.                   *)
Continues(fs, rec) ==
  /\ rec.prev = LastHash(fs)
  /\ IF rec.type = "GAP"
     THEN rec.seq > LastSeq(fs) + 1 /\ rec.body = GapBody(LastSeq(fs) + 1, rec.seq - 1)
     ELSE rec.seq = LastSeq(fs) + 1

(* A chain that verifies still does with a record that continues it. *)
LEMMA AppendVerifies ==
  ASSUME NEW fs, fs \in Seq(Frame), NEW rec \in Record, Verifies(fs, FALSE), Continues(fs, rec)
  PROVE  Verifies(Append(fs, rec), FALSE)
<1> DEFINE n == Len(fs)
           gs == Append(fs, rec)
<1>1. /\ n \in Nat /\ Len(gs) = n + 1 /\ gs[n + 1] = rec
      /\ \A i \in 1 .. n : gs[i] = fs[i] /\ fs[i] # Torn
      /\ rec # Torn /\ rec \in Frame
  <2>1. rec # Torn /\ rec \in Frame
    BY DEF Record, Torn, Frame
  <2> QED BY <2>1, AppendFrame DEF Verifies, Damaged
<1>2. fs = <<>> <=> n = 0
  BY EmptySeq, LenProperties
<1>3. \A i \in 1 .. n : LinkOK(fs, i, FALSE) /\ SeqOK(fs, i, FALSE)
  BY DEF Verifies
<1>4. HashLinkedFrames(gs)
  BY <1>1, AppendLinks DEF Verifies, HashLinkedFrames, Continues
<1> HIDE DEF gs, n
<1>5. ~Damaged(gs)
  BY <1>1 DEF Damaged
<1>6. \A i \in 1 .. n : SeqOK(gs, i, FALSE)
  <2> TAKE i \in 1 .. n
  <2>1. gs[i] = fs[i] /\ (i # 1 => gs[i - 1] = fs[i - 1])
    BY <1>1
  <2>2. ExpectedSeq(gs, i, FALSE) = ExpectedSeq(fs, i, FALSE)
    BY <2>1 DEF ExpectedSeq
  <2>3. SeqOK(fs, i, FALSE)
    BY <1>3
  <2> QED BY <2>1, <2>2, <2>3 DEF SeqOK
<1>7. SeqOK(gs, n + 1, FALSE)
  <2>1. ExpectedSeq(gs, n + 1, FALSE) = LastSeq(fs) + 1
    <3>1. CASE n = 0
      BY <1>1, <1>2, <3>1 DEF ExpectedSeq, LastSeq
    <3>2. CASE n # 0
      <4>1. n + 1 # 1 /\ (n + 1) - 1 = n /\ gs[n] = fs[n] /\ LastSeq(fs) = fs[n].seq
        BY <1>1, <1>2, <3>2 DEF LastSeq, n
      <4> QED BY <4>1 DEF ExpectedSeq
    <3> QED BY <3>1, <3>2
  <2>2. rec.seq \in Nat /\ LastSeq(fs) \in Nat
    BY LastType DEF Record
  <2>3. CASE rec.type = "GAP"
    <3>1. /\ rec.seq > LastSeq(fs) + 1
          /\ rec.body[1] = LastSeq(fs) + 1 /\ rec.body[2] = rec.seq - 1
          /\ rec.body[3] = rec.body[2] - rec.body[1] + 1
      BY <2>3 DEF Continues, GapBody
    <3> QED BY <1>1, <2>1, <2>3, <3>1 DEF SeqOK
  <2>4. CASE rec.type # "GAP"
    <3>1. rec.seq = LastSeq(fs) + 1
      BY <2>4 DEF Continues
    <3> QED BY <1>1, <2>1, <2>4, <3>1 DEF SeqOK
  <2> QED BY <2>3, <2>4
<1>8. \A i \in 1 .. Len(gs) : LinkOK(gs, i, FALSE) /\ SeqOK(gs, i, FALSE)
  <2> TAKE i \in 1 .. Len(gs)
  <2>1. LinkOK(gs, i, FALSE)
    BY <1>4 DEF HashLinkedFrames
  <2>2. i \in 1 .. n \/ i = n + 1
    BY <1>1
  <2>3. SeqOK(gs, i, FALSE)
    BY <1>6, <1>7, <2>2, Zenon
  <2> QED BY <2>1, <2>3
<1> QED BY <1>5, <1>8 DEF Verifies, gs

(* A chain that verifies does so up to any of its records. *)
LEMMA PrefixVerifies ==
  ASSUME NEW fs, fs \in Seq(Frame), NEW n \in 0 .. Len(fs), Verifies(fs, FALSE)
  PROVE  Verifies(SubSeq(fs, 1, n), FALSE)
<1> DEFINE gs == SubSeq(fs, 1, n)
<1>1. /\ Len(gs) = n /\ n \in Nat /\ Len(fs) \in Nat /\ n <= Len(fs)
      /\ \A i \in 1 .. n : gs[i] = fs[i]
  BY FirstFrames, LenProperties
<1> HIDE DEF gs
<1>2. ~Damaged(gs)
  BY <1>1 DEF Damaged, Verifies
<1>3. ASSUME NEW i \in 1 .. n PROVE LinkOK(gs, i, FALSE) /\ SeqOK(gs, i, FALSE)
  <2>0. i \in 1 .. Len(fs)
    BY <1>1
  <2>1. LinkOK(fs, i, FALSE) /\ SeqOK(fs, i, FALSE)
    BY <2>0 DEF Verifies
  <2>2. gs[i] = fs[i] /\ (i # 1 => gs[i - 1] = fs[i - 1])
    BY <1>1
  <2>3. LinkOK(gs, i, FALSE)
    BY <2>1, <2>2 DEF LinkOK
  <2>4. ExpectedSeq(gs, i, FALSE) = ExpectedSeq(fs, i, FALSE)
    BY <2>2 DEF ExpectedSeq
  <2> QED BY <2>1, <2>2, <2>3, <2>4 DEF SeqOK
<1> QED BY <1>1, <1>2, <1>3 DEF Verifies, gs
=============================================================================

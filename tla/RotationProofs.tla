---------------------------- MODULE RotationProofs ----------------------------
(***************************************************************************)
(* Theorems about the files that are renamed while others use them:        *)
(* Witness, for any agents, limits and bounds, and Segments, for any       *)
(* batches, sizes of a file and bounds.                                    *)
(***************************************************************************)
EXTENDS Witness, Segments, SequenceTheorems, FiniteSetTheorems, WellFoundedInduction, TLAPS

-----------------------------------------------------------------------------
(* Witness: the inductive invariant.                                       *)

Issued == {i.receipt : i \in issued}

Same(r, s) == r.agent = s.agent /\ r.seq = s.seq

(* The disk: what was issued is typed and numbered, the file has at most   *)
(* one receipt to a checkpoint and all of the current era, and without     *)
(* damage every receipt is somewhere.                                      *)
DiskInv ==
  /\ IsFiniteSet(issued) /\ issued \subseteq [receipt: Receipt, era: 0 .. era]
  /\ \A i \in issued : i.receipt.id <= Cardinality(issued)
  /\ era \in Nat /\ damage \in Nat
  /\ \/ file \in Seq(Receipt) /\ Len(file) <= MaxReceipts
     \/ file = Unreadable /\ damage > 0
  /\ archives \in Seq(Seq(Receipt))
  /\ file # Unreadable => \A i, j \in DOMAIN file : Same(file[i], file[j]) => i = j
  /\ \A i \in issued : i.era = era => i.receipt \in Stored
  /\ damage = 0 => Issued \subseteq Stored \union Archived \union pruned
  /\ OneReceiptPerCheckpoint

(* The agents: an open call is of the chain's head, and hash and number go *)
(* together wherever a request or a receipt of an agent is that never made *)
(* a torn pair.                                                            *)
AgentInv ==
  /\ \A a \in Agents : Open(a) => call[a].round >= 1
  /\ \A a \in Agents \ torn : Open(a) => call[a].hash = head[a]
  /\ \A q \in requests : q.agent \notin torn => q.hash = q.seq
  /\ \A i \in issued : i.receipt.agent \notin torn => i.receipt.hash = i.receipt.seq
  /\ \A w \in witnessed : w.receipt \in Issued
  /\ ReceiptAttestsRecord

(* The server: its index knows what the file has, but for the receipt it   *)
(* is about to answer with, which nobody has yet; a request that is to be  *)
(* saved has no receipt in the file.                                       *)
ServerInv ==
  /\ index \subseteq Issued
  /\ up /\ busy = None => Stored \subseteq index
  /\ busy # None =>
       /\ busy \in [request: Request, step: {"rotate", "save", "reply"},
                    receipt: Receipt \union {None}]
       /\ file # Unreadable
       /\ busy.request.agent \notin torn => busy.request.hash = busy.request.seq
       /\ busy.step = "rotate" => Len(file) = MaxReceipts /\ Stored \subseteq index
       /\ busy.step = "save" => /\ Len(file) < MaxReceipts /\ Stored \subseteq index
                                /\ \A r \in Stored : ~Same(r, busy.request)
       /\ busy.step = "reply" => /\ busy.receipt \in Issued
                                 /\ Stored \subseteq index \union {busy.receipt}
                                 /\ \A w \in witnessed : w.receipt # busy.receipt
                                 /\ Same(busy.receipt, busy.request)
                                 /\ busy.receipt.hash = busy.request.hash

IInv == TypeOK /\ DiskInv /\ AgentInv /\ ServerInv

-----------------------------------------------------------------------------
(* Facts about the operators.                                              *)

(* A set of numbers that is not empty has a smallest one. *)
LEMMA SmallestNumber ==
  ASSUME NEW T, T \subseteq Nat, T # {}
  PROVE  \E n \in T : \A m \in T : n <= m
<1> DEFINE R == OpToRel(<, Nat)
<1>1. IsWellFoundedOn(R, Nat)
  BY NatLessThanWellFounded
<1>2. \A x, y \in Nat : y < x => <<y, x>> \in R
  BY DEF OpToRel
<1> HIDE DEF R
<1>3. PICK n \in T : \A m \in T : <<m, n>> \notin R
  BY <1>1, WFMin
<1>4. ASSUME NEW m \in T PROVE n <= m
  <2>1. m \in Nat /\ n \in Nat
    BY <1>3
  <2>2. ~(m < n)
    BY <2>1, <1>2, <1>3
  <2> QED BY <2>1, <2>2
<1> QED BY <1>3, <1>4

(* The largest of some numbers up to a bound is one of them. *)
LEMMA MaxIsMember ==
  ASSUME NEW n \in Nat, NEW S \in SUBSET (0 .. n), S # {}
  PROVE  Max(S) \in S
<1> DEFINE T == {n - x : x \in S}
<1>1. T \subseteq Nat /\ T # {}
  <2>1. \A x \in S : n - x \in Nat
    BY SMT
  <2> QED BY <2>1
<1>2. PICK t \in T : \A u \in T : t <= u
  BY <1>1, SmallestNumber
<1>3. PICK x \in S : t = n - x
  BY <1>2
<1>4. \A y \in S : x >= y
  BY <1>2, <1>3
<1> QED BY <1>3, <1>4 DEF Max

(* The submissions are numbered up to their bound. *)
LEMMA RoundsType ==
  ASSUME TypeOK, NEW a \in Agents
  PROVE  Rounds \in 0 .. MaxRounds
<1> DEFINE S == {call[b].round : b \in Agents}
<1>1. MaxRounds \in Nat
  BY WitnessAssumption
<1>2. S \in SUBSET (0 .. MaxRounds) /\ S # {}
  BY DEF TypeOK
<1> HIDE DEF S
<1>3. Max(S) \in S
  BY <1>1, <1>2, MaxIsMember
<1> QED BY <1>2, <1>3 DEF Rounds, S

(* A file without duplicates has as many receipts as it is long. *)
LEMMA DistinctFile ==
  ASSUME NEW S, NEW fs \in Seq(S), \A i, j \in DOMAIN fs : fs[i] = fs[j] => i = j
  PROVE  Cardinality(ToSet(fs)) = Len(fs)
<1>1. Len(fs) \in Nat /\ DOMAIN fs = 1 .. Len(fs) /\ fs \in [1 .. Len(fs) -> S]
  BY LenProperties
<1>2. fs \in Bijection(1 .. Len(fs), ToSet(fs))
  BY <1>1 DEF ToSet, Bijection, Injection, IsInjective, Surjection
<1> QED BY <1>1, <1>2, FS_CountingElements DEF ExistsBijection

(* What a file holds once a receipt is appended, or the last is lost. *)
LEMMA FileContents ==
  ASSUME NEW fs \in Seq(Receipt)
  PROVE  /\ ToSet(fs) \subseteq Receipt
         /\ \A r \in Receipt : ToSet(Append(fs, r)) = ToSet(fs) \union {r}
         /\ fs # <<>> => ToSet(Front(fs)) \subseteq ToSet(fs)
<1>1. Len(fs) \in Nat /\ DOMAIN fs = 1 .. Len(fs) /\ fs \in [1 .. Len(fs) -> Receipt]
  BY LenProperties
<1>2. ASSUME NEW r \in Receipt PROVE ToSet(Append(fs, r)) = ToSet(fs) \union {r}
  <2>1. /\ Append(fs, r) \in Seq(Receipt) /\ Len(Append(fs, r)) = Len(fs) + 1
        /\ \A i \in 1 .. Len(fs) : Append(fs, r)[i] = fs[i]
        /\ Append(fs, r)[Len(fs) + 1] = r
    BY AppendProperties
  <2>2. DOMAIN Append(fs, r) = 1 .. Len(fs) + 1
    BY <2>1, LenProperties
  <2> QED BY <1>1, <2>1, <2>2 DEF ToSet
<1>3. ASSUME fs # <<>> PROVE ToSet(Front(fs)) \subseteq ToSet(fs)
  <2>1. /\ SubSeq(fs, 1, Len(fs) - 1) \in Seq(Receipt)
        /\ Len(SubSeq(fs, 1, Len(fs) - 1)) = Len(fs) - 1
        /\ \A i \in 1 .. Len(fs) - 1 : SubSeq(fs, 1, Len(fs) - 1)[i] = fs[i]
    <3>1. Len(fs) # 0
      BY <1>3, EmptySeq
    <3> QED BY <1>1, <3>1, SubSeqProperties
  <2>2. DOMAIN SubSeq(fs, 1, Len(fs) - 1) = 1 .. Len(fs) - 1
    BY <2>1, LenProperties
  <2> QED BY <1>1, <2>1, <2>2 DEF ToSet, Front
<1> QED BY <1>1, <1>2, <1>3 DEF ToSet
-----------------------------------------------------------------------------
(* What the steps do.                                                      *)

(* Closing a call touches no other one. *)
LEMMA CloseCall ==
  ASSUME TypeOK, NEW b \in Agents, call' = [call EXCEPT ![b].attempt = 0]
  PROVE  /\ call' \in [Agents -> [hash: 0 .. MaxSeq, round: 0 .. MaxRounds, attempt: 0 .. Attempts]]
         /\ call'[b].attempt = 0
         /\ \A a \in Agents : a # b => call'[a] = call[a]
         /\ \A a \in Agents : Open(a)' => a # b /\ Open(a) /\ call'[a] = call[a]
<1> DEFINE C == [hash: 0 .. MaxSeq, round: 0 .. MaxRounds, attempt: 0 .. Attempts]
           closed == [call[b] EXCEPT !.attempt = 0]
<1>1. call \in [Agents -> C] /\ call[b] \in C
  BY DEF TypeOK
<1>2. closed \in C /\ closed.attempt = 0
  <2>1. 0 \in 0 .. Attempts
    BY WitnessAssumption
  <2>2. \A c \in C : [c EXCEPT !.attempt = 0]
                       = [hash |-> c.hash, round |-> c.round, attempt |-> 0]
    OBVIOUS
  <2> QED BY <1>1, <2>1, <2>2
<1>3. call' = [call EXCEPT ![b] = closed]
  OBVIOUS
<1> HIDE DEF C, closed
<1>4. call' \in [Agents -> C] /\ call'[b] = closed /\ \A a \in Agents : a # b => call'[a] = call[a]
  BY <1>1, <1>2, <1>3
<1> QED BY <1>2, <1>4 DEF C, Open

(* An answer closes a call that was open and writes one WITNESS record, or *)
(* gets lost.                                                              *)
LEMMA ReplyEffect ==
  ASSUME TypeOK, NEW q \in Request, NEW r \in Receipt \union {None}, Reply(q, r)
  PROVE  /\ head' \in [Agents -> 1 .. MaxSeq]
         /\ call' \in [Agents -> [hash: 0 .. MaxSeq, round: 0 .. MaxRounds, attempt: 0 .. Attempts]]
         /\ torn' = torn
         /\ \A a \in Agents :
              Open(a)' => Open(a) /\ call'[a] = call[a] /\ head'[a] = head[a]
         /\ \A w \in witnessed' :
              \/ w \in witnessed
              \/ /\ r \in Receipt /\ w.receipt = r
                 /\ w.agent = q.agent /\ w.seq = q.seq /\ w.hash = q.hash
<1> USE DEF TypeOK
<1>1. CASE UNCHANGED agentVars
  BY <1>1 DEF agentVars, Open
<1>2. CASE ~UNCHANGED agentVars
  <2> DEFINE b == q.agent
             new == [agent |-> q.agent, seq |-> q.seq, hash |-> q.hash, receipt |-> r]
  <2>1. /\ r # None
        /\ call' = [call EXCEPT ![b].attempt = 0]
        /\ witnessed' = witnessed \union {new}
        /\ head' = [head EXCEPT ![b] = IF @ < MaxSeq THEN @ + 1 ELSE @]
        /\ UNCHANGED torn
    BY <1>2 DEF Reply
  <2>2. b \in Agents /\ r \in Receipt
    BY <2>1 DEF Request
  <2>3. MaxSeq \in Nat /\ Attempts \in Nat
    BY WitnessAssumption
  <2>4. head' \in [Agents -> 1 .. MaxSeq]
    BY <2>1, <2>2, <2>3
  <2>5. /\ call' \in [Agents -> [hash: 0 .. MaxSeq, round: 0 .. MaxRounds, attempt: 0 .. Attempts]]
        /\ call'[b].attempt = 0
        /\ \A a \in Agents : a # b => call'[a] = call[a]
    BY <2>1, <2>2, CloseCall DEF TypeOK
  <2>6. \A a \in Agents : a # b => head'[a] = head[a]
    BY <2>1, <2>2
  <2>7. \A a \in Agents : Open(a)' => Open(a) /\ call'[a] = call[a] /\ head'[a] = head[a]
    BY <2>5, <2>6 DEF Open
  <2>8. /\ new.receipt = r /\ new.agent = q.agent /\ new.seq = q.seq /\ new.hash = q.hash
    OBVIOUS
  <2> HIDE DEF new
  <2> QED BY <2>1, <2>2, <2>4, <2>5, <2>7, <2>8
<1> QED BY <1>1, <1>2

(* An attempt that is sent is of the head, and of a hash that goes with it *)
(* unless the agent is torn.                                               *)
SendsHead(a) ==
  \E n \in 1 .. MaxSeq, hash \in 0 .. MaxSeq, round \in 1 .. MaxRounds, attempt \in 1 .. Attempts :
    /\ head' = [head EXCEPT ![a] = n] /\ torn \subseteq torn'
    /\ a \notin torn' => hash = n
    /\ call' = [call EXCEPT ![a] = [hash |-> hash, round |-> round, attempt |-> attempt]]
    /\ requests' \subseteq requests \union {[agent |-> a, seq |-> n, hash |-> hash,
                                             round |-> round, attempt |-> attempt]}

(* send_witness_checkpoint sends the head. *)
LEMMA SubmitSends ==
  ASSUME TypeOK, AgentInv, NEW a \in Agents, Submit(a) PROVE SendsHead(a)
<1>1. /\ MaxSeq \in Nat /\ MaxRounds \in Nat /\ 1 \in 1 .. Attempts /\ head[a] \in 1 .. MaxSeq
  BY WitnessAssumption DEF TypeOK
<1>2. Rounds + 1 \in 1 .. MaxRounds
  <2>1. Rounds \in 0 .. MaxRounds /\ Rounds < MaxRounds
    BY RoundsType DEF Submit
  <2> QED BY <1>1, <2>1
<1>3. PICK n \in head[a] .. MaxSeq :
        /\ head' = [head EXCEPT ![a] = n]
        /\ \/ Send(a, n, Rounds + 1, 1) /\ UNCHANGED torn
           \/ n > head[a] /\ Send(a, n - 1, Rounds + 1, 1) /\ torn' = torn \union {a}
  BY DEF Submit
<1>4. n \in 1 .. MaxSeq /\ head'[a] = n
  BY <1>1, <1>3 DEF TypeOK
<1> DEFINE round == Rounds + 1
<1> HIDE DEF round
<1>5. CASE Send(a, n, round, 1) /\ UNCHANGED torn
  <2>1. n \in 0 .. MaxSeq /\ round \in 1 .. MaxRounds
    BY <1>1, <1>2, <1>4 DEF round
  <2> QED BY <1>1, <1>3, <1>4, <1>5, <2>1 DEF Send, SendsHead
<1>6. CASE n > head[a] /\ Send(a, n - 1, round, 1) /\ torn' = torn \union {a}
  <2>1. n - 1 \in 0 .. MaxSeq /\ round \in 1 .. MaxRounds
    BY <1>1, <1>2, <1>4 DEF round
  <2> QED BY <1>1, <1>3, <1>4, <1>6, <2>1 DEF Send, SendsHead
<1> QED BY <1>3, <1>5, <1>6 DEF round

(* A retry sends the same again; after the last attempt nothing is open.   *)
LEMMA AttemptSends ==
  ASSUME TypeOK, AgentInv, NEW a \in Agents, AttemptFails(a)
  PROVE  \/ SendsHead(a)
         \/ call' = [call EXCEPT ![a].attempt = 0] /\ UNCHANGED <<head, torn, requests>>
<1>1. /\ MaxSeq \in Nat /\ MaxRounds \in Nat /\ Attempts \in Nat
      /\ head[a] \in 1 .. MaxSeq /\ call[a].hash \in 0 .. MaxSeq
      /\ call[a].round \in 0 .. MaxRounds /\ call[a].attempt \in 0 .. Attempts
  BY WitnessAssumption DEF TypeOK
<1>2. Open(a) /\ UNCHANGED <<head, torn>>
  BY DEF AttemptFails
<1>3. CASE call[a].attempt < Attempts
  <2>1. Send(a, call[a].hash, call[a].round, call[a].attempt + 1)
    BY <1>3 DEF AttemptFails
  <2>2. call[a].attempt + 1 \in 1 .. Attempts /\ call[a].round \in 1 .. MaxRounds
    BY <1>1, <1>2, <1>3 DEF AgentInv
  <2>3. a \notin torn' => call[a].hash = head[a]
    BY <1>2 DEF AgentInv
  <2>4. head' = [head EXCEPT ![a] = head[a]] /\ head'[a] = head[a]
    BY <1>2 DEF TypeOK
  <2> QED BY <1>1, <1>2, <2>1, <2>2, <2>3, <2>4 DEF Send, SendsHead
<1>4. CASE ~(call[a].attempt < Attempts)
  BY <1>2, <1>4 DEF AttemptFails
<1> QED BY <1>3, <1>4

(* What an agent sends is typed, and changes nothing of another agent.     *)
LEMMA SendEffect ==
  ASSUME TypeOK, NEW a \in Agents, SendsHead(a)
  PROVE  /\ head' \in [Agents -> 1 .. MaxSeq]
         /\ call' \in [Agents -> [hash: 0 .. MaxSeq, round: 0 .. MaxRounds, attempt: 0 .. Attempts]]
         /\ requests' \subseteq Request /\ torn \subseteq torn'
         /\ \A b \in Agents : Open(b)' => \/ Open(b) /\ call'[b] = call[b] /\ head'[b] = head[b]
                                          \/ /\ call'[b].round >= 1
                                             /\ b \notin torn' => call'[b].hash = head'[b]
         /\ \A q \in requests' : q \in requests \/ (q.agent \notin torn' => q.hash = q.seq)
<1>1. PICK n \in 1 .. MaxSeq, hash \in 0 .. MaxSeq, round \in 1 .. MaxRounds,
           attempt \in 1 .. Attempts :
        /\ head' = [head EXCEPT ![a] = n] /\ torn \subseteq torn'
        /\ a \notin torn' => hash = n
        /\ call' = [call EXCEPT ![a] = [hash |-> hash, round |-> round, attempt |-> attempt]]
        /\ requests' \subseteq requests \union {[agent |-> a, seq |-> n, hash |-> hash,
                                                 round |-> round, attempt |-> attempt]}
  BY DEF SendsHead
<1>2. MaxSeq \in Nat /\ MaxRounds \in Nat /\ Attempts \in Nat
  BY WitnessAssumption
<1>3. /\ head' \in [Agents -> 1 .. MaxSeq] /\ head'[a] = n
      /\ call'[a] = [hash |-> hash, round |-> round, attempt |-> attempt]
      /\ \A b \in Agents : b # a => head'[b] = head[b] /\ call'[b] = call[b]
  BY <1>1 DEF TypeOK
<1>4. call'[a] \in [hash: 0 .. MaxSeq, round: 0 .. MaxRounds, attempt: 0 .. Attempts]
  BY <1>2, <1>3
<1>5. call' \in [Agents -> [hash: 0 .. MaxSeq, round: 0 .. MaxRounds, attempt: 0 .. Attempts]]
  BY <1>1, <1>3, <1>4 DEF TypeOK
<1>6. requests' \subseteq Request
  BY <1>1 DEF TypeOK, Request
<1> QED BY <1>1, <1>3, <1>5, <1>6 DEF Open

(* Setting the file aside starts an era without receipts and keeps all of  *)
(* the last one, but for the archive that is deleted.                      *)
LEMMA SetAsideEffect ==
  ASSUME TypeOK, DiskInv, file \in Seq(Receipt), SetAside
  PROVE  /\ file' = <<>> /\ Stored' = {} /\ era' = era + 1
         /\ issued' = issued /\ damage' = damage
         /\ archives' \in Seq(Seq(Receipt)) /\ Len(archives') <= MaxArchives
         /\ Archived' \union pruned' = Stored \union Archived \union pruned
<1> DEFINE all == Append(archives, file)
<1>0. file # Unreadable /\ <<>> # Unreadable
  <2>1. <<>> \in Seq(Receipt)
    BY EmptySeq
  <2> QED BY <2>1, TokensAssumption
<1>1. /\ file' = <<>> /\ era' = era + 1 /\ issued' = issued /\ damage' = damage
  BY DEF SetAside
<1>2. Stored' = {}
  <2>1. DOMAIN (<<>>) = {}
    OBVIOUS
  <2> QED BY <1>0, <1>1, <2>1 DEF Stored, ToSet
<1>3. /\ archives \in Seq(Seq(Receipt)) /\ Len(archives) \in Nat /\ Len(archives) <= MaxArchives
      /\ DOMAIN archives = 1 .. Len(archives) /\ MaxArchives \in Nat \ {0}
  BY LenProperties, WitnessAssumption DEF DiskInv, TypeOK
<1>4. /\ all \in Seq(Seq(Receipt)) /\ all # <<>> /\ Len(all) = Len(archives) + 1
      /\ \A i \in 1 .. Len(archives) : all[i] = archives[i]
      /\ all[Len(archives) + 1] = file /\ DOMAIN all = 1 .. Len(archives) + 1
  <2>1. /\ all \in Seq(Seq(Receipt)) /\ all # <<>> /\ Len(all) = Len(archives) + 1
        /\ \A i \in 1 .. Len(archives) : all[i] = archives[i]
        /\ all[Len(archives) + 1] = file
    BY <1>3, AppendProperties
  <2> QED BY <2>1, LenProperties
<1>5. UNION {ToSet(all[i]) : i \in DOMAIN all} = Stored \union Archived
  <2> DEFINE n == Len(archives)
  <2> HIDE DEF all
  <2>1. ToSet(all[n + 1]) = Stored
    BY <1>0, <1>4 DEF Stored
  <2>2. \A i \in 1 .. n : ToSet(all[i]) = ToSet(archives[i])
    BY <1>4
  <2>3. DOMAIN all = (1 .. n) \union {n + 1}
    BY <1>3, <1>4
  <2> QED BY <1>3, <2>1, <2>2, <2>3 DEF Archived
<1>6. CASE Len(all) > MaxArchives
  <2>1. archives' = Tail(all) /\ pruned' = pruned \union ToSet(Head(all))
    BY <1>6 DEF SetAside
  <2>2. /\ Tail(all) \in Seq(Seq(Receipt)) /\ Len(Tail(all)) = Len(archives)
        /\ \A i \in 1 .. Len(Tail(all)) : Tail(all)[i] = all[i + 1]
        /\ Head(all) = all[1]
    <3> HIDE DEF all
    <3> QED BY <1>3, <1>4, HeadTailProperties
  <2>3. DOMAIN Tail(all) = 1 .. Len(archives)
    BY <2>2, LenProperties
  <2>4. UNION {ToSet(all[i]) : i \in DOMAIN all}
          = ToSet(Head(all)) \union UNION {ToSet(Tail(all)[i]) : i \in DOMAIN Tail(all)}
    <3> DEFINE n == Len(archives)
               t == Tail(all)
    <3>1. n \in Nat /\ DOMAIN all = 1 .. n + 1 /\ DOMAIN t = 1 .. n
      BY <1>3, <1>4, <2>3
    <3>2. \A i \in 1 .. n : ToSet(t[i]) = ToSet(all[i + 1])
      BY <2>2
    <3>3. ToSet(Head(all)) = ToSet(all[1])
      BY <2>2
    <3> HIDE DEF all, n, t
    <3>4. \A i \in 1 .. n + 1 : i = 1 \/ (i - 1 \in 1 .. n /\ (i - 1) + 1 = i)
      BY <3>1
    <3>5. \A i \in 1 .. n : i + 1 \in 1 .. n + 1
      BY <3>1
    <3>6. 1 \in 1 .. n + 1
      BY <3>1
    <3>7. UNION {ToSet(all[i]) : i \in DOMAIN all}
            \subseteq ToSet(Head(all)) \union UNION {ToSet(t[i]) : i \in DOMAIN t}
      BY <3>1, <3>2, <3>3, <3>4
    <3>8. ToSet(Head(all)) \union UNION {ToSet(t[i]) : i \in DOMAIN t}
            \subseteq UNION {ToSet(all[i]) : i \in DOMAIN all}
      BY <3>1, <3>2, <3>3, <3>5, <3>6
    <3> QED BY <3>7, <3>8 DEF t
  <2>5. Archived' = UNION {ToSet(Tail(all)[i]) : i \in DOMAIN Tail(all)}
    BY <2>1 DEF Archived
  <2> HIDE DEF all
  <2>6. Archived' \union pruned' = Stored \union Archived \union pruned
    BY <1>5, <2>1, <2>4, <2>5
  <2> QED BY <1>1, <1>2, <1>3, <2>1, <2>2, <2>6
<1>7. CASE ~(Len(all) > MaxArchives)
  <2>1. archives' = all /\ pruned' = pruned
    BY <1>7 DEF SetAside
  <2>2. Archived' = UNION {ToSet(all[i]) : i \in DOMAIN all}
    BY <2>1 DEF Archived
  <2> HIDE DEF all
  <2>3. Archived' \union pruned' = Stored \union Archived \union pruned
    BY <1>5, <2>1, <2>2
  <2> QED BY <1>1, <1>2, <1>3, <1>4, <1>7, <2>1, <2>3
<1> QED BY <1>6, <1>7

(* Saving adds one fresh receipt, which fits its request.                  *)
LEMMA SaveEffect ==
  ASSUME TypeOK, DiskInv, ServerInv, busy # None, busy.step = "save",
         Cardinality(issued) < MaxIssued, file' = Append(file, NewReceipt),
         issued' = issued \union {[receipt |-> NewReceipt, era |-> era]}
  PROVE  /\ NewReceipt \in Receipt /\ NewReceipt \notin Issued
         /\ Same(NewReceipt, busy.request) /\ NewReceipt.hash = busy.request.hash
         /\ file \in Seq(Receipt) /\ file' \in Seq(Receipt)
         /\ file # Unreadable /\ file' # Unreadable
         /\ Stored' = Stored \union {NewReceipt} /\ Issued' = Issued \union {NewReceipt}
         /\ IsFiniteSet(issued') /\ Cardinality(issued') = Cardinality(issued) + 1
         /\ Cardinality(issued) \in Nat /\ NewReceipt.id = Cardinality(issued) + 1
         /\ Len(file') = Len(file) + 1 /\ DOMAIN file = 1 .. Len(file) /\ Len(file) \in Nat
         /\ \A i \in 1 .. Len(file) : file'[i] = file[i]
         /\ file'[Len(file) + 1] = NewReceipt
<1> DEFINE q == busy.request
           new == NewReceipt
           entry == [receipt |-> new, era |-> era]
<1>1. q \in Request /\ file # Unreadable
  BY DEF ServerInv
<1>2. file \in Seq(Receipt)
  BY <1>1 DEF DiskInv
<1>3. Cardinality(issued) \in Nat /\ MaxIssued \in Nat
  BY FS_CardinalityType, WitnessAssumption DEF DiskInv
<1>4. /\ new.id = Cardinality(issued) + 1 /\ new.agent = q.agent /\ new.seq = q.seq
      /\ new.hash = q.hash /\ new \in Receipt
  <2>1. Cardinality(issued) + 1 \in 1 .. MaxIssued
    BY <1>3
  <2>2. q.agent \in Agents /\ q.seq \in 1 .. MaxSeq /\ q.hash \in 0 .. MaxSeq
    BY <1>1 DEF Request
  <2> QED BY <2>1, <2>2 DEF NewReceipt, Receipt
<1> HIDE DEF new
<1>5. \A i \in issued : i.receipt # new
  BY <1>3, <1>4 DEF DiskInv, Receipt
<1>6. entry \notin issued /\ entry.receipt = new
  BY <1>5
<1>7. IsFiniteSet(issued') /\ Cardinality(issued') = Cardinality(issued) + 1
  <2> HIDE DEF entry
  <2>1. issued' = issued \union {entry} /\ IsFiniteSet(issued)
    BY DEF entry, new, DiskInv
  <2> QED BY <1>6, <2>1, FS_AddElement
<1>8. /\ file' \in Seq(Receipt) /\ Len(file') = Len(file) + 1
      /\ \A i \in 1 .. Len(file) : file'[i] = file[i]
      /\ file'[Len(file) + 1] = new
  BY <1>2, <1>4, AppendProperties DEF new
<1>9. Len(file) \in Nat /\ DOMAIN file = 1 .. Len(file) /\ file' # Unreadable
  BY <1>2, <1>8, LenProperties, TokensAssumption
<1>10. Stored' = Stored \union {new}
  <2>1. ToSet(Append(file, new)) = ToSet(file) \union {new}
    BY <1>2, <1>4, FileContents
  <2> QED BY <1>1, <1>9, <2>1 DEF Stored, new
<1>11. Issued' = Issued \union {new}
  BY <1>6 DEF Issued, new
<1>12. new \notin Issued
  BY <1>5 DEF Issued
<1> QED
  BY <1>1, <1>2, <1>3, <1>4, <1>7, <1>8, <1>9, <1>10, <1>11, <1>12 DEF new, Same

(* A step that leaves the disk alone leaves what is on it alone.           *)
LEMMA DiskKept ==
  ASSUME UNCHANGED diskVars
  PROVE  /\ Stored' = Stored /\ Archived' = Archived /\ Issued' = Issued
         /\ DiskInv => DiskInv'
<1> USE DEF diskVars
<1>1. Stored' = Stored /\ Archived' = Archived /\ Issued' = Issued
  BY DEF Stored, Archived, Issued
<1> QED BY <1>1 DEF DiskInv, OneReceiptPerCheckpoint

(* A step of which a server without a request sees nothing. *)
LEMMA ServerKept ==
  ASSUME ServerInv, UNCHANGED <<memoryVars, diskVars>>, torn \subseteq torn',
         busy # None => witnessed' = witnessed
  PROVE  ServerInv'
<1>1. Stored' = Stored /\ Issued' = Issued
  BY DiskKept
<1>2. up' = up /\ busy' = busy /\ index' = index /\ file' = file
  BY DEF memoryVars, diskVars
<1> QED BY <1>1, <1>2 DEF ServerInv

-----------------------------------------------------------------------------
(* The invariant holds at the start, and each step keeps it.               *)

(* A new witness, or one with two receipts, satisfies the invariant.       *)
LEMMA InvInit ==
  ASSUME Init PROVE IInv
<1>1. /\ head = [a \in Agents |-> 2]
      /\ call = [a \in Agents |-> [hash |-> 0, round |-> 0, attempt |-> 0]]
      /\ witnessed = {} /\ torn = {} /\ requests = {}
      /\ up = FALSE /\ busy = None /\ index = {} /\ pruned = {} /\ damage = 0
  BY DEF Init
<1>2. /\ MaxSeq \in Nat /\ MaxSeq >= 2 /\ MaxIssued \in Nat /\ MaxIssued >= 2 /\ MaxRounds \in Nat
      /\ Attempts \in Nat \ {0} /\ MaxReceipts \in Nat \ {0} /\ MaxArchives \in Nat \ {0}
  BY WitnessAssumption
<1>3. /\ head \in [Agents -> 1 .. MaxSeq]
      /\ call \in [Agents -> [hash: 0 .. MaxSeq, round: 0 .. MaxRounds, attempt: 0 .. Attempts]]
      /\ \A a \in Agents : ~Open(a)
  <2>1. 2 \in 1 .. MaxSeq /\ 0 \in 0 .. MaxSeq /\ 0 \in 0 .. MaxRounds /\ 0 \in 0 .. Attempts
    BY <1>2
  <2> QED BY <1>1, <2>1 DEF Open
<1>4. CASE /\ file = <<>> /\ archives = <<>>
           /\ issued = {} /\ era = 0
  <2>1. /\ <<>> \in Seq(Receipt) /\ <<>> \in Seq(Seq(Receipt)) /\ Len(<<>>) = 0
        /\ DOMAIN (<<>>) = {} /\ <<>> # Unreadable
    <3>1. <<>> \in Seq(Receipt) /\ <<>> \in Seq(Seq(Receipt)) /\ Len(<<>>) = 0
      BY EmptySeq
    <3>2. DOMAIN (<<>>) = {}
      OBVIOUS
    <3> QED BY <3>1, <3>2, TokensAssumption
  <2>2. Stored = {} /\ Archived = {} /\ Issued = {}
    BY <1>4, <2>1 DEF Stored, Archived, Issued, ToSet
  <2>3. TypeOK
    BY <1>1, <1>2, <1>3, <1>4, <2>1, <2>2 DEF TypeOK, Issued
  <2>4. DiskInv
    BY <1>1, <1>2, <1>4, <2>1, <2>2, FS_EmptySet DEF DiskInv, OneReceiptPerCheckpoint
  <2>5. AgentInv /\ ServerInv
    BY <1>1, <1>3, <1>4, <2>2 DEF AgentInv, ServerInv, ReceiptAttestsRecord
  <2> QED BY <2>3, <2>4, <2>5 DEF IInv
<1>5. ASSUME NEW a \in Agents \ Unsigned,
             LET old(n) == [id |-> n, agent |-> a, seq |-> n, hash |-> n]
             IN  /\ file = <<old(2)>> /\ archives = << <<old(1)>> >>
                 /\ issued = {[receipt |-> old(n), era |-> n - 1] : n \in 1 .. 2}
                 /\ era = 1
      PROVE  IInv
  <2> DEFINE r1 == [id |-> 1, agent |-> a, seq |-> 1, hash |-> 1]
             r2 == [id |-> 2, agent |-> a, seq |-> 2, hash |-> 2]
             e1 == [receipt |-> r1, era |-> 0]
             e2 == [receipt |-> r2, era |-> 1]
  <2>1. /\ r1 \in Receipt /\ r1.id = 1 /\ r1.agent = a /\ r1.seq = 1 /\ r1.hash = 1
        /\ r2 \in Receipt /\ r2.id = 2 /\ r2.agent = a /\ r2.seq = 2 /\ r2.hash = 2
    BY <1>2 DEF Receipt
  <2>2. file = <<r2>> /\ archives = << <<r1>> >> /\ era = 1
    BY <1>5
  <2>3. issued = {e1, e2}
    <3>1. \A n \in 1 .. 2 : n = 1 \/ n = 2
      OBVIOUS
    <3>2. 1 \in 1 .. 2 /\ 2 \in 1 .. 2 /\ 1 - 1 = 0 /\ 2 - 1 = 1
      OBVIOUS
    <3> QED BY <1>5, <3>1, <3>2
  <2> HIDE DEF r1, r2
  <2>4. e1.receipt = r1 /\ e1.era = 0 /\ e2.receipt = r2 /\ e2.era = 1
    OBVIOUS
  <2>5. issued \subseteq [receipt: Receipt, era: 0 .. era]
    BY <2>1, <2>2, <2>3
  <2> HIDE DEF e1, e2
  <2>6. IsFiniteSet(issued) /\ Cardinality(issued) = 2
    <3>1. {e1} \union {e2} = {e1, e2} /\ e2 \notin {e1}
      BY <2>4
    <3>2. IsFiniteSet({e1}) /\ Cardinality({e1}) = 1
      BY FS_Singleton
    <3> QED BY <2>3, <3>1, <3>2, FS_AddElement
  <2>7. /\ file \in Seq(Receipt) /\ Len(file) = 1 /\ DOMAIN file = {1} /\ file[1] = r2
        /\ file # Unreadable /\ Stored = {r2}
    <3>1. /\ file \in Seq(Receipt) /\ Len(file) = 1 /\ DOMAIN file = {1} /\ file[1] = r2
      BY <2>1, <2>2
    <3> QED BY <3>1, TokensAssumption DEF Stored, ToSet
  <2>8. /\ archives \in Seq(Seq(Receipt)) /\ Len(archives) = 1 /\ DOMAIN archives = {1}
        /\ ToSet(archives[1]) = {r1} /\ Archived = {r1}
    <3>1. <<r1>> \in Seq(Receipt) /\ ToSet(<<r1>>) = {r1}
      BY <2>1 DEF ToSet
    <3>2. /\ archives \in Seq(Seq(Receipt)) /\ Len(archives) = 1 /\ DOMAIN archives = {1}
          /\ archives[1] = <<r1>>
      BY <2>2, <3>1
    <3> QED BY <3>1, <3>2 DEF Archived
  <2>9. Issued = {r1, r2}
    BY <2>3, <2>4 DEF Issued
  <2>10. TypeOK
    <3>1. Stored \union Archived \union pruned \subseteq {i.receipt : i \in issued}
      BY <1>1, <2>7, <2>8, <2>9 DEF Issued
    <3>2. Len(archives) <= MaxArchives
      BY <1>2, <2>8
    <3> QED BY <1>1, <1>3, <3>1, <3>2 DEF TypeOK
  <2>11. DiskInv
    BY <1>1, <1>2, <2>1, <2>2, <2>3, <2>4, <2>5, <2>6, <2>7, <2>8, <2>9
       DEF DiskInv, OneReceiptPerCheckpoint
  <2>12. AgentInv /\ ServerInv
    BY <1>1, <1>3, <2>1, <2>3, <2>4, <2>9 DEF AgentInv, ServerInv, ReceiptAttestsRecord
  <2> QED BY <2>10, <2>11, <2>12 DEF IInv
<1> QED BY <1>4, <1>5 DEF Init

(* A step that sends an attempt. *)
LEMMA SendKeeps ==
  ASSUME IInv, NEW a \in Agents, SendsHead(a),
         UNCHANGED <<witnessed, memoryVars, diskVars, crashes>>
  PROVE  IInv'
<1>0. TypeOK /\ DiskInv /\ AgentInv /\ ServerInv
  BY DEF IInv
<1>1. Stored' = Stored /\ Archived' = Archived /\ Issued' = Issued /\ DiskInv'
  BY <1>0, DiskKept
<1>2. /\ up' = up /\ busy' = busy /\ index' = index /\ witnessed' = witnessed
      /\ archives' = archives /\ pruned' = pruned /\ issued' = issued
  BY DEF memoryVars, diskVars
<1>3. TypeOK'
  BY <1>0, <1>1, <1>2, SendEffect DEF TypeOK, Issued
<1>4. AgentInv'
  <2>1. torn \subseteq torn'
    BY <1>0, SendEffect
  <2>2. \A b \in Agents : Open(b)' => call'[b].round >= 1 /\ (b \notin torn' => call'[b].hash = head'[b])
    BY <1>0, <2>1, SendEffect DEF AgentInv
  <2>3. \A q \in requests' : q.agent \notin torn' => q.hash = q.seq
    BY <1>0, <2>1, SendEffect DEF AgentInv
  <2> QED BY <1>0, <1>1, <1>2, <2>1, <2>2, <2>3 DEF AgentInv, ReceiptAttestsRecord
<1>5. ServerInv'
  <2>1. torn \subseteq torn'
    BY <1>0, SendEffect
  <2> QED BY <1>0, <2>1, ServerKept
<1> QED BY <1>1, <1>3, <1>4, <1>5 DEF IInv

(* send_witness_checkpoint keeps the invariant. *)
LEMMA SubmitKeeps ==
  ASSUME IInv, NEW a \in Agents, Submit(a) PROVE IInv'
<1>1. SendsHead(a)
  BY SubmitSends DEF IInv
<1>2. UNCHANGED <<witnessed, memoryVars, diskVars, crashes>>
  BY DEF Submit
<1> QED BY <1>1, <1>2, SendKeeps

(* An attempt that fails keeps it, the last one too. *)
LEMMA AttemptKeeps ==
  ASSUME IInv, NEW a \in Agents, AttemptFails(a) PROVE IInv'
<1>0. TypeOK /\ DiskInv /\ AgentInv /\ ServerInv
  BY DEF IInv
<1>1. UNCHANGED <<witnessed, torn, memoryVars, diskVars, crashes>>
  BY DEF AttemptFails
<1>2. CASE SendsHead(a)
  BY <1>1, <1>2, SendKeeps
<1>3. CASE call' = [call EXCEPT ![a].attempt = 0] /\ UNCHANGED <<head, torn, requests>>
  <2>1. Stored' = Stored /\ Archived' = Archived /\ Issued' = Issued /\ DiskInv' /\ ServerInv'
    BY <1>0, <1>1, DiskKept, ServerKept
  <2>2. /\ call' \in [Agents -> [hash: 0 .. MaxSeq, round: 0 .. MaxRounds, attempt: 0 .. Attempts]]
        /\ \A b \in Agents : Open(b)' => Open(b) /\ call'[b] = call[b]
    BY <1>0, <1>3, CloseCall DEF TypeOK
  <2>3. /\ up' = up /\ busy' = busy /\ index' = index
        /\ archives' = archives /\ pruned' = pruned /\ issued' = issued
    BY <1>1 DEF memoryVars, diskVars
  <2>4. TypeOK'
    BY <1>0, <1>1, <1>3, <2>1, <2>2, <2>3 DEF TypeOK
  <2>5. AgentInv'
    BY <1>0, <1>1, <1>3, <2>1, <2>2, <2>3 DEF AgentInv, ReceiptAttestsRecord
  <2> QED BY <2>1, <2>4, <2>5 DEF IInv
<1> QED BY <1>0, <1>2, <1>3, AttemptSends

(* What an answer leaves of the invariant. *)
LEMMA ReplyKeeps ==
  ASSUME IInv, NEW q \in Request, NEW r \in Receipt \union {None}, Reply(q, r),
         requests' \subseteq requests, UNCHANGED diskVars,
         r \in Receipt => r \in Issued /\ Same(r, q) /\ (q.agent \notin torn => r.hash = q.hash)
  PROVE  /\ AgentInv' /\ DiskInv' /\ Stored' = Stored /\ Issued' = Issued
         /\ head' \in [Agents -> 1 .. MaxSeq]
         /\ call' \in [Agents -> [hash: 0 .. MaxSeq, round: 0 .. MaxRounds, attempt: 0 .. Attempts]]
         /\ \A w \in witnessed' : w.receipt \in Receipt
         /\ requests' \subseteq Request
         /\ Stored' \union Archived' \union pruned' \subseteq {i.receipt : i \in issued'}
         /\ Len(archives') <= MaxArchives
<1>0. TypeOK /\ DiskInv /\ AgentInv
  BY DEF IInv
<1>1. Stored' = Stored /\ Archived' = Archived /\ Issued' = Issued /\ DiskInv'
  BY <1>0, DiskKept
<1>2. archives' = archives /\ pruned' = pruned /\ issued' = issued
  BY DEF diskVars
<1>3. /\ head' \in [Agents -> 1 .. MaxSeq]
      /\ call' \in [Agents -> [hash: 0 .. MaxSeq, round: 0 .. MaxRounds, attempt: 0 .. Attempts]]
      /\ torn' = torn
      /\ \A a \in Agents :
           Open(a)' => Open(a) /\ call'[a] = call[a] /\ head'[a] = head[a]
      /\ \A w \in witnessed' :
           \/ w \in witnessed
           \/ /\ r \in Receipt /\ w.receipt = r
              /\ w.agent = q.agent /\ w.seq = q.seq /\ w.hash = q.hash
  BY <1>0, ReplyEffect
<1>4. AgentInv'
  <2>1. \A w \in witnessed' : w.receipt \in Issued'
    BY <1>0, <1>1, <1>3 DEF AgentInv
  <2>2. ReceiptAttestsRecord'
    BY <1>0, <1>3 DEF AgentInv, ReceiptAttestsRecord, Same
  <2>3. /\ \A a \in Agents : Open(a)' => call'[a].round >= 1
        /\ \A a \in Agents \ torn' : Open(a)' => call'[a].hash = head'[a]
    BY <1>0, <1>3 DEF AgentInv
  <2> QED BY <1>0, <1>2, <1>3, <2>1, <2>2, <2>3 DEF AgentInv
<1>5. /\ \A w \in witnessed' : w.receipt \in Receipt
      /\ requests' \subseteq Request
      /\ Stored' \union Archived' \union pruned' \subseteq {i.receipt : i \in issued'}
      /\ Len(archives') <= MaxArchives
  BY <1>0, <1>1, <1>2, <1>3 DEF TypeOK
<1> QED BY <1>1, <1>3, <1>4, <1>5

(* do_POST up to the save: refuses, answers again, or takes the request on. *)
LEMMA AcceptKeeps ==
  ASSUME IInv, Accept PROVE IInv'
<1>0. TypeOK /\ DiskInv /\ AgentInv /\ ServerInv
  BY DEF IInv
<1>1. /\ up /\ busy = None /\ up' = up /\ index' = index /\ UNCHANGED diskVars
      /\ Stored \subseteq index
  BY <1>0 DEF Accept, ServerInv
<1>2. PICK q \in requests :
        /\ requests' = requests \ {q}
        /\ \/ /\ q.agent \in Unsigned
              /\ UNCHANGED <<agentVars, busy>>
           \/ /\ q.agent \notin Unsigned /\ FindExisting(q.agent, q.seq) # {}
              /\ Reply(q, CHOOSE r \in FindExisting(q.agent, q.seq) : TRUE)
              /\ UNCHANGED busy
           \/ /\ q.agent \notin Unsigned /\ FindExisting(q.agent, q.seq) = {}
              /\ LoadReceipts(q)
              /\ UNCHANGED agentVars
  BY DEF Accept
<1>3. /\ Stored' = Stored /\ Archived' = Archived /\ Issued' = Issued /\ DiskInv'
      /\ archives' = archives /\ pruned' = pruned /\ issued' = issued /\ file' = file
  BY <1>0, <1>1, DiskKept DEF diskVars
<1>4. q \in Request /\ (q.agent \notin torn => q.hash = q.seq)
  BY <1>0 DEF TypeOK, AgentInv
<1>5. ASSUME UNCHANGED agentVars,
             \/ busy' = None
             \/ busy' \in [request: Request, step: {"rotate", "save", "reply"},
                          receipt: Receipt \union {None}]
      PROVE  TypeOK' /\ AgentInv'
  <2>1. /\ head' = head /\ call' = call /\ witnessed' = witnessed /\ torn' = torn
        /\ \A a \in Agents : Open(a)' = Open(a)
    BY <1>5 DEF agentVars, Open
  <2>2. requests' \subseteq requests
    BY <1>2
  <2>3. AgentInv'
    BY <1>0, <1>3, <2>1, <2>2 DEF AgentInv, ReceiptAttestsRecord
  <2>4. TypeOK'
    BY <1>0, <1>1, <1>3, <1>5, <2>1, <2>2 DEF TypeOK
  <2> QED BY <2>3, <2>4
<1>6. CASE UNCHANGED <<agentVars, busy>>
  <2>1. TypeOK' /\ AgentInv'
    <3>1. busy' = None
      BY <1>1, <1>6
    <3>2. UNCHANGED agentVars
      BY <1>6
    <3> QED BY <1>5, <3>1, <3>2
  <2>2. ServerInv'
    BY <1>0, <1>1, <1>3, <1>6 DEF ServerInv, agentVars
  <2> QED BY <1>3, <2>1, <2>2 DEF IInv
<1>7. CASE /\ FindExisting(q.agent, q.seq) # {}
           /\ Reply(q, CHOOSE r \in FindExisting(q.agent, q.seq) : TRUE)
           /\ UNCHANGED busy
  <2> DEFINE r == CHOOSE x \in FindExisting(q.agent, q.seq) : TRUE
  <2>1. r \in FindExisting(q.agent, q.seq)
    BY <1>7
  <2> HIDE DEF r
  <2>2. r \in index /\ Same(r, q)
    BY <2>1 DEF FindExisting, Same
  <2>3. r \in Receipt /\ r \in Issued
    BY <1>0, <2>2 DEF TypeOK, ServerInv
  <2>4. q.agent \notin torn => r.hash = q.hash
    <3>1. PICK i \in issued : i.receipt = r
      BY <2>3 DEF Issued
    <3> QED BY <1>0, <1>4, <2>2, <3>1 DEF AgentInv, Same
  <2>5. Reply(q, r)
    BY <1>7 DEF r
  <2>6. requests' \subseteq requests
    BY <1>2
  <2>7. /\ AgentInv' /\ DiskInv'
        /\ head' \in [Agents -> 1 .. MaxSeq]
        /\ call' \in [Agents -> [hash: 0 .. MaxSeq, round: 0 .. MaxRounds, attempt: 0 .. Attempts]]
        /\ \A w \in witnessed' : w.receipt \in Receipt
        /\ requests' \subseteq Request
        /\ Stored' \union Archived' \union pruned' \subseteq {i.receipt : i \in issued'}
        /\ Len(archives') <= MaxArchives
    BY <1>1, <1>4, <2>2, <2>3, <2>4, <2>5, <2>6, ReplyKeeps
  <2>8. TypeOK'
    BY <1>0, <1>1, <1>7, <2>7 DEF TypeOK
  <2>9. ServerInv'
    BY <1>0, <1>1, <1>3, <1>7 DEF ServerInv
  <2> QED BY <2>7, <2>8, <2>9 DEF IInv
<1>8. CASE /\ FindExisting(q.agent, q.seq) = {}
           /\ LoadReceipts(q)
           /\ UNCHANGED agentVars
  <2>1. CASE UNCHANGED busy
    BY <1>6, <1>8, <2>1
  <2>2. CASE ~UNCHANGED busy
    <3> DEFINE step == IF Len(file) >= MaxReceipts THEN "rotate" ELSE "save"
               work == [request |-> q, receipt |-> None, step |-> step]
    <3>1. file # Unreadable /\ busy' = work
      BY <1>8, <2>2 DEF LoadReceipts
    <3>2. work.request = q /\ work.step = step /\ work.receipt = None
      OBVIOUS
    <3>3. work \in [request: Request, step: {"rotate", "save", "reply"}, receipt: Receipt \union {None}]
      BY <1>4
    <3>4. /\ step = "rotate" => Len(file) = MaxReceipts
          /\ step = "save" => Len(file) < MaxReceipts
          /\ step # "reply"
      <4>1. Len(file) \in Nat /\ Len(file) <= MaxReceipts /\ MaxReceipts \in Nat
        BY <1>0, <3>1, LenProperties, WitnessAssumption DEF DiskInv
      <4> QED BY <4>1
    <3>5. \A r \in Stored : ~Same(r, q)
      BY <1>1, <1>8 DEF FindExisting, Same
    <3> HIDE DEF step, work
    <3>6. TypeOK' /\ AgentInv'
      BY <1>5, <1>8, <3>1, <3>3
    <3>7. ServerInv'
      <4>1. witnessed' = witnessed /\ torn' = torn
        BY <1>8 DEF agentVars
      <4> QED BY <1>0, <1>1, <1>3, <1>4, <3>1, <3>2, <3>3, <3>4, <3>5, <4>1 DEF ServerInv
    <3> QED BY <1>3, <3>6, <3>7 DEF IInv
  <2> QED BY <2>1, <2>2
<1> QED BY <1>2, <1>6, <1>7, <1>8

(* A handler that raises leaves the server idle; the agent sees nothing.   *)
LEMMA RaiseKeeps ==
  ASSUME IInv, HandlerRaises, UNCHANGED diskVars, index' = index,
         Stored \subseteq index
  PROVE  IInv'
<1>0. TypeOK /\ DiskInv /\ AgentInv /\ ServerInv
  BY DEF IInv
<1>1. /\ Stored' = Stored /\ Archived' = Archived /\ Issued' = Issued /\ DiskInv'
      /\ archives' = archives /\ pruned' = pruned /\ issued' = issued /\ file' = file
  BY <1>0, DiskKept DEF diskVars
<1>2. /\ busy' = None /\ requests' = requests /\ up' = up
      /\ head' = head /\ call' = call /\ witnessed' = witnessed /\ torn' = torn
      /\ \A a \in Agents : Open(a)' = Open(a)
  BY DEF HandlerRaises, agentVars, Open
<1>3. TypeOK'
  BY <1>0, <1>1, <1>2 DEF TypeOK
<1>4. AgentInv'
  BY <1>0, <1>1, <1>2 DEF AgentInv, ReceiptAttestsRecord
<1>5. ServerInv'
  BY <1>0, <1>1, <1>2 DEF ServerInv
<1> QED BY <1>1, <1>3, <1>4, <1>5 DEF IInv

(* Setting the file aside keeps what is said of the disk. *)
LEMMA SetAsideKeeps ==
  ASSUME TypeOK, DiskInv, file \in Seq(Receipt), SetAside
  PROVE  /\ DiskInv' /\ Stored' = {} /\ Issued' = Issued
         /\ Stored' \union Archived' \union pruned' \subseteq {i.receipt : i \in issued'}
         /\ Len(archives') <= MaxArchives /\ file' = <<>> /\ issued' = issued
<1>1. /\ file' = <<>> /\ Stored' = {} /\ era' = era + 1
      /\ issued' = issued /\ damage' = damage
      /\ archives' \in Seq(Seq(Receipt)) /\ Len(archives') <= MaxArchives
      /\ Archived' \union pruned' = Stored \union Archived \union pruned
  BY SetAsideEffect
<1>2. Issued' = Issued
  BY <1>1 DEF Issued
<1>3. \A i \in issued' : i.era # era'
  BY <1>1 DEF DiskInv
<1>4. issued' \subseteq [receipt: Receipt, era: 0 .. era']
  <2>1. 0 .. era \subseteq 0 .. era + 1
    BY DEF DiskInv
  <2> QED BY <1>1, <2>1 DEF DiskInv
<1>5. file' \in Seq(Receipt) /\ Len(file') <= MaxReceipts /\ DOMAIN file' = {}
  <2>1. <<>> \in Seq(Receipt) /\ Len(<<>>) = 0 /\ DOMAIN (<<>>) = {} /\ MaxReceipts \in Nat
    BY WitnessAssumption
  <2> QED BY <1>1, <2>1
<1>6. DiskInv'
  BY <1>1, <1>2, <1>3, <1>4, <1>5 DEF DiskInv, OneReceiptPerCheckpoint
<1> QED BY <1>1, <1>2, <1>6 DEF TypeOK, Issued

(* The rotation, whole, failed, or failed after the rename. *)
LEMMA RotateKeeps ==
  ASSUME IInv, Rotate PROVE IInv'
<1>0. TypeOK /\ DiskInv /\ AgentInv /\ ServerInv
  BY DEF IInv
<1>1. /\ busy # None /\ busy.step = "rotate" /\ up
      /\ busy \in [request: Request, step: {"rotate", "save", "reply"},
                   receipt: Receipt \union {None}]
      /\ busy.request.agent \notin torn => busy.request.hash = busy.request.seq
      /\ file \in Seq(Receipt) /\ Stored \subseteq index
  BY <1>0 DEF Rotate, TypeOK, ServerInv, DiskInv
<1>2. UNCHANGED <<agentVars, requests, crashes, up>>
  BY DEF Rotate, HandlerRaises
<1>3. /\ head' = head /\ call' = call /\ witnessed' = witnessed /\ torn' = torn
      /\ requests' = requests /\ up' = up /\ \A a \in Agents : Open(a)' = Open(a)
  BY <1>2 DEF agentVars, Open
<1>4. CASE UNCHANGED <<index, diskVars>> /\ HandlerRaises
  BY <1>1, <1>4, RaiseKeeps
<1>5. ASSUME SetAside, index' \subseteq index
      PROVE  /\ DiskInv' /\ AgentInv' /\ Stored' = {} /\ Issued' = Issued /\ file' = <<>>
             /\ \/ busy' = None
                \/ busy' \in [request: Request, step: {"rotate", "save", "reply"},
                             receipt: Receipt \union {None}]
                => TypeOK'
  <2>1. /\ DiskInv' /\ Stored' = {} /\ Issued' = Issued /\ file' = <<>> /\ issued' = issued
        /\ Stored' \union Archived' \union pruned' \subseteq {i.receipt : i \in issued'}
        /\ Len(archives') <= MaxArchives
    BY <1>0, <1>1, <1>5, SetAsideKeeps
  <2>2. AgentInv'
    BY <1>0, <1>3, <2>1 DEF AgentInv, ReceiptAttestsRecord
  <2> QED BY <1>0, <1>1, <1>3, <1>5, <2>1, <2>2 DEF TypeOK
<1>6. CASE SetAside /\ index' = {} /\ Work("save", None)
  <2>1. /\ busy' \in [request: Request, step: {"rotate", "save", "reply"},
                      receipt: Receipt \union {None}]
        /\ busy'.step = "save" /\ busy'.request = busy.request
    BY <1>1, <1>6 DEF Work
  <2>2. /\ DiskInv' /\ AgentInv' /\ Stored' = {} /\ file' = <<>> /\ TypeOK'
    BY <1>5, <1>6, <2>1
  <2>3. <<>> # Unreadable /\ Len(<<>>) < MaxReceipts
    <3>1. <<>> # Unreadable
      BY EmptySeq, TokensAssumption
    <3>2. Len(<<>>) < MaxReceipts
      BY WitnessAssumption
    <3> QED BY <3>1, <3>2
  <2>4. ServerInv'
    BY <1>1, <1>3, <1>6, <2>1, <2>2, <2>3 DEF ServerInv
  <2> QED BY <2>2, <2>4 DEF IInv
<1>7. CASE SetAside /\ UNCHANGED index /\ HandlerRaises
  <2>1. busy' = None
    BY <1>7 DEF HandlerRaises
  <2>2. /\ DiskInv' /\ AgentInv' /\ Stored' = {} /\ Issued' = Issued /\ TypeOK'
    BY <1>5, <1>7, <2>1
  <2>3. ServerInv'
    BY <1>0, <1>7, <2>1, <2>2 DEF ServerInv
  <2> QED BY <2>2, <2>3 DEF IInv
<1> QED BY <1>4, <1>6, <1>7 DEF Rotate

(* A receipt that is saved, or cannot be. *)
LEMMA SaveKeeps ==
  ASSUME IInv, Save PROVE IInv'
<1>0. TypeOK /\ DiskInv /\ AgentInv /\ ServerInv
  BY DEF IInv
<1>1. /\ busy # None /\ busy.step = "save" /\ up /\ index' = index
      /\ busy \in [request: Request, step: {"rotate", "save", "reply"},
                   receipt: Receipt \union {None}]
      /\ busy.request.agent \notin torn => busy.request.hash = busy.request.seq
      /\ Len(file) < MaxReceipts /\ Stored \subseteq index
      /\ \A r \in Stored : ~Same(r, busy.request)
  BY <1>0 DEF Save, TypeOK, ServerInv
<1>2. CASE UNCHANGED diskVars /\ HandlerRaises
  BY <1>1, <1>2, RaiseKeeps
<1>3. CASE /\ Cardinality(issued) < MaxIssued
           /\ Work("reply", NewReceipt)
           /\ issued' = issued \union {[receipt |-> NewReceipt, era |-> era]}
           /\ file' = Append(file, NewReceipt)
           /\ UNCHANGED <<archives, pruned, era, damage, agentVars, requests, crashes, up>>
  <2> DEFINE new == NewReceipt
             entry == [receipt |-> new, era |-> era]
  <2>1. /\ new \in Receipt /\ new \notin Issued
        /\ Same(new, busy.request) /\ new.hash = busy.request.hash
        /\ file \in Seq(Receipt) /\ file' \in Seq(Receipt)
        /\ file # Unreadable /\ file' # Unreadable
        /\ Stored' = Stored \union {new} /\ Issued' = Issued \union {new}
        /\ IsFiniteSet(issued') /\ Cardinality(issued') = Cardinality(issued) + 1
        /\ Cardinality(issued) \in Nat /\ new.id = Cardinality(issued) + 1
        /\ Len(file') = Len(file) + 1 /\ DOMAIN file = 1 .. Len(file) /\ Len(file) \in Nat
        /\ \A i \in 1 .. Len(file) : file'[i] = file[i]
        /\ file'[Len(file) + 1] = new
    BY <1>0, <1>1, <1>3, SaveEffect
  <2>2. /\ head' = head /\ call' = call /\ witnessed' = witnessed /\ torn' = torn
        /\ requests' = requests /\ up' = up /\ \A a \in Agents : Open(a)' = Open(a)
        /\ archives' = archives /\ pruned' = pruned /\ era' = era /\ damage' = damage
        /\ Archived' = Archived
    BY <1>3 DEF agentVars, Open, Archived
  <2>3. busy' = [busy EXCEPT !.step = "reply", !.receipt = new] /\ issued' = issued \union {entry}
    BY <1>3 DEF Work
  <2>4. entry.receipt = new /\ entry.era = era
    OBVIOUS
  <2>5. entry \in [receipt: Receipt, era: 0 .. era] /\ era \in Nat
    BY <1>0, <2>1 DEF DiskInv
  <2> HIDE DEF new, entry
  <2>6. /\ busy' \in [request: Request, step: {"rotate", "save", "reply"},
                      receipt: Receipt \union {None}]
        /\ busy'.step = "reply" /\ busy'.request = busy.request /\ busy'.receipt = new
    BY <1>1, <2>1, <2>3
  <2>7. TypeOK'
    <3>1. Stored' \union Archived' \union pruned' \subseteq {i.receipt : i \in issued'}
      BY <1>0, <2>1, <2>2 DEF TypeOK, Issued
    <3> QED BY <1>0, <1>1, <2>2, <2>6, <3>1 DEF TypeOK
  <2>8. DiskInv'
    <3>1. \A i \in issued' : i.receipt.id <= Cardinality(issued')
      <4>1. \A i \in issued : i.receipt.id \in Nat /\ i.receipt.id <= Cardinality(issued)
        <5>1. MaxIssued \in Nat
          BY WitnessAssumption
        <5> QED BY <1>0, <5>1 DEF DiskInv, Receipt
      <4> QED BY <2>1, <2>3, <2>4, <4>1
    <3>2. \A i, j \in DOMAIN file' : Same(file'[i], file'[j]) => i = j
      <4>1. DOMAIN file' = 1 .. Len(file) + 1
        BY <2>1, LenProperties
      <4>2. \A i \in 1 .. Len(file) : file[i] \in Stored
        BY <2>1 DEF Stored, ToSet
      <4>3. \A i \in 1 .. Len(file) : ~Same(file[i], new)
        BY <1>1, <2>1, <4>2 DEF Same
      <4>4. \A i, j \in 1 .. Len(file) : Same(file'[i], file'[j]) => i = j
        BY <1>0, <2>1 DEF DiskInv
      <4>5. \A i \in 1 .. Len(file) + 1 : i \in 1 .. Len(file) \/ i = Len(file) + 1
        BY <2>1
      <4> QED BY <2>1, <4>1, <4>3, <4>4, <4>5 DEF Same
    <3>3. \A i \in issued' : i.era = era' => i.receipt \in Stored'
      BY <1>0, <2>1, <2>2, <2>3, <2>4 DEF DiskInv
    <3>4. OneReceiptPerCheckpoint'
      <4>1. \A i \in issued : i.era = era => ~Same(i.receipt, new)
        BY <1>0, <1>1, <2>1 DEF DiskInv, Same
      <4>2. \A i, j \in issued : Same(i.receipt, j.receipt) /\ i.era = j.era => i = j
        BY <1>0 DEF DiskInv, OneReceiptPerCheckpoint, Same
      <4>3. \A i, j \in issued' : Same(i.receipt, j.receipt) /\ i.era = j.era => i = j
        BY <2>3, <2>4, <4>1, <4>2 DEF Same
      <4> QED BY <4>3 DEF OneReceiptPerCheckpoint, Same
    <3>5. Len(file') <= MaxReceipts
      BY <1>1, <2>1, WitnessAssumption
    <3>6. damage' = 0 => Issued' \subseteq Stored' \union Archived' \union pruned'
      BY <1>0, <2>1, <2>2 DEF DiskInv
    <3>7. issued' \subseteq [receipt: Receipt, era: 0 .. era']
      BY <1>0, <2>2, <2>3, <2>5 DEF DiskInv
    <3> QED BY <1>0, <2>1, <2>2, <2>5, <3>1, <3>2, <3>3, <3>4, <3>5, <3>6, <3>7 DEF DiskInv
  <2>9. AgentInv'
    <3>1. \A i \in issued' : i.receipt.agent \notin torn' => i.receipt.hash = i.receipt.seq
      BY <1>0, <1>1, <2>1, <2>2, <2>3, <2>4 DEF AgentInv, Same
    <3> QED BY <1>0, <2>1, <2>2, <3>1 DEF AgentInv, ReceiptAttestsRecord
  <2>10. ServerInv'
    <3>1. \A w \in witnessed' : w.receipt # busy'.receipt
      BY <1>0, <2>1, <2>2, <2>6 DEF AgentInv
    <3>2. busy' # None
      BY <2>6, TokensAssumption
    <3>3. index' \subseteq Issued'
      BY <1>0, <1>1, <2>1 DEF ServerInv
    <3>4. Stored' \subseteq index' \union {busy'.receipt}
      BY <1>1, <2>1, <2>6
    <3> QED BY <1>1, <2>1, <2>2, <2>6, <3>1, <3>2, <3>3, <3>4 DEF ServerInv
  <2> QED BY <2>7, <2>8, <2>9, <2>10 DEF IInv
<1> QED BY <1>2, <1>3 DEF Save

(* The index catches up, and the answer goes out. *)
LEMMA IndexAndReplyKeeps ==
  ASSUME IInv, IndexAndReply PROVE IInv'
<1>0. TypeOK /\ DiskInv /\ AgentInv /\ ServerInv
  BY DEF IInv
<1> DEFINE q == busy.request
           r == busy.receipt
<1>1. /\ busy # None /\ busy.step = "reply" /\ up
      /\ q \in Request /\ r \in Issued /\ Same(r, q) /\ r.hash = q.hash
      /\ Stored \subseteq index \union {r}
  BY <1>0 DEF IndexAndReply, TypeOK, ServerInv
<1>2. r \in Receipt
  BY <1>0, <1>1 DEF Issued, DiskInv
<1>3. /\ Reply(q, r) /\ busy' = None /\ index' = index \union {r} /\ up' = up
      /\ UNCHANGED diskVars /\ requests' = requests
  BY DEF IndexAndReply
<1> HIDE DEF q, r
<1>4. /\ AgentInv' /\ DiskInv' /\ Stored' = Stored /\ Issued' = Issued
      /\ head' \in [Agents -> 1 .. MaxSeq]
      /\ call' \in [Agents -> [hash: 0 .. MaxSeq, round: 0 .. MaxRounds, attempt: 0 .. Attempts]]
      /\ \A w \in witnessed' : w.receipt \in Receipt
      /\ requests' \subseteq Request
      /\ Stored' \union Archived' \union pruned' \subseteq {i.receipt : i \in issued'}
      /\ Len(archives') <= MaxArchives
  BY <1>1, <1>2, <1>3, ReplyKeeps
<1>5. TypeOK'
  BY <1>0, <1>2, <1>3, <1>4 DEF TypeOK
<1>6. ServerInv'
  BY <1>0, <1>1, <1>3, <1>4 DEF ServerInv
<1> QED BY <1>4, <1>5, <1>6 DEF IInv

(* Starting, killing and losing power. *)
LEMMA ServerKeeps ==
  ASSUME IInv, StartServer \/ Kill \/ PowerLoss PROVE IInv'
<1>0. TypeOK /\ DiskInv /\ AgentInv /\ ServerInv
  BY DEF IInv
<1>1. /\ head' = head /\ call' = call /\ witnessed' = witnessed /\ torn' = torn
      /\ requests' \subseteq requests
      /\ archives' = archives /\ pruned' = pruned /\ issued' = issued
      /\ Archived' = Archived /\ Issued' = Issued /\ \A a \in Agents : Open(a)' = Open(a)
  BY DEF StartServer, Kill, PowerLoss, KillServer, agentVars, diskVars, Open, Archived, Issued
<1>2. AgentInv'
  BY <1>0, <1>1 DEF AgentInv, ReceiptAttestsRecord
<1>3. CASE StartServer
  <2>1. busy = None /\ busy' = None /\ index' = Stored /\ UNCHANGED diskVars
    BY <1>0, <1>3 DEF StartServer, TypeOK
  <2>2. Stored' = Stored /\ DiskInv'
    BY <1>0, <2>1, DiskKept
  <2>3. Stored \subseteq Issued /\ Stored \subseteq Receipt
    BY <1>0 DEF TypeOK, DiskInv, Issued
  <2>4. TypeOK'
    BY <1>0, <1>1, <2>1, <2>2, <2>3 DEF TypeOK
  <2>5. ServerInv'
    BY <1>1, <2>1, <2>2, <2>3 DEF ServerInv
  <2> QED BY <1>2, <2>2, <2>4, <2>5 DEF IInv
<1>4. ASSUME KillServer, DiskInv', Stored' \subseteq Stored PROVE IInv'
  <2>1. busy' = None /\ index' = {} /\ ~up'
    BY <1>4 DEF KillServer
  <2>2. TypeOK'
    <3>1. Stored' \union Archived' \union pruned' \subseteq {i.receipt : i \in issued'}
      BY <1>0, <1>1, <1>4 DEF TypeOK
    <3> QED BY <1>0, <1>1, <2>1, <3>1 DEF TypeOK
  <2>3. ServerInv'
    BY <2>1 DEF ServerInv
  <2> QED BY <1>2, <1>4, <2>2, <2>3 DEF IInv
<1>5. CASE Kill
  BY <1>0, <1>4, <1>5, DiskKept DEF Kill
<1>6. CASE PowerLoss
  <2>1. /\ file' \in {Unreadable, Front(file)} /\ era' = era + 1 /\ damage' = damage + 1
        /\ file # <<>> /\ file # Unreadable
    BY <1>6 DEF PowerLoss
  <2>2. /\ file \in Seq(Receipt) /\ Len(file) \in Nat /\ Len(file) <= MaxReceipts
        /\ DOMAIN file = 1 .. Len(file) /\ Len(file) # 0
    BY <1>0, <2>1, LenProperties, EmptySeq DEF DiskInv
  <2>3. /\ Front(file) \in Seq(Receipt) /\ Len(Front(file)) = Len(file) - 1
        /\ \A i \in 1 .. Len(file) - 1 : Front(file)[i] = file[i]
    BY <2>2, SubSeqProperties DEF Front
  <2>4. DOMAIN Front(file) = 1 .. Len(file) - 1 /\ Front(file) # Unreadable
    BY <2>3, LenProperties, TokensAssumption
  <2>5. Stored' \subseteq Stored
    BY <2>1, <2>2, <2>4, FileContents DEF Stored
  <2>6. issued' \subseteq [receipt: Receipt, era: 0 .. era'] /\ \A i \in issued' : i.era # era'
    <3>1. era \in Nat /\ 0 .. era \subseteq 0 .. era + 1
      BY <1>0 DEF DiskInv
    <3> QED BY <1>0, <1>1, <2>1, <3>1 DEF DiskInv
  <2>7. \/ file' \in Seq(Receipt) /\ Len(file') <= MaxReceipts
        \/ file' = Unreadable /\ damage' > 0
    BY <1>0, <2>1, <2>2, <2>3, WitnessAssumption DEF DiskInv
  <2>8. file' # Unreadable => \A i, j \in DOMAIN file' : Same(file'[i], file'[j]) => i = j
    <3>1. \A i \in 1 .. Len(file) - 1 : i \in 1 .. Len(file)
      BY <2>2
    <3>2. \A i, j \in 1 .. Len(file) : Same(file[i], file[j]) => i = j
      BY <1>0, <2>1, <2>2 DEF DiskInv
    <3> QED BY <2>1, <2>3, <2>4, <3>1, <3>2
  <2>9. DiskInv'
    <3>1. era' \in Nat /\ damage' \in Nat /\ damage' # 0
      BY <1>0, <2>1 DEF DiskInv
    <3> QED BY <1>0, <1>1, <2>6, <2>7, <2>8, <3>1 DEF DiskInv, OneReceiptPerCheckpoint
  <2> QED BY <1>4, <1>6, <2>5, <2>9 DEF PowerLoss
<1> QED BY <1>3, <1>5, <1>6

(* Every step keeps the invariant. *)
LEMMA InvStep ==
  ASSUME IInv, [Next]_vars PROVE IInv'
<1>1. CASE UNCHANGED vars
  <2>1. /\ UNCHANGED <<agentVars, memoryVars, diskVars>> /\ requests' = requests
    BY <1>1 DEF vars
  <2>2. /\ head' = head /\ call' = call /\ witnessed' = witnessed /\ torn' = torn
        /\ up' = up /\ busy' = busy /\ index' = index
        /\ archives' = archives /\ pruned' = pruned /\ issued' = issued
        /\ \A a \in Agents : Open(a)' = Open(a)
    BY <2>1 DEF agentVars, memoryVars, diskVars, Open
  <2>3. Stored' = Stored /\ Archived' = Archived /\ Issued' = Issued /\ DiskInv' /\ ServerInv'
    BY <2>1, <2>2, DiskKept, ServerKept DEF IInv
  <2>4. AgentInv'
    BY <2>1, <2>2, <2>3 DEF IInv, AgentInv, ReceiptAttestsRecord
  <2>5. TypeOK'
    BY <2>1, <2>2, <2>3 DEF IInv, TypeOK
  <2> QED BY <2>3, <2>4, <2>5 DEF IInv
<1> QED
  BY <1>1, SubmitKeeps, AttemptKeeps, AcceptKeeps, RotateKeeps, SaveKeeps,
     IndexAndReplyKeeps, ServerKeeps DEF Next

-----------------------------------------------------------------------------
(* What follows from it.                                                   *)

(* The invariant holds in every state. *)
LEMMA InvHolds == Spec => []IInv
BY InvInit, InvStep, PTL DEF Spec

(* What a running server has answered since the last rotation it serves.   *)
LEMMA ServedByIndex ==
  ASSUME IInv PROVE ReceiptsServed
<1> SUFFICES ASSUME NEW w \in witnessed, up, [receipt |-> w.receipt, era |-> era] \in issued
             PROVE  w.receipt \in index
  BY DEF ReceiptsServed
<1>1. w.receipt \in Stored
  <2> DEFINE e == [receipt |-> w.receipt, era |-> era]
  <2>1. e \in issued /\ e.era = era /\ e.receipt = w.receipt
    OBVIOUS
  <2> QED BY <2>1 DEF IInv, DiskInv
<1>2. CASE busy = None
  BY <1>1, <1>2 DEF IInv, ServerInv
<1>3. CASE busy # None
  BY <1>1, <1>3 DEF IInv, ServerInv, TypeOK
<1> QED BY <1>2, <1>3

(* Whatever is retried, answered late, lost or killed between saving,      *)
(* indexing and answering, a checkpoint has one receipt until the file is  *)
(* set aside or damaged (server.py:275-300).                               *)
THEOREM OneReceipt == Spec => []OneReceiptPerCheckpoint
<1>1. IInv => OneReceiptPerCheckpoint
  BY DEF IInv, DiskInv
<1> QED BY <1>1, InvHolds, PTL

(* The receipts agents hold are for the records they name, on the disk of  *)
(* the witness unless pruned or damaged, and served (witness_client.py:53).*)
THEOREM ReceiptsGenuine == Spec => []ReceiptsInv
<1>1. IInv => ReceiptsInv
  <2>1. IInv => ReceiptsKept
    BY DEF IInv, DiskInv, AgentInv, ReceiptsKept
  <2> QED BY <2>1, ServedByIndex DEF IInv, AgentInv, ReceiptsInv
<1> QED BY <1>1, InvHolds, PTL

-----------------------------------------------------------------------------
(* The receipts file implements the registry.                              *)

(* No file, or one of distinct receipts, is a registry. *)
LEMMA RegistryInit ==
  ASSUME IInv, Init PROVE Registry!Init
<1>1. damage = 0
  BY DEF Init
<1>2. file # Unreadable => \A i, j \in DOMAIN file : Same(file[i], file[j]) => i = j
  BY DEF IInv, DiskInv
<1>3. \A r, s \in Stored : Same(r, s) => r = s
  BY <1>2 DEF Stored, ToSet
<1> QED BY <1>1, <1>3 DEF Registry!Init, Registry!Checkpoint, Same

(* Saving issues, setting aside empties a full registry, a power loss      *)
(* damages it, and nothing else touches it.                                *)
LEMMA RegistryStep ==
  ASSUME IInv, [Next]_vars PROVE [Registry!Next]_<<Stored, damage>>
<1>0. TypeOK /\ DiskInv /\ AgentInv /\ ServerInv
  BY DEF IInv
<1>1. ASSUME UNCHANGED diskVars PROVE UNCHANGED <<Stored, damage>>
  BY <1>1, DiskKept DEF diskVars
<1>2. ASSUME SetAside, busy # None, busy.step = "rotate" PROVE Registry!SetAside
  <2>1. /\ file \in Seq(Receipt) /\ file # Unreadable /\ Len(file) = MaxReceipts
        /\ \A i, j \in DOMAIN file : file[i] = file[j] => i = j
    BY <1>0, <1>2 DEF ServerInv, DiskInv, Same
  <2>2. Cardinality(Stored) = MaxReceipts
    BY <2>1, DistinctFile DEF Stored
  <2>3. Stored' = {} /\ damage' = damage
    BY <1>0, <1>2, <2>1, SetAsideEffect
  <2> QED BY <2>2, <2>3 DEF Registry!SetAside, Registry!Cardinality, Cardinality
<1>3. CASE Rotate
  BY <1>1, <1>2, <1>3 DEF Rotate, Registry!Next
<1>4. CASE Save
  <2>1. CASE UNCHANGED diskVars
    BY <1>1, <2>1
  <2>2. CASE ~UNCHANGED diskVars
    <3>1. /\ busy # None /\ busy.step = "save" /\ Cardinality(issued) < MaxIssued
          /\ issued' = issued \union {[receipt |-> NewReceipt, era |-> era]}
          /\ file' = Append(file, NewReceipt) /\ damage' = damage
      BY <1>4, <2>2 DEF Save
    <3>2. /\ NewReceipt \notin Issued /\ Same(NewReceipt, busy.request)
          /\ Stored' = Stored \union {NewReceipt}
      BY <1>0, <3>1, SaveEffect
    <3>3. \A r \in Stored : ~Same(r, busy.request)
      BY <1>0, <3>1 DEF ServerInv
    <3>4. Stored \subseteq Issued
      BY <1>0 DEF TypeOK, Issued
    <3>5. \A r \in Stored : Registry!Checkpoint(r) # Registry!Checkpoint(NewReceipt)
      BY <3>2, <3>3 DEF Registry!Checkpoint, Same
    <3>6. Registry!Issue
      <4>1. NewReceipt \in Stored' \ Stored
        BY <3>2, <3>4
      <4> QED BY <3>1, <3>2, <3>5, <4>1 DEF Registry!Issue
    <3> QED BY <3>6 DEF Registry!Next
  <2> QED BY <2>1, <2>2
<1>5. CASE PowerLoss
  <2>1. /\ file \in Seq(Receipt) /\ file' \in {Unreadable, Front(file)} /\ file # <<>>
        /\ file # Unreadable /\ damage' = damage + 1
    BY <1>0, <1>5 DEF PowerLoss, DiskInv
  <2>2. Stored' \subseteq Stored
    BY <2>1, FileContents DEF Stored
  <2> QED BY <2>1, <2>2 DEF Registry!Damage, Registry!Next
<1>6. CASE UNCHANGED vars
  BY <1>1, <1>6 DEF vars
<1>7. ASSUME NEW a \in Agents, Submit(a) \/ AttemptFails(a) PROVE UNCHANGED diskVars
  BY <1>7 DEF Submit, AttemptFails
<1>8. Accept \/ IndexAndReply \/ StartServer \/ Kill => UNCHANGED diskVars
  BY DEF Accept, IndexAndReply, StartServer, Kill
<1> QED BY <1>1, <1>3, <1>4, <1>5, <1>6, <1>7, <1>8 DEF Next

(* The receipts file keeps the promise of a registry: what is in it stays, *)
(* one to a checkpoint, until it is full and set aside or the disk is      *)
(* damaged (server.py:160-300).                                            *)
THEOREM FileIsRegistry == Spec => ImplementsRegistry
<1>1. IInv /\ Init => Registry!Init
  BY RegistryInit
<1>2. IInv /\ [Next]_vars => [Registry!Next]_<<Stored, damage>>
  BY RegistryStep
<1> QED BY <1>1, <1>2, InvHolds, PTL DEF Spec, ImplementsRegistry, Registry!Spec

-----------------------------------------------------------------------------
(* Segments: the inductive invariant.                                      *)

Upsets == {"rename", "reopen", "boot", "killed", "killed empty"}

(* The types of the variables. *)
ChainTypes ==
  /\ pc \in {"down", "up", "rotate", "closed", "renamed", "boot"}
  /\ active \in Files \union {Absent}
  /\ DOMAIN segments \subseteq 0 .. now /\ \A p \in DOMAIN segments : segments[p] \in Files
  /\ now \in 0 .. MaxTime /\ trouble \in 0 .. MaxTrouble /\ nextId \in 1 .. MaxRecords + 1
  /\ writer \in [seq: Nat, prev: Nat, bytes: Nat] /\ pendingGap \in BOOLEAN /\ inFlight \in Nat
  /\ acked \in SUBSET Nat /\ firsts \in SUBSET Nat /\ overwritten \in SUBSET Nat
  /\ generation \in Nat /\ upsets \in SUBSET Upsets
TailTypes ==
  /\ tail \in [state: {"never", "off", "poll", "read", "died"}, offset: Nat, generation: Nat,
               stale: BOOLEAN]
  /\ printed \in Seq(Nat)
ExporterTypes ==
  /\ exporter \in [left: Nat, offset: Nat, todo: Seq(Records), sent: Nat, generation: Nat,
                   upset: BOOLEAN]
  /\ received \in Seq(Nat)

(* What is at the path, whenever there is a file: the records written last, *)
(* with ids that follow on each other and, if they can be read, numbers     *)
(* that never go back.                                                      *)
ActiveInv ==
  active # Absent =>
    LET records == active.records
    IN  /\ Len(records) < nextId
        /\ \A i \in 1 .. Len(records) : records[i].id + Len(records) + 1 = nextId + i
        /\ records # <<>> => records[1].id \in firsts
        /\ active.header => \A i, j \in 1 .. Len(records) : i <= j => records[i].seq <= records[j].seq
        /\ active.header /\ pc # "down" => \A i \in 1 .. Len(records) : records[i].seq <= writer.seq

(* Where the recorder is in a rotation. *)
StepInv ==
  /\ pc \in {"rotate", "closed"} => active # Absent /\ active.records # <<>>
  /\ pc = "boot" => active # Absent
  /\ pc \in {"rotate", "closed", "renamed"} => inFlight # 0

(* As long as a new writer could be opened, every file has its header, and *)
(* what was or will be returned is in one.                                 *)
Reading == "reopen" \notin upsets
Filed(id) == \E p \in Places : \E i \in 1 .. Len(FileAt(p)) : FileAt(p)[i].id = id
ReadableInv ==
  Reading =>
    /\ active # Absent => active.header
    /\ active = Absent => pc \in {"renamed", "down"}
    /\ \A p \in DOMAIN segments : segments[p].header
    /\ \A id \in acked \union ({inFlight} \ {0}) : id \in overwritten \/ Filed(id)

(* As long as nothing broke the chain: the head is the last record in the  *)
(* last file that has one, and without one in the file at the path nobody  *)
(* starts but with nothing at all.                                         *)
Sound == upsets \intersect {"killed empty", "reopen"} = {} /\ overwritten = {}
Within == \A p \in Places : \A i \in 2 .. Len(FileAt(p)) : Follows(FileAt(p)[i], FileAt(p)[i - 1])
Neighbours(p, q) ==
  p < q /\ FileAt(p) # <<>> /\ FileAt(q) # <<>> /\ \A between \in p + 1 .. q - 1 : FileAt(between) = <<>>
Across == \A p, q \in Places : Neighbours(p, q) => Follows(FileAt(q)[1], Last(FileAt(p)))
LastPlace(p) == FileAt(p) # <<>> /\ \A q \in Places : q > p => FileAt(q) = <<>>
LinkedInv ==
  Sound =>
    /\ Within /\ Across
    /\ \A p \in DOMAIN segments : segments[p].records # <<>>
    /\ pc # "down" => \A p \in Places : LastPlace(p) =>
         writer.seq = Last(FileAt(p)).seq /\ writer.prev = Last(FileAt(p)).id
    /\ (pc = "down" \/ (pc = "boot" /\ inFlight = 0)) /\ ReadAll(active) = <<>> => DOMAIN segments = {}

(* tail has shown the first k records of the file, or it has shown none    *)
(* of it; in the file it is about, it showed the last of the first k last. *)
Shown(k) ==
  /\ k \in 0 .. Len(active.records) /\ tail.offset = Bytes([active EXCEPT !.records = SubSeq(@, 1, k)])
  /\ \A i \in k + 1 .. Len(active.records), j \in 1 .. Len(printed) : printed[j] < active.records[i].id
Following(k) == k > 0 => printed # <<>> /\ Last(printed) = active.records[k].id
TailInv ==
  /\ tail.generation <= generation
  /\ tail.state \in {"never", "off"} => printed = <<>>
  /\ \A j \in 1 .. Len(printed) : printed[j] < nextId
  /\ active # Absent =>
       \/ \E k \in 0 .. Len(active.records) : Shown(k)
       \/ \A i \in 1 .. Len(active.records), j \in 1 .. Len(printed) : printed[j] < active.records[i].id
  /\ tail.state \notin {"never", "off"} /\ tail.generation = generation =>
       /\ active # Absent
       /\ active.header => \E k \in 0 .. Len(active.records) : Shown(k) /\ Following(k)
  /\ tail.offset <= HeaderSize + 2 * MaxRecords
  /\ TailFollows

(* What a call of the exporter has yet to send is what follows on what the *)
(* collector has.                                                          *)
ExportInv ==
  LET count == exporter.offset + exporter.sent
  IN  /\ exporter.generation <= generation
      /\ count + Len(exporter.todo) <= nextId
      /\ exporter.todo = <<>> => exporter.sent = 0
      /\ ~exporter.upset => Len(received) = count
      /\ ~exporter.upset /\ exporter.generation = generation =>
           /\ count + Len(exporter.todo) <= Len(ReadAll(active))
           /\ \A i \in 1 .. count : received[i] = ReadAll(active)[i].id
           /\ \A i \in 1 .. Len(exporter.todo) : exporter.todo[i] = ReadAll(active)[count + i]

ChainInv == ChainTypes /\ ActiveInv /\ StepInv /\ ReadableInv /\ LinkedInv

-----------------------------------------------------------------------------
(* Segments: files and their sizes.                                        *)

LEMMA AbsentIsNoFile == Absent \notin Files
BY SegmentsAssumption

LEMMA SegmentsBounds ==
  /\ MaxRecords \in Nat /\ MaxTime \in Nat /\ MaxTrouble \in Nat /\ MaxExports \in Nat
  /\ BatchSize \in Nat \ {0} /\ MaxBytes \in Nat \ {0}
BY SegmentsAssumption

(* A file is at most twice as long as it has records, with its header. *)
LEMMA BytesBounds ==
  ASSUME NEW f \in Files
  PROVE  /\ Bytes(f) \in Nat /\ Bytes(f) <= HeaderSize + 2 * Len(f.records)
         /\ f.header => Bytes(f) >= HeaderSize
         /\ IsFiniteSet(Boots(f.records)) /\ Cardinality(Boots(f.records)) \in Nat
<1>1. f # Absent /\ f.records \in Seq(Records)
  BY AbsentIsNoFile DEF Files
<1> DEFINE n == Len(f.records)
<1>2. n \in Nat /\ DOMAIN f.records = 1 .. n
  BY <1>1
<1>3. Boots(f.records) \subseteq 1 .. n
  BY <1>2 DEF Boots
<1>4. IsFiniteSet(1 .. n) /\ Cardinality(1 .. n) = n
  BY <1>2, FS_Interval
<1> HIDE DEF n
<1>5. IsFiniteSet(Boots(f.records)) /\ Cardinality(Boots(f.records)) <= n /\ Cardinality(Boots(f.records)) \in Nat
  BY <1>3, <1>4, FS_Subset, FS_CardinalityType
<1>6. Bytes(f) = (IF f.header THEN HeaderSize ELSE 0) + n + Cardinality(Boots(f.records))
  BY <1>1 DEF Bytes, n
<1> QED
  <2> DEFINE b == Cardinality(Boots(f.records))
  <2> HIDE DEF b
  <2>1. b \in Nat /\ b <= n /\ Bytes(f) = (IF f.header THEN HeaderSize ELSE 0) + n + b
    BY <1>5, <1>6 DEF b
  <2>2. Bytes(f) \in Nat /\ Bytes(f) <= HeaderSize + 2 * n
    BY <1>2, <2>1 DEF HeaderSize
  <2>3. f.header => Bytes(f) >= HeaderSize
    BY <1>2, <2>1 DEF HeaderSize
  <2> QED BY <1>5, <2>2, <2>3 DEF n

(* A file cut after k records. *)
Cut(f, k) == [f EXCEPT !.records = SubSeq(@, 1, k)]

LEMMA CutIsFile ==
  ASSUME NEW f \in Files, NEW k \in 0 .. Len(f.records)
  PROVE  /\ Cut(f, k) \in Files /\ Cut(f, k).header = f.header
         /\ Cut(f, k).records = SubSeq(f.records, 1, k) /\ Len(Cut(f, k).records) = k
         /\ Boots(Cut(f, k).records) = {i \in Boots(f.records) : i <= k}
<1>1. f.records \in Seq(Records) /\ f.header \in BOOLEAN
  BY DEF Files
<1> DEFINE s == SubSeq(f.records, 1, k)
<1>2. /\ s \in Seq(Records) /\ Len(s) = k
      /\ \A i \in 1 .. k : s[i] = f.records[i]
  BY <1>1
<1>3. Cut(f, k) = [f EXCEPT !.records = s]
  BY DEF Cut
<1> HIDE DEF s
<1>4. Cut(f, k) \in Files /\ Cut(f, k).records = s
  BY <1>2, <1>3 DEF Files
<1>5. Cut(f, k).header = f.header
  BY <1>3 DEF Files
<1>6. Boots(s) = {i \in Boots(f.records) : i <= k}
  <2>1. DOMAIN s = 1 .. k /\ DOMAIN f.records = 1 .. Len(f.records) /\ Len(f.records) \in Nat
    BY <1>1, <1>2
  <2> QED BY <1>2, <2>1 DEF Boots
<1> QED BY <1>2, <1>4, <1>5, <1>6 DEF s

(* Of two places to cut the later one leaves more. *)
LEMMA CutsGrow ==
  ASSUME NEW f \in Files, NEW k \in 0 .. Len(f.records), NEW m \in 0 .. Len(f.records), m < k
  PROVE  Bytes(Cut(f, m)) < Bytes(Cut(f, k))
<1>1. /\ Cut(f, m) \in Files /\ Len(Cut(f, m).records) = m /\ Cut(f, m).header = f.header
      /\ Cut(f, k) \in Files /\ Len(Cut(f, k).records) = k /\ Cut(f, k).header = f.header
  BY CutIsFile
<1> DEFINE a == Cardinality(Boots(Cut(f, m).records))
           b == Cardinality(Boots(Cut(f, k).records))
<1>2. Len(f.records) \in Nat
  BY DEF Files
<1>3. Boots(Cut(f, m).records) \subseteq Boots(Cut(f, k).records)
  <2>1. /\ Boots(Cut(f, m).records) = {i \in Boots(f.records) : i <= m}
        /\ Boots(Cut(f, k).records) = {i \in Boots(f.records) : i <= k}
    BY CutIsFile
  <2>2. Boots(f.records) \subseteq Nat
    BY DEF Boots, Files
  <2> QED BY <1>2, <2>1, <2>2
<1>4. a \in Nat /\ b \in Nat /\ a <= b
  BY <1>1, <1>3, BytesBounds, FS_Subset
<1>5. /\ Bytes(Cut(f, m)) = (IF f.header THEN HeaderSize ELSE 0) + m + a
      /\ Bytes(Cut(f, k)) = (IF f.header THEN HeaderSize ELSE 0) + k + b
  BY <1>1, AbsentIsNoFile DEF Bytes
<1> HIDE DEF a, b
<1> QED BY <1>2, <1>4, <1>5 DEF HeaderSize

(* Not cut at all it is what it is; cut at nothing it is its header. *)
LEMMA CutEnds ==
  ASSUME NEW f \in Files
  PROVE  /\ Cut(f, Len(f.records)) = f
         /\ f.header => Bytes(Cut(f, 0)) = HeaderSize
<1>1. f.records \in Seq(Records) /\ Len(f.records) \in Nat
  BY DEF Files
<1>2. SubSeq(f.records, 1, Len(f.records)) = f.records
  BY <1>1
<1>3. Cut(f, Len(f.records)) = f
  BY <1>2 DEF Cut, Files
<1>4. ASSUME f.header PROVE Bytes(Cut(f, 0)) = HeaderSize
  <2>1. Cut(f, 0) \in Files /\ Len(Cut(f, 0).records) = 0 /\ Cut(f, 0).header = f.header
    BY <1>1, CutIsFile
  <2>2. Boots(Cut(f, 0).records) = {}
    <3>1. Cut(f, 0).records = <<>>
      BY <2>1 DEF Files
    <3> QED BY <3>1 DEF Boots
  <2>3. Cardinality(Boots(Cut(f, 0).records)) = 0
    BY <2>2, FS_EmptySet
  <2>4. Bytes(Cut(f, 0)) = HeaderSize + 0 + 0
    BY <1>4, <2>1, <2>3, AbsentIsNoFile DEF Bytes
  <2> QED BY <2>4 DEF HeaderSize
<1> QED BY <1>3, <1>4

(* Appending changes nothing of what was there. *)
LEMMA CutAppended ==
  ASSUME NEW f \in Files, NEW records \in Seq(Records), NEW k \in 0 .. Len(f.records)
  PROVE  Cut([f EXCEPT !.records = @ \o records], k) = Cut(f, k)
<1>1. f.records \in Seq(Records) /\ Len(f.records) \in Nat
  BY DEF Files
<1>2. SubSeq(f.records \o records, 1, k) = SubSeq(f.records, 1, k)
  BY <1>1
<1> QED BY <1>2 DEF Cut, Files

-----------------------------------------------------------------------------
(* Segments: what is written.                                              *)

(* Records that go on from the head. *)
Chained(records) ==
  /\ records \in Seq(Records) /\ records # <<>>
  /\ \A i \in 1 .. Len(records) : records[i].id + 1 = nextId + i
  /\ Follows(records[1], [id |-> writer.prev, seq |-> writer.seq])
  /\ \A i \in 2 .. Len(records) : Follows(records[i], records[i - 1])
  /\ \A i, j \in 1 .. Len(records) : i <= j => records[i].seq <= records[j].seq
  /\ \A i \in 1 .. Len(records) : writer.seq <= records[i].seq

LEMMA ChainedRecords ==
  ASSUME ChainTypes
  PROVE  Chained(GapAndAction) /\ Chained(<<Rec("BOOT", nextId, writer.seq + 1, writer.prev)>>)
<1>1. nextId \in Nat /\ writer.seq \in Nat /\ writer.prev \in Nat
  BY SegmentsBounds DEF ChainTypes
<1>2. ASSUME NEW type \in {"BOOT", "ACTION"}
      PROVE  Chained(<<Rec(type, nextId, writer.seq + 1, writer.prev)>>)
  <2> DEFINE rec == Rec(type, nextId, writer.seq + 1, writer.prev)
  <2>1. /\ rec \in Records /\ rec.id = nextId /\ rec.seq = writer.seq + 1 /\ rec.prev = writer.prev
        /\ rec.type # "GAP"
    BY <1>1 DEF Records, Rec
  <2> HIDE DEF rec
  <2>2. /\ <<rec>> \in Seq(Records) /\ <<rec>> # <<>> /\ Len(<<rec>>) = 1
        /\ \A i \in 1 .. 1 : <<rec>>[i] = rec
    BY <2>1
  <2> QED BY <1>1, <2>1, <2>2 DEF Chained, Follows, rec
<1>3. Chained(<<Rec("GAP", nextId, writer.seq + 2, writer.prev), Rec("ACTION", nextId + 1, writer.seq + 3, nextId)>>)
  <2> DEFINE gap == Rec("GAP", nextId, writer.seq + 2, writer.prev)
             rec == Rec("ACTION", nextId + 1, writer.seq + 3, nextId)
             both == <<gap, rec>>
  <2>1. /\ gap \in Records /\ gap.id = nextId /\ gap.seq = writer.seq + 2 /\ gap.prev = writer.prev
        /\ gap.type = "GAP"
    BY <1>1 DEF Records, Rec
  <2>2. /\ rec \in Records /\ rec.id = nextId + 1 /\ rec.seq = writer.seq + 3 /\ rec.prev = nextId
        /\ rec.type = "ACTION"
    BY <1>1 DEF Records, Rec
  <2> HIDE DEF gap, rec
  <2>3. both \in Seq(Records) /\ both # <<>> /\ Len(both) = 2 /\ both[1] = gap /\ both[2] = rec
    BY <2>1, <2>2
  <2> HIDE DEF both
  <2>4. \A i \in 1 .. Len(both) : i = 1 \/ i = 2
    BY <2>3
  <2>5. Follows(both[1], [id |-> writer.prev, seq |-> writer.seq]) /\ Follows(both[2], both[1])
    BY <1>1, <2>1, <2>2, <2>3 DEF Follows
  <2>6. \A i \in 2 .. Len(both) : i = 2 /\ i - 1 = 1
    BY <2>3
  <2>7. Chained(both)
    <3>1. \A i \in 1 .. Len(both) : both[i].id + 1 = nextId + i /\ writer.seq <= both[i].seq
      BY <1>1, <2>1, <2>2, <2>3, <2>4
    <3>2. \A i, j \in 1 .. Len(both) : i <= j => both[i].seq <= both[j].seq
      BY <1>1, <2>1, <2>2, <2>3, <2>4
    <3>3. \A i \in 2 .. Len(both) : Follows(both[i], both[i - 1])
      BY <2>5, <2>6
    <3> QED BY <2>3, <2>5, <3>1, <3>2, <3>3 DEF Chained
  <2> QED BY <2>7 DEF both, gap, rec
<1> QED BY <1>2, <1>3 DEF GapAndAction

(* The records at the path. *)
Old == IF active = Absent THEN <<>> ELSE active.records

LEMMA OldTyped ==
  ASSUME ChainTypes
  PROVE  /\ Old \in Seq(Records) /\ Len(Old) \in Nat
         /\ active # Absent => active \in Files /\ active.records = Old /\ active.header \in BOOLEAN
         /\ ReadAll(active) = (IF active # Absent /\ active.header THEN Old ELSE <<>>)
         /\ ReadAll(active) \in Seq(Records)
BY DEF Old, ChainTypes, Files, ReadAll

(* The file grows by the records, and the head is the last of them.        *)
LEMMA Appended ==
  ASSUME ChainTypes, ActiveInv, NEW records, Chained(records), AppendAll(records)
  PROVE  LET n == Len(Old)
             m == Len(records)
         IN  /\ m \in Nat \ {0} /\ nextId' = nextId + m /\ nextId' \in 1 .. MaxRecords + 1
             /\ active' \in Files /\ active' # Absent /\ active'.records = Old \o records
             /\ Len(active'.records) = n + m
             /\ \A i \in 1 .. n : active'.records[i] = Old[i]
             /\ \A i \in n + 1 .. n + m : active'.records[i] = records[i - n]
             /\ active'.header <=> (active # Absent /\ active.header)
             /\ active # Absent => active' = [active EXCEPT !.records = @ \o records]
             /\ writer' \in [seq: Nat, prev: Nat, bytes: Nat]
             /\ writer'.seq = records[m].seq /\ writer'.prev = records[m].id
             /\ writer'.prev + 1 = nextId' /\ writer'.prev # 0
             /\ firsts' = IF Old = <<>> THEN firsts \union {nextId} ELSE firsts
             /\ UNCHANGED <<segments, generation, overwritten>>
<1> DEFINE n == Len(Old)
           m == Len(records)
<1>1. /\ Old \in Seq(Records) /\ n \in Nat /\ (active # Absent => active \in Files /\ active.records = Old)
      /\ nextId \in 1 .. MaxRecords + 1 /\ MaxRecords \in Nat
  BY OldTyped, SegmentsBounds DEF ChainTypes
<1>2. records \in Seq(Records) /\ m \in Nat \ {0}
  BY DEF Chained
<1>3. /\ nextId + m <= MaxRecords + 1 /\ nextId' = nextId + m
      /\ active' = IF active = Absent THEN [header |-> FALSE, records |-> records]
                   ELSE [active EXCEPT !.records = @ \o records]
      /\ firsts' = IF active = Absent \/ active.records = <<>> THEN firsts \union {nextId} ELSE firsts
      /\ writer' = [seq |-> Last(records).seq, prev |-> Last(records).id,
                    bytes |-> writer.bytes + Bytes([header |-> FALSE, records |-> records])]
      /\ UNCHANGED <<segments, generation, overwritten>>
  BY DEF AppendAll
<1>4. active' \in Files /\ active'.records = Old \o records
  <2>1. CASE active = Absent
    BY <1>2, <1>3, <2>1 DEF Files, Old
  <2>2. CASE active # Absent
    <3> DEFINE r == Old \o records
    <3>1. r \in Seq(Records)
      BY <1>1, <1>2
    <3>2. active' = [active EXCEPT !.records = r] /\ active \in Files
      BY <1>1, <1>3, <2>2
    <3> HIDE DEF r
    <3>3. active' \in Files /\ active'.records = r
      BY <3>1, <3>2 DEF Files
    <3> QED BY <3>3 DEF r
  <2> QED BY <2>1, <2>2
<1>5. active'.header <=> (active # Absent /\ active.header)
  <2>1. CASE active = Absent
    BY <1>3, <2>1
  <2>2. CASE active # Absent
    BY <1>1, <1>3, <2>2 DEF Files
  <2> QED BY <2>1, <2>2
<1>6. /\ Len(Old \o records) = n + m
      /\ \A i \in 1 .. n : (Old \o records)[i] = Old[i]
      /\ \A i \in n + 1 .. n + m : (Old \o records)[i] = records[i - n]
  BY <1>1, <1>2
<1>7. records[m] \in Records /\ records[m].id + 1 = nextId + m /\ Last(records) = records[m]
  BY <1>2 DEF Chained, Last
<1>8. Bytes([header |-> FALSE, records |-> records]) \in Nat
  <2>1. [header |-> FALSE, records |-> records] \in Files
    BY <1>2 DEF Files
  <2> QED BY <2>1, BytesBounds
<1>9. /\ writer' \in [seq: Nat, prev: Nat, bytes: Nat]
      /\ writer'.seq = records[m].seq /\ writer'.prev = records[m].id
  <2>1. writer.bytes \in Nat /\ records[m].seq \in Nat /\ records[m].id \in Nat
    BY <1>7 DEF ChainTypes, Records
  <2> DEFINE b == writer.bytes + Bytes([header |-> FALSE, records |-> records])
  <2>2. b \in Nat /\ writer' = [seq |-> records[m].seq, prev |-> records[m].id, bytes |-> b]
    BY <1>3, <1>7, <1>8, <2>1
  <2> HIDE DEF b
  <2> QED BY <2>1, <2>2
<1>10. nextId' \in 1 .. MaxRecords + 1 /\ writer'.prev + 1 = nextId' /\ writer'.prev # 0
  <2>1. records[m].id \in Nat
    BY <1>7 DEF Records
  <2> QED BY <1>1, <1>2, <1>3, <1>7, <1>9, <2>1
<1>11. firsts' = IF Old = <<>> THEN firsts \union {nextId} ELSE firsts
  BY <1>3 DEF Old
<1>12. active' # Absent
  BY <1>4, AbsentIsNoFile
<1> HIDE DEF n, m
<1>13. /\ Len(active'.records) = n + m
       /\ \A i \in 1 .. n : active'.records[i] = Old[i]
       /\ \A i \in n + 1 .. n + m : active'.records[i] = records[i - n]
  BY <1>4, <1>6
<1>14. active # Absent => active' = [active EXCEPT !.records = @ \o records]
  BY <1>3
<1> QED BY <1>2, <1>3, <1>4, <1>5, <1>9, <1>10, <1>11, <1>12, <1>13, <1>14, Zenon DEF n, m

-----------------------------------------------------------------------------
(* Segments: what is read.                                                 *)

LEMMA IdsTyped ==
  ASSUME NEW records \in Seq(Records)
  PROVE  /\ Ids(records) \in Seq(Nat) /\ Len(Ids(records)) = Len(records)
         /\ \A i \in 1 .. Len(records) : Ids(records)[i] = records[i].id
<1>1. DOMAIN records = 1 .. Len(records) /\ Len(records) \in Nat
  OBVIOUS
<1>2. \A i \in 1 .. Len(records) : records[i].id \in Nat
  <2>1. \A i \in 1 .. Len(records) : records[i] \in Records
    BY ElementOfSeq
  <2> QED BY <2>1 DEF Records
<1>3. Ids(records) = [i \in 1 .. Len(records) |-> records[i].id]
  BY <1>1 DEF Ids
<1>4. Ids(records) \in [1 .. Len(records) -> Nat]
  BY <1>2, <1>3
<1>5. Ids(records) \in Seq(Nat)
  BY <1>1, <1>4
<1> QED BY <1>1, <1>3, <1>5

LEMMA JoinedIds ==
  ASSUME NEW s \in Seq(Nat), NEW ids \in Seq(Nat)
  PROVE  /\ s \o ids \in Seq(Nat) /\ Len(s \o ids) = Len(s) + Len(ids)
         /\ \A j \in 1 .. Len(s) : (s \o ids)[j] = s[j]
         /\ \A j \in Len(s) + 1 .. Len(s) + Len(ids) : (s \o ids)[j] = ids[j - Len(s)]
OBVIOUS

LEMMA StartOf ==
  ASSUME NEW s \in Seq(Nat), NEW k \in 0 .. Len(s)
  PROVE  /\ SubSeq(s, 1, k) \in Seq(Nat) /\ Len(SubSeq(s, 1, k)) = k
         /\ \A i \in 1 .. k : SubSeq(s, 1, k)[i] = s[i]
OBVIOUS

LEMMA RestOf ==
  ASSUME NEW s \in Seq(Records), NEW k \in 0 .. Len(s)
  PROVE  /\ SubSeq(s, k + 1, Len(s)) \in Seq(Records) /\ Len(SubSeq(s, k + 1, Len(s))) = Len(s) - k
         /\ \A i \in 1 .. Len(s) - k : SubSeq(s, k + 1, Len(s))[i] = s[k + i]
OBVIOUS

(* tail reads what follows on a place to cut, if it reads anything. *)
LEMMA FramesRead ==
  ASSUME ChainTypes, active # Absent, NEW offset
  PROVE  /\ ReadFramesFrom(offset) \in Seq(Records)
         /\ ReadFramesFrom(offset) # <<>> =>
              /\ active.header
              /\ \E k \in 0 .. Len(Old) :
                   /\ Bytes(Cut(active, k)) = offset
                   /\ Len(ReadFramesFrom(offset)) = Len(Old) - k /\ k < Len(Old)
                   /\ \A i \in 1 .. Len(Old) - k : ReadFramesFrom(offset)[i] = Old[k + i]
         /\ ReadFramesFrom(offset) = <<>> => \A k \in 0 .. Len(Old) - 1 :
              ~(active.header /\ Bytes(Cut(active, k)) = offset)
<1> DEFINE after == {k \in 0 .. Len(active.records) : Bytes(Cut(active, k)) = offset}
           least == CHOOSE k \in after : TRUE
<1>1. active \in Files /\ active.records = Old /\ Old \in Seq(Records) /\ Len(Old) \in Nat
  BY OldTyped
<1>2. ReadFramesFrom(offset) =
        IF active.header /\ after # {} THEN SubSeq(Old, least + 1, Len(Old)) ELSE <<>>
  BY <1>1 DEF ReadFramesFrom, Cut
<1>3. ASSUME after # {} PROVE least \in 0 .. Len(Old) /\ Bytes(Cut(active, least)) = offset
  <2>1. least \in after
    BY <1>3
  <2> QED BY <1>1, <2>1
<1>4. CASE ~(active.header /\ after # {})
  <2>1. ReadFramesFrom(offset) = <<>>
    BY <1>2, <1>4
  <2>2. \A k \in 0 .. Len(Old) - 1 : ~(active.header /\ Bytes(Cut(active, k)) = offset)
    BY <1>1, <1>4
  <2> QED BY <2>1, <2>2
<1>5. CASE active.header /\ after # {}
  <2> HIDE DEF after
  <2>1. PICK k : k = least
    OBVIOUS
  <2> HIDE DEF least
  <2>2. k \in 0 .. Len(Old) /\ Bytes(Cut(active, k)) = offset
    BY <1>3, <1>5, <2>1
  <2>3. ReadFramesFrom(offset) = SubSeq(Old, k + 1, Len(Old))
    BY <1>2, <1>5, <2>1
  <2>4. /\ SubSeq(Old, k + 1, Len(Old)) \in Seq(Records)
        /\ Len(SubSeq(Old, k + 1, Len(Old))) = Len(Old) - k
        /\ \A i \in 1 .. Len(Old) - k : SubSeq(Old, k + 1, Len(Old))[i] = Old[k + i]
    BY <1>1, <2>2
  <2>5. ReadFramesFrom(offset) \in Seq(Records) /\ Len(ReadFramesFrom(offset)) = Len(Old) - k
        /\ \A i \in 1 .. Len(Old) - k : ReadFramesFrom(offset)[i] = Old[k + i]
    BY <2>3, <2>4
  <2>6. CASE k < Len(Old)
    <3>1. ReadFramesFrom(offset) # <<>>
      BY <1>1, <2>2, <2>5, <2>6
    <3> QED BY <1>5, <2>2, <2>5, <2>6, <3>1
  <2>7. CASE k = Len(Old)
    <3>1. ReadFramesFrom(offset) = <<>>
      BY <1>1, <2>5, <2>7
    <3>2. ASSUME NEW m \in 0 .. Len(Old) - 1 PROVE Bytes(Cut(active, m)) # offset
      <4>1. Bytes(Cut(active, m)) < Bytes(Cut(active, k))
        BY <1>1, <2>2, <2>7, CutsGrow
      <4>2. Bytes(Cut(active, k)) \in Nat
        BY <1>1, <2>2, CutIsFile, BytesBounds
      <4> QED BY <2>2, <4>1, <4>2
    <3> QED BY <2>5, <3>1, <3>2
  <2> QED BY <1>1, <2>2, <2>6, <2>7
<1> QED BY <1>4, <1>5

(* What is sent next, and what is left. *)
LEMMA Batched ==
  ASSUME NEW todo \in Seq(Records), todo # <<>>
  PROVE  LET n == Len(Batch(todo))
         IN  /\ Batch(todo) \in Seq(Records) /\ AfterBatch(todo) \in Seq(Records)
             /\ n \in 1 .. Len(todo) /\ Len(AfterBatch(todo)) = Len(todo) - n
             /\ \A i \in 1 .. n : Batch(todo)[i] = todo[i]
             /\ \A i \in 1 .. Len(todo) - n : AfterBatch(todo)[i] = todo[n + i]
<1>1. BatchSize \in Nat \ {0} /\ Len(todo) \in Nat \ {0}
  BY SegmentsBounds
<1>2. CASE Len(todo) <= BatchSize
  BY <1>1, <1>2 DEF Batch, AfterBatch
<1>3. CASE ~(Len(todo) <= BatchSize)
  <2>1. Batch(todo) = SubSeq(todo, 1, BatchSize) /\ AfterBatch(todo) = SubSeq(todo, BatchSize + 1, Len(todo))
    BY <1>3 DEF Batch, AfterBatch
  <2>2. /\ SubSeq(todo, 1, BatchSize) \in Seq(Records) /\ Len(SubSeq(todo, 1, BatchSize)) = BatchSize
        /\ \A i \in 1 .. BatchSize : SubSeq(todo, 1, BatchSize)[i] = todo[i]
    BY <1>1, <1>3
  <2>3. /\ SubSeq(todo, BatchSize + 1, Len(todo)) \in Seq(Records)
        /\ Len(SubSeq(todo, BatchSize + 1, Len(todo))) = Len(todo) - BatchSize
        /\ \A i \in 1 .. Len(todo) - BatchSize : SubSeq(todo, BatchSize + 1, Len(todo))[i] = todo[BatchSize + i]
    BY <1>1, <1>3
  <2>4. PICK a : a = Batch(todo)
    OBVIOUS
  <2>5. PICK b : b = AfterBatch(todo)
    OBVIOUS
  <2>6. /\ a \in Seq(Records) /\ Len(a) = BatchSize
        /\ \A i \in 1 .. BatchSize : a[i] = todo[i]
    BY <2>1, <2>2, <2>4
  <2>7. /\ b \in Seq(Records) /\ Len(b) = Len(todo) - BatchSize
        /\ \A i \in 1 .. Len(todo) - BatchSize : b[i] = todo[BatchSize + i]
    BY <2>1, <2>3, <2>5
  <2>8. BatchSize \in 1 .. Len(todo)
    BY <1>1, <1>3
  <2> QED BY <2>4, <2>5, <2>6, <2>7, <2>8
<1> QED BY <1>2, <1>3

-----------------------------------------------------------------------------
(* Segments: what steps do.                                                *)

(* A step is the recorder's, the tail's or the exporter's. *)
LEMMA WhoSteps ==
  ASSUME [SegmentsNext]_segmentsVars
  PROVE  \/ RecorderNext /\ UNCHANGED readerVars
         \/ (TailStart \/ TailStat \/ TailRead)
              /\ UNCHANGED <<writerVars, segmentVars, now, trouble, upsets, exporter, received>>
         \/ (ExportChain \/ SendBatch)
              /\ UNCHANGED <<writerVars, segmentVars, now, trouble, upsets, tail, printed>>
         \/ UNCHANGED segmentsVars
<1>1. ASSUME RecorderNext PROVE UNCHANGED readerVars
  BY <1>1 DEF RecorderNext, RecordAction, CloseForRotation, Rename, Reopen, EmitBootRecord,
              KillRecorder, Start, Tick
<1>2. ASSUME TailStart \/ TailStat \/ TailRead
      PROVE  UNCHANGED <<writerVars, segmentVars, now, trouble, upsets, exporter, received>>
  BY <1>2 DEF TailStart, TailStat, TailRead, TailOnly
<1>3. ASSUME ExportChain \/ SendBatch
      PROVE  UNCHANGED <<writerVars, segmentVars, now, trouble, upsets, tail, printed>>
  BY <1>3 DEF ExportChain, SendBatch, ExporterOnly
<1> QED BY <1>1, <1>2, <1>3 DEF SegmentsNext

(* Troubles are of five kinds, and remembered. *)
LEMMA UpsetsTyped ==
  ASSUME ChainTypes, NEW what \in Upsets, Upset(what)
  PROVE  /\ trouble' \in 0 .. MaxTrouble /\ upsets' \in SUBSET Upsets /\ upsets' = upsets \union {what}
<1>1. trouble \in 0 .. MaxTrouble /\ trouble < MaxTrouble /\ trouble' = trouble + 1
  BY DEF Upset, ChainTypes
<1>2. trouble' \in 0 .. MaxTrouble
  BY <1>1, SegmentsBounds
<1> QED BY <1>2 DEF Upset, ChainTypes

LEMMA NewFileTyped ==
  ASSUME NEW header \in BOOLEAN
  PROVE  /\ NewFile(header) \in Files /\ NewFile(header).records = <<>>
         /\ NewFile(header).header = header /\ NewFile(header) # Absent
<1>1. <<>> \in Seq(Records)
  OBVIOUS
<1>2. NewFile(header) \in Files /\ NewFile(header).records = <<>> /\ NewFile(header).header = header
  BY <1>1 DEF NewFile, Files
<1> QED BY <1>2, AbsentIsNoFile

LEMMA ChainTypesNext ==
  ASSUME ChainTypes, ActiveInv, StepInv, [SegmentsNext]_segmentsVars
  PROVE  ChainTypes'
<1> USE DEF writerVars, segmentVars, readerVars, NoUpset
<1>1. /\ nextId \in Nat /\ writer.seq \in Nat /\ writer.prev \in Nat /\ Old \in Seq(Records)
      /\ NewFile(TRUE) \in Files /\ NewFile(FALSE) \in Files
  <2>1. TRUE \in BOOLEAN /\ FALSE \in BOOLEAN
    OBVIOUS
  <2>2. NewFile(TRUE) \in Files /\ NewFile(FALSE) \in Files
    BY <2>1, NewFileTyped
  <2>3. nextId \in Nat /\ writer.seq \in Nat /\ writer.prev \in Nat
    BY SegmentsBounds DEF ChainTypes
  <2> QED BY <2>2, <2>3, OldTyped
<1>2. ASSUME NEW records, Chained(records), AppendAll(records)
      PROVE  /\ active' \in Files /\ nextId' \in 1 .. MaxRecords + 1
             /\ writer' \in [seq: Nat, prev: Nat, bytes: Nat] /\ firsts' \in SUBSET Nat
             /\ writer'.prev \in Nat
             /\ UNCHANGED <<segments, generation, overwritten>>
  <2>1. /\ active' \in Files /\ nextId' \in 1 .. MaxRecords + 1
        /\ writer' \in [seq: Nat, prev: Nat, bytes: Nat]
        /\ firsts' = IF Old = <<>> THEN firsts \union {nextId} ELSE firsts
        /\ UNCHANGED <<segments, generation, overwritten>>
    BY <1>2, Appended
  <2>2. firsts' \in SUBSET Nat
    BY <1>1, <2>1 DEF ChainTypes
  <2> QED BY <2>1, <2>2
<1>3. CASE RecordAction
  <2>1. Chained(GapAndAction) /\ AppendAll(GapAndAction)
    BY <1>3, ChainedRecords DEF RecordAction
  <2>2. /\ active' \in Files /\ nextId' \in 1 .. MaxRecords + 1
        /\ writer' \in [seq: Nat, prev: Nat, bytes: Nat] /\ firsts' \in SUBSET Nat
        /\ writer'.prev \in Nat
        /\ UNCHANGED <<segments, generation, overwritten>>
    BY <1>2, <2>1
  <2>3. /\ pc' \in {"up", "rotate"} /\ inFlight' \in Nat /\ acked' \in SUBSET Nat
        /\ pendingGap' \in BOOLEAN /\ UNCHANGED <<trouble, upsets, now>>
    BY <1>3, <2>2 DEF RecordAction, ChainTypes
  <2> QED BY <2>2, <2>3 DEF ChainTypes
<1>4. CASE CloseForRotation
  BY <1>4 DEF CloseForRotation, ChainTypes
<1>5. CASE Rename
  <2>1. pc' = "renamed" /\ UNCHANGED <<writer, pendingGap, inFlight, nextId, acked, firsts, now>>
    BY <1>5 DEF Rename
  <2>2. CASE Upset("rename") /\ UNCHANGED segmentVars
    <3>1. trouble' \in 0 .. MaxTrouble /\ upsets' \in SUBSET Upsets
      BY <2>2, UpsetsTyped DEF Upsets
    <3> QED BY <2>1, <2>2, <3>1 DEF ChainTypes
  <2>3. CASE /\ segments' = [t \in DOMAIN segments \union {now} |-> IF t = now THEN active ELSE segments[t]]
             /\ overwritten' = overwritten \union
                  (IF now \in DOMAIN segments THEN ToSet(Ids(segments[now].records)) ELSE {})
             /\ active' = Absent /\ generation' = generation + 1 /\ NoUpset
    <3>1. active \in Files
      BY <1>5 DEF ChainTypes, Rename, StepInv
    <3>2. now \in 0 .. now
      BY SegmentsBounds DEF ChainTypes
    <3>3. DOMAIN segments' \subseteq 0 .. now /\ \A p \in DOMAIN segments' : segments'[p] \in Files
      BY <2>3, <3>1, <3>2 DEF ChainTypes
    <3>4. overwritten' \in SUBSET Nat
      <4>1. CASE now \in DOMAIN segments
        <5>1. segments[now].records \in Seq(Records)
          BY <4>1 DEF ChainTypes, Files
        <5>2. Ids(segments[now].records) \in Seq(Nat)
          BY <5>1, IdsTyped
        <5>3. ToSet(Ids(segments[now].records)) \subseteq Nat
          BY <5>2 DEF ToSet
        <5> QED BY <2>3, <4>1, <5>3 DEF ChainTypes
      <4>2. CASE now \notin DOMAIN segments
        BY <2>3, <4>2 DEF ChainTypes
      <4> QED BY <4>1, <4>2
    <3>5. generation' \in Nat
      BY <2>3 DEF ChainTypes
    <3> QED BY <2>1, <2>3, <3>3, <3>4, <3>5 DEF ChainTypes
  <2> QED BY <1>5, <2>2, <2>3 DEF Rename
<1>6. CASE Reopen
  <2>1. UNCHANGED <<segments, generation, overwritten, nextId, firsts, now>>
    BY <1>6 DEF Reopen
  <2>2. CASE /\ pc' = "boot"
             /\ active' = IF active = Absent THEN NewFile(TRUE) ELSE active
             /\ writer' = [writer EXCEPT !.bytes = Bytes(active')]
             /\ NoUpset /\ UNCHANGED <<pendingGap, inFlight, acked>>
    <3>1. active' \in Files
      BY <1>1, <2>2 DEF ChainTypes
    <3>2. PICK b : b = Bytes(active')
      OBVIOUS
    <3>3. b \in Nat
      BY <3>1, <3>2, BytesBounds
    <3>4. writer' \in [seq: Nat, prev: Nat, bytes: Nat]
      BY <2>2, <3>2, <3>3 DEF ChainTypes
    <3> QED BY <2>1, <2>2, <3>1, <3>4 DEF ChainTypes
  <2>3. CASE /\ Upset("reopen") /\ CallFails
             /\ active' \in IF active = Absent THEN {Absent, NewFile(FALSE)} ELSE {active}
             /\ UNCHANGED writer
    <3>1. trouble' \in 0 .. MaxTrouble /\ upsets' \in SUBSET Upsets
      BY <2>3, UpsetsTyped DEF Upsets
    <3>2. active' \in Files \union {Absent}
      BY <1>1, <2>3 DEF ChainTypes
    <3> QED BY <2>1, <2>3, <3>1, <3>2 DEF ChainTypes, CallFails
  <2> QED BY <1>6, <2>2, <2>3 DEF Reopen
<1>7. CASE EmitBootRecord
  <2> DEFINE boot == <<Rec("BOOT", nextId, writer.seq + 1, writer.prev)>>
  <2>1. UNCHANGED now
    BY <1>7 DEF EmitBootRecord
  <2>2. CASE AppendAll(boot) /\ pc' = "up" /\ inFlight' = 0 /\ acked' = acked \union ({inFlight} \ {0})
               /\ NoUpset /\ UNCHANGED pendingGap
    <3>1. Chained(boot)
      BY ChainedRecords
    <3> HIDE DEF boot
    <3>2. /\ active' \in Files /\ nextId' \in 1 .. MaxRecords + 1
          /\ writer' \in [seq: Nat, prev: Nat, bytes: Nat] /\ firsts' \in SUBSET Nat
          /\ UNCHANGED <<segments, generation, overwritten>>
      BY <1>2, <2>2, <3>1
    <3> QED BY <2>1, <2>2, <3>2 DEF ChainTypes
  <2>3. CASE /\ Upset("boot")
             /\ IF inFlight # 0 THEN CallFails
                ELSE pc' = "down" /\ UNCHANGED <<pendingGap, inFlight, acked>>
             /\ UNCHANGED <<nextId, firsts, writer, segmentVars>>
    <3>1. trouble' \in 0 .. MaxTrouble /\ upsets' \in SUBSET Upsets
      BY <2>3, UpsetsTyped DEF Upsets
    <3>2. pc' \in {"down", "up"} /\ inFlight' \in Nat /\ acked' \in SUBSET Nat
      <4>1. CASE inFlight # 0
        <5>1. CallFails
          BY <2>3, <4>1, Zenon
        <5>2. pc' = "up" /\ inFlight' = 0 /\ acked' = acked
          BY <5>1 DEF CallFails
        <5> QED BY <5>2 DEF ChainTypes
      <4>2. CASE inFlight = 0
        <5>1. pc' = "down" /\ inFlight' = inFlight /\ acked' = acked
          BY <2>3, <4>2, Zenon
        <5> QED BY <5>1 DEF ChainTypes
      <4> QED BY <4>1, <4>2, Zenon
    <3>3. pendingGap' = pendingGap \/ pendingGap' = TRUE
      BY <2>3 DEF CallFails
    <3>4. pendingGap' \in BOOLEAN
      BY <3>3 DEF ChainTypes
    <3> QED BY <2>1, <2>3, <3>1, <3>2, <3>4 DEF ChainTypes
  <2> QED BY <1>7, <2>2, <2>3 DEF EmitBootRecord
<1>8. CASE KillRecorder
  <2>1. trouble' \in 0 .. MaxTrouble /\ upsets' \in SUBSET Upsets
    BY <1>8, UpsetsTyped DEF Upsets, KillRecorder
  <2> QED BY <1>8, <2>1 DEF ChainTypes, KillRecorder
<1>9. CASE Start
  <2>1. /\ UNCHANGED <<segments, generation, overwritten, pendingGap, inFlight, nextId, acked, firsts, now>>
        /\ NoUpset /\ pc' = "boot"
        /\ active' = IF active = Absent THEN NewFile(TRUE) ELSE active
    BY <1>9 DEF Start
  <2>2. active' \in Files
    BY <1>1, <2>1 DEF ChainTypes
  <2>3. PICK b : b = Bytes(active')
    OBVIOUS
  <2>4. b \in Nat
    BY <2>2, <2>3, BytesBounds
  <2>5. PICK s : s = ReadAll(active)
    OBVIOUS
  <2>6. s \in Seq(Records)
    BY <2>5, OldTyped
  <2>7. writer' = IF s = <<>> THEN [seq |-> 0, prev |-> 0, bytes |-> b]
                  ELSE [seq |-> Last(s).seq, prev |-> Last(s).id, bytes |-> b]
    BY <1>9, <2>3, <2>5 DEF Start
  <2>8. writer' \in [seq: Nat, prev: Nat, bytes: Nat]
    <3>1. CASE s = <<>>
      BY <2>4, <2>7, <3>1
    <3>2. CASE s # <<>>
      <4>1. Last(s) \in Records
        BY <2>6, <3>2 DEF Last
      <4> QED BY <2>4, <2>7, <3>2, <4>1 DEF Records
    <3> QED BY <3>1, <3>2
  <2> QED BY <2>1, <2>2, <2>8 DEF ChainTypes
<1>10. CASE Tick
  <2>1. /\ now < MaxTime /\ now' = now + 1 /\ now \in 0 .. MaxTime
        /\ UNCHANGED <<trouble, upsets, writerVars, segmentVars>>
    BY <1>10 DEF Tick, ChainTypes
  <2>2. now' \in 0 .. MaxTime /\ 0 .. now \subseteq 0 .. now'
    BY <2>1, SegmentsBounds
  <2> QED BY <2>1, <2>2 DEF ChainTypes
<1>11. CASE UNCHANGED <<writerVars, segmentVars, now, trouble, upsets>>
  BY <1>11 DEF ChainTypes
<1> QED BY <1>3, <1>4, <1>5, <1>6, <1>7, <1>8, <1>9, <1>10, <1>11, WhoSteps DEF RecorderNext, segmentsVars

(* What a step does to the file at the path: it grows, is rotated away,    *)
(* begins, or stays as it is.                                              *)
Grows(records) == Chained(records) /\ AppendAll(records) /\ pc \in {"up", "boot"} /\ pc' \in {"up", "rotate"}
RotatedAway ==
  /\ pc = "closed" /\ pc' = "renamed" /\ active' = Absent /\ generation' = generation + 1
  /\ segments' = [t \in DOMAIN segments \union {now} |-> IF t = now THEN active ELSE segments[t]]
  /\ overwritten' = overwritten \union
       (IF now \in DOMAIN segments THEN ToSet(Ids(segments[now].records)) ELSE {})
  /\ UNCHANGED <<writer, pendingGap, inFlight, nextId, acked, firsts, now, upsets>>
Begins == active = Absent /\ \E header \in BOOLEAN : active' = NewFile(header)
Rests == UNCHANGED <<segments, generation, overwritten, nextId, firsts>>

LEMMA FileSteps ==
  ASSUME ChainTypes, [SegmentsNext]_segmentsVars
  PROVE  \/ \E records : Grows(records)
         \/ RotatedAway
         \/ Rests /\ (Begins \/ active' = active)
<1> USE DEF writerVars, segmentVars, readerVars, NoUpset
<1> DEFINE boot == <<Rec("BOOT", nextId, writer.seq + 1, writer.prev)>>
<1>1. CASE RecordAction
  <2>1. Grows(GapAndAction)
    BY <1>1, ChainedRecords DEF RecordAction, Grows
  <2> QED BY <2>1
<1>2. CASE EmitBootRecord
  <2>1. CASE AppendAll(boot) /\ pc' = "up"
    <3>1. Grows(boot)
      BY <1>2, <2>1, ChainedRecords DEF EmitBootRecord, Grows
    <3> QED BY <3>1
  <2>2. CASE UNCHANGED <<nextId, firsts, writer, segmentVars>>
    BY <2>2 DEF Rests
  <2> QED BY <1>2, <2>1, <2>2 DEF EmitBootRecord
<1>3. CASE Rename
  <2>1. CASE UNCHANGED segmentVars
    BY <1>3, <2>1 DEF Rename, Rests
  <2>2. CASE ~UNCHANGED segmentVars
    <3>1. RotatedAway
      BY <1>3, <2>2 DEF Rename, RotatedAway
    <3> QED BY <3>1
  <2> QED BY <2>1, <2>2
<1>4. CASE Reopen
  <2>1. Rests
    BY <1>4 DEF Reopen, Rests
  <2>2. \/ active' = IF active = Absent THEN NewFile(TRUE) ELSE active
        \/ active' \in IF active = Absent THEN {Absent, NewFile(FALSE)} ELSE {active}
    BY <1>4 DEF Reopen
  <2>3. TRUE \in BOOLEAN /\ FALSE \in BOOLEAN
    OBVIOUS
  <2> QED BY <2>1, <2>2, <2>3 DEF Begins
<1>5. CASE Start
  <2>1. Rests /\ active' = IF active = Absent THEN NewFile(TRUE) ELSE active
    BY <1>5 DEF Start, Rests
  <2>2. TRUE \in BOOLEAN
    OBVIOUS
  <2> QED BY <2>1, <2>2 DEF Begins
<1>6. CASE CloseForRotation \/ KillRecorder \/ Tick
  BY <1>6 DEF CloseForRotation, KillRecorder, Tick, Rests
<1>7. CASE UNCHANGED <<writerVars, segmentVars, now, trouble, upsets>>
  BY <1>7 DEF Rests
<1> QED BY <1>1, <1>2, <1>3, <1>4, <1>5, <1>6, <1>7, WhoSteps DEF RecorderNext, segmentsVars

(* The head moves with what is written, and is found again at a start. *)
LEMMA HeadSteps ==
  ASSUME ChainTypes, [SegmentsNext]_segmentsVars
  PROVE  \/ \E records : Grows(records)
         \/ Start
         \/ pc # "down" /\ writer'.seq = writer.seq /\ writer'.prev = writer.prev
         \/ pc' = "down"
<1> USE DEF writerVars, segmentVars, readerVars, NoUpset
<1> DEFINE boot == <<Rec("BOOT", nextId, writer.seq + 1, writer.prev)>>
<1>1. CASE RecordAction
  <2>1. Grows(GapAndAction)
    BY <1>1, ChainedRecords DEF RecordAction, Grows
  <2> QED BY <2>1
<1>2. CASE EmitBootRecord
  <2>1. CASE AppendAll(boot) /\ pc' = "up"
    <3>1. Grows(boot)
      BY <1>2, <2>1, ChainedRecords DEF EmitBootRecord, Grows
    <3> QED BY <3>1
  <2>2. CASE UNCHANGED <<nextId, firsts, writer, segmentVars>>
    BY <1>2, <2>2 DEF EmitBootRecord
  <2> QED BY <1>2, <2>1, <2>2 DEF EmitBootRecord
<1>3. CASE Reopen
  <2>1. writer' = writer \/ \E b : writer' = [writer EXCEPT !.bytes = b]
    BY <1>3 DEF Reopen
  <2>2. writer'.seq = writer.seq /\ writer'.prev = writer.prev
    BY <2>1 DEF ChainTypes
  <2> QED BY <1>3, <2>2 DEF Reopen
<1>4. CASE CloseForRotation \/ Rename \/ KillRecorder \/ Tick
  BY <1>4 DEF CloseForRotation, Rename, KillRecorder, Tick
<1>5. CASE UNCHANGED <<writerVars, segmentVars, now, trouble, upsets>>
  BY <1>5
<1> QED BY <1>1, <1>2, <1>3, <1>4, <1>5, WhoSteps DEF RecorderNext, segmentsVars

LEMMA ActiveInvNext ==
  ASSUME ChainTypes, ChainTypes', ActiveInv, [SegmentsNext]_segmentsVars
  PROVE  ActiveInv'
<1>1. /\ nextId \in Nat /\ Old \in Seq(Records) /\ Len(Old) \in Nat /\ writer.seq \in Nat
      /\ active # Absent => active.records = Old
  <2>1. nextId \in Nat /\ writer.seq \in Nat
    BY SegmentsBounds DEF ChainTypes
  <2> QED BY <2>1, OldTyped
<1>2. \A i \in 1 .. Len(Old) : Old[i].id \in Nat /\ Old[i].seq \in Nat
  <2>1. \A i \in 1 .. Len(Old) : Old[i] \in Records
    BY <1>1, ElementOfSeq
  <2> QED BY <2>1 DEF Records
<1>3. ASSUME NEW records, Grows(records) PROVE ActiveInv'
  <2> DEFINE n == Len(Old)
             m == Len(records)
             new == active'.records
  <2>1. Chained(records) /\ AppendAll(records) /\ pc # "down"
    BY <1>3 DEF Grows
  <2>2. /\ m \in Nat \ {0} /\ nextId' = nextId + m /\ Len(new) = n + m
        /\ \A i \in 1 .. n : new[i] = Old[i]
        /\ \A i \in n + 1 .. n + m : new[i] = records[i - n]
        /\ active'.header <=> (active # Absent /\ active.header)
        /\ writer'.seq = records[m].seq
        /\ firsts' = IF Old = <<>> THEN firsts \union {nextId} ELSE firsts
    BY <2>1, Appended
  <2>3. /\ n < nextId /\ \A i \in 1 .. n : Old[i].id + n + 1 = nextId + i
        /\ Old # <<>> => Old[1].id \in firsts
        /\ active'.header => \A i, j \in 1 .. n : i <= j => Old[i].seq <= Old[j].seq
        /\ active'.header => \A i \in 1 .. n : Old[i].seq <= writer.seq
    <3>1. CASE active = Absent
      <4>1. Old = <<>> /\ n = 0
        BY <3>1 DEF Old
      <4>2. n < nextId
        BY <4>1, SegmentsBounds DEF ChainTypes
      <4> QED BY <4>1, <4>2
    <3>2. CASE active # Absent
      BY <1>1, <2>1, <2>2, <3>2 DEF ActiveInv
    <3> QED BY <3>1, <3>2
  <2>4. /\ \A i \in 1 .. m : records[i].id + 1 = nextId + i /\ writer.seq <= records[i].seq
        /\ \A i, j \in 1 .. m : i <= j => records[i].seq <= records[j].seq
        /\ \A i \in 1 .. m : records[i].id \in Nat /\ records[i].seq \in Nat
    <3>1. records \in Seq(Records)
      BY <2>1 DEF Chained
    <3>2. \A i \in 1 .. m : records[i] \in Records
      BY <3>1, ElementOfSeq
    <3>3. \A i \in 1 .. m : records[i].id \in Nat /\ records[i].seq \in Nat
      BY <3>2 DEF Records
    <3> QED BY <2>1, <3>3 DEF Chained
  <2> HIDE DEF n, m, new
  <2>5. n \in Nat
    BY <1>1 DEF n
  <2>6. Len(new) < nextId' /\ \A i \in 1 .. Len(new) : new[i].id + Len(new) + 1 = nextId' + i
    <3>1. Len(new) < nextId'
      BY <1>1, <2>2, <2>3, <2>5
    <3>2. ASSUME NEW i \in 1 .. n PROVE new[i].id + Len(new) + 1 = nextId' + i
      <4>1. new[i] = Old[i] /\ Old[i].id + n + 1 = nextId + i /\ Old[i].id \in Nat
        BY <1>2, <2>2, <2>3 DEF n
      <4>2. PICK a \in Nat : a = Old[i].id
        BY <4>1
      <4>3. nextId' = nextId + m /\ Len(new) = n + m /\ m \in Nat /\ nextId \in Nat
        BY <1>1, <2>2
      <4>4. a + n + 1 = nextId + i /\ new[i].id = a
        BY <4>1, <4>2
      <4> QED BY <2>5, <4>3, <4>4
    <3>3. ASSUME NEW i \in n + 1 .. n + m PROVE new[i].id + Len(new) + 1 = nextId' + i
      <4>1. i - n \in 1 .. m
        BY <2>2, <2>5
      <4>2. new[i] = records[i - n] /\ records[i - n].id + 1 = nextId + (i - n) /\ records[i - n].id \in Nat
        BY <2>2, <2>4, <4>1
      <4>3. PICK a \in Nat : a = records[i - n].id
        BY <4>2
      <4>4. nextId' = nextId + m /\ Len(new) = n + m /\ m \in Nat /\ nextId \in Nat
        BY <1>1, <2>2
      <4>5. a + 1 = nextId + (i - n) /\ new[i].id = a
        BY <4>2, <4>3
      <4> QED BY <2>5, <4>4, <4>5
    <3>4. \A i \in 1 .. Len(new) : i \in 1 .. n \/ i \in n + 1 .. n + m
      BY <2>2, <2>5
    <3> QED BY <3>1, <3>2, <3>3, <3>4
  <2>7. new[1].id \in firsts'
    <3>1. CASE Old = <<>>
      <4>1. n = 0
        BY <3>1 DEF n
      <4>2. new[1] = records[1] /\ records[1].id + 1 = nextId + 1 /\ records[1].id \in Nat
        <5>1. 1 \in n + 1 .. n + m /\ 1 \in 1 .. m /\ 1 - n = 1
          BY <2>2, <4>1
        <5> QED BY <2>2, <2>4, <5>1
      <4>3. new[1].id = nextId
        BY <1>1, <4>2
      <4> QED BY <2>2, <3>1, <4>3
    <3>2. CASE Old # <<>>
      <4>1. 1 \in 1 .. n
        BY <1>1, <3>2 DEF n
      <4> QED BY <2>2, <2>3, <3>2, <4>1
    <3> QED BY <3>1, <3>2
  <2>8. ASSUME active'.header
        PROVE  /\ \A i, j \in 1 .. Len(new) : i <= j => new[i].seq <= new[j].seq
               /\ \A i \in 1 .. Len(new) : new[i].seq <= writer'.seq
    <3>1. \A i, j \in 1 .. n : i <= j => new[i].seq <= new[j].seq
      BY <2>2, <2>3, <2>8
    <3>2. ASSUME NEW j \in n + 1 .. n + m
          PROVE  /\ j - n \in 1 .. m /\ new[j] = records[j - n] /\ writer.seq <= new[j].seq
                 /\ new[j].seq \in Nat /\ new[j].seq <= writer'.seq
      <4>1. j - n \in 1 .. m /\ m \in 1 .. m /\ j - n <= m
        BY <2>2, <2>5
      <4>2. new[j] = records[j - n]
        BY <2>2
      <4> QED BY <2>2, <2>4, <4>1, <4>2
    <3>3. ASSUME NEW i \in 1 .. n
          PROVE  new[i].seq \in Nat /\ new[i].seq <= writer.seq
      <4>1. new[i] = Old[i] /\ Old[i].seq \in Nat
        BY <1>2, <2>2 DEF n
      <4> QED BY <2>3, <2>8, <4>1
    <3>4. ASSUME NEW i \in n + 1 .. n + m, NEW j \in n + 1 .. n + m, i <= j PROVE new[i].seq <= new[j].seq
      <4>1. i - n <= j - n
        BY <2>5, <3>4
      <4> QED BY <2>4, <3>2, <4>1
    <3>5. ASSUME NEW i \in 1 .. n, NEW j \in n + 1 .. n + m PROVE new[i].seq <= new[j].seq
      BY <1>1, <3>2, <3>3
    <3>6. \A i \in 1 .. Len(new) : i \in 1 .. n \/ i \in n + 1 .. n + m
      BY <2>2, <2>5
    <3>7. ASSUME NEW i \in 1 .. Len(new), NEW j \in 1 .. Len(new), i <= j PROVE new[i].seq <= new[j].seq
      <4>1. ~(i \in n + 1 .. n + m /\ j \in 1 .. n)
        BY <2>2, <2>5, <3>7
      <4>2. (i \in 1 .. n \/ i \in n + 1 .. n + m) /\ (j \in 1 .. n \/ j \in n + 1 .. n + m)
        BY <3>6
      <4> QED BY <3>1, <3>4, <3>5, <3>7, <4>1, <4>2
    <3>8. ASSUME NEW i \in 1 .. Len(new) PROVE new[i].seq <= writer'.seq
      <4>1. CASE i \in n + 1 .. n + m
        BY <3>2, <4>1
      <4>2. CASE i \in 1 .. n
        <5>1. n + m \in n + 1 .. n + m
          BY <2>2, <2>5
        <5>2. writer'.seq \in Nat /\ writer.seq <= writer'.seq
          <6>1. PICK b : b = new[n + m].seq
            OBVIOUS
          <6>2. writer.seq <= b /\ b <= writer'.seq /\ b \in Nat
            BY <3>2, <5>1, <6>1
          <6>3. writer'.seq \in Nat
            BY DEF ChainTypes
          <6> QED BY <1>1, <6>2, <6>3
        <5> QED BY <1>1, <3>3, <4>2, <5>2
      <4> QED BY <3>6, <4>1, <4>2
    <3> QED BY <3>7, <3>8
  <2> QED BY <2>6, <2>7, <2>8 DEF ActiveInv, new
<1>4. CASE RotatedAway
  BY <1>4 DEF RotatedAway, ActiveInv
<1>5. CASE Rests /\ Begins
  <2>1. PICK header \in BOOLEAN : active' = NewFile(header)
    BY <1>5 DEF Begins
  <2>2. active'.records = <<>> /\ nextId' = nextId
    BY <1>5, <2>1, NewFileTyped DEF Rests
  <2>3. Len(active'.records) = 0 /\ 0 < nextId'
    BY <2>2, SegmentsBounds DEF ChainTypes
  <2> QED BY <2>2, <2>3 DEF ActiveInv
<1>6. CASE Rests /\ active' = active /\ ~\E records : Grows(records)
  <2>1. CASE active = Absent
    BY <1>6, <2>1 DEF ActiveInv
  <2>2. CASE active # Absent
    <3>1. /\ Len(Old) < nextId /\ \A i \in 1 .. Len(Old) : Old[i].id + Len(Old) + 1 = nextId + i
          /\ Old # <<>> => Old[1].id \in firsts
          /\ active.header => \A i, j \in 1 .. Len(Old) : i <= j => Old[i].seq <= Old[j].seq
          /\ active.header /\ pc # "down" => \A i \in 1 .. Len(Old) : Old[i].seq <= writer.seq
      BY <1>1, <2>2 DEF ActiveInv
    <3>2. ASSUME active.header, pc' # "down", NEW i \in 1 .. Len(Old) PROVE Old[i].seq <= writer'.seq
      <4>1. CASE pc # "down" /\ writer'.seq = writer.seq
        BY <3>1, <3>2, <4>1
      <4>2. CASE Start
        <5>1. ReadAll(active) = Old /\ Old # <<>>
          BY <1>1, <2>2, <3>2, OldTyped
        <5>2. writer'.seq = Last(Old).seq
          BY <4>2, <5>1 DEF Start
        <5>3. Last(Old) = Old[Len(Old)] /\ Len(Old) \in 1 .. Len(Old) /\ i <= Len(Old)
          BY <1>1, <5>1 DEF Last
        <5> QED BY <3>1, <3>2, <5>2, <5>3
      <4> QED BY <1>6, <3>2, <4>1, <4>2, HeadSteps
    <3>3. active'.records = Old /\ nextId' = nextId /\ firsts' = firsts /\ active'.header = active.header
      BY <1>1, <1>6, <2>2 DEF Rests
    <3> QED BY <3>1, <3>2, <3>3 DEF ActiveInv
  <2> QED BY <2>1, <2>2
<1> QED BY <1>3, <1>4, <1>5, <1>6, FileSteps

LEMMA StepInvNext ==
  ASSUME ChainTypes, ActiveInv, StepInv, [SegmentsNext]_segmentsVars
  PROVE  StepInv'
<1> USE DEF writerVars, segmentVars, readerVars, NoUpset
<1>1. CASE RecordAction
  <2>1. Chained(GapAndAction) /\ AppendAll(GapAndAction)
    BY <1>1, ChainedRecords DEF RecordAction
  <2>2. PICK records : records = GapAndAction
    OBVIOUS
  <2>3. Chained(records) /\ AppendAll(records)
    BY <2>1, <2>2
  <2>4. /\ Len(records) \in Nat \ {0} /\ active' # Absent /\ Len(active'.records) = Len(Old) + Len(records)
        /\ writer'.prev # 0
    BY <2>3, Appended
  <2>5. active'.records # <<>>
    <3>1. Len(Old) \in Nat
      BY OldTyped
    <3>2. Len(active'.records) # 0
      BY <2>4, <3>1
    <3> QED BY <3>2
  <2>6. pc' \in {"up", "rotate"} /\ (pc' = "rotate" => inFlight' = writer'.prev)
    BY <1>1 DEF RecordAction
  <2> QED BY <2>4, <2>5, <2>6 DEF StepInv
<1>2. CASE CloseForRotation
  BY <1>2 DEF CloseForRotation, StepInv
<1>3. CASE Rename
  <2>1. pc = "closed" /\ pc' = "renamed" /\ inFlight' = inFlight
    BY <1>3 DEF Rename
  <2> QED BY <2>1 DEF StepInv
<1>4. CASE Reopen
  <2>1. CASE pc' = "boot" /\ active' = IF active = Absent THEN NewFile(TRUE) ELSE active
    <3>1. NewFile(TRUE) # Absent
      <4>1. TRUE \in BOOLEAN
        OBVIOUS
      <4> QED BY <4>1, NewFileTyped
    <3> QED BY <2>1, <3>1 DEF StepInv
  <2>2. CASE CallFails
    BY <2>2 DEF CallFails, StepInv
  <2> QED BY <1>4, <2>1, <2>2 DEF Reopen
<1>5. CASE EmitBootRecord
  <2>1. CASE pc' = "up" \/ pc' = "down"
    BY <2>1 DEF StepInv
  <2>2. pc' = "up" \/ pc' = "down"
    <3>1. CASE CallFails
      BY <3>1 DEF CallFails
    <3> QED BY <1>5, <3>1 DEF EmitBootRecord
  <2> QED BY <2>1, <2>2
<1>6. CASE KillRecorder
  BY <1>6 DEF KillRecorder, StepInv
<1>7. CASE Start
  <2>1. NewFile(TRUE) # Absent
    <3>1. TRUE \in BOOLEAN
      OBVIOUS
    <3> QED BY <3>1, NewFileTyped
  <2>2. pc' = "boot" /\ active' = IF active = Absent THEN NewFile(TRUE) ELSE active
    BY <1>7 DEF Start
  <2> QED BY <2>1, <2>2 DEF StepInv
<1>8. CASE Tick
  BY <1>8 DEF Tick, StepInv
<1>9. CASE UNCHANGED <<writerVars, segmentVars, now, trouble, upsets>>
  BY <1>9 DEF StepInv
<1> QED BY <1>1, <1>2, <1>3, <1>4, <1>5, <1>6, <1>7, <1>8, <1>9, WhoSteps DEF RecorderNext, segmentsVars

(* What the steps do to the chain as an auditor reads it. *)
Here == MaxTime + 1

LEMMA PlacesTyped ==
  ASSUME ChainTypes
  PROVE  /\ now \in Places /\ now < Here /\ Here \in Places /\ Here \in Nat /\ Here \notin DOMAIN segments
         /\ Places \subseteq Nat /\ \A p \in Places : p <= Here
         /\ \A p \in DOMAIN segments : p \in Places /\ p <= now /\ FileAt(p) = ReadAll(segments[p])
         /\ \A p \in Places \ ({Here} \union DOMAIN segments) : FileAt(p) = <<>>
         /\ FileAt(Here) = ReadAll(active)
         /\ \A p \in Places : FileAt(p) \in Seq(Records)
<1>1. MaxTime \in Nat /\ now \in 0 .. MaxTime /\ DOMAIN segments \subseteq 0 .. now
  BY SegmentsBounds DEF ChainTypes
<1>2. /\ now \in Places /\ now < Here /\ Here \in Places /\ Here \in Nat /\ Here \notin DOMAIN segments
      /\ Places \subseteq Nat /\ (\A p \in Places : p <= Here) /\ \A p \in DOMAIN segments : p \in Places /\ p <= now
  BY <1>1 DEF Here, Places
<1>3. FileAt(Here) = ReadAll(active) /\ \A p \in DOMAIN segments : FileAt(p) = ReadAll(segments[p])
  BY <1>2 DEF FileAt, Here
<1>4. \A p \in Places \ ({Here} \union DOMAIN segments) : FileAt(p) = <<>>
  BY DEF FileAt, Here
<1>5. \A p \in DOMAIN segments : ReadAll(segments[p]) \in Seq(Records)
  <2>1. \A p \in DOMAIN segments : segments[p] \in Files
    BY DEF ChainTypes
  <2>2. \A p \in DOMAIN segments : segments[p].records \in Seq(Records)
    BY <2>1 DEF Files
  <2>3. <<>> \in Seq(Records)
    OBVIOUS
  <2> QED BY <2>2, <2>3 DEF ReadAll
<1>6. ReadAll(active) \in Seq(Records)
  BY OldTyped
<1>7. \A p \in Places : FileAt(p) \in Seq(Records)
  <2>1. <<>> \in Seq(Records)
    OBVIOUS
  <2> QED BY <1>3, <1>4, <1>5, <1>6, <2>1
<1> QED BY <1>2, <1>3, <1>4, <1>7

(* A file that is whole and grows. *)
LEMMA GrowsPlaces ==
  ASSUME ChainTypes, ActiveInv, NEW records, Grows(records), active # Absent, active.header
  PROVE  LET n == Len(ReadAll(active))
             m == Len(records)
         IN  /\ m \in Nat \ {0} /\ FileAt(Here)' \in Seq(Records) /\ Len(FileAt(Here)') = n + m /\ n \in Nat
             /\ \A i \in 1 .. n : FileAt(Here)'[i] = ReadAll(active)[i]
             /\ \A i \in n + 1 .. n + m : FileAt(Here)'[i] = records[i - n]
             /\ \A p \in Places \ {Here} : FileAt(p)' = FileAt(p)
             /\ active' # Absent /\ active'.header /\ ReadAll(active)' = FileAt(Here)'
<1>1. Chained(records) /\ AppendAll(records)
  BY DEF Grows
<1>2. /\ Len(records) \in Nat \ {0} /\ active' \in Files /\ active' # Absent
      /\ active'.records = Old \o records /\ Len(active'.records) = Len(Old) + Len(records)
      /\ \A i \in 1 .. Len(Old) : active'.records[i] = Old[i]
      /\ \A i \in Len(Old) + 1 .. Len(Old) + Len(records) : active'.records[i] = records[i - Len(Old)]
      /\ active'.header <=> (active # Absent /\ active.header)
      /\ segments' = segments
  BY <1>1, Appended
<1>3. ReadAll(active) = Old /\ Len(Old) \in Nat
  BY OldTyped
<1>4. active'.header /\ ReadAll(active)' = active'.records
  BY <1>2 DEF ReadAll
<1>5. Here \notin DOMAIN segments'
  BY <1>2, PlacesTyped
<1>6. FileAt(Here)' = ReadAll(active)' /\ \A p \in Places \ {Here} : FileAt(p)' = FileAt(p)
  BY <1>2, <1>5 DEF FileAt, Here
<1>7. active'.records \in Seq(Records)
  BY <1>2 DEF Files
<1> QED BY <1>2, <1>3, <1>4, <1>6, <1>7

(* A file that moves among the segments. *)
LEMMA RotatedPlaces ==
  ASSUME ChainTypes, RotatedAway
  PROVE  /\ FileAt(Here)' = <<>> /\ FileAt(now)' = ReadAll(active)
         /\ \A p \in Places \ {now, Here} : FileAt(p)' = FileAt(p)
         /\ DOMAIN segments' = DOMAIN segments \union {now} /\ segments'[now] = active
         /\ \A p \in DOMAIN segments \ {now} : segments'[p] = segments[p]
<1>1. Here \notin DOMAIN segments /\ now # Here
  BY PlacesTyped
<1>2. /\ DOMAIN segments' = DOMAIN segments \union {now} /\ segments'[now] = active
      /\ \A p \in DOMAIN segments \ {now} : segments'[p] = segments[p]
      /\ active' = Absent
  BY DEF RotatedAway
<1>3. ReadAll(active') = <<>>
  BY <1>2 DEF ReadAll
<1>4. FileAt(Here)' = <<>>
  BY <1>1, <1>2, <1>3 DEF FileAt, Here
<1>5. FileAt(now)' = ReadAll(active)
  <2>1. MaxTime' = MaxTime /\ now' = now
    BY DEF RotatedAway
  <2> QED BY <1>2, <2>1 DEF FileAt
<1>6. \A p \in Places \ {now, Here} : FileAt(p)' = FileAt(p)
  BY <1>2 DEF FileAt, Here
<1> QED BY <1>2, <1>4, <1>5, <1>6

(* A file that begins has nothing to read. *)
LEMMA RestsPlaces ==
  ASSUME Rests, Begins \/ active' = active
  PROVE  /\ ReadAll(active)' = ReadAll(active)
         /\ \A p \in Places : FileAt(p)' = FileAt(p)
<1>1. ReadAll(active)' = ReadAll(active)
  <2>1. CASE Begins
    <3>1. PICK header \in BOOLEAN : active' = NewFile(header) /\ active = Absent
      BY <2>1 DEF Begins
    <3>2. active' # Absent /\ active'.records = <<>>
      BY <3>1, NewFileTyped
    <3> QED BY <3>1, <3>2 DEF ReadAll
  <2>2. CASE active' = active
    BY <2>2
  <2> QED BY <2>1, <2>2
<1>2. \A p \in Places : FileAt(p)' = FileAt(p)
  BY <1>1 DEF FileAt, Rests
<1> QED BY <1>1, <1>2

(* What is in a file stays in one, unless its segment is replaced. *)
LEMMA FiledNext ==
  ASSUME ChainTypes, ActiveInv, ReadableInv, Reading, [SegmentsNext]_segmentsVars, NEW id,
         id \in overwritten \/ Filed(id)
  PROVE  id \in overwritten' \/ Filed(id)'
<1>1. CASE id \in overwritten
  <2>1. overwritten \subseteq overwritten'
    <3>1. ASSUME NEW records, Grows(records) PROVE overwritten' = overwritten
      BY <3>1 DEF Grows, AppendAll
    <3> QED BY <3>1, FileSteps DEF RotatedAway, Rests
  <2> QED BY <1>1, <2>1
<1>2. CASE Filed(id)
  <2>1. PICK p \in Places : \E i \in 1 .. Len(FileAt(p)) : FileAt(p)[i].id = id
    BY <1>2 DEF Filed
  <2>2. PICK i \in 1 .. Len(FileAt(p)) : FileAt(p)[i].id = id
    BY <2>1
  <2>3. ASSUME NEW records, Grows(records) PROVE Filed(id)'
    <3>1. active # Absent /\ active.header
      BY <2>3 DEF Grows, ReadableInv
    <3>2. CASE p = Here
      <4>1. /\ Len(records) \in Nat \ {0} /\ Len(FileAt(Here)') = Len(ReadAll(active)) + Len(records)
            /\ Len(ReadAll(active)) \in Nat
            /\ \A k \in 1 .. Len(ReadAll(active)) : FileAt(Here)'[k] = ReadAll(active)[k]
        BY <2>3, <3>1, GrowsPlaces
      <4>2. FileAt(Here) = ReadAll(active)
        BY PlacesTyped
      <4>3. i \in 1 .. Len(FileAt(Here)') /\ FileAt(Here)'[i].id = id
        BY <2>2, <3>2, <4>1, <4>2
      <4> QED BY <3>2, <4>3 DEF Filed
    <3>3. CASE p # Here
      <4>1. FileAt(p)' = FileAt(p)
        BY <2>3, <3>1, <3>3, GrowsPlaces
      <4> QED BY <2>2, <4>1 DEF Filed
    <3> QED BY <3>2, <3>3
  <2>4. CASE RotatedAway
    <3>1. /\ FileAt(now)' = ReadAll(active) /\ now \in Places /\ FileAt(Here) = ReadAll(active)
          /\ \A q \in Places \ {now, Here} : FileAt(q)' = FileAt(q)
      BY <2>4, RotatedPlaces, PlacesTyped
    <3>2. CASE p = Here
      <4>1. i \in 1 .. Len(FileAt(now)') /\ FileAt(now)'[i].id = id
        BY <2>2, <3>1, <3>2
      <4>2. \E q \in Places : \E k \in 1 .. Len(FileAt(q)') : FileAt(q)'[k].id = id
        <5>1. PICK q : q = now
          OBVIOUS
        <5>2. FileAt(q)' = FileAt(now)'
          BY <2>4, <5>1 DEF RotatedAway, FileAt
        <5>3. q \in Places /\ i \in 1 .. Len(FileAt(q)') /\ FileAt(q)'[i].id = id
          BY <3>1, <4>1, <5>1, <5>2
        <5> QED BY <5>3
      <4> QED BY <4>2 DEF Filed
    <3>3. CASE p = now /\ p # Here
      <4>1. now \in DOMAIN segments
        <5>1. FileAt(p) # <<>>
          BY <2>2
        <5> QED BY <3>3, <5>1, PlacesTyped
      <4>2. segments[now] \in Files /\ segments[now].records \in Seq(Records)
        BY <4>1 DEF ChainTypes, Files
      <4>3. FileAt(p) = segments[now].records
        <5>1. FileAt(p) = ReadAll(segments[now]) /\ FileAt(p) # <<>>
          BY <2>2, <3>3, <4>1, PlacesTyped
        <5> QED BY <5>1 DEF ReadAll
      <4> DEFINE s == segments[now].records
      <4>4. s \in Seq(Records) /\ i \in 1 .. Len(s) /\ s[i].id = id
        BY <2>2, <4>2, <4>3
      <4>5. overwritten' = overwritten \union ToSet(Ids(s))
        BY <2>4, <4>1 DEF RotatedAway
      <4> HIDE DEF s
      <4>6. Ids(s) \in Seq(Nat) /\ Len(Ids(s)) = Len(s) /\ Ids(s)[i] = id
        BY <4>4, IdsTyped
      <4>7. id \in ToSet(Ids(s))
        <5>1. DOMAIN Ids(s) = 1 .. Len(s)
          BY <4>6
        <5> QED BY <4>4, <4>6, <5>1 DEF ToSet
      <4> QED BY <4>5, <4>7
    <3>4. CASE p # now /\ p # Here
      <4>1. FileAt(p)' = FileAt(p)
        BY <3>1, <3>4
      <4> QED BY <2>2, <4>1 DEF Filed
    <3> QED BY <3>2, <3>3, <3>4
  <2>5. CASE Rests /\ (Begins \/ active' = active)
    <3>1. FileAt(p)' = FileAt(p)
      BY <2>5, RestsPlaces
    <3> QED BY <2>2, <3>1 DEF Filed
  <2> QED BY <2>3, <2>4, <2>5, FileSteps
<1> QED BY <1>1, <1>2

(* Trouble is never forgotten. *)
LEMMA UpsetsGrow ==
  ASSUME [SegmentsNext]_segmentsVars
  PROVE  upsets \subseteq upsets'
<1> USE DEF writerVars, segmentVars, readerVars, NoUpset, Upset
<1>1. CASE RecordAction \/ CloseForRotation \/ Rename
  BY <1>1 DEF RecordAction, CloseForRotation, Rename
<1>2. CASE Reopen \/ EmitBootRecord \/ KillRecorder \/ Start \/ Tick
  BY <1>2 DEF Reopen, EmitBootRecord, KillRecorder, Start, Tick
<1> QED BY <1>1, <1>2, WhoSteps DEF RecorderNext, segmentsVars

LEMMA ReadableInvNext ==
  ASSUME ChainTypes, ActiveInv, StepInv, ReadableInv, [SegmentsNext]_segmentsVars
  PROVE  ReadableInv'
<1> USE DEF writerVars, segmentVars, readerVars, NoUpset
<1> SUFFICES ASSUME Reading' PROVE ReadableInv'
  BY DEF ReadableInv
<1>1. Reading
  BY UpsetsGrow DEF Reading
<1>2. /\ active # Absent => active.header
      /\ active = Absent => pc \in {"renamed", "down"}
      /\ \A p \in DOMAIN segments : segments[p].header
      /\ \A id \in acked \union ({inFlight} \ {0}) : id \in overwritten \/ Filed(id)
  BY <1>1 DEF ReadableInv
<1> DEFINE Known(id) == id \in overwritten' \/ Filed(id)'
<1>3. \A id \in acked \union ({inFlight} \ {0}) : Known(id)
  BY <1>1, <1>2, FiledNext
<1>4. ASSUME NEW records, Grows(records), NEW latest, latest = writer'.prev
      PROVE  active' # Absent /\ active'.header /\ segments' = segments /\ Filed(latest)'
  <2>1. active # Absent /\ active.header
    BY <1>2, <1>4 DEF Grows
  <2> DEFINE n == Len(ReadAll(active))
             m == Len(records)
  <2>2. /\ m \in Nat \ {0} /\ Len(FileAt(Here)') = n + m /\ n \in Nat
        /\ \A i \in n + 1 .. n + m : FileAt(Here)'[i] = records[i - n]
        /\ active' # Absent /\ active'.header
    BY <1>4, <2>1, GrowsPlaces
  <2>3. writer'.prev = records[m].id /\ segments' = segments
    BY <1>4, Appended DEF Grows
  <2> HIDE DEF n, m
  <2>4. n + m \in n + 1 .. n + m /\ n + m \in 1 .. n + m /\ (n + m) - n = m
    BY <2>2
  <2>5. n + m \in 1 .. Len(FileAt(Here)') /\ FileAt(Here)'[n + m].id = latest
    BY <1>4, <2>2, <2>3, <2>4
  <2>6. Here \in Places
    BY PlacesTyped
  <2>7. \E p \in Places : \E i \in 1 .. Len(FileAt(p)') : FileAt(p)'[i].id = latest
    BY <2>5, <2>6
  <2> QED BY <2>2, <2>3, <2>7 DEF Filed
<1>5. CASE RecordAction
  <2>1. Grows(GapAndAction)
    BY <1>5, ChainedRecords DEF RecordAction, Grows
  <2>2. PICK latest : latest = writer'.prev
    OBVIOUS
  <2>3. active' # Absent /\ active'.header /\ segments' = segments /\ Filed(latest)'
    BY <1>4, <2>1, <2>2
  <2>4. acked' \union ({inFlight'} \ {0}) \subseteq (acked \union ({inFlight} \ {0})) \union {latest}
    BY <1>5, <2>2 DEF RecordAction
  <2>5. \A id \in acked' \union ({inFlight'} \ {0}) : Known(id)
    BY <1>3, <2>3, <2>4
  <2> QED BY <1>2, <2>3, <2>5 DEF ReadableInv
<1>6. CASE EmitBootRecord
  <2> DEFINE boot == <<Rec("BOOT", nextId, writer.seq + 1, writer.prev)>>
  <2>1. CASE AppendAll(boot) /\ pc' = "up" /\ inFlight' = 0 /\ acked' = acked \union ({inFlight} \ {0})
    <3>1. Grows(boot)
      BY <1>6, <2>1, ChainedRecords DEF EmitBootRecord, Grows
    <3>2. active' # Absent /\ active'.header /\ segments' = segments
      BY <1>4, <3>1
    <3>3. \A id \in acked' \union ({inFlight'} \ {0}) : Known(id)
      BY <1>3, <2>1
    <3> QED BY <1>2, <3>2, <3>3 DEF ReadableInv
  <2>2. CASE /\ IF inFlight # 0 THEN CallFails
                ELSE pc' = "down" /\ UNCHANGED <<pendingGap, inFlight, acked>>
             /\ UNCHANGED <<nextId, firsts, writer, segmentVars>>
    <3>1. acked' = acked /\ (inFlight' = 0 \/ inFlight' = inFlight)
      <4>1. CASE inFlight # 0
        <5>1. CallFails
          BY <2>2, <4>1, Zenon
        <5> QED BY <5>1 DEF CallFails
      <4>2. CASE inFlight = 0
        BY <2>2, <4>2, Zenon
      <4> QED BY <4>1, <4>2, Zenon
    <3>2. active # Absent
      BY <1>6 DEF EmitBootRecord, StepInv
    <3>3. active' # Absent /\ active'.header /\ segments' = segments
      BY <1>2, <2>2, <3>2
    <3>4. \A id \in acked' \union ({inFlight'} \ {0}) : Known(id)
      BY <1>3, <3>1
    <3> QED BY <1>2, <3>3, <3>4 DEF ReadableInv
  <2> QED BY <1>6, <2>1, <2>2 DEF EmitBootRecord
<1>7. CASE Rename
  <2>1. pc' = "renamed" /\ acked' = acked /\ inFlight' = inFlight
    BY <1>7 DEF Rename
  <2>2. \A id \in acked' \union ({inFlight'} \ {0}) : Known(id)
    BY <1>3, <2>1
  <2>3. active # Absent
    BY <1>7 DEF Rename, StepInv
  <2>4. CASE UNCHANGED segmentVars
    BY <1>2, <2>1, <2>2, <2>4 DEF ReadableInv
  <2>5. CASE ~UNCHANGED segmentVars
    <3>1. RotatedAway
      BY <1>7, <2>5 DEF Rename, RotatedAway
    <3>2. \A p \in DOMAIN segments' : segments'[p].header
      BY <1>2, <2>3, <3>1 DEF RotatedAway
    <3>3. active' = Absent
      BY <3>1 DEF RotatedAway
    <3> QED BY <2>1, <2>2, <3>2, <3>3 DEF ReadableInv
  <2> QED BY <2>4, <2>5
<1>8. CASE Reopen
  <2>1. ~Upset("reopen")
    BY DEF Reading, Upset
  <2>2. /\ active' = IF active = Absent THEN NewFile(TRUE) ELSE active
        /\ UNCHANGED <<inFlight, acked, segments>>
    BY <1>8, <2>1 DEF Reopen
  <2>3. active' # Absent /\ active'.header
    <3>1. TRUE \in BOOLEAN
      OBVIOUS
    <3>2. NewFile(TRUE) # Absent /\ NewFile(TRUE).header = TRUE
      BY <3>1, NewFileTyped
    <3> QED BY <1>2, <2>2, <3>2
  <2>4. \A id \in acked' \union ({inFlight'} \ {0}) : Known(id)
    BY <1>3, <2>2
  <2> QED BY <1>2, <2>2, <2>3, <2>4 DEF ReadableInv
<1>9. CASE Start
  <2>1. /\ active' = IF active = Absent THEN NewFile(TRUE) ELSE active
        /\ UNCHANGED <<inFlight, acked, segments>>
    BY <1>9 DEF Start
  <2>2. active' # Absent /\ active'.header
    <3>1. TRUE \in BOOLEAN
      OBVIOUS
    <3>2. NewFile(TRUE) # Absent /\ NewFile(TRUE).header = TRUE
      BY <3>1, NewFileTyped
    <3> QED BY <1>2, <2>1, <3>2
  <2>3. \A id \in acked' \union ({inFlight'} \ {0}) : Known(id)
    BY <1>3, <2>1
  <2> QED BY <1>2, <2>1, <2>2, <2>3 DEF ReadableInv
<1>10. CASE KillRecorder
  <2>1. pc' = "down" /\ inFlight' = 0 /\ acked' = acked /\ UNCHANGED <<active, segments>>
    BY <1>10 DEF KillRecorder
  <2>2. \A id \in acked' \union ({inFlight'} \ {0}) : Known(id)
    BY <1>3, <2>1
  <2> QED BY <1>2, <2>1, <2>2 DEF ReadableInv
<1>11. CASE CloseForRotation
  <2>1. pc = "rotate" /\ inFlight' = inFlight /\ acked' = acked /\ UNCHANGED <<active, segments>>
    BY <1>11 DEF CloseForRotation
  <2>2. \A id \in acked' \union ({inFlight'} \ {0}) : Known(id)
    BY <1>3, <2>1
  <2> QED BY <1>2, <2>1, <2>2 DEF ReadableInv
<1>12. CASE Tick \/ UNCHANGED <<writerVars, segmentVars, now, trouble, upsets>>
  <2>1. UNCHANGED <<pc, inFlight, acked, active, segments>>
    BY <1>12 DEF Tick
  <2>2. \A id \in acked' \union ({inFlight'} \ {0}) : Known(id)
    BY <1>3, <2>1
  <2> QED BY <1>2, <2>1, <2>2 DEF ReadableInv
<1> QED BY <1>5, <1>6, <1>7, <1>8, <1>9, <1>10, <1>11, <1>12, WhoSteps DEF RecorderNext, segmentsVars

(* A step that leaves every file as it is leaves the links as they are. *)
LEMMA RestsLinked ==
  ASSUME Rests, Begins \/ active' = active
  PROVE  /\ Within => Within'
         /\ Across => Across'
         /\ \A p \in Places : LastPlace(p)' <=> LastPlace(p)
<1>1. \A p \in Places : FileAt(p)' = FileAt(p)
  BY RestsPlaces
<1>2. Places' = Places
  BY DEF Places
<1>3. Within => Within'
  BY <1>1, <1>2 DEF Within, Follows
<1>4. \A p \in Places : LastPlace(p)' <=> LastPlace(p)
  BY <1>1, <1>2 DEF LastPlace
<1>5. ASSUME Across, NEW p \in Places, NEW q \in Places, Neighbours(p, q)'
      PROVE  Follows(FileAt(q)[1], Last(FileAt(p)))'
  <2>1. p < q /\ FileAt(p) # <<>> /\ FileAt(q) # <<>> /\ \A between \in p + 1 .. q - 1 : FileAt(between)' = <<>>
    BY <1>1, <1>5 DEF Neighbours
  <2>2. ASSUME NEW between \in p + 1 .. q - 1 PROVE FileAt(between) = <<>>
    <3>1. between \in Places
      BY SegmentsBounds DEF Places
    <3> QED BY <1>1, <2>1, <3>1
  <2>3. Follows(FileAt(q)[1], Last(FileAt(p)))
    BY <1>5, <2>1, <2>2 DEF Across, Neighbours
  <2>4. FileAt(q)' = FileAt(q) /\ FileAt(p)' = FileAt(p)
    BY <1>1
  <2> QED BY <2>3, <2>4 DEF Follows
<1> QED BY <1>2, <1>3, <1>4, <1>5 DEF Across

(* What is appended follows on the head, wherever that is. *)
LEMMA GrowsLinked ==
  ASSUME ChainTypes, ActiveInv, NEW records, Grows(records), active # Absent, active.header,
         Within, Across,
         \A p \in Places : LastPlace(p) =>
           writer.seq = Last(FileAt(p)).seq /\ writer.prev = Last(FileAt(p)).id
  PROVE  /\ Within' /\ Across'
         /\ \A p \in Places : LastPlace(p)' =>
              writer'.seq = Last(FileAt(p)').seq /\ writer'.prev = Last(FileAt(p)').id
<1> DEFINE old == ReadAll(active)
           new == FileAt(Here)'
           n == Len(old)
           m == Len(records)
<1>1. /\ m \in Nat \ {0} /\ new \in Seq(Records) /\ Len(new) = n + m /\ n \in Nat
      /\ \A i \in 1 .. n : new[i] = old[i]
      /\ \A i \in n + 1 .. n + m : new[i] = records[i - n]
      /\ \A p \in Places \ {Here} : FileAt(p)' = FileAt(p)
  BY GrowsPlaces
<1>2. /\ Here \in Places /\ Here \in Nat /\ FileAt(Here) = old /\ Places \subseteq Nat
      /\ \A p \in Places : p <= Here
  BY PlacesTyped
<1>3. /\ Follows(records[1], [id |-> writer.prev, seq |-> writer.seq])
      /\ \A i \in 2 .. m : Follows(records[i], records[i - 1])
  BY DEF Grows, Chained
<1>4. writer'.seq = records[m].seq /\ writer'.prev = records[m].id
  BY Appended DEF Grows
<1>5. old \in Seq(Records)
  BY OldTyped
<1>6. Places' = Places /\ Places = 0 .. Here
  BY DEF Places, Here
<1> HIDE DEF old, new, n, m
<1>7. new # <<>> /\ Last(new) = records[m]
  <2>1. n + m \in n + 1 .. n + m /\ (n + m) - n = m
    BY <1>1
  <2>2. new # <<>> /\ Last(new) = new[n + m]
    BY <1>1 DEF Last
  <2> QED BY <1>1, <2>1, <2>2
<1>8. ASSUME NEW p \in Places, LastPlace(p) PROVE Follows(records[1], Last(FileAt(p)))
  <2>1. writer.seq = Last(FileAt(p)).seq /\ writer.prev = Last(FileAt(p)).id
    BY <1>8
  <2> QED BY <1>3, <2>1 DEF Follows
<1>9. old # <<>> => n > 0 /\ LastPlace(Here) /\ Last(old) = old[n]
  BY <1>1, <1>2, <1>5 DEF LastPlace, Last, n
<1>10. old = <<>> => n = 0
  BY DEF n
<1>11. \A i \in 2 .. n + m : Follows(new[i], new[i - 1])
  <2>1. ASSUME NEW i \in 2 .. n PROVE Follows(new[i], new[i - 1])
    <3>1. i - 1 \in 1 .. n /\ i \in 1 .. n
      BY <1>1
    <3>2. Follows(old[i], old[i - 1])
      BY <1>2 DEF Within, n
    <3>3. new[i] = old[i] /\ new[i - 1] = old[i - 1]
      BY <1>1, <3>1
    <3> QED BY <3>2, <3>3
  <2>2. ASSUME NEW i \in 2 .. n + m, i = n + 1 PROVE Follows(new[i], new[i - 1])
    <3>1. n > 0 /\ old # <<>>
      BY <1>1, <1>10, <2>2
    <3>2. new[i] = records[1] /\ new[i - 1] = old[n]
      <4>1. n + 1 \in n + 1 .. n + m /\ n \in 1 .. n /\ (n + 1) - n = 1 /\ i - 1 = n
        BY <1>1, <2>2, <3>1
      <4> QED BY <1>1, <2>2, <4>1
    <3>3. Follows(records[1], Last(FileAt(Here)))
      BY <1>2, <1>8, <1>9, <3>1
    <3> QED BY <1>2, <1>9, <3>1, <3>2, <3>3
  <2>3. ASSUME NEW i \in n + 2 .. n + m PROVE Follows(new[i], new[i - 1])
    <3>1. i \in n + 1 .. n + m /\ i - 1 \in n + 1 .. n + m /\ i - n \in 2 .. m /\ (i - 1) - n = (i - n) - 1
      BY <1>1
    <3>2. new[i] = records[i - n] /\ new[i - 1] = records[(i - n) - 1]
      BY <1>1, <3>1
    <3> QED BY <1>3, <3>1, <3>2
  <2>4. \A i \in 2 .. n + m : i \in 2 .. n \/ i = n + 1 \/ i \in n + 2 .. n + m
    BY <1>1
  <2> QED BY <2>1, <2>2, <2>3, <2>4
<1>12. Within'
  <2>1. ASSUME NEW p \in Places, NEW i \in 2 .. Len(FileAt(p)')
        PROVE  Follows(FileAt(p)'[i], FileAt(p)'[i - 1])
    <3>1. CASE p = Here
      BY <1>1, <1>11, <2>1, <3>1 DEF new
    <3>2. CASE p # Here
      BY <1>1, <2>1, <3>2 DEF Within
    <3> QED BY <3>1, <3>2
  <2> QED BY <1>6, <2>1 DEF Within, Follows
<1>13. new[1] = IF old = <<>> THEN records[1] ELSE old[1]
  <2>1. CASE old = <<>>
    <3>1. 1 \in n + 1 .. n + m /\ 1 - n = 1
      BY <1>1, <1>10, <2>1
    <3> QED BY <1>1, <2>1, <3>1
  <2>2. CASE old # <<>>
    <3>1. 1 \in 1 .. n
      BY <1>1, <1>9, <2>2
    <3> QED BY <1>1, <2>2, <3>1
  <2> QED BY <2>1, <2>2
<1>14. ASSUME NEW p \in Places, NEW q \in Places, p < q, FileAt(p)' # <<>>, FileAt(q)' # <<>>,
              \A between \in p + 1 .. q - 1 : FileAt(between)' = <<>>
       PROVE  Follows(FileAt(q)'[1], Last(FileAt(p)'))
  <2>1. p # Here /\ p \in Nat /\ q \in Nat /\ q <= Here
    BY <1>2, <1>14
  <2>2. FileAt(p)' = FileAt(p)
    BY <1>1, <2>1
  <2>3. \A between \in p + 1 .. q - 1 : FileAt(between) = <<>>
    <3>1. ASSUME NEW between \in p + 1 .. q - 1 PROVE FileAt(between) = <<>>
      <4>1. between \in Places /\ between # Here
        BY <1>2, <1>6, <2>1
      <4> QED BY <1>1, <1>14, <4>1
    <3> QED BY <3>1
  <2>4. CASE q # Here
    <3>1. FileAt(q)' = FileAt(q)
      BY <1>1, <2>4
    <3>2. Neighbours(p, q)
      BY <1>14, <2>2, <2>3, <3>1 DEF Neighbours
    <3> QED BY <2>2, <3>1, <3>2 DEF Across
  <2>5. CASE q = Here /\ old # <<>>
    <3>1. Neighbours(p, q)
      BY <1>2, <1>14, <2>2, <2>3, <2>5 DEF Neighbours
    <3>2. Follows(old[1], Last(FileAt(p)))
      BY <1>2, <2>5, <3>1 DEF Across
    <3> QED BY <1>13, <2>2, <2>5, <3>2 DEF new
  <2>6. CASE q = Here /\ old = <<>>
    <3>1. ASSUME NEW r \in Places, r > p PROVE FileAt(r) = <<>>
      <4>1. CASE r = Here
        BY <1>2, <2>6, <4>1
      <4>2. CASE r # Here
        <5>1. r \in p + 1 .. q - 1
          BY <1>2, <2>1, <2>6, <3>1, <4>2
        <5> QED BY <2>3, <5>1
      <4> QED BY <4>1, <4>2
    <3>2. LastPlace(p)
      BY <1>14, <2>2, <3>1 DEF LastPlace
    <3> QED BY <1>8, <1>13, <2>2, <2>6, <3>2 DEF new
  <2> QED BY <2>4, <2>5, <2>6
<1>15. Across'
  BY <1>6, <1>14 DEF Across, Neighbours, Follows
<1>16. ASSUME NEW p \in Places, LastPlace(p)'
       PROVE  writer'.seq = Last(FileAt(p)').seq /\ writer'.prev = Last(FileAt(p)').id
  <2>1. p = Here
    <3>1. \A q \in Places : q > p => FileAt(q)' = <<>>
      BY <1>6, <1>16 DEF LastPlace
    <3>2. ~(Here > p)
      BY <1>2, <1>7, <3>1 DEF new
    <3> QED BY <1>2, <3>2
  <2> QED BY <1>4, <1>7, <2>1 DEF new
<1> QED BY <1>12, <1>15, <1>16

(* A file that becomes the last segment keeps its place in the chain. *)
LEMMA RotatedLinked ==
  ASSUME ChainTypes, RotatedAway, now \notin DOMAIN segments, ReadAll(active) # <<>>, Within, Across
  PROVE  /\ Within' /\ Across' /\ LastPlace(Here)
         /\ \A p \in Places : LastPlace(p)' => FileAt(p)' = ReadAll(active)
<1>1. /\ now \in Places /\ now < Here /\ Here \in Places /\ FileAt(Here) = ReadAll(active)
      /\ Places \subseteq Nat /\ \A p \in Places : p <= Here
  BY PlacesTyped
<1>2. \A p \in Places : p >= now /\ p # Here => FileAt(p) = <<>>
  <2>1. ASSUME NEW p \in Places, p >= now, p # Here PROVE FileAt(p) = <<>>
    <3>1. p \notin DOMAIN segments
      <4>1. p \in DOMAIN segments => p <= now
        BY PlacesTyped
      <4> QED BY <1>1, <2>1, <4>1
    <3> QED BY <2>1, <3>1, PlacesTyped
  <2> QED BY <2>1
<1>3. /\ FileAt(Here)' = <<>> /\ \A p \in Places \ {now, Here} : FileAt(p)' = FileAt(p)
      /\ \A p \in Places : p = now => FileAt(p)' = ReadAll(active)
  <2>1. /\ FileAt(Here)' = <<>> /\ FileAt(now)' = ReadAll(active)
        /\ \A p \in Places \ {now, Here} : FileAt(p)' = FileAt(p)
    BY RotatedPlaces
  <2>2. ASSUME NEW p \in Places, p = now PROVE FileAt(p)' = ReadAll(active)
    <3>1. FileAt(p)' = FileAt(now)'
      BY <2>2 DEF RotatedAway, FileAt
    <3> QED BY <2>1, <3>1
  <2> QED BY <2>1, <2>2
<1>4. Places' = Places /\ Places = 0 .. Here
  BY DEF Places, Here
<1>5. \A p \in Places : p > now => FileAt(p)' = <<>>
  <2>1. ASSUME NEW p \in Places, p > now PROVE FileAt(p)' = <<>>
    <3>1. CASE p = Here
      BY <1>3, <3>1
    <3>2. CASE p # Here
      <4>1. p # now /\ p >= now
        BY <1>1, <2>1
      <4> QED BY <1>2, <1>3, <3>2, <4>1
    <3> QED BY <3>1, <3>2
  <2> QED BY <2>1
<1>6. Within'
  <2>1. ASSUME NEW p \in Places, NEW i \in 2 .. Len(FileAt(p)')
        PROVE  Follows(FileAt(p)'[i], FileAt(p)'[i - 1])
    <3>1. CASE p = now
      <4>1. FileAt(p)' = FileAt(Here)
        BY <1>1, <1>3, <3>1
      <4> QED BY <1>1, <2>1, <4>1 DEF Within
    <3>2. CASE p = Here
      <4>1. Len(FileAt(p)') = 0
        BY <1>3, <3>2
      <4> QED BY <2>1, <4>1
    <3>3. CASE p # now /\ p # Here
      <4>1. FileAt(p)' = FileAt(p)
        BY <1>3, <3>3
      <4> QED BY <2>1, <4>1 DEF Within
    <3> QED BY <3>1, <3>2, <3>3
  <2> QED BY <1>4, <2>1 DEF Within, Follows
<1>7. ASSUME NEW p \in Places, NEW q \in Places, p < q, FileAt(p)' # <<>>, FileAt(q)' # <<>>,
             \A between \in p + 1 .. q - 1 : FileAt(between)' = <<>>
      PROVE  Follows(FileAt(q)'[1], Last(FileAt(p)'))
  <2>1. q <= now /\ p < now /\ p \in Nat /\ q \in Nat
    BY <1>1, <1>5, <1>7
  <2>2. FileAt(p)' = FileAt(p)
    BY <1>1, <1>3, <2>1
  <2>3. ASSUME NEW between \in p + 1 .. q - 1 PROVE between \in Places /\ FileAt(between) = <<>>
    <3>1. between \in Places /\ between < now /\ between # Here
      BY <1>1, <1>4, <2>1
    <3>2. FileAt(between)' = FileAt(between)
      BY <1>1, <1>3, <3>1
    <3> QED BY <1>7, <3>1, <3>2
  <2>4. CASE q < now
    <3>1. FileAt(q)' = FileAt(q)
      BY <1>1, <1>3, <2>4
    <3>2. Neighbours(p, q)
      BY <1>7, <2>2, <2>3, <3>1 DEF Neighbours
    <3> QED BY <2>2, <3>1, <3>2 DEF Across
  <2>5. CASE q = now
    <3>1. FileAt(q)' = FileAt(Here)
      BY <1>1, <1>3, <2>5
    <3>2. ASSUME NEW between \in p + 1 .. Here - 1 PROVE FileAt(between) = <<>>
      <4>1. between \in Places /\ between # Here /\ (between >= now \/ between \in p + 1 .. q - 1)
        BY <1>1, <1>4, <2>1, <2>5
      <4> QED BY <1>2, <2>3, <4>1
    <3>3. p < Here /\ FileAt(Here) # <<>>
      BY <1>1, <2>1
    <3>4. Neighbours(p, Here)
      BY <1>7, <2>2, <3>2, <3>3 DEF Neighbours
    <3>5. Follows(FileAt(Here)[1], Last(FileAt(p)))
      BY <1>1, <3>4 DEF Across
    <3> QED BY <2>2, <3>1, <3>5
  <2>6. q < now \/ q = now
    BY <1>1, <2>1
  <2> QED BY <2>4, <2>5, <2>6
<1>8. Across'
  BY <1>4, <1>7 DEF Across, Neighbours, Follows
<1>9. LastPlace(Here)
  <2>1. \A q \in Places : ~(q > Here)
    BY <1>1
  <2> QED BY <1>1, <2>1 DEF LastPlace
<1>10. ASSUME NEW p \in Places, LastPlace(p)' PROVE FileAt(p)' = ReadAll(active)
  <2>1. FileAt(p)' # <<>> /\ \A q \in Places : q > p => FileAt(q)' = <<>>
    BY <1>4, <1>10 DEF LastPlace
  <2>2. ~(p > now) /\ ~(now > p)
    <3>1. FileAt(now)' = ReadAll(active)
      BY RotatedPlaces
    <3>2. ASSUME now > p PROVE FALSE
      <4>1. PICK q : q = now
        OBVIOUS
      <4>2. FileAt(q)' = ReadAll(active) /\ q > p /\ q \in Places
        BY <1>1, <1>3, <3>2, <4>1
      <4> QED BY <2>1, <4>2
    <3> QED BY <1>5, <2>1, <3>2
  <2>3. p = now
    BY <1>1, <2>2
  <2> QED BY <1>3, <2>3
<1> QED BY <1>6, <1>8, <1>9, <1>10

LEMMA LinkedInvNext ==
  ASSUME ChainTypes, ActiveInv, StepInv, ReadableInv, LinkedInv, [SegmentsNext]_segmentsVars
  PROVE  LinkedInv'
<1> USE DEF writerVars, segmentVars, readerVars, NoUpset
<1> SUFFICES ASSUME Sound' PROVE LinkedInv'
  BY DEF LinkedInv
<1> DEFINE AtHead == \A p \in Places : LastPlace(p) =>
             writer.seq = Last(FileAt(p)).seq /\ writer.prev = Last(FileAt(p)).id
           Fresh == (pc = "down" \/ (pc = "boot" /\ inFlight = 0)) /\ ReadAll(active) = <<>>
<1>1. Sound
  <2>1. overwritten \subseteq overwritten'
    <3>1. ASSUME NEW records, Grows(records) PROVE overwritten' = overwritten
      BY <3>1 DEF Grows, AppendAll
    <3> QED BY <3>1, FileSteps DEF RotatedAway, Rests
  <2> QED BY <2>1, UpsetsGrow DEF Sound
<1>2. Reading
  BY <1>1 DEF Sound, Reading
<1>3. /\ Within /\ Across /\ \A p \in DOMAIN segments : segments[p].records # <<>>
      /\ pc # "down" => AtHead
      /\ Fresh => DOMAIN segments = {}
  BY <1>1 DEF LinkedInv
<1>4. Places' = Places
  BY DEF Places
<1>5. ASSUME NEW records, Grows(records) PROVE LinkedInv'
  <2>1. active # Absent /\ active.header /\ pc # "down"
    BY <1>2, <1>5 DEF Grows, ReadableInv
  <2>2. /\ Within' /\ Across'
        /\ \A p \in Places : LastPlace(p)' =>
             writer'.seq = Last(FileAt(p)').seq /\ writer'.prev = Last(FileAt(p)').id
    BY <1>3, <1>5, <2>1, GrowsLinked
  <2>3. segments' = segments /\ pc' \in {"up", "rotate"}
    BY <1>5 DEF Grows, AppendAll
  <2> QED BY <1>3, <1>4, <2>2, <2>3 DEF LinkedInv
<1>6. CASE RotatedAway
  <2>1. pc = "closed" /\ pc' = "renamed" /\ writer' = writer /\ active # Absent /\ active.records # <<>>
    BY <1>6 DEF RotatedAway, StepInv
  <2>2. active.header /\ ReadAll(active) # <<>>
    BY <1>2, <2>1 DEF ReadAll, ReadableInv
  <2>3. now \notin DOMAIN segments
    <3>1. SUFFICES ASSUME now \in DOMAIN segments PROVE FALSE
      OBVIOUS
    <3> DEFINE s == segments[now].records
    <3>2. s \in Seq(Records) /\ s # <<>>
      BY <1>3, <3>1 DEF ChainTypes, Files
    <3>3. overwritten' = overwritten \union ToSet(Ids(s)) /\ overwritten' = {}
      BY <1>6, <3>1 DEF RotatedAway, Sound
    <3> HIDE DEF s
    <3>4. 1 \in 1 .. Len(Ids(s)) /\ Ids(s) \in Seq(Nat)
      BY <3>2, IdsTyped
    <3>5. Ids(s)[1] \in ToSet(Ids(s))
      BY <3>4 DEF ToSet
    <3> QED BY <3>3, <3>5
  <2>4. /\ Within' /\ Across' /\ LastPlace(Here)
        /\ \A p \in Places : LastPlace(p)' => FileAt(p)' = ReadAll(active)
    BY <1>3, <1>6, <2>2, <2>3, RotatedLinked
  <2>5. writer.seq = Last(ReadAll(active)).seq /\ writer.prev = Last(ReadAll(active)).id
    BY <1>3, <2>1, <2>4, PlacesTyped
  <2>6. \A p \in DOMAIN segments' : segments'[p].records # <<>>
    BY <1>3, <1>6, <2>1, RotatedPlaces
  <2>7. \A p \in Places : LastPlace(p)' =>
          writer'.seq = Last(FileAt(p)').seq /\ writer'.prev = Last(FileAt(p)').id
    BY <2>1, <2>4, <2>5
  <2> QED BY <1>4, <2>1, <2>4, <2>6, <2>7 DEF LinkedInv
<1>7. CASE Rests /\ (Begins \/ active' = active) /\ ~\E records : Grows(records)
  <2>1. /\ Within' /\ Across' /\ \A p \in Places : LastPlace(p)' <=> LastPlace(p)
        /\ ReadAll(active)' = ReadAll(active) /\ \A p \in Places : FileAt(p)' = FileAt(p)
        /\ segments' = segments
    BY <1>3, <1>7, RestsLinked, RestsPlaces DEF Rests
  <2>2. ASSUME pc' # "down", NEW p \in Places, LastPlace(p)
        PROVE  writer'.seq = Last(FileAt(p)).seq /\ writer'.prev = Last(FileAt(p)).id
    <3>1. CASE pc # "down" /\ writer'.seq = writer.seq /\ writer'.prev = writer.prev
      BY <1>3, <2>2, <3>1
    <3>2. CASE Start
      <4>1. pc = "down" /\ ReadAll(active) # <<>>
        <5>1. pc = "down"
          BY <3>2 DEF Start
        <5>2. SUFFICES ASSUME ReadAll(active) = <<>> PROVE FALSE
          BY <5>1
        <5>3. DOMAIN segments = {}
          BY <1>3, <5>1, <5>2
        <5>4. FileAt(p) = <<>>
          BY <5>2, <5>3, PlacesTyped
        <5> QED BY <2>2, <5>4 DEF LastPlace
      <4>2. writer'.seq = Last(ReadAll(active)).seq /\ writer'.prev = Last(ReadAll(active)).id
        BY <3>2, <4>1 DEF Start
      <4>3. p = Here
        <5>1. Here \in Places /\ FileAt(Here) # <<>> /\ p <= Here /\ Here \in Nat /\ p \in Nat
          BY <4>1, PlacesTyped
        <5>2. ~(Here > p)
          BY <2>2, <5>1 DEF LastPlace
        <5> QED BY <5>1, <5>2
      <4> QED BY <4>2, <4>3, PlacesTyped
    <3> QED BY <1>7, <2>2, <3>1, <3>2, HeadSteps
  <2>3. (pc' = "down" \/ (pc' = "boot" /\ inFlight' = 0)) /\ ReadAll(active) = <<>> => Fresh
    <3>1. CASE CloseForRotation \/ Rename \/ Tick
      BY <3>1 DEF CloseForRotation, Rename, Tick
    <3>2. CASE Reopen
      <4>1. ~Upset("reopen")
        BY <1>2, UpsetsGrow DEF Upset, Sound
      <4>2. pc = "renamed" /\ pc' = "boot" /\ inFlight' = inFlight
        BY <3>2, <4>1 DEF Reopen
      <4> QED BY <4>2 DEF StepInv
    <3>3. CASE EmitBootRecord
      <4>1. pc = "boot"
        BY <3>3 DEF EmitBootRecord
      <4>2. CASE inFlight = 0
        BY <4>1, <4>2
      <4>3. CASE inFlight # 0
        <5>1. pc' = "up"
          <6>1. CASE CallFails
            BY <6>1 DEF CallFails
          <6> QED BY <3>3, <4>3, <6>1 DEF EmitBootRecord
        <5> QED BY <5>1
      <4> QED BY <4>2, <4>3
    <3>4. CASE KillRecorder
      <4>1. ReadAll(active) # <<>>
        <5>1. SUFFICES ASSUME ReadAll(active) = <<>> PROVE FALSE
          OBVIOUS
        <5>2. "killed empty" \in upsets'
          BY <3>4, <5>1 DEF KillRecorder, Upset
        <5> QED BY <5>2 DEF Sound
      <4> QED BY <4>1
    <3>5. CASE Start
      BY <3>5 DEF Start
    <3>6. CASE RecordAction
      BY <3>6 DEF RecordAction
    <3>7. CASE UNCHANGED <<writerVars, segmentVars, now, trouble, upsets>>
      BY <3>7
    <3> QED BY <3>1, <3>2, <3>3, <3>4, <3>5, <3>6, <3>7, WhoSteps DEF RecorderNext, segmentsVars
  <2>4. pc' # "down" => \A p \in Places : LastPlace(p)' =>
          writer'.seq = Last(FileAt(p)').seq /\ writer'.prev = Last(FileAt(p)').id
    BY <2>1, <2>2
  <2> QED BY <1>3, <1>4, <2>1, <2>3, <2>4 DEF LinkedInv
<1> QED BY <1>5, <1>6, <1>7, FileSteps

-----------------------------------------------------------------------------
(* Segments: what tail shows.                                              *)

(* The records at the path. *)
LEMMA ActiveRecords ==
  ASSUME ChainTypes, ActiveInv, active # Absent
  PROVE  /\ active \in Files /\ active.records = Old /\ Old \in Seq(Records) /\ Len(Old) \in Nat
         /\ Len(Old) <= MaxRecords /\ nextId \in Nat
         /\ \A i \in 1 .. Len(Old) : Old[i].id \in Nat /\ Old[i].id < nextId
         /\ \A i, j \in 1 .. Len(Old) : i < j => Old[i].id < Old[j].id
         /\ \A i \in 2 .. Len(Old) : Old[i].id = Old[i - 1].id + 1
         /\ Old # <<>> => Old[1].id \in firsts
<1>1. /\ active \in Files /\ active.records = Old /\ Old \in Seq(Records) /\ Len(Old) \in Nat
      /\ nextId \in 1 .. MaxRecords + 1 /\ nextId \in Nat /\ MaxRecords \in Nat
  <2>1. nextId \in 1 .. MaxRecords + 1 /\ nextId \in Nat /\ MaxRecords \in Nat
    BY SegmentsBounds DEF ChainTypes
  <2> QED BY <2>1, OldTyped
<1>2. /\ Len(Old) < nextId /\ \A i \in 1 .. Len(Old) : Old[i].id + Len(Old) + 1 = nextId + i
      /\ Old # <<>> => Old[1].id \in firsts
  BY <1>1 DEF ActiveInv
<1>3. \A i \in 1 .. Len(Old) : Old[i].id \in Nat
  <2>1. \A i \in 1 .. Len(Old) : Old[i] \in Records
    BY <1>1, ElementOfSeq
  <2> QED BY <2>1 DEF Records
<1> DEFINE n == Len(Old)
<1>4. n \in Nat /\ n < nextId /\ nextId \in Nat /\ \A i \in 1 .. n : Old[i].id \in Nat /\ Old[i].id + n + 1 = nextId + i
  BY <1>1, <1>2, <1>3
<1> HIDE DEF n
<1>5. \A i \in 1 .. n : Old[i].id < nextId
  BY <1>4
<1>6. ASSUME NEW i \in 1 .. n, NEW j \in 1 .. n, i < j PROVE Old[i].id < Old[j].id
  <2>1. PICK a \in Nat : a = Old[i].id /\ a + n + 1 = nextId + i
    BY <1>4
  <2>2. PICK b \in Nat : b = Old[j].id /\ b + n + 1 = nextId + j
    BY <1>4
  <2>3. a < b
    BY <1>4, <1>6, <2>1, <2>2
  <2> QED BY <2>1, <2>2, <2>3
<1>7. ASSUME NEW i \in 2 .. n PROVE Old[i].id = Old[i - 1].id + 1
  <2>1. i \in 1 .. n /\ i - 1 \in 1 .. n
    BY <1>4
  <2>2. PICK a \in Nat : a = Old[i].id /\ a + n + 1 = nextId + i
    BY <1>4, <2>1
  <2>3. PICK b \in Nat : b = Old[i - 1].id /\ b + n + 1 = nextId + (i - 1)
    BY <1>4, <2>1
  <2>4. a = b + 1
    BY <1>4, <2>2, <2>3
  <2> QED BY <2>2, <2>3, <2>4
<1>8. n <= MaxRecords
  BY <1>1, <1>4
<1> QED BY <1>1, <1>2, <1>3, <1>5, <1>6, <1>7, <1>8 DEF n

(* What the recorder does tail has to live with. *)
LEMMA TailWatches ==
  ASSUME ChainTypes, ActiveInv, TailTypes, TailInv, [SegmentsNext]_segmentsVars,
         UNCHANGED <<tail, printed>>
  PROVE  TailInv'
<1>1. /\ tail.generation \in Nat /\ generation \in Nat /\ nextId \in Nat /\ Len(printed) \in Nat
      /\ \A j \in 1 .. Len(printed) : printed[j] \in Nat
  <2>1. printed \in Seq(Nat) /\ tail.generation \in Nat
    BY DEF TailTypes
  <2> QED BY <2>1, SegmentsBounds, ElementOfSeq DEF ChainTypes
<1>2. /\ tail.generation <= generation
      /\ tail.state \in {"never", "off"} => printed = <<>>
      /\ \A j \in 1 .. Len(printed) : printed[j] < nextId
      /\ tail.offset <= HeaderSize + 2 * MaxRecords
      /\ TailFollows
  BY DEF TailInv
<1>3. firsts \subseteq firsts' => TailFollows'
  BY <1>2 DEF TailFollows, TailInOrder, TailSkipsOnlyEnds
<1>4. ASSUME NEW records, Grows(records) PROVE TailInv'
  <2> DEFINE n == Len(Old)
             m == Len(records)
             new == active'.records
  <2>1. Chained(records) /\ AppendAll(records)
    BY <1>4 DEF Grows
  <2>2. /\ m \in Nat \ {0} /\ nextId' = nextId + m /\ active' # Absent /\ Len(new) = n + m
        /\ \A i \in 1 .. n : new[i] = Old[i]
        /\ \A i \in n + 1 .. n + m : new[i] = records[i - n]
        /\ active'.header <=> (active # Absent /\ active.header)
        /\ active # Absent => active' = [active EXCEPT !.records = @ \o records]
        /\ firsts' = IF Old = <<>> THEN firsts \union {nextId} ELSE firsts
        /\ generation' = generation
    BY <2>1, Appended
  <2>3. records \in Seq(Records) /\ \A i \in 1 .. m : records[i].id + 1 = nextId + i
    BY <2>1 DEF Chained
  <2>4. \A i \in 1 .. m : records[i].id \in Nat
    <3>1. \A i \in 1 .. m : records[i] \in Records
      BY <2>3, ElementOfSeq
    <3> QED BY <3>1 DEF Records
  <2>5. n \in Nat
    BY OldTyped
  <2> HIDE DEF n, m, new
  <2>6. ASSUME NEW i \in n + 1 .. n + m, NEW j \in 1 .. Len(printed) PROVE printed[j] < new[i].id
    <3>1. i - n \in 1 .. m /\ new[i] = records[i - n]
      BY <2>2, <2>5
    <3>2. PICK a \in Nat : a = new[i].id /\ a + 1 = nextId + (i - n)
      BY <2>3, <2>4, <3>1 DEF m
    <3>3. printed[j] < a
      BY <1>1, <1>2, <2>5, <3>1, <3>2
    <3> QED BY <3>2, <3>3
  <2>7. ASSUME NEW k \in 0 .. n,
               \A i \in k + 1 .. n, j \in 1 .. Len(printed) : printed[j] < Old[i].id
        PROVE  \A i \in k + 1 .. n + m, j \in 1 .. Len(printed) : printed[j] < new[i].id
    <3>1. ASSUME NEW i \in k + 1 .. n + m, NEW j \in 1 .. Len(printed) PROVE printed[j] < new[i].id
      <4>1. CASE i \in n + 1 .. n + m
        BY <2>6, <4>1
      <4>2. CASE i \in k + 1 .. n
        <5>1. i \in 1 .. n
          BY <2>5, <4>2
        <5> QED BY <2>2, <2>7, <4>2, <5>1
      <4> QED BY <2>2, <2>5, <4>1, <4>2
    <3> QED BY <3>1
  <2>8. ASSUME active # Absent, NEW k, Shown(k)
        PROVE  k \in 0 .. n /\ Shown(k)' /\ (Following(k) => Following(k)')
    <3>1. active.records = Old /\ active \in Files
      BY <2>8, OldTyped
    <3>2. /\ k \in 0 .. n /\ tail.offset = Bytes(Cut(active, k))
          /\ \A i \in k + 1 .. n, j \in 1 .. Len(printed) : printed[j] < Old[i].id
      BY <2>8, <3>1 DEF Shown, Cut, n
    <3>3. \A i \in k + 1 .. n + m, j \in 1 .. Len(printed) : printed[j] < new[i].id
      BY <2>7, <3>2
    <3>4. Cut(active', k) = Cut(active, k)
      BY <2>2, <2>3, <2>8, <3>1, <3>2, CutAppended DEF n
    <3>5. k \in 0 .. Len(new)
      BY <2>2, <2>5, <3>2
    <3>6. tail'.offset = Bytes([active' EXCEPT !.records = SubSeq(@, 1, k)])
      BY <3>2, <3>4 DEF Cut
    <3>7. Shown(k)'
      BY <2>2, <3>3, <3>5, <3>6 DEF Shown, new
    <3>8. Following(k) => Following(k)'
      <4>1. k > 0 => new[k] = active.records[k]
        BY <2>2, <2>5, <3>1, <3>2
      <4> QED BY <4>1 DEF Following, new
    <3> QED BY <3>2, <3>7, <3>8
  <2>9. ASSUME active = Absent \/ \A i \in 1 .. n, j \in 1 .. Len(printed) : printed[j] < Old[i].id
        PROVE  \A i \in 1 .. Len(new), j \in 1 .. Len(printed) : printed[j] < new[i].id
    <3>1. \A i \in 1 .. n, j \in 1 .. Len(printed) : printed[j] < Old[i].id
      <4>1. CASE active = Absent
        BY <4>1 DEF Old, n
      <4> QED BY <2>9, <4>1
    <3>2. 0 \in 0 .. n /\ 0 + 1 = 1
      BY <2>5
    <3> QED BY <2>2, <2>7, <3>1, <3>2
  <2>10. \/ \E k \in 0 .. Len(new) : Shown(k)'
         \/ \A i \in 1 .. Len(new), j \in 1 .. Len(printed) : printed[j] < new[i].id
    <3>1. CASE active = Absent \/ \A i \in 1 .. n, j \in 1 .. Len(printed) : printed[j] < Old[i].id
      BY <2>9, <3>1
    <3>2. CASE active # Absent /\ \E k \in 0 .. Len(active.records) : Shown(k)
      <4>1. PICK k : Shown(k)
        BY <3>2
      <4>2. k \in 0 .. Len(new) /\ Shown(k)'
        BY <2>2, <2>5, <2>8, <3>2, <4>1
      <4> QED BY <4>2
    <3>3. active # Absent => active.records = Old
      BY OldTyped
    <3> QED BY <3>1, <3>2, <3>3 DEF TailInv, n
  <2>11. ASSUME tail.state \notin {"never", "off"}, tail.generation = generation, active'.header
         PROVE  \E k \in 0 .. Len(new) : Shown(k)' /\ Following(k)'
    <3>1. active # Absent /\ \E k \in 0 .. Len(active.records) : Shown(k) /\ Following(k)
      BY <2>2, <2>11 DEF TailInv
    <3>2. PICK k : Shown(k) /\ Following(k)
      BY <3>1
    <3>3. k \in 0 .. Len(new) /\ Shown(k)' /\ Following(k)'
      BY <2>2, <2>5, <2>8, <3>1, <3>2
    <3> QED BY <3>3
  <2>12. \A j \in 1 .. Len(printed) : printed[j] < nextId'
    BY <1>1, <1>2, <2>2
  <2>13. TailFollows'
    BY <1>3, <2>2
  <2> QED BY <1>2, <2>2, <2>10, <2>11, <2>12, <2>13 DEF TailInv, new
<1>5. CASE RotatedAway
  <2>1. active' = Absent /\ generation' = generation + 1 /\ nextId' = nextId /\ firsts' = firsts
    BY <1>5 DEF RotatedAway
  <2>2. tail.generation <= generation' /\ tail.generation # generation'
    BY <1>1, <1>2, <2>1
  <2> QED BY <1>2, <1>3, <2>1, <2>2 DEF TailInv
<1>6. CASE Rests /\ Begins
  <2>1. PICK header \in BOOLEAN : active' = NewFile(header) /\ active = Absent
    BY <1>6 DEF Begins
  <2>2. active'.records = <<>> /\ Len(active'.records) = 0
    BY <2>1, NewFileTyped
  <2>3. generation' = generation /\ nextId' = nextId /\ firsts' = firsts
    BY <1>6 DEF Rests
  <2>4. ~(tail.state \notin {"never", "off"} /\ tail.generation = generation)
    BY <2>1 DEF TailInv
  <2> QED BY <1>2, <1>3, <2>2, <2>3, <2>4 DEF TailInv
<1>7. CASE Rests /\ active' = active
  <2>1. UNCHANGED <<active, generation, nextId, firsts, tail, printed>>
    BY <1>7 DEF Rests
  <2>2. \A k : (Shown(k)' <=> Shown(k)) /\ (Following(k)' <=> Following(k))
    BY <2>1 DEF Shown, Following
  <2>3. TailFollows'
    BY <1>3, <2>1
  <2> QED BY <2>1, <2>2, <2>3 DEF TailInv
<1> QED BY <1>4, <1>5, <1>6, <1>7, FileSteps

(* An offset stands for one place to cut a file at most. *)
LEMMA CutsDiffer ==
  ASSUME NEW f \in Files, NEW k \in 0 .. Len(f.records), NEW m \in 0 .. Len(f.records),
         Bytes(Cut(f, k)) = Bytes(Cut(f, m))
  PROVE  k = m
<1>1. Len(f.records) \in Nat
  BY DEF Files
<1>2. Bytes(Cut(f, k)) \in Nat /\ Bytes(Cut(f, m)) \in Nat
  BY CutIsFile, BytesBounds
<1>3. ~(k < m)
  <2>1. k < m => Bytes(Cut(f, k)) < Bytes(Cut(f, m))
    BY CutsGrow
  <2> QED BY <1>2, <2>1
<1>4. ~(m < k)
  <2>1. m < k => Bytes(Cut(f, m)) < Bytes(Cut(f, k))
    BY CutsGrow
  <2> QED BY <1>2, <2>1
<1> QED BY <1>1, <1>3, <1>4

LEMMA TailStartInv ==
  ASSUME ChainTypes, ActiveInv, TailTypes, TailInv, TailStart
  PROVE  TailTypes' /\ TailInv'
<1>1. /\ active # Absent /\ active.header /\ tail.state = "off" /\ printed' = printed \o Ids(active.records)
      /\ tail' = [state |-> "poll", offset |-> Bytes(active), generation |-> generation, stale |-> FALSE]
      /\ UNCHANGED <<active, generation, nextId, firsts>>
  BY DEF TailStart, TailOnly, Show, writerVars, segmentVars
<1>2. printed = <<>>
  BY <1>1 DEF TailInv
<1>3. PICK n : n = Len(Old)
  OBVIOUS
<1>4. /\ active \in Files /\ active.records = Old /\ Old \in Seq(Records) /\ n \in Nat
      /\ n <= MaxRecords /\ nextId \in Nat
      /\ \A i \in 1 .. n : Old[i].id \in Nat /\ Old[i].id < nextId
      /\ \A i, j \in 1 .. n : i < j => Old[i].id < Old[j].id
      /\ \A i \in 2 .. n : Old[i].id = Old[i - 1].id + 1
  BY <1>1, <1>3, ActiveRecords
<1>5. /\ printed' \in Seq(Nat) /\ Len(printed') = n /\ \A i \in 1 .. n : printed'[i] = Old[i].id
  <2>1. /\ Ids(Old) \in Seq(Nat) /\ Len(Ids(Old)) = n
        /\ \A i \in 1 .. n : Ids(Old)[i] = Old[i].id
    BY <1>3, <1>4, IdsTyped
  <2>2. printed' = Ids(Old)
    BY <1>1, <1>2, <1>4, <2>1
  <2> QED BY <2>1, <2>2
<1>6. Bytes(active) \in Nat /\ Bytes(active) <= HeaderSize + 2 * MaxRecords
  <2>1. Bytes(active) \in Nat /\ Bytes(active) <= HeaderSize + 2 * n
    BY <1>3, <1>4, BytesBounds
  <2>2. n \in Nat /\ n <= MaxRecords /\ MaxRecords \in Nat
    BY <1>4, SegmentsBounds
  <2> QED BY <2>1, <2>2 DEF HeaderSize
<1>7. TailTypes'
  <2>1. generation \in Nat
    BY DEF ChainTypes
  <2>2. PICK b \in Nat : b = Bytes(active)
    BY <1>6
  <2> QED BY <1>1, <1>5, <2>1, <2>2 DEF TailTypes
<1>8. active'.records = Old /\ Len(active'.records) = n
  BY <1>1, <1>3, <1>4
<1>9. Shown(n)' /\ Following(n)'
  <2>1. Cut(active, n) = active
    BY <1>3, <1>4, CutEnds
  <2>2. tail'.offset = Bytes([active' EXCEPT !.records = SubSeq(@, 1, n)])
    BY <1>1, <2>1 DEF Cut
  <2>3. n \in 0 .. Len(active'.records) /\ \A i \in n + 1 .. Len(active'.records) : FALSE
    BY <1>4, <1>8
  <2>4. Shown(n)'
    BY <2>2, <2>3 DEF Shown
  <2>5. ASSUME n > 0 PROVE printed' # <<>> /\ Last(printed') = active'.records[n].id
    <3>1. n \in 1 .. n /\ printed' # <<>>
      BY <1>4, <1>5, <2>5
    <3> QED BY <1>5, <1>8, <3>1 DEF Last
  <2> QED BY <2>4, <2>5 DEF Following
<1>10. TailFollows'
  <2>1. DOMAIN printed' = 1 .. n
    BY <1>5
  <2>2. ASSUME NEW i \in 1 .. n, NEW j \in 1 .. n, i < j PROVE printed'[i] < printed'[j]
    BY <1>4, <1>5, <2>2
  <2>3. TailInOrder'
    BY <2>1, <2>2 DEF TailInOrder
  <2>4. ASSUME NEW i \in 2 .. n PROVE printed'[i] = printed'[i - 1] + 1
    <3>1. i \in 1 .. n /\ i - 1 \in 1 .. n
      BY <1>4
    <3> QED BY <1>4, <1>5, <3>1
  <2> QED BY <1>5, <2>3, <2>4 DEF TailFollows, TailSkipsOnlyEnds
<1>11. \A j \in 1 .. Len(printed') : printed'[j] < nextId'
  BY <1>1, <1>4, <1>5
<1>12. n \in 0 .. Len(active'.records)
  BY <1>4, <1>8
<1>13. /\ tail'.state = "poll" /\ tail'.generation <= generation'
       /\ tail'.offset <= HeaderSize + 2 * MaxRecords /\ active' # Absent
  <2>1. tail'.state = "poll" /\ tail'.generation = generation /\ tail'.offset = Bytes(active)
    BY <1>1
  <2>2. generation \in Nat /\ generation' = generation /\ active' # Absent
    BY <1>1 DEF ChainTypes
  <2> QED BY <1>6, <2>1, <2>2
<1> QED BY <1>7, <1>9, <1>10, <1>11, <1>12, <1>13 DEF TailInv

LEMMA TailStatInv ==
  ASSUME ChainTypes, ActiveInv, TailTypes, TailInv, TailStat
  PROVE  TailTypes' /\ TailInv'
<1>1. active # Absent /\ UNCHANGED <<active, generation, nextId, firsts, printed>> /\ tail.state = "poll"
  BY DEF TailStat, TailOnly, writerVars, segmentVars
<1>2. /\ active \in Files /\ active.records = Old /\ Len(Old) \in Nat /\ generation \in Nat
      /\ active.header \in BOOLEAN
  BY <1>1, ActiveRecords, OldTyped DEF ChainTypes
<1>3. Bytes(active) \in Nat /\ tail.offset \in Nat /\ tail.generation \in Nat /\ HeaderSize \in Nat
      /\ MaxRecords \in Nat
  BY <1>2, BytesBounds, SegmentsBounds DEF TailTypes, HeaderSize
<1> DEFINE n == Len(Old)
<1>4. PICK offset \in Nat : offset = IF Bytes(active) < tail.offset THEN HeaderSize ELSE tail.offset
  BY <1>3
<1>5. tail' = [tail EXCEPT !.state = IF Bytes(active) > offset THEN "read" ELSE "poll",
                           !.offset = offset,
                           !.generation = IF offset = HeaderSize THEN generation ELSE @]
  BY <1>4 DEF TailStat
<1>6. /\ tail'.state \in {"read", "poll"} /\ tail'.offset = offset /\ tail'.stale = tail.stale
      /\ tail'.generation = IF offset = HeaderSize THEN generation ELSE tail.generation
      /\ TailTypes'
  <2>1. PICK state : state = IF Bytes(active) > offset THEN "read" ELSE "poll"
    OBVIOUS
  <2>2. PICK gen : gen = IF offset = HeaderSize THEN generation ELSE tail.generation
    OBVIOUS
  <2>3. state \in {"read", "poll"} /\ gen \in Nat
    BY <1>2, <1>3, <2>1, <2>2
  <2>4. tail' = [tail EXCEPT !.state = state, !.offset = offset, !.generation = gen]
    BY <1>5, <2>1, <2>2 DEF TailTypes
  <2>5. tail'.state = state /\ tail'.offset = offset /\ tail'.stale = tail.stale /\ tail'.generation = gen
    BY <2>4 DEF TailTypes
  <2>6. TailTypes'
    BY <1>1, <2>3, <2>4 DEF TailTypes
  <2> QED BY <2>2, <2>3, <2>5, <2>6
<1> DEFINE Above(k) == \A i \in k + 1 .. n, j \in 1 .. Len(printed) : printed[j] < Old[i].id
<1>7. \A k : Shown(k) <=> k \in 0 .. n /\ tail.offset = Bytes(Cut(active, k)) /\ Above(k)
  BY <1>2 DEF Shown, Cut
<1>8. \A k : Shown(k)' <=> k \in 0 .. n /\ offset = Bytes(Cut(active, k)) /\ Above(k)
  BY <1>1, <1>2, <1>6 DEF Shown, Cut
<1>9. \A k : Following(k)' <=> Following(k)
  BY <1>1 DEF Following
<1> HIDE DEF Above, n
<1>10. (\E k \in 0 .. n : Shown(k)) \/ Above(0)
  <2>1. (\E k \in 0 .. n : Shown(k)) \/ \A i \in 1 .. n, j \in 1 .. Len(printed) : printed[j] < Old[i].id
    BY <1>1, <1>2 DEF TailInv, n
  <2>2. 0 + 1 = 1
    OBVIOUS
  <2> QED BY <2>1, <2>2 DEF Above
<1>11. n \in Nat /\ 0 \in 0 .. n
  BY <1>2 DEF n
(* A file that shrank is not one of which some was shown. *)
<1>12. ASSUME Bytes(active) < tail.offset, NEW k, Shown(k) PROVE FALSE
  <2>1. k \in 0 .. n /\ tail.offset = Bytes(Cut(active, k))
    BY <1>7, <1>12
  <2>2. Cut(active, n) = active
    BY <1>2, CutEnds DEF n
  <2>3. k < n => Bytes(Cut(active, k)) < Bytes(Cut(active, n))
    BY <1>2, <1>11, <2>1, CutsGrow DEF n
  <2>4. Bytes(Cut(active, k)) <= Bytes(active)
    BY <1>3, <1>11, <2>1, <2>2, <2>3
  <2> QED BY <1>3, <1>12, <2>1, <2>4
<1>13. ASSUME offset = HeaderSize, active.header PROVE Shown(0)' /\ Following(0)'
  <2>1. Bytes(Cut(active, 0)) = HeaderSize
    BY <1>2, <1>13, CutEnds
  <2>2. Above(0)
    <3>1. CASE Bytes(active) < tail.offset
      BY <1>10, <1>12, <3>1
    <3>2. CASE ~(Bytes(active) < tail.offset)
      <4>1. tail.offset = HeaderSize
        BY <1>4, <1>13, <3>2
      <4>2. ASSUME NEW k \in 0 .. n, Shown(k) PROVE k = 0
        BY <1>2, <1>7, <1>11, <2>1, <4>1, <4>2, CutsDiffer DEF n
      <4>3. \A k : Shown(k) => Above(k)
        BY <1>7
      <4> QED BY <1>10, <4>2, <4>3
    <3> QED BY <3>1, <3>2
  <2>3. Following(0)
    BY DEF Following
  <2> QED BY <1>8, <1>9, <1>11, <1>13, <2>1, <2>2, <2>3
<1>14. (\E k \in 0 .. n : Shown(k)') \/ Above(0)
  <2>1. CASE Bytes(active) < tail.offset
    BY <1>10, <1>12, <2>1
  <2>2. CASE ~(Bytes(active) < tail.offset)
    <3>1. offset = tail.offset
      BY <1>4, <2>2
    <3>2. \A k : Shown(k) => Shown(k)'
      BY <1>7, <1>8, <3>1
    <3> QED BY <1>10, <3>2
  <2> QED BY <2>1, <2>2
<1>15. ASSUME tail'.generation = generation, active.header
       PROVE  \E k \in 0 .. n : Shown(k)' /\ Following(k)'
  <2>1. CASE offset = HeaderSize
    BY <1>11, <1>13, <1>15, <2>1
  <2>2. CASE offset # HeaderSize
    <3>1. tail.generation = generation /\ offset = tail.offset
      BY <1>4, <1>6, <1>15, <2>2
    <3>2. PICK k \in 0 .. n : Shown(k) /\ Following(k)
      BY <1>1, <1>2, <1>15, <3>1 DEF TailInv, n
    <3> QED BY <1>7, <1>8, <1>9, <3>1, <3>2
  <2> QED BY <2>1, <2>2
<1>16. /\ tail'.generation <= generation' /\ tail'.offset <= HeaderSize + 2 * MaxRecords
       /\ \A j \in 1 .. Len(printed') : printed'[j] < nextId'
       /\ tail'.state \notin {"never", "off"} /\ active' # Absent
  <2>1. /\ tail.generation <= generation /\ tail.offset <= HeaderSize + 2 * MaxRecords
        /\ \A j \in 1 .. Len(printed) : printed[j] < nextId
    BY DEF TailInv
  <2>2. tail'.generation <= generation'
    BY <1>1, <1>2, <1>6, <2>1
  <2>3. offset <= HeaderSize + 2 * MaxRecords
    BY <1>3, <1>4, <2>1
  <2> QED BY <1>1, <1>6, <2>1, <2>2, <2>3
<1>17. TailFollows'
  <2>1. TailFollows
    BY DEF TailInv
  <2> QED BY <1>1, <1>6, <2>1 DEF TailFollows, TailInOrder, TailSkipsOnlyEnds
<1>18. \/ \E k \in 0 .. Len(active'.records) : Shown(k)'
       \/ \A i \in 1 .. Len(active'.records), j \in 1 .. Len(printed') : printed'[j] < active'.records[i].id
  <2>1. 0 + 1 = 1
    OBVIOUS
  <2> QED BY <1>1, <1>2, <1>14, <2>1 DEF Above, n
<1>19. tail'.generation = generation' /\ active'.header => \E k \in 0 .. Len(active'.records) : Shown(k)' /\ Following(k)'
  BY <1>1, <1>2, <1>15 DEF n
<1> QED BY <1>6, <1>16, <1>17, <1>18, <1>19 DEF TailInv

LEMMA TailReadInv ==
  ASSUME ChainTypes, ActiveInv, TailTypes, TailInv, TailRead
  PROVE  TailTypes' /\ TailInv'
<1>1. tail.state = "read" /\ UNCHANGED <<active, generation, nextId, firsts>>
  BY DEF TailRead, TailOnly, writerVars, segmentVars
<1>2. /\ tail.offset \in Nat /\ tail.generation \in Nat /\ tail.stale \in BOOLEAN /\ generation \in Nat
      /\ printed \in Seq(Nat) /\ nextId \in Nat
  BY SegmentsBounds DEF TailTypes, ChainTypes
<1>3. /\ tail.generation <= generation /\ \A j \in 1 .. Len(printed) : printed[j] < nextId
      /\ tail.offset <= HeaderSize + 2 * MaxRecords /\ TailFollows
  BY DEF TailInv
<1>4. CASE active = Absent
  <2>1. tail' = [tail EXCEPT !.state = "died"] /\ printed' = printed
    BY <1>4 DEF TailRead
  <2>2. /\ tail'.state = "died" /\ tail'.offset = tail.offset /\ tail'.generation = tail.generation
        /\ tail'.stale = tail.stale /\ TailTypes'
    BY <2>1 DEF TailTypes
  <2>3. tail.generation # generation
    BY <1>1, <1>4 DEF TailInv
  <2>4. TailFollows'
    BY <1>1, <1>3, <2>1, <2>2 DEF TailFollows, TailInOrder, TailSkipsOnlyEnds
  <2>5. active' = Absent /\ tail'.generation # generation'
    BY <1>1, <1>4, <2>2, <2>3
  <2> QED BY <1>1, <1>3, <2>1, <2>2, <2>4, <2>5 DEF TailInv
<1>5. CASE active # Absent
  <2>1. PICK frames : frames = ReadFramesFrom(tail.offset)
    OBVIOUS
  <2>2. /\ printed' = printed \o Ids(frames)
        /\ tail' = [tail EXCEPT !.state = "poll",
                                !.offset = IF frames = <<>> THEN @ ELSE Bytes(active),
                                !.stale = @ \/ (frames # <<>> /\ tail.generation # generation)]
    BY <1>5, <2>1 DEF TailRead, Show
  <2>3. PICK n : n = Len(Old)
    OBVIOUS
  <2>4. /\ active \in Files /\ active.records = Old /\ Old \in Seq(Records) /\ n \in Nat
        /\ n <= MaxRecords /\ MaxRecords \in Nat
        /\ \A i \in 1 .. n : Old[i].id \in Nat /\ Old[i].id < nextId
        /\ \A i, j \in 1 .. n : i < j => Old[i].id < Old[j].id
        /\ \A i \in 2 .. n : Old[i].id = Old[i - 1].id + 1
        /\ Old # <<>> => Old[1].id \in firsts
    BY <1>5, <2>3, ActiveRecords, SegmentsBounds
  <2>5. /\ frames \in Seq(Records)
        /\ frames # <<>> =>
             /\ active.header
             /\ \E k \in 0 .. n : /\ Bytes(Cut(active, k)) = tail.offset /\ Len(frames) = n - k /\ k < n
                                  /\ \A i \in 1 .. n - k : frames[i] = Old[k + i]
    BY <1>5, <2>1, <2>3, FramesRead
  <2>6. active'.records = Old /\ Len(active'.records) = n /\ active' # Absent
    BY <1>1, <1>5, <2>3, <2>4
  <2>7. CASE frames = <<>>
    <3>1. printed' = printed
      <4>1. Len(frames) = 0 /\ Len(Ids(frames)) = Len(frames)
        BY <2>5, <2>7, IdsTyped
      <4>2. Ids(frames) = <<>>
        BY <2>5, <4>1, IdsTyped
      <4> QED BY <1>2, <2>2, <4>2
    <3>2. /\ tail'.state = "poll" /\ tail'.offset = tail.offset /\ tail'.generation = tail.generation
          /\ tail'.stale = tail.stale /\ TailTypes'
      <4>1. PICK stale : stale = (tail.stale \/ (frames # <<>> /\ tail.generation # generation))
        OBVIOUS
      <4>2. stale = tail.stale
        BY <1>2, <2>7, <4>1, Zenon
      <4>3. tail' = [tail EXCEPT !.state = "poll", !.offset = tail.offset, !.stale = tail.stale]
        BY <2>2, <2>7, <4>1, <4>2
      <4>4. tail' = [tail EXCEPT !.state = "poll"]
        BY <4>3 DEF TailTypes
      <4> QED BY <3>1, <4>4 DEF TailTypes
    <3>3. \A k : (Shown(k)' <=> Shown(k)) /\ (Following(k)' <=> Following(k))
      BY <1>1, <3>1, <3>2 DEF Shown, Following
    <3>4. TailFollows'
      BY <1>1, <1>3, <3>1, <3>2 DEF TailFollows, TailInOrder, TailSkipsOnlyEnds
    <3> QED BY <1>1, <3>1, <3>2, <3>3, <3>4 DEF TailInv
  <2>8. CASE frames # <<>>
    <3>1. PICK k \in 0 .. n : /\ Bytes(Cut(active, k)) = tail.offset /\ Len(frames) = n - k /\ k < n
                              /\ \A i \in 1 .. n - k : frames[i] = Old[k + i]
      BY <2>5, <2>8
    <3>2. PICK d \in Nat \ {0} : n = k + d /\ n - k = d
      BY <2>4, <3>1
    <3>3. active.header
      BY <2>5, <2>8
    <3>4. PICK m \in Nat : m = Len(printed)
      BY <1>2
    <3>5. /\ Ids(frames) \in Seq(Nat) /\ Len(Ids(frames)) = d
          /\ \A i \in 1 .. d : Ids(frames)[i] = Old[k + i].id
      <4>1. /\ Ids(frames) \in Seq(Nat) /\ Len(Ids(frames)) = Len(frames)
            /\ \A i \in 1 .. Len(frames) : Ids(frames)[i] = frames[i].id
        BY <2>5, IdsTyped
      <4> QED BY <3>2, <3>1, <4>1
    <3>6. /\ printed' \in Seq(Nat) /\ Len(printed') = m + d
          /\ \A j \in 1 .. m : printed'[j] = printed[j]
          /\ \A j \in m + 1 .. m + d : printed'[j] = Old[k + (j - m)].id
      <4>1. PICK ids : ids = Ids(frames)
        OBVIOUS
      <4>2. printed' = printed \o ids /\ ids \in Seq(Nat) /\ Len(ids) = d
        BY <2>2, <3>5, <4>1
      <4>3. /\ printed' \in Seq(Nat) /\ Len(printed') = m + d
            /\ \A j \in 1 .. m : printed'[j] = printed[j]
            /\ \A j \in m + 1 .. m + d : printed'[j] = ids[j - m]
        BY <1>2, <3>2, <3>4, <4>2, JoinedIds
      <4>4. ASSUME NEW j \in m + 1 .. m + d PROVE printed'[j] = Old[k + (j - m)].id
        <5>1. j - m \in 1 .. d
          BY <2>4, <3>2, <3>1, <3>4
        <5> QED BY <3>5, <4>1, <4>3, <5>1
      <4> QED BY <4>3, <4>4
    <3>7. PICK b \in Nat : b = Bytes(active) /\ b <= HeaderSize + 2 * MaxRecords
      <4>1. Bytes(active) \in Nat /\ Bytes(active) <= HeaderSize + 2 * n
        BY <2>3, <2>4, BytesBounds
      <4> QED BY <2>4, <4>1 DEF HeaderSize
    <3>8. /\ tail'.state = "poll" /\ tail'.offset = Bytes(active) /\ tail'.generation = tail.generation
          /\ tail.stale => tail'.stale
          /\ tail.generation # generation => tail'.stale
          /\ TailTypes'
      <4>1. PICK stale : stale = (tail.stale \/ (frames # <<>> /\ tail.generation # generation))
        OBVIOUS
      <4>2. stale \in BOOLEAN /\ (tail.stale => stale) /\ (tail.generation # generation => stale)
        BY <1>2, <2>8, <4>1, Zenon
      <4>3. tail' = [tail EXCEPT !.state = "poll", !.offset = b, !.stale = stale]
        BY <2>2, <2>8, <3>7, <4>1
      <4>4. /\ tail'.state = "poll" /\ tail'.offset = b /\ tail'.generation = tail.generation
            /\ tail'.stale = stale
        BY <4>3 DEF TailTypes
      <4>5. TailTypes'
        BY <3>6, <4>2, <4>3 DEF TailTypes
      <4> QED BY <3>7, <4>2, <4>4, <4>5, Zenon
(* Nothing of what is read was shown. *)
    <3>9. \A i \in k + 1 .. n, j \in 1 .. m : printed[j] < Old[i].id
      <4>1. ASSUME NEW q, Shown(q) PROVE q = k
        <5>1. q \in 0 .. Len(active.records) /\ tail.offset = Bytes(Cut(active, q))
          BY <4>1 DEF Shown, Cut
        <5> QED BY <2>3, <2>4, <3>1, <5>1, CutsDiffer
      <4>2. CASE \E q \in 0 .. Len(active.records) : Shown(q)
        <5>1. Shown(k)
          BY <4>1, <4>2
        <5> QED BY <2>3, <2>4, <3>4, <5>1 DEF Shown
      <4>3. CASE \A i \in 1 .. Len(active.records), j \in 1 .. Len(printed) : printed[j] < active.records[i].id
        BY <2>3, <2>4, <3>2, <3>1, <3>4, <4>3
      <4> QED BY <1>5, <4>2, <4>3 DEF TailInv
    <3>10. Shown(n)' /\ Following(n)'
      <4>1. Cut(active, n) = active
        BY <2>3, <2>4, CutEnds
      <4>2. tail'.offset = Bytes([active' EXCEPT !.records = SubSeq(@, 1, n)])
        BY <1>1, <3>8, <4>1 DEF Cut
      <4>3. n \in 0 .. Len(active'.records) /\ \A i \in n + 1 .. Len(active'.records) : FALSE
        BY <2>4, <2>6
      <4>4. Shown(n)'
        BY <4>2, <4>3 DEF Shown
      <4>5. printed' # <<>> /\ Last(printed') = active'.records[n].id
        <5>1. m + d \in m + 1 .. m + d /\ k + ((m + d) - m) = n
          BY <2>4, <3>2, <3>1, <3>4
        <5>2. printed' # <<>> /\ Last(printed') = printed'[m + d]
          BY <2>4, <3>2, <3>1, <3>4, <3>6 DEF Last
        <5> QED BY <2>6, <3>6, <5>1, <5>2
      <4> QED BY <4>4, <4>5 DEF Following
    <3>11. TailInOrder'
      <4>1. ASSUME NEW i \in 1 .. m + d, NEW j \in 1 .. m + d, i < j PROVE printed'[i] < printed'[j]
        <5>1. CASE j \in 1 .. m
          <6>1. i \in 1 .. m /\ DOMAIN printed = 1 .. m
            BY <1>2, <3>4, <4>1, <5>1
          <6> QED BY <1>3, <3>6, <4>1, <5>1, <6>1 DEF TailFollows, TailInOrder
        <5>2. CASE i \in 1 .. m /\ j \in m + 1 .. m + d
          <6>1. k + (j - m) \in k + 1 .. n
            BY <2>4, <3>2, <3>1, <3>4, <5>2
          <6> QED BY <3>6, <3>9, <5>2, <6>1
        <5>3. CASE i \in m + 1 .. m + d /\ j \in m + 1 .. m + d
          <6>1. k + (i - m) \in 1 .. n /\ k + (j - m) \in 1 .. n /\ k + (i - m) < k + (j - m)
            BY <2>4, <3>2, <3>1, <3>4, <4>1, <5>3
          <6> QED BY <2>4, <3>6, <5>3, <6>1
        <5> QED BY <2>4, <3>2, <3>1, <3>4, <4>1, <5>1, <5>2, <5>3
      <4>2. DOMAIN printed' = 1 .. m + d
        BY <3>6
      <4> QED BY <4>1, <4>2 DEF TailInOrder
    <3>12. TailSkipsOnlyEnds'
      <4>1. ASSUME NEW i \in 2 .. m
            PROVE  printed'[i] = printed'[i - 1] + 1 \/ printed'[i] \in firsts \/ tail'.stale
        <5>1. printed[i] = printed[i - 1] + 1 \/ printed[i] \in firsts \/ tail.stale
          BY <1>3, <3>4 DEF TailFollows, TailSkipsOnlyEnds
        <5>2. i \in 1 .. m /\ i - 1 \in 1 .. m
          BY <3>4
        <5>3. printed'[i] = printed[i] /\ printed'[i - 1] = printed[i - 1]
          BY <3>6, <5>2
        <5> QED BY <3>8, <5>1, <5>3, Zenon
      <4>2. ASSUME NEW i \in m + 2 .. m + d PROVE printed'[i] = printed'[i - 1] + 1
        <5>1. /\ i \in m + 1 .. m + d /\ i - 1 \in m + 1 .. m + d
              /\ k + (i - m) \in 2 .. n /\ k + ((i - 1) - m) = (k + (i - m)) - 1
          BY <2>4, <3>2, <3>1, <3>4
        <5>2. printed'[i] = Old[k + (i - m)].id /\ printed'[i - 1] = Old[(k + (i - m)) - 1].id
          BY <3>6, <5>1
        <5> QED BY <2>4, <5>1, <5>2
      <4>3. ASSUME m > 0
            PROVE  printed'[m + 1] = printed'[m] + 1 \/ printed'[m + 1] \in firsts \/ tail'.stale
        <5>1. m + 1 \in m + 1 .. m + d /\ k + ((m + 1) - m) = k + 1 /\ m \in 1 .. m
          BY <2>4, <3>2, <3>1, <3>4, <4>3
        <5>2. printed'[m + 1] = Old[k + 1].id /\ printed'[m] = printed[m]
          BY <3>6, <5>1
        <5>3. CASE tail.generation # generation
          BY <3>8, <5>3
        <5>4. CASE tail.generation = generation /\ k = 0
          <6>1. Old # <<>> /\ k + 1 = 1
            BY <2>3, <2>4, <3>1, <5>4
          <6>2. printed'[m + 1] \in firsts
            BY <2>4, <5>2, <6>1
          <6> QED BY <6>2
        <5>5. CASE tail.generation = generation /\ k > 0
          <6>1. PICK q \in 0 .. Len(active.records) : Shown(q) /\ Following(q)
            BY <1>1, <3>3, <5>5 DEF TailInv
          <6>2. q = k
            <7>1. q \in 0 .. Len(active.records) /\ tail.offset = Bytes(Cut(active, q))
              BY <6>1 DEF Shown, Cut
            <7> QED BY <2>3, <2>4, <3>1, <7>1, CutsDiffer
          <6>3. printed # <<>> /\ Last(printed) = Old[k].id
            BY <2>4, <5>5, <6>1, <6>2 DEF Following
          <6>4. printed[m] = Old[k].id
            BY <3>4, <6>3 DEF Last
          <6>5. k + 1 \in 2 .. n /\ (k + 1) - 1 = k
            BY <2>4, <3>2, <3>1, <5>5
          <6>6. printed'[m + 1] = printed'[m] + 1
            BY <2>4, <5>2, <6>4, <6>5
          <6> QED BY <6>6
        <5> QED BY <3>2, <3>1, <5>3, <5>4, <5>5
      <4>4. ASSUME NEW i \in 2 .. Len(printed')
            PROVE  printed'[i] = printed'[i - 1] + 1 \/ printed'[i] \in firsts \/ tail'.stale
        <5>1. i \in 2 .. m + d
          BY <3>6, <4>4
        <5>2. i \in 2 .. m \/ (i = m + 1 /\ i - 1 = m /\ m > 0) \/ i \in m + 2 .. m + d
          BY <3>2, <3>4, <5>1
        <5>3. CASE i \in 2 .. m
          BY <4>1, <5>3
        <5>4. CASE i = m + 1 /\ i - 1 = m /\ m > 0
          BY <4>3, <5>4
        <5>5. CASE i \in m + 2 .. m + d
          BY <4>2, <5>5
        <5> QED BY <5>3, <5>4, <5>5, <5>2
      <4>5. firsts' = firsts
        BY <1>1
      <4> QED BY <4>4, <4>5 DEF TailSkipsOnlyEnds
    <3>13. \A j \in 1 .. Len(printed') : printed'[j] < nextId'
      <4>1. ASSUME NEW j \in 1 .. m + d PROVE printed'[j] < nextId
        <5>1. CASE j \in 1 .. m
          BY <1>3, <3>4, <3>6, <5>1
        <5>2. CASE j \in m + 1 .. m + d
          <6>1. k + (j - m) \in 1 .. n
            BY <2>4, <3>2, <3>1, <3>4, <5>2
          <6> QED BY <2>4, <3>6, <5>2, <6>1
        <5> QED BY <2>4, <3>2, <3>1, <3>4, <5>1, <5>2
      <4> QED BY <1>1, <3>6, <4>1
    <3>14. n \in 0 .. Len(active'.records)
      BY <2>4, <2>6
    <3>15. /\ tail'.generation <= generation' /\ tail'.offset <= HeaderSize + 2 * MaxRecords
           /\ tail'.state \notin {"never", "off"}
      BY <1>1, <1>3, <3>7, <3>8
    <3>16. TailFollows'
      BY <3>11, <3>12 DEF TailFollows
    <3>17. TailTypes'
      BY <3>8, Zenon
    <3> QED BY <2>6, <3>10, <3>13, <3>14, <3>15, <3>16, <3>17 DEF TailInv
  <2> QED BY <2>7, <2>8
<1> QED BY <1>4, <1>5

LEMMA TailInvNext ==
  ASSUME ChainTypes, ActiveInv, TailTypes, TailInv, [SegmentsNext]_segmentsVars
  PROVE  TailTypes' /\ TailInv'
<1>1. CASE TailStart
  BY <1>1, TailStartInv
<1>2. CASE TailStat
  BY <1>2, TailStatInv
<1>3. CASE TailRead
  BY <1>3, TailReadInv
<1>4. CASE UNCHANGED <<tail, printed>>
  <2>1. TailTypes'
    BY <1>4 DEF TailTypes
  <2> QED BY <1>4, <2>1, TailWatches
<1> QED BY <1>1, <1>2, <1>3, <1>4, WhoSteps DEF segmentsVars, readerVars

-----------------------------------------------------------------------------
(* Segments: what the exporter sends.                                      *)

(* What can be read at the path only grows, until it is rotated away. *)
LEMMA ReadGrows ==
  ASSUME ChainTypes, ActiveInv, [SegmentsNext]_segmentsVars
  PROVE  /\ generation' \in {generation, generation + 1} /\ nextId <= nextId' /\ nextId' \in Nat
         /\ generation' = generation =>
              /\ Len(ReadAll(active)) <= Len(ReadAll(active)') /\ Len(ReadAll(active)') \in Nat
              /\ \A i \in 1 .. Len(ReadAll(active)) : ReadAll(active)'[i] = ReadAll(active)[i]
<1>1. ReadAll(active) \in Seq(Records) /\ nextId \in Nat
  BY OldTyped, SegmentsBounds DEF ChainTypes
<1>2. ASSUME NEW records, Grows(records)
      PROVE  /\ generation' = generation /\ nextId <= nextId' /\ nextId' \in Nat
             /\ Len(ReadAll(active)) <= Len(ReadAll(active)') /\ Len(ReadAll(active)') \in Nat
             /\ \A i \in 1 .. Len(ReadAll(active)) : ReadAll(active)'[i] = ReadAll(active)[i]
  <2>1. /\ Len(records) \in Nat \ {0} /\ nextId' = nextId + Len(records) /\ generation' = generation
        /\ active'.header <=> (active # Absent /\ active.header)
    BY <1>2, Appended DEF Grows
  <2>2. nextId <= nextId' /\ nextId' \in Nat
    BY <1>1, <2>1
  <2>3. CASE active # Absent /\ active.header
    <3>1. PICK n : n = Len(ReadAll(active))
      OBVIOUS
    <3>2. PICK m : m = Len(records)
      OBVIOUS
    <3>3. /\ Len(FileAt(Here)') = n + m /\ n \in Nat /\ ReadAll(active)' = FileAt(Here)'
          /\ \A i \in 1 .. n : FileAt(Here)'[i] = ReadAll(active)[i]
      BY <1>2, <2>3, <3>1, <3>2, GrowsPlaces
    <3>4. n <= Len(ReadAll(active)') /\ Len(ReadAll(active)') \in Nat
      BY <2>1, <3>2, <3>3
    <3> QED BY <2>1, <2>2, <3>1, <3>3, <3>4
  <2>4. CASE ~(active # Absent /\ active.header)
    <3>1. ReadAll(active) = <<>> /\ ReadAll(active)' = <<>>
      BY <2>1, <2>4 DEF ReadAll
    <3> QED BY <2>1, <2>2, <3>1
  <2> QED BY <2>3, <2>4
<1>3. CASE RotatedAway
  BY <1>1, <1>3 DEF RotatedAway, ChainTypes
<1>4. CASE Rests /\ (Begins \/ active' = active)
  <2>1. ReadAll(active)' = ReadAll(active)
    BY <1>4, RestsPlaces
  <2> QED BY <1>1, <1>4, <2>1 DEF Rests
<1> QED BY <1>2, <1>3, <1>4, FileSteps

LEMMA ExporterWatches ==
  ASSUME ChainTypes, ActiveInv, ExporterTypes, ExportInv, [SegmentsNext]_segmentsVars,
         UNCHANGED <<exporter, received>>
  PROVE  ExportInv'
<1>1. PICK count : count = exporter.offset + exporter.sent
  OBVIOUS
<1>2. /\ count \in Nat /\ Len(exporter.todo) \in Nat /\ generation \in Nat /\ nextId \in Nat
      /\ exporter.generation \in Nat
  BY <1>1, SegmentsBounds DEF ExporterTypes, ChainTypes
<1>3. /\ generation' \in {generation, generation + 1} /\ nextId <= nextId' /\ nextId' \in Nat
      /\ generation' = generation =>
           /\ Len(ReadAll(active)) <= Len(ReadAll(active)') /\ Len(ReadAll(active)') \in Nat
           /\ \A i \in 1 .. Len(ReadAll(active)) : ReadAll(active)'[i] = ReadAll(active)[i]
  BY ReadGrows
<1>4. /\ exporter.generation <= generation
      /\ count + Len(exporter.todo) <= nextId
      /\ exporter.todo = <<>> => exporter.sent = 0
      /\ ~exporter.upset => Len(received) = count
      /\ ~exporter.upset /\ exporter.generation = generation =>
           /\ count + Len(exporter.todo) <= Len(ReadAll(active))
           /\ \A i \in 1 .. count : received[i] = ReadAll(active)[i].id
           /\ \A i \in 1 .. Len(exporter.todo) : exporter.todo[i] = ReadAll(active)[count + i]
  BY <1>1 DEF ExportInv
<1>5. exporter.generation <= generation' /\ count + Len(exporter.todo) <= nextId'
  BY <1>2, <1>3, <1>4
<1>6. ASSUME ~exporter.upset, exporter.generation = generation'
      PROVE  /\ count + Len(exporter.todo) <= Len(ReadAll(active)')
             /\ \A i \in 1 .. count : received[i] = ReadAll(active)'[i].id
             /\ \A i \in 1 .. Len(exporter.todo) : exporter.todo[i] = ReadAll(active)'[count + i]
  <2>1. exporter.generation = generation /\ generation' = generation
    BY <1>2, <1>3, <1>4, <1>6
  <2>2. Len(ReadAll(active)) \in Nat
    BY OldTyped
  <2>3. \A i \in 1 .. count : i \in 1 .. Len(ReadAll(active))
    BY <1>2, <1>4, <1>6, <2>1, <2>2
  <2>4. \A i \in 1 .. Len(exporter.todo) : count + i \in 1 .. Len(ReadAll(active))
    BY <1>2, <1>4, <1>6, <2>1, <2>2
  <2>5. count + Len(exporter.todo) <= Len(ReadAll(active)')
    BY <1>2, <1>3, <1>4, <1>6, <2>1, <2>2
  <2>6. \A i \in 1 .. count : received[i] = ReadAll(active)'[i].id
    BY <1>3, <1>4, <1>6, <2>1, <2>3
  <2>7. \A i \in 1 .. Len(exporter.todo) : exporter.todo[i] = ReadAll(active)'[count + i]
    BY <1>3, <1>4, <1>6, <2>1, <2>4
  <2> QED BY <2>5, <2>6, <2>7
<1>7. exporter' = exporter /\ received' = received
  OBVIOUS
<1> QED BY <1>1, <1>4, <1>5, <1>6, <1>7 DEF ExportInv

LEMMA ExportChainInv ==
  ASSUME ChainTypes, ActiveInv, ExporterTypes, ExportInv, ExportChain
  PROVE  ExporterTypes' /\ ExportInv'
<1>1. /\ exporter.left > 0 /\ exporter.todo = <<>> /\ Len(ReadAll(active)) > exporter.offset
      /\ UNCHANGED <<active, generation, nextId, received>>
  BY DEF ExportChain, ExporterOnly, writerVars, segmentVars
<1>2. PICK s : s = ReadAll(active)
  OBVIOUS
<1>3. s \in Seq(Records) /\ Len(s) \in Nat /\ Len(s) < nextId /\ nextId \in Nat /\ generation \in Nat
  <2>1. s \in Seq(Records) /\ Len(s) \in Nat
    BY <1>2, OldTyped
  <2>2. nextId \in Nat /\ generation \in Nat
    BY SegmentsBounds DEF ChainTypes
  <2>3. active # Absent /\ s = active.records
    <3>1. s # <<>>
      BY <1>1, <1>2 DEF ExporterTypes
    <3> QED BY <1>2, <3>1 DEF ReadAll
  <2>4. Len(s) < nextId
    BY <2>3 DEF ActiveInv
  <2> QED BY <2>1, <2>2, <2>4
<1>4. PICK offset \in Nat : offset = exporter.offset
  BY DEF ExporterTypes
<1>5. PICK rest : rest = SubSeq(s, offset + 1, Len(s))
  OBVIOUS
<1>6. /\ offset < Len(s) /\ rest \in Seq(Records) /\ Len(rest) = Len(s) - offset
      /\ \A i \in 1 .. Len(s) - offset : rest[i] = s[offset + i]
  <2>1. s \in Seq(Records) /\ offset \in 0 .. Len(s) /\ offset < Len(s)
    BY <1>1, <1>2, <1>3, <1>4
  <2> QED BY <1>5, <2>1, RestOf
<1>7. PICK upset : upset = (exporter.upset \/ (exporter.offset > 0 /\ exporter.generation # generation))
  OBVIOUS
<1>8. PICK left \in Nat : left = exporter.left - 1
  BY <1>1 DEF ExporterTypes
<1>9. exporter' = [exporter EXCEPT !.left = left, !.todo = rest, !.generation = generation, !.upset = upset]
  BY <1>2, <1>4, <1>5, <1>7, <1>8 DEF ExportChain
<1>10. upset \in BOOLEAN
  BY <1>7
<1>11. /\ exporter'.todo = rest /\ exporter'.generation = generation /\ exporter'.upset = upset
       /\ exporter'.offset = offset /\ exporter'.sent = exporter.sent
  BY <1>4, <1>9 DEF ExporterTypes
<1>12. ExporterTypes'
  <2>1. received' \in Seq(Nat)
    BY <1>1 DEF ExporterTypes
  <2> QED BY <1>3, <1>6, <1>8, <1>9, <1>10, <2>1 DEF ExporterTypes
<1>13. exporter.sent = 0
  BY <1>1 DEF ExportInv
<1>14. rest # <<>> /\ offset + 0 = offset /\ offset + 0 + Len(rest) = Len(s) /\ ReadAll(active') = s
  <2>1. Len(rest) # 0 /\ offset + 0 = offset /\ offset + 0 + Len(rest) = Len(s)
    BY <1>3, <1>4, <1>6
  <2> QED BY <1>1, <1>2, <2>1
<1>15. ASSUME ~upset PROVE ~exporter.upset /\ (offset = 0 \/ exporter.generation = generation)
  <2>1. ~exporter.upset /\ ~(exporter.offset > 0 /\ exporter.generation # generation)
    BY <1>7, <1>15
  <2> QED BY <1>4, <2>1
<1>16. ASSUME ~upset
       PROVE  Len(received) = offset /\ \A i \in 1 .. offset : received[i] = s[i].id
  <2>1. Len(received) = offset
    BY <1>4, <1>13, <1>14, <1>15, <1>16 DEF ExportInv
  <2>2. CASE offset = 0
    BY <2>1, <2>2
  <2>3. CASE exporter.generation = generation
    BY <1>2, <1>4, <1>13, <1>14, <1>15, <1>16, <2>1, <2>3 DEF ExportInv
  <2> QED BY <1>15, <1>16, <2>1, <2>2, <2>3
<1>17. offset + 0 + Len(rest) <= nextId' /\ generation <= generation'
  BY <1>1, <1>3, <1>14
<1>18. offset + 0 + Len(rest) <= Len(ReadAll(active'))
       /\ \A i \in 1 .. Len(rest) : rest[i] = ReadAll(active')[offset + i]
  BY <1>3, <1>6, <1>14
<1>19. exporter'.offset + exporter'.sent = offset /\ received' = received
  BY <1>1, <1>11, <1>13, <1>14
<1>20. ASSUME ~exporter'.upset
       PROVE  Len(received') = offset /\ \A i \in 1 .. offset : received'[i] = ReadAll(active')[i].id
  BY <1>1, <1>11, <1>14, <1>16, <1>20
<1>21. exporter'.generation <= generation' /\ offset + Len(exporter'.todo) <= nextId'
       /\ exporter'.todo # <<>>
       /\ offset + Len(exporter'.todo) <= Len(ReadAll(active'))
       /\ \A i \in 1 .. Len(exporter'.todo) : exporter'.todo[i] = ReadAll(active')[offset + i]
  BY <1>11, <1>14, <1>17, <1>18
<1> QED BY <1>12, <1>19, <1>20, <1>21 DEF ExportInv

LEMMA SendBatchInv ==
  ASSUME ChainTypes, ExporterTypes, ExportInv, SendBatch
  PROVE  ExporterTypes' /\ ExportInv'
<1>1. exporter.todo # <<>> /\ UNCHANGED <<active, generation, nextId>>
  BY DEF SendBatch, ExporterOnly, writerVars, segmentVars
<1>2. PICK todo : todo = exporter.todo
  OBVIOUS
<1>3. PICK batch : batch = Batch(todo)
  OBVIOUS
<1>4. PICK rest : rest = AfterBatch(todo)
  OBVIOUS
<1>5. PICK n : n = Len(batch)
  OBVIOUS
<1>6. /\ todo \in Seq(Records) /\ batch \in Seq(Records) /\ rest \in Seq(Records) /\ Len(todo) \in Nat
      /\ n \in 1 .. Len(todo) /\ Len(rest) = Len(todo) - n
      /\ \A i \in 1 .. n : batch[i] = todo[i]
      /\ \A i \in 1 .. Len(todo) - n : rest[i] = todo[n + i]
  <2>1. todo \in Seq(Records) /\ todo # <<>>
    BY <1>1, <1>2 DEF ExporterTypes
  <2>2. PICK m : m = Len(Batch(todo))
    OBVIOUS
  <2>3. /\ Batch(todo) \in Seq(Records) /\ AfterBatch(todo) \in Seq(Records)
        /\ m \in 1 .. Len(todo) /\ Len(AfterBatch(todo)) = Len(todo) - m
        /\ \A i \in 1 .. m : Batch(todo)[i] = todo[i]
        /\ \A i \in 1 .. Len(todo) - m : AfterBatch(todo)[i] = todo[m + i]
    BY <2>1, <2>2, Batched
  <2>4. m = n /\ Len(todo) \in Nat
    BY <1>3, <1>5, <2>1, <2>2
  <2> QED BY <1>3, <1>4, <2>1, <2>3, <2>4
<1>7. PICK offset \in Nat : offset = exporter.offset
  BY DEF ExporterTypes
<1>8. PICK sent \in Nat : sent = exporter.sent
  BY DEF ExporterTypes
<1>9. PICK outcome \in Outcome :
        LET now_sent == exporter.sent + Counted(Batch(exporter.todo), outcome)
        IN  /\ received' = received \o Arrived(Batch(exporter.todo), outcome)
            /\ exporter' = [exporter EXCEPT
                              !.todo = AfterBatch(exporter.todo),
                              !.offset = IF AfterBatch(exporter.todo) = <<>> THEN @ + now_sent ELSE @,
                              !.sent = IF AfterBatch(exporter.todo) = <<>> THEN 0 ELSE now_sent,
                              !.upset = @ \/ outcome # "answered"]
  BY DEF SendBatch
<1>10. PICK counted : counted = Counted(batch, outcome)
  OBVIOUS
<1>11. counted \in 0 .. n /\ (outcome = "answered" => counted = n)
  BY <1>5, <1>6, <1>10 DEF Counted
<1>12. PICK upset : upset = (exporter.upset \/ outcome # "answered")
  OBVIOUS
<1>13. PICK later : later = IF rest = <<>> THEN offset + (sent + counted) ELSE offset
  OBVIOUS
<1>14. PICK left : left = IF rest = <<>> THEN 0 ELSE sent + counted
  OBVIOUS
<1>15. exporter' = [exporter EXCEPT !.todo = rest, !.offset = later, !.sent = left, !.upset = upset]
  BY <1>2, <1>3, <1>4, <1>7, <1>8, <1>9, <1>10, <1>12, <1>13, <1>14
<1>16. later \in Nat /\ left \in Nat /\ later + left = offset + sent + counted /\ (rest = <<>> => left = 0)
  <2>1. counted \in Nat
    BY <1>6, <1>11
  <2>2. CASE rest = <<>>
    BY <1>13, <1>14, <2>1, <2>2
  <2>3. CASE rest # <<>>
    BY <1>13, <1>14, <2>1, <2>3
  <2> QED BY <2>2, <2>3
<1>17. upset \in BOOLEAN /\ (~upset => ~exporter.upset /\ outcome = "answered")
  BY <1>12
<1>18. received' = received \o Arrived(batch, outcome)
  BY <1>2, <1>3, <1>9
<1>19. received \in Seq(Nat) /\ Ids(batch) \in Seq(Nat) /\ Len(Ids(batch)) = n
       /\ \A i \in 1 .. n : Ids(batch)[i] = batch[i].id
  BY <1>5, <1>6, IdsTyped DEF ExporterTypes
<1>20. received' \in Seq(Nat)
  <2>1. <<>> \in Seq(Nat)
    OBVIOUS
  <2>2. Arrived(batch, outcome) \in Seq(Nat)
    BY <1>19, <2>1 DEF Arrived
  <2> QED BY <1>18, <1>19, <2>2, JoinedIds
<1>21. /\ exporter'.todo = rest /\ exporter'.offset = later /\ exporter'.sent = left /\ exporter'.upset = upset
       /\ exporter'.generation = exporter.generation
  BY <1>15 DEF ExporterTypes
<1>22. ExporterTypes'
  BY <1>6, <1>15, <1>16, <1>17, <1>20 DEF ExporterTypes
<1>23. PICK count \in Nat : count = offset + sent
  OBVIOUS
<1>24. PICK s : s = ReadAll(active)
  OBVIOUS
<1>25. /\ exporter.generation <= generation /\ count + Len(todo) <= nextId
       /\ ~exporter.upset => Len(received) = count
       /\ ~exporter.upset /\ exporter.generation = generation =>
            /\ count + Len(todo) <= Len(s)
            /\ \A i \in 1 .. count : received[i] = s[i].id
            /\ \A i \in 1 .. Len(todo) : todo[i] = s[count + i]
  BY <1>2, <1>7, <1>8, <1>23, <1>24 DEF ExportInv
<1>26. nextId \in Nat /\ Len(s) \in Nat
  BY <1>24, OldTyped, SegmentsBounds DEF ChainTypes
<1>27. later + left = count + counted /\ later + left + Len(rest) <= nextId
  BY <1>6, <1>11, <1>16, <1>23, <1>25, <1>26
<1>28. ASSUME ~upset
       PROVE  /\ counted = n /\ Len(received') = count + n /\ Len(received) = count
              /\ \A i \in 1 .. count : received'[i] = received[i]
              /\ \A i \in count + 1 .. count + n : received'[i] = batch[i - count].id
  <2>1. counted = n /\ Len(received) = count /\ received' = received \o Ids(batch)
    BY <1>11, <1>17, <1>18, <1>25, <1>28 DEF Arrived
  <2>2. /\ Len(received') = count + n
        /\ \A i \in 1 .. count : received'[i] = received[i]
        /\ \A i \in count + 1 .. count + n : received'[i] = Ids(batch)[i - count]
    BY <1>19, <2>1, JoinedIds
  <2>3. ASSUME NEW i \in count + 1 .. count + n PROVE received'[i] = batch[i - count].id
    <3>1. i - count \in 1 .. n
      BY <1>6
    <3> QED BY <1>19, <2>2, <3>1
  <2> QED BY <2>1, <2>2, <2>3
<1>29. ASSUME ~upset, exporter.generation = generation
       PROVE  /\ count + n + Len(rest) <= Len(s)
              /\ \A i \in 1 .. count + n : received'[i] = s[i].id
              /\ \A i \in 1 .. Len(rest) : rest[i] = s[count + n + i]
  <2>1. /\ count + Len(todo) <= Len(s)
        /\ \A i \in 1 .. count : received[i] = s[i].id
        /\ \A i \in 1 .. Len(todo) : todo[i] = s[count + i]
    BY <1>17, <1>25, <1>29
  <2>2. count + n + Len(rest) <= Len(s)
    BY <1>6, <1>26, <2>1
  <2>3. ASSUME NEW i \in 1 .. count + n PROVE received'[i] = s[i].id
    <3>1. CASE i \in 1 .. count
      BY <1>28, <1>29, <2>1, <3>1
    <3>2. CASE i \in count + 1 .. count + n
      <4>1. i - count \in 1 .. n /\ i - count \in 1 .. Len(todo) /\ count + (i - count) = i
        BY <1>6, <3>2
      <4>2. batch[i - count] = s[i]
        BY <1>6, <2>1, <4>1
      <4> QED BY <1>28, <1>29, <3>2, <4>2
    <3> QED BY <1>6, <3>1, <3>2
  <2>4. ASSUME NEW i \in 1 .. Len(rest) PROVE rest[i] = s[count + n + i]
    <3>1. i \in 1 .. Len(todo) - n /\ n + i \in 1 .. Len(todo) /\ count + (n + i) = count + n + i
      BY <1>6
    <3> QED BY <1>6, <2>1, <3>1
  <2> QED BY <2>2, <2>3, <2>4
<1>30. ReadAll(active') = s /\ generation' = generation /\ nextId' = nextId
  BY <1>1, <1>24
<1>31. PICK total : total = exporter'.offset + exporter'.sent
  OBVIOUS
<1>32. total = count + counted /\ total + Len(exporter'.todo) <= nextId' /\ exporter'.generation <= generation'
       /\ (exporter'.todo = <<>> => exporter'.sent = 0)
  BY <1>16, <1>21, <1>25, <1>27, <1>30, <1>31
<1>33. ASSUME ~exporter'.upset PROVE ~upset /\ total = count + n
  <2>1. ~upset
    BY <1>21, <1>33
  <2> QED BY <1>28, <1>32, <2>1
<1>34. ~exporter'.upset => Len(received') = total
  BY <1>28, <1>33
<1>35. ASSUME ~exporter'.upset, exporter'.generation = generation'
       PROVE  /\ total + Len(exporter'.todo) <= Len(ReadAll(active'))
              /\ \A i \in 1 .. total : received'[i] = ReadAll(active')[i].id
              /\ \A i \in 1 .. Len(exporter'.todo) : exporter'.todo[i] = ReadAll(active')[total + i]
  BY <1>21, <1>29, <1>30, <1>33, <1>35
<1> QED BY <1>22, <1>31, <1>32, <1>34, <1>35 DEF ExportInv

LEMMA ExportInvNext ==
  ASSUME ChainTypes, ActiveInv, ExporterTypes, ExportInv, [SegmentsNext]_segmentsVars
  PROVE  ExporterTypes' /\ ExportInv'
<1>1. CASE ExportChain
  BY <1>1, ExportChainInv
<1>2. CASE SendBatch
  BY <1>2, SendBatchInv
<1>3. CASE UNCHANGED <<exporter, received>>
  <2>1. ExporterTypes'
    BY <1>3 DEF ExporterTypes
  <2> QED BY <1>3, <2>1, ExporterWatches
<1> QED BY <1>1, <1>2, <1>3, WhoSteps DEF segmentsVars, readerVars

-----------------------------------------------------------------------------
(* Segments: the theorems.                                                 *)

SegmentsIInv ==
  ChainTypes /\ ActiveInv /\ StepInv /\ ReadableInv /\ LinkedInv /\ TailTypes /\ TailInv /\ ExporterTypes /\ ExportInv

LEMMA SegmentsInitIInv == SegmentsInit => SegmentsIInv
<1> SUFFICES ASSUME SegmentsInit PROVE SegmentsIInv
  OBVIOUS
<1>1. /\ pc = "down" /\ active = Absent /\ segments = <<>> /\ now = 0
      /\ writer = [seq |-> 0, prev |-> 0, bytes |-> 0]
      /\ pendingGap = FALSE /\ inFlight = 0 /\ nextId = 1 /\ trouble = 0
      /\ printed = <<>> /\ received = <<>>
      /\ acked = {} /\ firsts = {} /\ generation = 0 /\ upsets = {} /\ overwritten = {}
  BY DEF SegmentsInit
<1>2. PICK state \in {"never", "off"} :
        /\ tail = [state |-> state, offset |-> 0, generation |-> 0, stale |-> FALSE]
        /\ exporter = [left |-> IF state = "never" THEN MaxExports ELSE 0, offset |-> 0, todo |-> <<>>,
                       sent |-> 0, generation |-> 0, upset |-> FALSE]
  BY DEF SegmentsInit
<1>3. DOMAIN segments = {} /\ Len(printed) = 0 /\ Len(received) = 0
  BY <1>1
<1>4. ChainTypes
  <2>1. 0 \in 0 .. MaxTime /\ 0 \in 0 .. MaxTrouble /\ 1 \in 1 .. MaxRecords + 1
    BY SegmentsBounds
  <2>2. writer \in [seq: Nat, prev: Nat, bytes: Nat]
    BY <1>1
  <2>3. pendingGap \in BOOLEAN
    BY <1>1
  <2> QED BY <1>1, <1>3, <2>1, <2>2, <2>3 DEF ChainTypes
<1>5. ActiveInv /\ StepInv
  BY <1>1 DEF ActiveInv, StepInv
<1>6. ReadableInv
  BY <1>1, <1>3 DEF ReadableInv
<1>7. \A p \in Places : FileAt(p) = <<>>
  BY <1>1, <1>3 DEF FileAt, ReadAll
<1>8. LinkedInv
  <2>1. Within
    <3>1. Len(<<>>) = 0
      OBVIOUS
    <3> QED BY <1>7, <3>1 DEF Within
  <2>2. Across
    BY <1>7 DEF Across, Neighbours
  <2> QED BY <1>1, <1>3, <2>1, <2>2 DEF LinkedInv
<1>9. TailTypes
  BY <1>1, <1>2 DEF TailTypes
<1>10. TailInv
  <2>1. TailFollows
    BY <1>1, <1>3 DEF TailFollows, TailInOrder, TailSkipsOnlyEnds
  <2>2. tail.offset = 0 /\ tail.generation = 0 /\ tail.state \in {"never", "off"}
    BY <1>2
  <2>3. 0 <= HeaderSize + 2 * MaxRecords
    BY SegmentsBounds DEF HeaderSize
  <2> QED BY <1>1, <1>3, <2>1, <2>2, <2>3 DEF TailInv
<1>11. ExporterTypes
  <2>1. PICK left \in Nat : left = IF state = "never" THEN MaxExports ELSE 0
    BY SegmentsBounds
  <2> QED BY <1>1, <1>2, <2>1 DEF ExporterTypes
<1>12. ExportInv
  <2>1. /\ exporter.offset = 0 /\ exporter.sent = 0 /\ exporter.todo = <<>> /\ exporter.generation = 0
    BY <1>2
  <2>2. ReadAll(active) = <<>>
    BY <1>1 DEF ReadAll
  <2> QED BY <1>1, <1>3, <2>1, <2>2 DEF ExportInv
<1> QED BY <1>4, <1>5, <1>6, <1>8, <1>9, <1>10, <1>11, <1>12 DEF SegmentsIInv

LEMMA SegmentsIInvNext == SegmentsIInv /\ [SegmentsNext]_segmentsVars => SegmentsIInv'
<1> SUFFICES ASSUME SegmentsIInv, [SegmentsNext]_segmentsVars PROVE SegmentsIInv'
  OBVIOUS
<1>1. /\ ChainTypes /\ ActiveInv /\ StepInv /\ ReadableInv /\ LinkedInv /\ TailTypes /\ TailInv
      /\ ExporterTypes /\ ExportInv
  BY DEF SegmentsIInv
<1>2. ChainTypes'
  BY <1>1, ChainTypesNext
<1>3. ActiveInv' /\ StepInv'
  BY <1>1, <1>2, ActiveInvNext, StepInvNext
<1>4. ReadableInv' /\ LinkedInv'
  BY <1>1, ReadableInvNext, LinkedInvNext
<1>5. TailTypes' /\ TailInv' /\ ExporterTypes' /\ ExportInv'
  BY <1>1, TailInvNext, ExportInvNext
<1> QED BY <1>2, <1>3, <1>4, <1>5 DEF SegmentsIInv

LEMMA SegmentsIInvImplies == SegmentsIInv => SegmentsInv /\ TailFollows /\ ExportedOnce
<1> SUFFICES ASSUME SegmentsIInv PROVE SegmentsInv /\ TailFollows /\ ExportedOnce
  OBVIOUS
<1>1. /\ ChainTypes /\ ActiveInv /\ StepInv /\ ReadableInv /\ LinkedInv /\ TailTypes /\ TailInv
      /\ ExporterTypes /\ ExportInv
  BY DEF SegmentsIInv
<1>2. SegmentsTypeOK
  <2>1. now <= MaxTime /\ trouble <= MaxTrouble /\ nextId <= MaxRecords + 1
    BY <1>1, SegmentsBounds DEF ChainTypes
  <2>2. exporter.offset + exporter.sent + Len(exporter.todo) <= nextId
    BY <1>1 DEF ExportInv
  <2>3. ASSUME pc # "down", NEW r \in ToSet(ReadAll(active)) PROVE r.seq <= writer.seq
    <3>1. PICK i \in DOMAIN ReadAll(active) : r = ReadAll(active)[i]
      BY DEF ToSet
    <3>2. active # Absent /\ active.header /\ ReadAll(active) = active.records
      BY <3>1 DEF ReadAll
    <3>3. i \in 1 .. Len(active.records)
      BY <1>1, <3>1, <3>2, OldTyped
    <3> QED BY <1>1, <2>3, <3>1, <3>2, <3>3 DEF ActiveInv
  <2>4. tail.state \in {"never", "off", "poll", "read", "died"} /\ tail.offset <= HeaderSize + 2 * MaxRecords
    BY <1>1 DEF TailTypes, TailInv
  <2> QED BY <1>1, <2>1, <2>2, <2>3, <2>4 DEF SegmentsTypeOK, ChainTypes
<1>3. LinkedAcrossSegments
  <2>1. CASE ~Sound
    BY <2>1 DEF Sound, LinkedAcrossSegments
  <2>2. CASE Sound
    BY <1>1, <2>2 DEF LinkedInv, Within, Across, Neighbours, LinkedAcrossSegments
  <2> QED BY <2>1, <2>2
<1>4. ReturnedRecordsReadable
  <2>1. CASE ~Reading
    BY <2>1 DEF Reading, ReturnedRecordsReadable
  <2>2. CASE Reading
    <3>1. ASSUME NEW id \in acked \ overwritten PROVE \E p \in Places : id \in ToSet(Ids(FileAt(p)))
      <4>1. Filed(id)
        BY <1>1, <2>2, <3>1 DEF ReadableInv
      <4>2. PICK p \in Places : \E i \in 1 .. Len(FileAt(p)) : FileAt(p)[i].id = id
        BY <4>1 DEF Filed
      <4>3. PICK i \in 1 .. Len(FileAt(p)) : FileAt(p)[i].id = id
        BY <4>2
      <4>4. FileAt(p) \in Seq(Records)
        BY <1>1, PlacesTyped
      <4>5. Ids(FileAt(p)) \in Seq(Nat) /\ Len(Ids(FileAt(p))) = Len(FileAt(p)) /\ Ids(FileAt(p))[i] = id
        BY <4>3, <4>4, IdsTyped
      <4>6. id \in ToSet(Ids(FileAt(p)))
        <5>1. i \in DOMAIN Ids(FileAt(p))
          BY <4>3, <4>5
        <5> QED BY <4>5, <5>1 DEF ToSet
      <4> QED BY <4>6
    <3> QED BY <3>1 DEF ReturnedRecordsReadable
  <2> QED BY <2>1, <2>2
<1>5. ExportedOnce
  <2>1. SUFFICES ASSUME ~exporter.upset, exporter.generation = generation
                 PROVE  LET count == exporter.offset + exporter.sent
                        IN  /\ count <= Len(ReadAll(active))
                            /\ received = SubSeq(Ids(ReadAll(active)), 1, count)
    BY DEF ExportedOnce
  <2>2. PICK count : count = exporter.offset + exporter.sent
    OBVIOUS
  <2>3. PICK s : s = ReadAll(active)
    OBVIOUS
  <2>4. /\ count \in Nat /\ s \in Seq(Records) /\ Len(s) \in Nat /\ received \in Seq(Nat)
        /\ Len(exporter.todo) \in Nat
    BY <1>1, <2>2, <2>3, OldTyped DEF ExporterTypes
  <2>5. /\ count + Len(exporter.todo) <= Len(s) /\ Len(received) = count
        /\ \A i \in 1 .. count : received[i] = s[i].id
    BY <1>1, <2>1, <2>2, <2>3 DEF ExportInv
  <2>6. count \in 0 .. Len(s)
    BY <2>4, <2>5
  <2>7. /\ Ids(s) \in Seq(Nat) /\ Len(Ids(s)) = Len(s)
        /\ \A i \in 1 .. Len(s) : Ids(s)[i] = s[i].id
    BY <2>4, IdsTyped
  <2>8. PICK ids : ids = SubSeq(Ids(s), 1, count)
    OBVIOUS
  <2>9. ids \in Seq(Nat) /\ Len(ids) = count /\ \A i \in 1 .. count : ids[i] = Ids(s)[i]
    BY <2>6, <2>7, <2>8, StartOf
  <2>10. \A i \in 1 .. count : i \in 1 .. Len(s)
    BY <2>4, <2>6
  <2>11. \A i \in 1 .. count : received[i] = ids[i]
    BY <2>5, <2>7, <2>9, <2>10
  <2>12. received = ids
    BY <2>4, <2>5, <2>9, <2>11, SeqEqual
  <2> QED BY <2>2, <2>3, <2>6, <2>8, <2>12
<1>6. TailFollows
  BY <1>1 DEF TailInv
<1> QED BY <1>2, <1>3, <1>4, <1>5, <1>6 DEF SegmentsInv

(* A rotated chain is one chain, numbered and linked across its files, and *)
(* what record_action returned can be read in it, but for the troubles the *)
(* property names.                                                         *)
THEOREM SegmentsHold == SegmentsSpec => []SegmentsInv
<1>1. SegmentsSpec => []SegmentsIInv
  BY SegmentsInitIInv, SegmentsIInvNext, PTL DEF SegmentsSpec
<1> QED BY <1>1, SegmentsIInvImplies, PTL

(* ahp tail shows the chain in order, and leaves out ends of files only.   *)
THEOREM TailHolds == SegmentsSpec => []TailFollows
<1>1. SegmentsSpec => []SegmentsIInv
  BY SegmentsInitIInv, SegmentsIInvNext, PTL DEF SegmentsSpec
<1> QED BY <1>1, SegmentsIInvImplies, PTL

(* The collector has each record of a file that was not rotated once.      *)
THEOREM ExportHolds == SegmentsSpec => []ExportedOnce
<1>1. SegmentsSpec => []SegmentsIInv
  BY SegmentsInitIInv, SegmentsIInvNext, PTL DEF SegmentsSpec
<1> QED BY <1>1, SegmentsIInvImplies, PTL
=============================================================================

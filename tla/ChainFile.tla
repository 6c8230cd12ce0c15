------------------------------ MODULE ChainFile ------------------------------
(***************************************************************************)
(* The chain file: records, their hash links, and the two readers every   *)
(* other part relies on, ChainReader.iter_records and verify_chain.        *)
(*                                                                         *)
(* A file is a sequence of frames.  A frame is a record, or Torn for a     *)
(* frame whose length prefix, body or CRC is incomplete or wrong.  Every   *)
(* record carries a fresh record_id (uuid7) inside its hashed bytes, so    *)
(* SHA-256 over the stored bytes is represented by that id: two records    *)
(* have one hash exactly when they are one record.                         *)
(***************************************************************************)
EXTENDS Integers, Sequences, FiniteSets

ZeroHash == 0

RecordType ==
  {"ACTION", "GAP", "CHECKPOINT", "BOOT", "RECOVERY", "KEY", "WITNESS"}

(* The numbers a payload holds, as far as any reader looks at them:        *)
(*   GAP         first_lost, last_lost, count                              *)
(*   CHECKPOINT  record_count, gap_count, chain_hash                       *)
(*   RECOVERY    records_verified, records_truncated, last_valid_seq       *)
(*   WITNESS     checkpoint_seq, checkpoint_hash, 0                        *)
Body   == Nat \X Nat \X Nat
NoBody == <<0, 0, 0>>

GapBody(first, last) == <<first, last, last - first + 1>>

Record == [id: Nat \ {0}, type: RecordType, seq: Nat, prev: Nat, ts: Nat, body: Body]

Torn == [id |-> 0, type |-> "TORN", seq |-> 0, prev |-> 0, ts |-> 0, body |-> NoBody]

Frame == Record \union {Torn}

Hash(rec) == rec.id

-----------------------------------------------------------------------------
(* ChainReader.iter_records stops at the first frame it cannot read.       *)
ReadableLen(fs) ==
  CHOOSE n \in 0 .. Len(fs) :
    /\ \A i \in 1 .. n : fs[i] # Torn
    /\ n < Len(fs) => fs[n + 1] = Torn

Readable(fs) == SubSeq(fs, 1, ReadableLen(fs))

Damaged(fs) == \E i \in 1 .. Len(fs) : fs[i] = Torn

-----------------------------------------------------------------------------
(* verify_chain.  allow is its allow_nonzero_start: the file is a rotated  *)
(* segment, whose first record continues an earlier one.                   *)
ExpectedSeq(fs, i, allow) ==
  IF i = 1 THEN IF allow THEN fs[1].seq ELSE 1
           ELSE fs[i - 1].seq + 1

LinkOK(fs, i, allow) ==
  IF i = 1 THEN allow \/ fs[1].prev = ZeroHash
           ELSE fs[i].prev = Hash(fs[i - 1])

SeqOK(fs, i, allow) ==
  LET expected == ExpectedSeq(fs, i, allow)
      rec      == fs[i]
  IN  IF rec.type = "GAP"
      THEN /\ rec.seq > expected
           /\ rec.body[1] = expected
           /\ rec.body[2] = rec.seq - 1
           /\ rec.body[3] = rec.body[2] - rec.body[1] + 1
      ELSE rec.seq = expected

Verifies(fs, allow) ==
  /\ ~Damaged(fs)
  /\ \A i \in 1 .. Len(fs) : LinkOK(fs, i, allow) /\ SeqOK(fs, i, allow)

(* The hash-chain half of verify_chain over the readable records alone.    *)
HashLinkedFrames(fs) ==
  \A i \in 1 .. Len(fs) : LinkOK(fs, i, FALSE)

IncreasingSeqs(fs) ==
  \A i, j \in 1 .. Len(fs) : i < j /\ fs[i] # Torn /\ fs[j] # Torn => fs[i].seq < fs[j].seq

LastHash(fs) == IF fs = <<>> THEN ZeroHash ELSE Hash(fs[Len(fs)])
LastSeq(fs)  == IF fs = <<>> THEN 0 ELSE fs[Len(fs)].seq
=============================================================================

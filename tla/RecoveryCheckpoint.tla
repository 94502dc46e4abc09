-------------------------- MODULE RecoveryCheckpoint --------------------------
(***************************************************************************)
(* prepareRecoveryCheckpoint (recovery-preparation.ts): a long transcript  *)
(* is read page by page and condensed in passes, each within a budget of   *)
(* bytes.  The source is the one of recovery-source.ts, or one that does   *)
(* not keep its contract.  Abstractions: a record is its size; a request   *)
(* is as large as the summary before it and its pieces; the signal, the    *)
(* deadline and the scope are sampled at the boundaries of calls.          *)
(***************************************************************************)
EXTENDS Naturals, Sequences, SequencesExt, FiniteSetsExt

CONSTANTS
  Sources,      \* sources: the sizes of the records, oldest first
  PageItems,    \* what fits on a page of list()
  PageBytes,    \* what fits on a page of read()
  MaxPasses,    \* maxPasses
  MaxRequest,   \* maxRequestBytes
  MaxSummary,   \* maxSummaryBytes
  FinalBudget,  \* what validateFinal admits
  Faults        \* subset of {"source", "response", "stale", "cancelled"}: what may go wrong

CheckpointAssumption ==
  /\ Sources \subseteq Seq(Nat) /\ PageItems \in Nat \ {0} /\ PageBytes \in Nat \ {0}
  /\ MaxPasses \in Nat \ {0} /\ MaxRequest \in Nat /\ MaxSummary \in Nat \ {0} /\ FinalBudget \in Nat

VARIABLES
  Records,   \* the source
  st,        \* "pass" | "list" | "read" | "build" | "generate" | "done"
  listed,    \* records that were listed; the cursor
  listDone,  \* list() said that there are no more
  at,        \* the record being read, 0 for none
  offset,    \* the offset in it
  next,      \* the record that is read next
  pending,   \* the piece that did not fit, or NoPiece
  batch,     \* the pieces of the request being built
  accepted,  \* the pieces that are part of the summary
  size,      \* of the summary
  passes,    \* requests made
  exhausted, \* the source has no more pieces
  result     \* "none", "prepared" or the reason of a block

vars == <<Records, st, listed, listDone, at, offset, next, pending, batch, accepted, size, passes, exhausted, result>>

NoPiece == [id |-> 0, offset |-> 0, len |-> 0]
Piece(i, o) == [id |-> i, offset |-> o, len |-> Min({PageBytes, Records[i] - o})]
Bytes(ps) == FoldSeq(LAMBDA p, n : n + p.len + 1, 0, ps)

Init ==
  /\ Records \in Sources /\ st = "pass" /\ listed = 0 /\ listDone = FALSE /\ at = 0 /\ offset = 0 /\ next = 1
  /\ pending = NoPiece /\ batch = <<>> /\ accepted = <<>> /\ size = 0 /\ passes = 0
  /\ exhausted = FALSE /\ result = "none"

Reading == <<Records, listed, listDone, at, offset, next>>
Building == <<pending, batch, exhausted>>
Summing == <<accepted, size, passes>>

Block(reason) ==
  /\ st' = "done" /\ result' = reason /\ UNCHANGED <<Reading, Building, Summing>>

\* Mutant of Fence: a call that does not answer is waited for.
FenceBetween ==
  /\ st \in {"pass", "build"}
  /\ \E r \in {"deadline"} \cup (Faults \cap {"stale", "cancelled"}) : Block(r)

\* fence: every call is preceded and followed by it, and raced with the signal.
Fence == st # "done" /\ \E r \in {"deadline"} \cup (Faults \cap {"stale", "cancelled"}) : Block(r)

\* A pass begins, unless all were made.
Pass ==
  /\ st = "pass"
  /\ IF passes >= MaxPasses THEN Block("pass_budget")
     ELSE st' = "build" /\ UNCHANGED <<Reading, Building, Summing, result>>

\* nextPiece: a piece is wanted.
Want ==
  /\ st = "build" /\ pending = NoPiece /\ ~exhausted
  /\ IF at # 0 THEN st' = "read" /\ UNCHANGED <<at, offset, next, exhausted>>
     ELSE IF next <= listed THEN st' = "read" /\ at' = next /\ offset' = 0 /\ next' = next + 1 /\ UNCHANGED exhausted
     ELSE IF listDone THEN st' = "build" /\ exhausted' = TRUE /\ UNCHANGED <<at, offset, next>>
     ELSE st' = "list" /\ UNCHANGED <<at, offset, next, exhausted>>
  /\ UNCHANGED <<Records, listed, listDone, pending, batch, Summing, result>>

\* list() answers; a page that does not progress or repeats a record blocks.
List ==
  /\ st = "list"
  /\ \/ /\ listed' = Min({Len(Records), listed + PageItems})
        /\ listDone' = (listed' = Len(Records)) /\ st' = "build"
        /\ UNCHANGED <<Records, at, offset, next, Building, Summing, result>>
     \/ "source" \in Faults /\ Block("source")

\* Mutant of Read: the end of a piece is taken for the end of its record.
ReadFirstPage ==
  /\ st = "read" /\ pending' = Piece(at, offset) /\ st' = "build" /\ at' = 0 /\ offset' = 0
  /\ UNCHANGED <<Records, listed, listDone, next, batch, exhausted, Summing, result>>

\* read() answers; an answer for another record or offset blocks.
Read ==
  /\ st = "read"
  /\ \/ LET piece == Piece(at, offset)
            more == piece.offset + piece.len < Records[at]
        IN /\ pending' = piece /\ st' = "build"
           /\ at' = IF more THEN at ELSE 0
           /\ offset' = IF more THEN piece.offset + piece.len ELSE 0
           /\ UNCHANGED <<Records, listed, listDone, next, batch, exhausted, Summing, result>>
     \/ "source" \in Faults /\ Block("source")

\* Mutant of Build: a piece is in the batch before its request is measured.
BuildUnmeasured ==
  /\ st = "build" /\ pending # NoPiece
  /\ batch' = Append(batch, pending) /\ pending' = NoPiece
  /\ st' = IF size + Bytes(batch') > MaxRequest THEN "generate" ELSE "build"
  /\ UNCHANGED <<Reading, exhausted, Summing, result>>

\* Mutant of Build: the piece that does not fit is dropped.
BuildDropping ==
  /\ st = "build" /\ pending # NoPiece
  /\ IF size + Bytes(Append(batch, pending)) > MaxRequest
     THEN st' = (IF batch = <<>> THEN "build" ELSE "generate") /\ UNCHANGED batch
     ELSE batch' = Append(batch, pending) /\ UNCHANGED st
  /\ pending' = NoPiece /\ UNCHANGED <<Reading, exhausted, Summing, result>>

\* A piece joins the batch while the request fits.
Build ==
  /\ st = "build" /\ pending # NoPiece
  /\ IF size + Bytes(Append(batch, pending)) <= MaxRequest
     THEN /\ batch' = Append(batch, pending) /\ pending' = NoPiece
          /\ UNCHANGED <<st, Reading, exhausted, Summing, result>>
     ELSE IF batch = <<>> THEN Block("request_budget")
     ELSE st' = "generate" /\ UNCHANGED <<Reading, Building, Summing, result>>

\* The source has no more: the last request, unless there is none.
BuildLast ==
  /\ st = "build" /\ exhausted
  /\ IF batch = <<>> THEN Block("source")
     ELSE st' = "generate" /\ UNCHANGED <<Reading, Building, Summing, result>>

\* Mutant of Generate: a summary of any length is taken.
GenerateUnchecked ==
  /\ st = "generate" /\ passes' = passes + 1
  /\ accepted' = accepted \o batch /\ size' \in {1, MaxSummary, MaxRequest} /\ batch' = <<>>
  /\ IF exhausted THEN st' = "done" /\ result' = "prepared" ELSE st' = "pass" /\ UNCHANGED result
  /\ UNCHANGED <<Reading, pending, exhausted>>

\* The request is sent and answered; only a complete, bounded answer becomes
\* the summary, and the last one must leave room for the rest of the context.
Generate ==
  /\ st = "generate" /\ passes' = passes + 1
  /\ \/ /\ "response" \in Faults /\ st' = "done" /\ result' \in {"response", "generation"}
        /\ UNCHANGED <<Reading, Building, accepted, size>>
     \/ /\ size' \in {1, MaxSummary} /\ accepted' = accepted \o batch /\ batch' = <<>>
        /\ IF ~exhausted THEN st' = "pass" /\ UNCHANGED result
           ELSE st' = "done" /\ result' = IF size' <= FinalBudget THEN "prepared" ELSE "final_validation"
        /\ UNCHANGED <<Reading, pending, exhausted>>

Next == Fence \/ Pass \/ Want \/ List \/ Read \/ Build \/ BuildLast \/ Generate

\* A call that does not answer is given up at the deadline.
Fairness == WF_vars(Fence)
Spec == Init /\ [][Next]_vars
FairSpec == Spec /\ Fairness

-------------------------------------------------------------------------------
(***************************************************************************)
(* Properties.                                                             *)
(***************************************************************************)
\* The pieces of the whole source, in order.
PiecesOf(i) ==
  IF Records[i] = 0 THEN <<Piece(i, 0)>>
  ELSE [k \in 1..((Records[i] + PageBytes - 1) \div PageBytes) |-> Piece(i, (k - 1) * PageBytes)]
AllPieces == FlattenSeq([i \in 1..Len(Records) |-> PiecesOf(i)])

\* The state stays within the source and the limits.
TypeOK ==
  /\ st \in {"pass", "list", "read", "build", "generate", "done"}
  /\ listed \in 0..Len(Records) /\ next \in 1..(Len(Records) + 1) /\ at \in 0..Len(Records)
  /\ size \in 0..MaxSummary /\ passes \in 0..MaxPasses /\ listDone \in BOOLEAN /\ exhausted \in BOOLEAN

\* What is part of the summary, of the batch and of the piece that did not fit
\* is the beginning of the source: nothing is skipped, repeated or reordered.
InOrder ==
  IsPrefix(accepted \o batch \o (IF pending = NoPiece THEN <<>> ELSE <<pending>>), AllPieces)

\* A checkpoint that is prepared covers the whole source.
Complete == result = "prepared" => accepted = AllPieces /\ size <= FinalBudget

\* No request is larger than the budget.
RequestFits == st = "generate" => size + Bytes(batch) <= MaxRequest

\* The preparation always ends.
Ends == <>(st = "done")
===============================================================================

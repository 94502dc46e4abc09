---------------------------- MODULE SourceRecovery ----------------------------
(***************************************************************************)
(* Recovery of a context that is too large for the model the session was   *)
(* switched to: runSourceRecovery (index.ts), the archives of the original *)
(* history (recovery-archive.ts) and what they read (recovery-session.ts). *)
(*                                                                         *)
(* The host's journal is a branch of entries.  A preparation works on the  *)
(* branch it captured (RecoveryCheckpoint), and its checkpoint is stored   *)
(* after all other handlers ran; meanwhile the user may write, edit,       *)
(* leave the branch or the session.  Abstractions: an entry is a message,  *)
(* an edit, an anchor, or a summary with or without a reference; a hash is *)
(* what is hashed; what an aborted call leaves behind ends at once.        *)
(***************************************************************************)
EXTENDS Naturals, Sequences, SequencesExt, FiniteSets

CONSTANTS
  Sessions,     \* session files
  MaxEntries,   \* bound on the entries of a branch
  MaxIds,       \* bound on the entries ever written
  Budget,       \* messages that fit the smaller model
  CacheLimit    \* committed views that are kept

RecoveryAssumption ==
  /\ Sessions # {} /\ MaxEntries \in Nat /\ MaxIds \in Nat /\ Budget \in Nat /\ CacheLimit \in Nat \ {0}

VARIABLES
  session,      \* the session that is open
  branch,       \* its active branch
  ids,          \* entries written so far
  cache,        \* the views that are held, least recently used first
  provisional,  \* the views no checkpoint refers to yet
  controller,   \* recoveryController is set
  claimed,      \* recoveryProvisional: the archive of the checkpoint about to be stored
  run,          \* runSourceRecovery
  target,       \* recoveryTarget is set
  switch         \* of the chain to a smaller model: "none", "waiting" for its answer, "answered"

vars == <<session, branch, ids, cache, provisional, controller, claimed, run, target, switch>>

NoArchive == [session |-> "none", leaf |-> 0, source |-> {}]
Rest == [st |-> "idle", arch |-> NoArchive, key |-> <<>>, aborted |-> FALSE]

Entry(id, type) == [id |-> id, type |-> type, of |-> 0, ref |-> NoArchive]
Ids(b) == {b[i].id : i \in DOMAIN b}
Edits(b) == {b[i].of : i \in {j \in DOMAIN b : b[j].type = "edit"}}

\* buildSessionProjection: what follows the last summary, which is all that is
\* left of what was before it; edited messages are marked.
Projection(b) ==
  LET last == {i \in DOMAIN b : b[i].type = "summary" /\ \A j \in (i + 1)..Len(b) : b[j].type # "summary"}
      from == IF last = {} THEN 1 ELSE CHOOSE i \in last : TRUE
  IN {<<b[i].id, b[i].id \in Edits(b)>> : i \in {j \in from..Len(b) : b[j].type \in {"message", "summary"}}}

\* recoveryProjectionKey: what a preparation may not see change.
Key(b) == <<session, {p[1] : p \in Projection(b)}, {b[i].id : i \in {j \in DOMAIN b : b[j].type = "edit"}}>>

UpTo(b, leaf) == SelectSeq(b, LAMBDA e : e.id <= leaf)

\* captureRecoverySource(...).isCurrent: same session, branch still holds the
\* leaf, and nothing captured was edited since.
IsCurrent(a) ==
  /\ a.session = session /\ a.leaf \in Ids(branch)
  /\ \A i \in DOMAIN branch : (branch[i].type = "edit" /\ branch[i].id > a.leaf) => branch[i].of > a.leaf

Init ==
  /\ session \in Sessions /\ branch = <<>> /\ ids = 0 /\ cache = <<>> /\ provisional = {}
  /\ controller = FALSE /\ claimed = NoArchive /\ run = Rest /\ target = FALSE /\ switch = "none"

(***************************************************************************)
(* The archives.                                                           *)
(***************************************************************************)
\* The archives the active branch refers to.
descriptors ==
  {branch[i].ref : i \in {j \in DOMAIN branch :
     /\ branch[j].ref # NoArchive /\ branch[j].ref.session = session
     /\ \E k \in 1..(j - 1) : branch[k].id = branch[j].ref.leaf}}

\* trimCache: the oldest of the committed views that are too many go.
Trim(views, prov) ==
  LET old == SelectSeq(views, LAMBDA a : a \notin prov)
      gone == ToSet(SubSeq(old, 1, IF Len(old) > CacheLimit THEN Len(old) - CacheLimit ELSE 0))
  IN SelectSeq(views, LAMBDA a : a \notin gone)
Without(views, a) == SelectSeq(views, LAMBDA x : x # a)

\* Mutant of discard: the view stays provisional.
discardView(a) == cache' = Without(cache, a) /\ UNCHANGED provisional

discard(a) == cache' = Without(cache, a) /\ provisional' = provisional \ {a}

\* Mutant of open: a view that is held is served.
openCached(a) ==
  /\ a \in descriptors
  /\ IF a \in ToSet(cache) THEN cache' = Trim(Append(Without(cache, a), a), provisional \ {a})
     ELSE /\ IsCurrent(a) /\ Projection(UpTo(branch, a.leaf)) = a.source
          /\ cache' = Trim(Append(cache, a), provisional \ {a})

\* Mutant of open: a view that is held is served once more.
openTwice(a) ==
  /\ a \in descriptors /\ IsCurrent(a)
  /\ (a \in ToSet(cache) \/ Projection(UpTo(branch, a.leaf)) = a.source)
  /\ cache' = Append(cache, a)

\* A view is served: held or read anew, in either case only while current.
open(a) ==
  /\ a \in descriptors /\ IsCurrent(a)
  /\ (a \in ToSet(cache) \/ Projection(UpTo(branch, a.leaf)) = a.source)
  /\ cache' = Trim(Append(Without(cache, a), a), provisional \ {a})

\* A history tool reads an archive.
ReadArchive ==
  /\ \E a \in descriptors : open(a) /\ provisional' = provisional \ {a}
  /\ UNCHANGED <<session, branch, ids, controller, claimed, run, target, switch>>

(***************************************************************************)
(* A recovery.                                                             *)
(***************************************************************************)
Larger == Cardinality(Projection(branch)) > Budget

\* session_before_compact with a reason to recover: the branch is captured.
\* A recovery that runs lets no second one begin.
Begin ==
  /\ ~controller /\ branch # <<>> /\ (target \/ Larger)
  /\ LET a == [session |-> session, leaf |-> Last(branch).id, source |-> Projection(branch)]
     IN /\ run' = [Rest EXCEPT !.st = "preparing", !.arch = a, !.key = Key(branch)]
        /\ provisional' = provisional \cup {a}
        /\ cache' = Trim(Append(Without(cache, a), a), provisional')
  /\ controller' = TRUE
  /\ UNCHANGED <<session, branch, ids, claimed, target, switch>>

\* The preparation is blocked (a limit, the deadline, an error, a change).
Stop ==
  /\ run.st = "preparing" /\ discard(run.arch)
  /\ run' = Rest /\ controller' = FALSE
  /\ UNCHANGED <<session, branch, ids, claimed, target, switch>>

Anchored(b) == Append(b, Entry(ids + 1, "anchor"))

\* It is prepared: an anchor is written and the checkpoint handed to the host.
Prepared ==
  /\ run.st = "preparing" /\ ~run.aborted /\ Key(branch) = run.key /\ IsCurrent(run.arch)
  /\ ids < MaxIds
  /\ branch' = Anchored(branch) /\ ids' = ids + 1
  /\ claimed' = run.arch /\ run' = [run EXCEPT !.st = "ready"]
  /\ UNCHANGED <<session, cache, provisional, controller, target, switch>>

\* session_compact and session_compact_failed: the claim is settled.
Settle == claimed' = NoArchive /\ controller' = FALSE /\ run' = Rest

\* Mutant of Commit: the checkpoint is stored as it was handed over.
CommitUnfenced ==
  /\ run.st = "ready" /\ ids < MaxIds
  /\ branch' = Append(branch, [Entry(ids + 1, "summary") EXCEPT !.ref = run.arch]) /\ ids' = ids + 1
  /\ provisional' = provisional \ {run.arch} /\ cache' = Trim(cache, provisional')
  /\ Settle /\ UNCHANGED <<session, target, switch>>

\* The host stores the checkpoint; its fields are read behind the last fence.
Commit ==
  /\ run.st = "ready" /\ ids < MaxIds
  /\ ~run.aborted /\ Key(branch) = run.key
  /\ branch' = Append(branch, [Entry(ids + 1, "summary") EXCEPT !.ref = run.arch]) /\ ids' = ids + 1
  /\ provisional' = provisional \ {run.arch} /\ cache' = Trim(cache, provisional')
  /\ Settle /\ UNCHANGED <<session, target, switch>>

\* Mutant of CommitFails: the host's failure is not heard.
CommitUnheard ==
  /\ run.st = "ready" /\ discard(run.arch) /\ run' = Rest /\ claimed' = NoArchive
  /\ UNCHANGED <<session, branch, ids, controller, target, switch>>

\* session_compact_failed: the fence refused, or the host was aborted.
CommitFails ==
  /\ run.st = "ready" /\ discard(run.arch)
  /\ Settle /\ UNCHANGED <<session, branch, ids, target, switch>>

\* session_compact with a summary that is not this checkpoint: another
\* handler's, or the host's own while nothing is recovered.
OtherSummary ==
  /\ run.st # "preparing" /\ ids < MaxIds /\ Len(branch) < MaxEntries /\ branch # <<>>
  /\ branch' = Append(branch, Entry(ids + 1, "summary")) /\ ids' = ids + 1
  /\ IF claimed = NoArchive THEN UNCHANGED <<cache, provisional>> ELSE discard(claimed)
  /\ Settle /\ UNCHANGED <<session, target, switch>>

(***************************************************************************)
(* The session meanwhile.                                                  *)
(***************************************************************************)
\* An entry is added; what the user writes claims control of the session.
Claim == run' = IF run.st = "idle" THEN run ELSE [run EXCEPT !.aborted = TRUE]
Write(e, claims) ==
  /\ ids < MaxIds /\ Len(branch) < MaxEntries
  /\ branch' = Append(branch, e) /\ ids' = ids + 1
  /\ IF claims THEN Claim ELSE UNCHANGED run
  /\ UNCHANGED <<session, cache, provisional, controller, claimed, target, switch>>

Say == \E user \in BOOLEAN : Write(Entry(ids + 1, "message"), user)
Edit == \E m \in {e \in ToSet(branch) : e.type = "message"} :
          Write([Entry(ids + 1, "edit") EXCEPT !.of = m.id], FALSE)

\* The user goes back to an earlier entry.
Depart ==
  /\ \E n \in 0..(Len(branch) - 1) : branch' = SubSeq(branch, 1, n)
  /\ UNCHANGED <<session, ids, cache, provisional, controller, claimed, run, target, switch>>

\* stopEverything, or the host's signal.
Abort ==
  /\ run.st # "idle" /\ ~run.aborted /\ run' = [run EXCEPT !.aborted = TRUE]
  /\ UNCHANGED <<session, branch, ids, cache, provisional, controller, claimed, target, switch>>

\* session_start, with a new journal, or a copy of this one.
Start ==
  /\ session' \in Sessions /\ branch' \in {<<>>, branch}
  /\ cache' = <<>> /\ provisional' = {} /\ controller' = FALSE /\ claimed' = NoArchive
  /\ run' = Rest /\ target' = FALSE /\ switch' = "none" /\ UNCHANGED ids

\* The chain switches to a smaller model that admission covers (activateFallback).
Switch ==
  /\ switch' = "waiting" /\ target' = TRUE /\ UNCHANGED <<session, branch, ids, cache, provisional, controller, claimed, run>>

\* Mutant of Answer: any end of a turn ends the admission.
AnswerAny(good) == target' = FALSE /\ switch' = IF good /\ switch = "waiting" THEN "answered" ELSE switch

\* message_end of the smaller model: only an answer ends the admission.
Answer(good) == target' = (target /\ ~good) /\ switch' = IF good /\ switch = "waiting" THEN "answered" ELSE switch

\* A turn: rejectOversizedRecoveryPayload lets through what fits.
Turn ==
  /\ \E good \in BOOLEAN : (good => ~(target /\ Larger)) /\ Answer(good)
  /\ UNCHANGED <<session, branch, ids, cache, provisional, controller, claimed, run>>

Next ==
  \/ Begin \/ Stop \/ Prepared \/ Commit \/ CommitFails \/ OtherSummary
  \/ ReadArchive \/ Say \/ Edit \/ Depart \/ Abort \/ Start \/ Switch \/ Turn

\* The preparation has a deadline, and the host ends every compaction.
Fairness == WF_vars(Stop) /\ WF_vars(CommitFails)
Spec == Init /\ [][Next]_vars
FairSpec == Spec /\ Fairness

-------------------------------------------------------------------------------
(***************************************************************************)
(* Properties.                                                             *)
(***************************************************************************)
Archive == {a \in UNION {{run.arch, claimed}, ToSet(cache), provisional} : a # NoArchive}

\* Phases, references and views are of known kinds.
TypeOK ==
  /\ session \in Sessions /\ Len(branch) <= MaxEntries + 2 /\ ids \in 0..MaxIds
  /\ run.st \in {"idle", "preparing", "ready"} /\ IsInjective(cache)
  /\ \A a \in Archive : a.session \in Sessions /\ a.leaf \in 1..MaxIds
  /\ controller \in BOOLEAN /\ target \in BOOLEAN

\* A checkpoint that is stored stands for everything the branch said when it
\* was stored: nothing written, edited or summarised meanwhile is lost behind it.
CheckpointCovers ==
  [][\A a \in {run.arch} \ {NoArchive} :
       (branch' # branch /\ branch' # <<>> /\ Last(branch').ref = a /\ session' = session /\ run'.st = "idle"
          /\ run.st = "ready" /\ Len(branch') > Len(branch))
       => Projection(branch) = a.source]_vars

\* What the history tools serve is what its branch still says: never text an
\* edit took away, another branch or another session.
ServesCurrent ==
  [][\A a \in ToSet(cache') :
       (cache' # cache /\ Last(cache') = a /\ controller' = controller /\ branch' = branch)
       => /\ a.session = session /\ a.leaf \in Ids(branch)
          /\ Projection(UpTo(branch, a.leaf)) = a.source
          /\ \A i \in DOMAIN branch : (branch[i].id > a.leaf /\ branch[i].type = "edit") => branch[i].of > a.leaf]_vars

\* Views that no checkpoint refers to exist only while a recovery runs, and
\* what is held stays bounded.
NothingHeld ==
  /\ (~controller => provisional = {} /\ claimed = NoArchive)
  /\ Cardinality(ToSet(cache) \ provisional) <= CacheLimit /\ Cardinality(provisional) <= 1

\* The recovery that runs is always over some time: another can begin.
RecoveryEnds == []<>~controller

\* A context too large for the model of an automatic switch is not sent to it
\* before it answered once.
OversizedKept == [][(Larger /\ switch = "waiting") => switch' # "answered"]_vars
===============================================================================

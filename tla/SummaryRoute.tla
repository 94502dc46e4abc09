------------------------------ MODULE SummaryRoute ------------------------------
(***************************************************************************)
(* session_before_compact: on which account Pi's summary of the transcript *)
(* is made when the account of the session cannot make it.                 *)
(*                                                                         *)
(* A handler walks over the candidates: it looks up the login, asks for a  *)
(* summary within a time bound, and again when access could not be         *)
(* verified.  A handler whose compaction was aborted may still be waiting  *)
(* while the next one runs.  Abstractions: an error is the class it is     *)
(* read as; bans are counted in ticks; a summary is whether it contains    *)
(* the one before it and whether it begins with Pi's placeholder.          *)
(***************************************************************************)
EXTENDS Naturals, Sequences, SequencesExt, FiniteSets

CONSTANTS
  Account,        \* accounts beside the session's
  Order,          \* the accounts, as RouteChoice orders them
  Cursor,         \* accounts of the Cursor family
  Compaction,     \* compactions Pi asks for, in the order 1, 2, ...
  Sessions,       \* subset of {"ready", "spent", "cursor"}: how the session's account may be
  Errors,         \* subset of ErrorKinds: what a request for a summary may end with
  Excludable,     \* accounts the user takes out of the rotation meanwhile
  Queues,         \* subset of {"none", "soon", "late"}: held messages, and when they go out
  routing,        \* routeCompactionToHealthyAccount
  MaxAttempts,    \* COMPACTION_MAX_ATTEMPTS
  MaxRetries,     \* length of COMPACTION_ACCESS_RETRY_DELAYS_MS
  MaxUnfit        \* COMPACTION_UNFIT_MS, in ticks

ErrorKinds == {"empty", "dropped", "transient", "model", "unfit", "policy", "verify"}
Access == {"policy", "verify"}

SummaryAssumption ==
  /\ Account = ToSet(Order) /\ Len(Order) = Cardinality(Account) /\ Cursor \subseteq Account
  /\ Compaction \subseteq Nat \ {0}
  /\ Sessions \subseteq {"ready", "spent", "cursor"} /\ Errors \subseteq ErrorKinds
  /\ routing \in BOOLEAN
  /\ MaxAttempts \in Nat \ {0} /\ MaxRetries \in Nat /\ MaxUnfit \in Nat \ {0}

VARIABLES
  session,   \* how the account of the session is
  queue,     \* held messages
  benched,   \* accounts that are banned, or whose model is
  excluded,  \* accounts kept out of the rotation
  unfit,     \* compactionUnfitUntil, in ticks
  paused,    \* contextGuardAccessFailure
  comp,      \* the handler of every compaction
  shown      \* compactionObservation: the compaction whose progress is shown

vars == <<session, queue, benched, excluded, unfit, paused, comp, shown>>

Idle == [st |-> "idle", left |-> <<>>, asked |-> <<>>, retry |-> 0, unverified |-> FALSE, aborted |-> FALSE,
         previous |-> FALSE, result |-> "none"]

Init ==
  /\ session \in Sessions /\ queue \in Queues
  /\ benched \in {{}} \cup {{a} : a \in Account} /\ excluded = {} /\ unfit = [a \in Account |-> 0]
  /\ paused = FALSE /\ comp = [c \in Compaction |-> Idle] /\ shown = 0

At(c, st) == comp[c].st = st
NeedsRoute == session \in {"spent", "cursor"}

\* Mutant of compactionCandidates: what refused the last summary is forgotten.
candidatesAnew == SelectSeq(Order, LAMBDA a : a \notin benched \cup excluded \cup Cursor)

compactionCandidates ==
  SelectSeq(Order, LAMBDA a : a \notin benched \cup excluded \cup Cursor /\ unfit[a] = 0)

(***************************************************************************)
(* The answers.                                                            *)
(***************************************************************************)
Answer(c, r) ==
  comp' = [comp EXCEPT ![c] = [Idle EXCEPT !.st = "done", !.previous = comp[c].previous, !.result = r]]
Cancel(c) == Answer(c, "cancel")

\* Nothing was routed: Pi's own summary, unless held messages go out first or
\* the account of the session must not be asked.
Fallthrough(c) ==
  IF queue = "soon" \/ (routing /\ NeedsRoute) THEN Cancel(c) ELSE Answer(c, "native")

\* Pi asks; the candidates are read once.
Ask(c) ==
  /\ At(c, "idle") /\ \A d \in Compaction : d < c => ~At(d, "idle") /\ (At(d, "done") \/ comp[d].aborted)
  /\ \E previous \in BOOLEAN :
       IF routing /\ NeedsRoute
       THEN comp' = [comp EXCEPT ![c] = [Idle EXCEPT !.st = "walk", !.left = compactionCandidates, !.previous = previous]]
       ELSE Fallthrough(c)
  /\ shown' = IF comp'[c].st = "done" /\ comp'[c].result = "cancel" THEN 0 ELSE c
  /\ UNCHANGED <<session, queue, benched, excluded, unfit, paused>>

Rest == UNCHANGED <<session, queue, excluded>>

\* Mutant of Walk: an aborted compaction goes on.
WalkOn(c) ==
  /\ At(c, "walk") /\ comp[c].left # <<>>
  /\ comp' = [comp EXCEPT ![c].st = "auth", ![c].asked = Append(@, Head(comp[c].left)), ![c].left = Tail(@)]
  /\ Rest /\ UNCHANGED <<benched, unfit, paused, shown>>

\* Mutant of Walk: an unsuccessful walk is left to Pi.
WalkToNative(c) ==
  /\ At(c, "walk")
  /\ IF comp[c].aborted THEN Cancel(c)
     ELSE IF comp[c].left = <<>> \/ Len(comp[c].asked) >= MaxAttempts THEN Answer(c, "native")
     ELSE comp' = [comp EXCEPT ![c].st = "auth", ![c].asked = Append(@, Head(comp[c].left)), ![c].left = Tail(@)]
  /\ Rest /\ UNCHANGED <<benched, unfit, paused, shown>>

\* The next candidate, or the end of the walk.
Walk(c) ==
  /\ At(c, "walk")
  /\ IF comp[c].aborted \/ comp[c].left = <<>> \/ Len(comp[c].asked) >= MaxAttempts THEN Cancel(c)
     ELSE IF Head(comp[c].left) \in excluded THEN comp' = [comp EXCEPT ![c].left = Tail(@)]
     ELSE comp' = [comp EXCEPT ![c].st = "auth", ![c].asked = Append(@, Head(comp[c].left)), ![c].left = Tail(@)]
  /\ Rest /\ UNCHANGED <<benched, unfit, paused, shown>>

Onward(c) == comp' = [comp EXCEPT ![c].st = "walk", ![c].retry = 0, ![c].unverified = FALSE]

\* The login of the candidate: known, absent, refused or late.
Login(c) ==
  /\ At(c, "auth")
  /\ \/ IF comp[c].aborted THEN Cancel(c) /\ UNCHANGED paused
        ELSE IF Last(comp[c].asked) \in excluded THEN Onward(c) /\ UNCHANGED paused
        ELSE comp' = [comp EXCEPT ![c].st = "summary"] /\ UNCHANGED paused
     \/ Onward(c) /\ ~comp[c].aborted /\ UNCHANGED paused
     \/ Errors \cap Access # {} /\ Cancel(c) /\ paused' = (paused \/ ~comp[c].aborted)
  /\ Rest /\ UNCHANGED <<benched, unfit, shown>>

\* Mutant of Fails: a refusal of access is like any other.
FailsOn(c, e) ==
  LET a == Last(comp[c].asked)
  IN /\ IF comp[c].aborted THEN Cancel(c) ELSE Onward(c)
     /\ unfit' = IF e = "unfit" THEN [unfit EXCEPT ![a] = MaxUnfit] ELSE unfit
     /\ benched' = IF e = "model" THEN benched \cup {a} ELSE benched
     /\ paused' = (paused \/ e \in Access)

\* A request for a summary fails for good.
Fails(c, e) ==
  LET a == Last(comp[c].asked)
  IN IF comp[c].aborted THEN Cancel(c) /\ UNCHANGED <<benched, unfit, paused>>
     ELSE IF e \in Access THEN Cancel(c) /\ paused' = TRUE /\ UNCHANGED <<benched, unfit>>
     ELSE /\ Onward(c)
          /\ unfit' = IF e = "unfit" THEN [unfit EXCEPT ![a] = MaxUnfit] ELSE unfit
          /\ benched' = IF e = "model" THEN benched \cup {a} ELSE benched
          /\ UNCHANGED paused

\* Mutant of Summarised: Pi's text is taken as it is.
SummarisedRaw(c, e) == Answer(c, IF e = "dropped" THEN "lost" ELSE "summary")

\* Pi drops the summary before when no history is left; it is put back.
Summarised(c, e) == Answer(c, IF e = "dropped" /\ ~comp[c].previous THEN "fresh" ELSE "summary")

Summary(c) ==
  /\ At(c, "summary")
  /\ \E e \in Errors \cup {"good"} :
       IF e \in {"good", "dropped"} THEN Summarised(c, e) /\ UNCHANGED <<benched, unfit, paused>>
       ELSE IF e = "empty" THEN Onward(c) /\ UNCHANGED <<benched, unfit, paused>>
       ELSE IF e = "verify" /\ comp[c].retry < MaxRetries /\ ~comp[c].aborted
       THEN /\ comp' = [comp EXCEPT ![c].st = "verify", ![c].retry = @ + 1, ![c].unverified = TRUE]
            /\ UNCHANGED <<benched, unfit, paused>>
       ELSE Fails(c, e)
  /\ Rest /\ UNCHANGED shown

\* The wait between two verifications is over, or aborted.
Verify(c) ==
  /\ At(c, "verify")
  /\ IF comp[c].aborted THEN Cancel(c) ELSE comp' = [comp EXCEPT ![c].st = "summary"]
  /\ Rest /\ UNCHANGED <<benched, unfit, paused, shown>>

\* Mutant of Expires: the bound of an attempt is for the login only.
ExpiresLogin(c) ==
  /\ At(c, "auth") /\ Fails(c, "transient") /\ Rest /\ UNCHANGED shown

\* The time of an attempt is up: what is waited for is given up.
Expires(c) ==
  /\ comp[c].st \in {"auth", "summary", "verify"}
  /\ Fails(c, IF comp[c].unverified THEN "verify" ELSE "transient")
  /\ Rest /\ UNCHANGED shown

(***************************************************************************)
(* Around it.                                                              *)
(***************************************************************************)
\* The compaction that runs is aborted; the session_before_compact that waits
\* is not told before its next step.
Abort(c) ==
  /\ comp[c].st \in {"walk", "auth", "summary", "verify"} /\ ~comp[c].aborted
  /\ comp' = [comp EXCEPT ![c].aborted = TRUE]
  /\ shown' = IF shown = c THEN 0 ELSE shown
  /\ UNCHANGED <<session, queue, benched, excluded, unfit, paused>>

\* Pi stores the summary, or says that there is none.
Ends(c) ==
  /\ At(c, "done") /\ shown = c /\ shown' = 0
  /\ UNCHANGED <<session, queue, benched, excluded, unfit, paused, comp>>

Environment ==
  \/ /\ session' \in Sessions /\ UNCHANGED <<queue, benched, excluded, unfit, paused>>
  \/ /\ queue' \in Queues /\ UNCHANGED <<session, benched, excluded, unfit, paused>>
  \/ /\ \E a \in benched : benched' = benched \ {a}
     /\ UNCHANGED <<session, queue, excluded, unfit, paused>>
  \/ /\ \E a \in Excludable : excluded' = IF a \in excluded THEN excluded \ {a} ELSE excluded \cup {a}
     /\ UNCHANGED <<session, queue, benched, unfit, paused>>
  \/ /\ unfit' = [a \in Account |-> IF unfit[a] = 0 THEN 0 ELSE unfit[a] - 1]
     /\ UNCHANGED <<session, queue, benched, excluded, paused>>

World == Environment /\ UNCHANGED <<comp, shown>>

Handler(c) == Walk(c) \/ Login(c) \/ Summary(c) \/ Verify(c) \/ Expires(c)
Next == (\E c \in Compaction : Ask(c) \/ Handler(c) \/ Abort(c) \/ Ends(c)) \/ World

\* Code that is ready runs, and timers end; an answer may never come.
Fairness == \A c \in Compaction : WF_vars(Walk(c)) /\ WF_vars(Expires(c))
Spec == Init /\ [][Next]_vars
FairSpec == Spec /\ Fairness

-------------------------------------------------------------------------------
(***************************************************************************)
(* Properties.                                                             *)
(***************************************************************************)
Phase == {"idle", "walk", "auth", "summary", "verify", "done"}

\* Handlers are in a known phase and walk over accounts, each once.
TypeOK ==
  /\ session \in Sessions /\ queue \in Queues /\ paused \in BOOLEAN
  /\ benched \subseteq Account /\ excluded \subseteq Account /\ unfit \in [Account -> 0..MaxUnfit]
  /\ shown \in Compaction \cup {0}
  /\ \A c \in Compaction :
       /\ comp[c].st \in Phase /\ comp[c].retry \in 0..MaxRetries
       /\ Len(comp[c].asked) <= MaxAttempts /\ IsInjective(comp[c].asked \o comp[c].left)

\* Pi's own summary, which nothing bounds in time, is never left to an account
\* of the session that is spent, or to Cursor.
SpentNeverNativeStep ==
  \A c \in Compaction : (routing /\ ~At(c, "done") /\ comp'[c].result = "native") => session = "ready"
SpentNeverNative == [][SpentNeverNativeStep]_vars

\* A refusal of access ends the walk: no other account is asked in its place.
AccessEndsWalkStep ==
  \A c \in Compaction : (~paused /\ paused' /\ comp[c] # comp'[c]) => comp'[c].st = "done"
AccessEndsWalk == [][AccessEndsWalkStep]_vars

\* A summary that exists is part of the next one.
NothingForgotten == \A c \in Compaction : comp[c].previous => comp[c].result \notin {"lost", "fresh"}

\* An account that refused for a reason only a person can change is not asked
\* again by a later compaction while this is remembered.
RefusalRememberedStep ==
  \A c \in Compaction : \A a \in Account :
    (unfit[a] > 0 /\ At(c, "idle")) => a \notin ToSet(comp'[c].left)
RefusalRemembered == [][RefusalRememberedStep]_vars

\* An aborted compaction asks no further account.
AbortStopsStep ==
  \A c \in Compaction : comp[c].aborted => Len(comp'[c].asked) <= Len(comp[c].asked)
AbortStops == [][AbortStopsStep]_vars

\* Whatever the accounts do, every compaction is answered.
Answered == \A c \in Compaction : [](comp[c].st \in {"walk", "auth", "summary", "verify"} => <>(comp[c].st = "done"))

===============================================================================

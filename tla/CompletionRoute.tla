---------------------------- MODULE CompletionRoute ----------------------------
(***************************************************************************)
(* Background completions: the host runs the operations of other           *)
(* extensions and asks, attempt by attempt, which route to take.  The      *)
(* operations share what is known of the accounts with each other and with *)
(* the foreground.                                                         *)
(*                                                                         *)
(* Abstractions: what an error says is the set of pattern lists it         *)
(* matches; the order of the fallbacks is RouteChoice's and a constant     *)
(* here; bans are counted in ticks.                                        *)
(***************************************************************************)
EXTENDS Naturals, Sequences, SequencesExt, FiniteSets, FiniteSetsExt

CONSTANTS
  Op,            \* operations of the host
  Route,         \* records [p |-> provider, m |-> model]
  Fallbacks,     \* sequence of routes, as findFallbackModels orders them
  Preferred(_),  \* routes an operation asks for, in order
  Session,       \* the model of the session
  Excluded,      \* routes kept out of the rotation
  Cursor,        \* providers of the Cursor family
  Facts,         \* how an attempt may end: [stop, status, says]
  MaxCool,       \* longest ban, in ticks
  MaxForeground  \* bound: refusals of the foreground

Provider == {r.p : r \in Route}
Stop == {"stop", "aborted", "error", "route_unavailable"}

CompletionAssumption ==
  /\ Session \in Route /\ Excluded \subseteq Route /\ ToSet(Fallbacks) \subseteq Route
  /\ \A o \in Op : ToSet(Preferred(o)) \subseteq Route
  /\ \A f \in Facts : f.stop \in Stop
  /\ MaxCool \in Nat \ {0} /\ MaxForeground \in Nat

VARIABLES
  health,  \* cool: provider -> ticks; invalid providers; spent routes
  op,      \* operations: phase, attempts so far, the route of the one that runs
  active,  \* the extension routes completions
  told     \* history: what the operations and the foreground saw of each provider

vars == <<health, op, active, told>>

Init ==
  /\ health = [cool |-> [p \in Provider |-> 0], invalid |-> {}, spent |-> {}]
  /\ op = [o \in Op |-> [st |-> "select", tries |-> <<>>, at |-> Session]]
  /\ active = TRUE
  /\ told = [cool |-> {}, invalid |-> {}, spent |-> {}]

(***************************************************************************)
(* What an attempt says about its route.                                   *)
(***************************************************************************)
\* The first rule that applies decides.
classifyRouteAttempt(p, f) ==
  CASE f.stop = "route_unavailable" -> "route_unavailable"
    [] f.stop = "aborted" -> "aborted"
    [] f.stop = "stop" -> "success"
    [] OTHER ->
       IF "overflow" \in f.says THEN "context_overflow"
       ELSE IF "ignore" \in f.says THEN "unhandled"
       ELSE IF f.status = 401 \/ "auth" \in f.says THEN "auth"
       ELSE IF f.status \in {402, 403, 429} \/ "limit" \in f.says THEN "limit"
       ELSE IF "model" \in f.says THEN "model"
       ELSE IF p \in Cursor /\ "stall" \in f.says THEN "cursor_stall"
       ELSE IF f.status >= 500 \/ "transient" \in f.says THEN "transient"
       ELSE "unhandled"

Kind(t) == t.kind
Passing == {"transient", "cursor_stall"}

(***************************************************************************)
(* The choice.                                                             *)
(***************************************************************************)
Ready(r) == r.p \notin health.invalid /\ health.cool[r.p] = 0 /\ r \notin health.spent

\* Mutant of usableCompletionRoute: exclusions do not bind what was asked for.
usableIfReady(r, tries) == Ready(r)

\* Mutant of usableCompletionRoute: bans do not bind what was asked for.
usableIfAllowed(r, tries) == tries # <<>> /\ Last(tries).r # r => r \notin Excluded

\* An excluded route stands for itself only: as the first, or again.
usableCompletionRoute(r, tries) ==
  Ready(r) /\ (tries # <<>> /\ Last(tries).r # r => r \notin Excluded)

completionFallbackCandidates == SelectSeq(Fallbacks, LAMBDA r : Ready(r) /\ r \notin Excluded)

candidatesOf(o) ==
  SelectSeq(Preferred(o) \o <<Session>>, LAMBDA r : usableCompletionRoute(r, op[o].tries))
    \o completionFallbackCandidates

attempted(o) == {t.r : t \in ToSet(op[o].tries)}

\* Mutant of Untried: another model of an account that failed is not looked at.
UntriedAccounts(o) ==
  SelectSeq(candidatesOf(o), LAMBDA r : \A t \in ToSet(op[o].tries) : t.r.p # r.p)

Untried(o) == SelectSeq(candidatesOf(o), LAMBDA r : r \notin attempted(o))
Failures(o, r) == {i \in DOMAIN op[o].tries : op[o].tries[i].r = r /\ Kind(op[o].tries[i]) \in Passing}

MaxSameRouteTransientRetries == 1

\* Mutant of selectOperationRoute: every passing failure is retried in place.
selectAlwaysAgain(o, kind) ==
  IF kind \in Passing THEN <<Last(op[o].tries).r>> ELSE Untried(o)

\* The route of the next attempt, or none: <<>>.
selectOperationRoute(o, kind) ==
  IF kind \in {"success", "aborted", "context_overflow", "unhandled"} THEN <<>>
  ELSE IF kind \in Passing /\ Cardinality(Failures(o, Last(op[o].tries).r)) <= MaxSameRouteTransientRetries
  THEN <<Last(op[o].tries).r>>
  ELSE Untried(o)

(***************************************************************************)
(* The steps.                                                              *)
(***************************************************************************)
\* The host asks for a route.
Select(o) ==
  /\ op[o].st = "select"
  /\ \E s \in {IF ~active THEN <<>>
               ELSE IF op[o].tries = <<>> THEN Untried(o)
               ELSE selectOperationRoute(o, Kind(Last(op[o].tries)))} :
       op' = IF s = <<>> THEN [op EXCEPT ![o] = [st |-> "done", tries |-> <<>>, at |-> Session]]
             ELSE [op EXCEPT ![o].st = "run", ![o].at = s[1]]
  /\ UNCHANGED <<health, active, told>>

\* An attempt ends.
Attempt(o) ==
  /\ op[o].st = "run"
  /\ \E f \in Facts :
       op' = [op EXCEPT ![o].st = "observe", ![o].tries = Append(@, [r |-> op[o].at, kind |-> classifyRouteAttempt(op[o].at.p, f)])]
  /\ UNCHANGED <<health, active, told>>

Cool(p, n) == [health EXCEPT !.cool[p] = IF n > @ THEN n ELSE @]

\* Mutant of Observe: every failure benches the account.
ObserveAll(o) ==
  /\ op[o].st = "observe"
  /\ \E t \in {Last(op[o].tries)} :
       health' = IF Kind(t) = "success" THEN health ELSE Cool(t.r.p, 1)
  /\ op' = [op EXCEPT ![o].st = "select"] /\ UNCHANGED <<active, told>>

\* observeBackgroundCompletionAttempt; a limit is marked when its length is known.
Observe(o) ==
  /\ op[o].st = "observe"
  /\ \E t \in {Last(op[o].tries)} :
       LET kind == Kind(t)
       IN /\ health' = CASE kind = "success" -> [health EXCEPT !.invalid = @ \ {t.r.p}, !.cool[t.r.p] = 0]
                         [] kind = "auth" -> [health EXCEPT !.invalid = @ \cup {t.r.p}]
                         [] kind = "model" -> [health EXCEPT !.spent = @ \cup {t.r}]
                         [] kind \in Passing -> Cool(t.r.p, 1)
                         [] OTHER -> health
          /\ op' = [op EXCEPT ![o].st = IF kind = "limit" THEN "measure" ELSE "select"]
          /\ told' = CASE kind = "auth" -> [told EXCEPT !.invalid = @ \cup {t.r.p}]
                       [] kind = "model" -> [told EXCEPT !.spent = @ \cup {t.r}]
                       [] kind \in Passing \cup {"limit"} -> [told EXCEPT !.cool = @ \cup {t.r.p}]
                       [] OTHER -> told
  /\ UNCHANGED active

\* Mutant of MarkLimit: bans add up.
MarkLimitAdds(o) ==
  /\ op[o].st = "measure"
  /\ \E n \in 1..MaxCool, p \in {Last(op[o].tries).r.p} : health' = Cool(p, n + health.cool[p])
  /\ op' = [op EXCEPT ![o].st = "select"] /\ UNCHANGED <<active, told>>

\* Mutant of MarkLimit: the answer is dropped with the session.
MarkLimitWhileActive(o) ==
  /\ op[o].st = "measure" /\ active
  /\ \E n \in 1..MaxCool : health' = Cool(Last(op[o].tries).r.p, n)
  /\ op' = [op EXCEPT ![o].st = "select"] /\ UNCHANGED <<active, told>>

\* resolveLimitCooldownMs returns.
MarkLimit(o) ==
  /\ op[o].st = "measure"
  /\ \E n \in 1..MaxCool : health' = Cool(Last(op[o].tries).r.p, n)
  /\ op' = [op EXCEPT ![o].st = "select"] /\ UNCHANGED <<active, told>>

\* The foreground is refused, or served, by an account.
ForegroundRefused ==
  /\ Cardinality(told.cool) < MaxForeground
  /\ \E p \in Provider \ told.cool, n \in 1..MaxCool :
       health' = Cool(p, n) /\ told' = [told EXCEPT !.cool = @ \cup {p}]
  /\ UNCHANGED <<op, active>>

Tick ==
  /\ \E p \in Provider : health.cool[p] > 0
  /\ health' = [health EXCEPT !.cool = [p \in Provider |-> IF @[p] = 0 THEN 0 ELSE @[p] - 1]]
  /\ UNCHANGED <<op, active, told>>

\* The session closes, or the failover is turned off.
Deactivate ==
  /\ active /\ active' = FALSE /\ UNCHANGED <<health, op, told>>

Step(o) == Select(o) \/ Attempt(o) \/ Observe(o) \/ MarkLimit(o)
Next == (\E o \in Op : Step(o)) \/ ForegroundRefused \/ Tick \/ Deactivate

\* The host goes on with an operation, and awaits each answer.
Fairness == \A o \in Op : WF_vars(Step(o))
Spec == Init /\ [][Next]_vars
FairSpec == Spec /\ Fairness

-------------------------------------------------------------------------------
(***************************************************************************)
(* Properties.                                                             *)
(***************************************************************************)
\* Operations are in a known phase; bans are bounded.
TypeOK ==
  /\ \A o \in Op : op[o].st \in {"select", "run", "observe", "measure", "done"} /\ op[o].at \in Route
  /\ health.cool \in [Provider -> 0..MaxCool] /\ health.invalid \subseteq Provider /\ health.spent \subseteq Route

\* An operation comes back to a route only once, and only after a failure that
\* may pass: a route that refused it is not asked again, whatever the others
\* and the foreground do to the bans meanwhile.
OnceAgainAtMost ==
  \A o \in Op, r \in Route :
    LET at == {i \in DOMAIN op[o].tries : op[o].tries[i].r = r}
    IN /\ Cardinality(at) <= 2
       /\ \A i \in at : (\E j \in at : j > i) => Kind(op[o].tries[i]) \in Passing

\* A new route of an operation is one nobody knows to be refused: operations do
\* not pile onto a route that just failed.  Only the same route is tried again
\* behind its ban.
NoPileOnStep ==
  \A o \in Op : (op[o].st = "select" /\ op'[o].st = "run") =>
    \/ Ready(op'[o].at)
    \/ op[o].tries # <<>> /\ op'[o].at = Last(op[o].tries).r /\ Kind(Last(op[o].tries)) \in Passing
NoPileOn == [][NoPileOnStep]_vars

\* What is known of an account comes from a refusal of this account: a prompt
\* that is too long, a cancelled attempt or a consumer's failure bench nothing.
OnlyEvidence ==
  /\ \A p \in Provider : health.cool[p] > 0 => p \in told.cool
  /\ health.invalid \subseteq told.invalid /\ health.spent \subseteq told.spent

\* An operation is given up on a failure of the route only when every ready
\* route has been tried.
GivesUpLastStep ==
  \A o \in Op : (active /\ op[o].st = "select" /\ op'[o].st = "done" /\ op[o].tries # <<>>
                 /\ Kind(Last(op[o].tries)) \in {"auth", "limit", "model", "route_unavailable"} \cup Passing) =>
    \A r \in ToSet(Fallbacks) : Ready(r) /\ r \notin Excluded => r \in attempted(o)
GivesUpLast == [][GivesUpLastStep]_vars

\* An excluded route is taken only as the first of an operation that asks for it.
ExcludedOnlyAsked ==
  \A o \in Op : (op[o].st = "run" /\ op[o].at \in Excluded) =>
    op[o].at \in ToSet(Preferred(o)) \cup {Session} /\ attempted(o) \subseteq {op[o].at}

\* Every operation ends: the retries are bounded by the routes.
OperationsEnd == \A o \in Op : <>(op[o].st = "done")
===============================================================================

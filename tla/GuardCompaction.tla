---------------------------- MODULE GuardCompaction ----------------------------
(***************************************************************************)
(* The context guard of one session: its demand for a summary, the summary *)
(* it asks the host for, and the wake that carries the task on after it.   *)
(*                                                                         *)
(* The extension is e: the guard's flags, the wake it retries, and the     *)
(* part of the automatic chain they depend on.  Each action is a handler,  *)
(* a callback or a timer, run to its end.                                  *)
(* Abstractions: time is left out, a timer may fire whenever it is armed;  *)
(* the governor may stop the chain at any moment (it is asked before each  *)
(* automatic step, see FailoverChain); one model is in use.                *)
(* External: the host, which is not idle while it compacts, answers a      *)
(* request for a summary with an event and then a callback (only what was  *)
(* queued behind the summary comes between them), and takes or rejects a   *)
(* submitted message.                                                      *)
(***************************************************************************)
EXTENDS Naturals, FiniteSets

CONSTANTS
  MaxSeq,    \* summaries the guard may ask for
  MaxTurns,  \* turns
  MaxUser,   \* messages and keys of the user
  Budget,    \* maxAutoContinuesPerPrompt
  NewHost,   \* the host reports failures with session_compact_failed
  Silent,    \* what the host may keep to itself: the "end" of a summary, a "callback"
  Thresholds \* compactions the host makes by itself within a turn

GuardCompactionAssumption ==
  /\ MaxSeq \in Nat /\ MaxTurns \in Nat /\ MaxUser \in Nat /\ Budget \in Nat
  /\ NewHost \in BOOLEAN /\ Silent \subseteq {"end", "callback"} /\ Thresholds \in Nat

VARIABLES
  e,  \* the extension
  h   \* the host

vars == <<e, h>>

Seq == 1..MaxSeq
Failure == {"plain", "access", "model"}

Init ==
  /\ e = [wants |-> FALSE, inFlight |-> FALSE, pending |-> FALSE, pepoch |-> 0, seq |-> 0,
          backoff |-> FALSE, cool |-> FALSE, dog |-> FALSE, access |-> FALSE, reported |-> {},
          asked |-> [s \in Seq |-> 0],                                  \* the epoch of each request
          ready |-> {},                                                 \* continuations that await a model
          timer |-> FALSE, fails |-> 0, wepoch |-> 0, wreq |-> 0,       \* the wake to retry
          subs |-> {}, n |-> 0,                                         \* submissions not settled
          epoch |-> 0, used |-> 0, marker |-> FALSE, aborted |-> FALSE, \* the automatic chain
          due |-> FALSE, takes |-> 0, askedAt |-> [s \in Seq |-> 0],
          woken |-> [s \in Seq |-> 0], since |-> 0]      \* history: who owns the session
  /\ h = [state |-> "idle", by |-> 0, cbs |-> {}, queued |-> FALSE, settle |-> FALSE,
          big |-> FALSE, failed |-> FALSE, turns |-> 0, user |-> 0, natives |-> 0]

isIdle == h.state = "idle"

(***************************************************************************)
(* The extension's functions.                                              *)
(***************************************************************************)
clearRejectedCompactionWake(x) == [x EXCEPT !.timer = FALSE, !.fails = 0]


settleContextGuardCompaction(x) == [x EXCEPT !.inFlight = FALSE, !.dog = FALSE]
told(x) == [x EXCEPT !.due = FALSE]

\* Mutant of claimUserControl: the wake that is being retried is left alone.
ClaimKeepsEpoch(x) == [x EXCEPT !.used = 0, !.marker = FALSE, !.aborted = FALSE, !.due = FALSE]

claimUserControl(x) ==
  [clearRejectedCompactionWake(x) EXCEPT
     !.epoch = @ + 1, !.used = 0, !.marker = FALSE, !.aborted = FALSE, !.due = FALSE]

\* Mutant of submitCompactionWake: the continuation is counted when it is settled.
SubmitUncounted(x, req) ==
  [x EXCEPT !.subs = @ \cup {[n |-> x.n + 1, req |-> req, epoch |-> x.epoch, prev |-> x.marker]},
            !.n = @ + 1, !.marker = TRUE]

submitCompactionWake(x, req) ==
  [x EXCEPT !.subs = @ \cup {[n |-> x.n + 1, req |-> req, epoch |-> x.epoch, prev |-> x.marker]},
            !.n = @ + 1, !.marker = TRUE, !.used = @ + 1]

dispatchContextGuardContinuation(x, req, idle) ==
  LET x1 == [x EXCEPT !.pending = FALSE]
  IN IF ~x.pending \/ x.pepoch # x.epoch \/ x.aborted \/ h.queued \/ ~idle THEN x1
     ELSE IF x.used >= Budget THEN told(x1) ELSE submitCompactionWake(x1, req)

\* Mutant of pauseCompactionForAccessFailure: the continuation stays armed.
PauseDemandOnly(x) == [told(x) EXCEPT !.access = TRUE, !.wants = FALSE]

pauseCompactionForAccessFailure(x) ==
  [told(x) EXCEPT !.access = TRUE, !.wants = FALSE, !.pending = FALSE]

\* The continuation after a failure: at once, or when a model has been found.
ContinueAfterFailure(x, req, epoch, idle) ==
  IF epoch # x.epoch \/ req # x.seq \/ x.aborted THEN x
  ELSE dispatchContextGuardContinuation([x EXCEPT !.pending = TRUE], req, idle)

\* Mutant of failContextGuardCompaction: a failed summary ends the task.
FailStops(x, kind, known, idle) ==
  LET x1 == IF kind = "access" THEN pauseCompactionForAccessFailure(x) ELSE x
  IN settleContextGuardCompaction([x1 EXCEPT !.wants = FALSE, !.pending = FALSE, !.backoff = TRUE])

\* Mutant of failContextGuardCompaction: every report of the failure resumes.
FailAlwaysResumes(x, kind, known, idle) ==
  LET x1 == IF kind = "access" THEN pauseCompactionForAccessFailure(x) ELSE x
      x2 == settleContextGuardCompaction([x1 EXCEPT !.wants = FALSE, !.pending = FALSE, !.backoff = TRUE])
  IN IF x1.access \/ x.aborted THEN x2 ELSE ContinueAfterFailure(x2, x.seq, x.pepoch, idle)

\* Mutant of failContextGuardCompaction: a refusal of access is a failure like others.
FailIgnoringAccess(x, kind, known, idle) ==
  LET x1 == IF kind = "access" THEN [x EXCEPT !.access = TRUE] ELSE x
      x2 == settleContextGuardCompaction([x1 EXCEPT !.wants = FALSE, !.pending = FALSE, !.backoff = TRUE])
  IN IF ~x.pending \/ x.aborted THEN x2 ELSE ContinueAfterFailure(x2, x.seq, x.pepoch, idle)

\* known: the route of the request that failed was reported.
failContextGuardCompaction(x, kind, known, idle) ==
  LET had == x.wants \/ x.inFlight
      x1 == IF kind = "access" THEN pauseCompactionForAccessFailure(x) ELSE x
      x2 == settleContextGuardCompaction([x1 EXCEPT !.wants = FALSE, !.pending = FALSE,
                                                    !.backoff = had \/ @])
  IN IF ~x.pending \/ x1.access \/ x.aborted THEN x2
     ELSE IF kind # "model" THEN ContinueAfterFailure(x2, x.seq, x.pepoch, idle)
     ELSE IF known THEN [x2 EXCEPT !.ready = @ \cup {[seq |-> x.seq, epoch |-> x.pepoch]}]
     ELSE told(x2)

retryRejectedCompactionWake(x, req, epoch) ==
  IF epoch # x.epoch \/ x.aborted THEN x
  ELSE LET n == IF x.fails < 3 THEN x.fails + 1 ELSE 3
       IN IF n = 3 THEN told([x EXCEPT !.fails = n])
          ELSE [x EXCEPT !.fails = n, !.timer = TRUE, !.wepoch = epoch, !.wreq = req]

\* Mutant of Compacted: the demand outlives the summary.
DemandStays(x) ==
  settleContextGuardCompaction([x EXCEPT !.access = FALSE, !.backoff = FALSE])

\* session_compact: the guard starts clean.
Compacted(x) ==
  settleContextGuardCompaction([x EXCEPT !.access = FALSE, !.backoff = FALSE, !.wants = FALSE])

(***************************************************************************)
(* Turns.                                                                  *)
(***************************************************************************)
\* Any turn takes the task on.
Begin == [h EXCEPT !.state = "turn", !.turns = @ + 1, !.queued = FALSE, !.failed = FALSE,
                   !.settle = FALSE]

\* The user sends a message: input, then before_agent_start; or it steers a
\* turn, or waits for the compaction to end.
UserSpeaks ==
  /\ h.user < MaxUser /\ h.turns < MaxTurns /\ h.cbs = {}
  /\ CASE h.state = "idle" -> h' = [Begin EXCEPT !.user = @ + 1]
       [] h.state = "turn" -> h' = [h EXCEPT !.user = @ + 1]
       [] OTHER -> h' = [h EXCEPT !.user = @ + 1, !.queued = TRUE]
  /\ e' = IF h.state = "compacting" THEN e
          ELSE [claimUserControl(e) EXCEPT !.access = FALSE, !.since = 0, !.takes = @ + 1]

\* The host sends on what was queued for after the compaction.
Flush ==
  /\ isIdle /\ h.queued
  /\ h' = Begin
  /\ e' = [claimUserControl(e) EXCEPT !.access = FALSE, !.since = 0, !.takes = @ + 1]

\* The failover chain resumes a turn that failed.
ResumeTurn ==
  /\ isIdle /\ h.failed /\ ~h.queued /\ h.cbs = {} /\ ~e.aborted /\ h.turns < MaxTurns
  /\ h' = Begin /\ e' = told(e)

\* Mutant of Context: a demand once raised stays.
ContextLatched ==
  /\ h.state = "turn"
  /\ \E big \in BOOLEAN :
       /\ h' = [h EXCEPT !.big = big]
       /\ e' = [e EXCEPT !.wants = @ \/ (big /\ ~e.access /\ ~e.backoff)]

\* The context hook, before a request of the turn.
Context ==
  /\ h.state = "turn"
  /\ \E big \in BOOLEAN :
       /\ h' = [h EXCEPT !.big = big]
       /\ e' = [e EXCEPT !.wants = big /\ ~e.access /\ ~e.backoff]

TurnEnds ==
  /\ h.state = "turn"
  /\ \E how \in {"stop", "error"} :
       /\ h' = [h EXCEPT !.state = "idle", !.settle = TRUE, !.failed = (how = "error")]
       /\ e' = IF how = "error" THEN e
               ELSE [clearRejectedCompactionWake(e) EXCEPT !.epoch = @ + 1, !.due = FALSE]

UserAborts ==
  /\ h.state = "turn" /\ h.user < MaxUser
  /\ h' = [h EXCEPT !.state = "idle", !.settle = TRUE, !.user = @ + 1]
  /\ e' = [told(e) EXCEPT !.epoch = @ + 1, !.aborted = TRUE, !.takes = @ + 1]

\* stopEverything.
GovernorStops ==
  /\ ~e.aborted
  /\ e' = [told(e) EXCEPT !.epoch = @ + 1, !.aborted = TRUE, !.marker = FALSE, !.takes = @ + 1]
  /\ UNCHANGED h

(***************************************************************************)
(* The summary.                                                            *)
(***************************************************************************)
\* agent_settled: the guard asks for a summary.
Settled ==
  /\ h.settle
  /\ LET s == e.seq + 1
         ask == /\ e.wants /\ ~e.access /\ ~e.inFlight /\ ~e.backoff /\ ~e.cool
                /\ isIdle /\ ~h.queued /\ ~e.aborted /\ s \in Seq
     IN /\ h' = IF ask THEN [h EXCEPT !.settle = FALSE, !.state = "compacting", !.by = s]
                ELSE [h EXCEPT !.settle = FALSE]
        /\ e' = IF ask THEN [e EXCEPT !.inFlight = TRUE, !.pending = TRUE, !.pepoch = e.epoch,
                                      !.seq = s, !.asked[s] = e.epoch, !.askedAt[s] = e.takes, !.cool = TRUE,
                                      !.dog = TRUE, !.due = TRUE]
                ELSE e

Owed(kind, known) == IF h.by = 0 THEN h.cbs ELSE h.cbs \cup {[seq |-> h.by, kind |-> kind, known |-> known]}

SummaryDone ==
  /\ h.state = "compacting"
  /\ h' = [h EXCEPT !.state = "idle", !.big = FALSE, !.cbs = Owed("done", TRUE), !.by = 0]
  /\ e' = Compacted(e)

\* session_compact_failed, on a host that has it; the user may have cancelled.
SummaryFails ==
  /\ h.state = "compacting"
  /\ \E kind \in Failure, known \in BOOLEAN :
       /\ h' = [h EXCEPT !.state = "idle", !.cbs = Owed(kind, known), !.by = 0]
       /\ e' = IF ~NewHost THEN e
               ELSE IF e.wants \/ e.inFlight THEN failContextGuardCompaction(e, kind, known, TRUE)
               ELSE IF kind = "access" THEN pauseCompactionForAccessFailure(e) ELSE e

\* The compaction ends and nobody is told.
SummaryVanishes ==
  /\ "end" \in Silent /\ h.state = "compacting"
  /\ h' = [h EXCEPT !.state = "idle", !.by = 0]
  /\ UNCHANGED e

CallbackDropped(cb) ==
  /\ "callback" \in Silent /\ cb \in h.cbs
  /\ h' = [h EXCEPT !.cbs = @ \ {cb}]
  /\ UNCHANGED e

OnComplete(cb) ==
  /\ cb \in h.cbs /\ cb.kind = "done"
  /\ h' = [h EXCEPT !.cbs = @ \ {cb}]
  /\ e' = IF cb.seq \in e.reported \/ cb.seq # e.seq THEN e
          ELSE dispatchContextGuardContinuation(
                 settleContextGuardCompaction([e EXCEPT !.reported = @ \cup {cb.seq}]),
                 cb.seq, isIdle)

\* Mutant of OnError: a late answer is ignored altogether.
OnErrorStaleIgnored(cb) ==
  /\ cb \in h.cbs /\ cb.kind \in Failure
  /\ h' = [h EXCEPT !.cbs = @ \ {cb}]
  /\ LET x == [e EXCEPT !.reported = @ \cup {cb.seq}] IN
     e' = IF cb.seq \in e.reported \/ cb.seq # e.seq THEN e
          ELSE IF e.asked[cb.seq] # e.epoch THEN [x EXCEPT !.pending = FALSE, !.dog = FALSE]
          ELSE failContextGuardCompaction(x, cb.kind, cb.known, isIdle)

OnError(cb) ==
  /\ cb \in h.cbs /\ cb.kind \in Failure
  /\ h' = [h EXCEPT !.cbs = @ \ {cb}]
  /\ LET x == [e EXCEPT !.reported = @ \cup {cb.seq}] IN
     e' = IF cb.seq \in e.reported \/ cb.seq # e.seq THEN e
          ELSE IF e.asked[cb.seq] # e.epoch
               THEN settleContextGuardCompaction([x EXCEPT !.pending = FALSE])
          ELSE failContextGuardCompaction(x, cb.kind, cb.known, isIdle)

\* Mutant of WatchdogExpires: elapsed time counts as the end of the summary.
WatchdogBlind ==
  /\ e.dog /\ e' = failContextGuardCompaction([e EXCEPT !.dog = FALSE], "plain", TRUE, isIdle)
  /\ UNCHANGED h

\* The watchdog of the callback: only an idle host is taken to be done.
WatchdogExpires ==
  /\ e.dog
  /\ LET x == [e EXCEPT !.dog = FALSE] IN
     e' = IF e.inFlight /\ isIdle THEN failContextGuardCompaction(x, "plain", TRUE, isIdle) ELSE x
  /\ UNCHANGED h

\* The host compacts by itself within a turn (threshold), and goes on if a
\* message is queued: the extension queues one at once.
ThresholdCompact ==
  /\ h.state = "turn" /\ h.natives < Thresholds
  /\ h' = [h EXCEPT !.natives = @ + 1, !.big = FALSE]
  /\ LET x == Compacted(e) IN
     e' = IF x.aborted THEN x
          ELSE IF x.used >= Budget THEN told(x) ELSE submitCompactionWake(x, 0)

\* Or it starts one when idle, as the user may: the guard does not own it.
NativeCompact ==
  /\ isIdle /\ h.natives < Thresholds /\ h.cbs = {}
  /\ h' = [h EXCEPT !.natives = @ + 1, !.state = "compacting", !.by = 0]
  /\ UNCHANGED e

BackoffEnds == e.backoff /\ e' = [e EXCEPT !.backoff = FALSE] /\ UNCHANGED h
CoolingEnds == e.cool /\ e' = [e EXCEPT !.cool = FALSE] /\ UNCHANGED h

(***************************************************************************)
(* The wake.                                                               *)
(***************************************************************************)
\* The background continuation after the model of the summary was refused.
ModelFound(r) ==
  /\ r \in e.ready
  /\ LET x == [e EXCEPT !.ready = @ \ {r}]
         stale == r.epoch # e.epoch \/ r.seq # e.seq \/ e.aborted
     IN \E found \in BOOLEAN :
          e' = IF stale THEN x
               ELSE IF found THEN ContinueAfterFailure(x, r.seq, r.epoch, isIdle) ELSE told(x)
  /\ UNCHANGED h

\* The host takes the message: it starts a turn (before_agent_start), or joins
\* the turn that runs.
Accept(sub) ==
  /\ sub \in e.subs /\ h.state # "compacting" /\ h.cbs = {} /\ (isIdle => h.turns < MaxTurns)
  /\ h' = IF isIdle THEN Begin ELSE h
  /\ LET x == [e EXCEPT !.subs = @ \ {sub}, !.due = FALSE,
                        !.woken = IF sub.req = 0 THEN @ ELSE [@ EXCEPT ![sub.req] = @ + 1],
                        !.since = IF sub.epoch = e.epoch THEN @ + 1 ELSE @]
         x1 == IF ~isIdle THEN x
               ELSE IF x.marker THEN [x EXCEPT !.marker = FALSE] ELSE claimUserControl(x)
     IN e' = IF sub.epoch = x1.epoch THEN clearRejectedCompactionWake(x1) ELSE x1

Reject(sub) ==
  /\ sub \in e.subs
  /\ LET x == [e EXCEPT !.subs = @ \ {sub}] IN
     e' = IF sub.epoch # e.epoch THEN x
          ELSE retryRejectedCompactionWake(
                 [x EXCEPT !.used = IF @ > 0 THEN @ - 1 ELSE 0, !.marker = sub.prev], sub.req, sub.epoch)
  /\ UNCHANGED h

\* poll: the retry waits for an idle host, up to a deadline.
Poll ==
  /\ e.timer
  /\ LET x == [e EXCEPT !.timer = FALSE]
         stale == e.wepoch # e.epoch \/ e.aborted
     IN IF stale THEN e' = x
        ELSE IF isIdle
             THEN e' = dispatchContextGuardContinuation(
                         [x EXCEPT !.pending = TRUE, !.pepoch = e.wepoch], e.wreq, TRUE)
             ELSE \E late \in BOOLEAN : e' = IF late THEN told(x) ELSE e
  /\ UNCHANGED h

Next ==
  \/ UserSpeaks \/ Flush \/ ResumeTurn \/ Context \/ TurnEnds \/ UserAborts \/ GovernorStops
  \/ Settled \/ SummaryDone \/ SummaryFails \/ SummaryVanishes
  \/ WatchdogExpires \/ ThresholdCompact \/ NativeCompact \/ BackoffEnds \/ CoolingEnds
  \/ \E cb \in h.cbs : CallbackDropped(cb) \/ OnComplete(cb) \/ OnError(cb)
  \/ \E r \in e.ready : ModelFound(r)
  \/ \E sub \in e.subs : Accept(sub) \/ Reject(sub)
  \/ Poll

Spec == Init /\ [][Next]_vars

\* Timers fire, turns and compactions end, the host answers and flushes its queue.
Fairness ==
  /\ WF_vars(WatchdogExpires) /\ WF_vars(Poll) /\ WF_vars(Flush)
  /\ WF_vars(TurnEnds) /\ WF_vars(SummaryDone \/ SummaryFails)
  /\ WF_vars(\E cb \in h.cbs : OnComplete(cb) \/ OnError(cb))
  /\ WF_vars(\E r \in e.ready : ModelFound(r))
  /\ WF_vars(\E sub \in e.subs : Accept(sub) \/ Reject(sub))

FairSpec == Spec /\ Fairness

-------------------------------------------------------------------------------
(***************************************************************************)
(* Properties.                                                             *)
(***************************************************************************)
\* The state keeps its kind, and the watchdog runs only for a request in flight.
TypeOK ==
  /\ e.seq \in 0..MaxSeq /\ e.fails \in 0..3 /\ e.used \in 0..Budget
  /\ e.reported \subseteq Seq /\ \A r \in e.ready : r.seq \in Seq
  /\ h.state \in {"idle", "turn", "compacting"} /\ h.by \in 0..MaxSeq
  /\ e.dog => e.inFlight

\* While a summary the guard asked for runs, the gate against a second one is
\* closed, however long it takes.
GateHolds == h.state = "compacting" /\ h.by # 0 => e.inFlight /\ e.seq = h.by

\* One summary carries the task on at most once, whatever the host reports of it.
WakeOnce == \A s \in Seq : e.woken[s] <= 1

\* Between two messages of the user no more wakes are taken than the budget.
WithinBudget == e.since <= Budget

\* A wake is submitted only while the chain that asked for the summary owns the
\* session: not after the user spoke or the chain was stopped.
WakeOfThisChainStep ==
  \A sub \in e'.subs \ e.subs :
    ~e.aborted /\ (sub.req # 0 => e.askedAt[sub.req] = e.takes)
WakeOfThisChain == [][WakeOfThisChainStep]_vars

\* While access to the summary is refused nothing goes on by itself: no wake.
AccessPausesStep ==
  \A sub \in e'.subs \ e.subs : ~e'.access
AccessPauses == [][AccessPausesStep]_vars

\* A summary is asked for only if the context last seen called for one.
AskedForCauseStep ==
  e'.seq # e.seq => h.big
AskedForCause == [][AskedForCauseStep]_vars

\* After the guard's summary, however it ended, the task goes on, or the user
\* took over or was told why it does not.
WorkGoesOn == e.due ~> ~e.due

\* The gate opens again.
GuardComesBack == e.inFlight ~> ~e.inFlight
===============================================================================

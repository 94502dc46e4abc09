--------------------------- MODULE FailoverChain ---------------------------
(***************************************************************************)
(* The automatic failover chain of one Pi session.                         *)
(*                                                                         *)
(* When a turn fails on a spent account the extension switches to another  *)
(* one and continues the work by itself: it injects a continuation prompt  *)
(* (or, on hosts that can, continues the agent in place).  When no account *)
(* is free it parks the work ("pending") behind a timer.  A governor, a    *)
(* circuit breaker and a watchdog bound what it does, and a user who stops *)
(* it, types, or picks an account takes the session over at once.          *)
(*                                                                         *)
(* The code is one JavaScript thread: handlers of the host's hooks, timer  *)
(* callbacks and commands are asynchronous functions, and any of them may  *)
(* run while another one awaits.  What a function may still do after an    *)
(* await is decided by comparing the chain epoch it captured before with   *)
(* the current one.  An epoch is only ever compared for equality with the  *)
(* current one, so it is modelled by what the comparison says: a function  *)
(* in flight, and an armed timer, are either fresh or superseded.          *)
(*                                                                         *)
(* One action is one run of code between two awaits.  Which accounts are   *)
(* ready is chosen anew wherever the code asks.                            *)
(***************************************************************************)
EXTENDS Naturals, FiniteSets

CONSTANTS
  Background,    \* slots for functions that run beside the hooks: wakes and dispatches
  Seamless,      \* the host has pi.continueAgent
  MaxAuto,       \* config.maxAutoContinuesPerPrompt
  RequestLimit,  \* automatic steps without a request at which the governor stops
  BreakerLimit,  \* failed recoveries in a row at which the breaker opens
  MaxQueued      \* bound: injected prompts the host holds at a time

ASSUME ChainAssumption ==
  /\ IsFiniteSet(Background) /\ Background \cap {"hook", "user", "none"} = {}
  /\ Seamless \in BOOLEAN
  /\ MaxAuto \in Nat \ {0} /\ RequestLimit \in Nat \ {0}
  /\ BreakerLimit \in Nat \ {0} /\ MaxQueued \in Nat

\* A hook the host awaits, a command or an input of the user, background work.
Task == {"hook", "user"} \cup Background

\* Where a function in flight waits: for a probe of the account (a refresh, a
\* usage read), for setModel, for sendUserMessage before and after the host
\* took the prompt, for the previous turn, for continueAgent.
Stage == {"none", "probing", "switching", "switched", "restoring", "restored",
          "sending", "sent", "idling", "continuing", "continued"}

\* What it does it for: to leave a failed account, to have a ready account for
\* a starting turn or for an input, on the user's order, to move parked work,
\* to resume it where it was, to continue after agent_end.
Goal == {"none", "fail", "start", "ready", "manual", "hop", "same", "end"}

\* "holds": the switch it dispatches is still the current one.
Frame == [stage : Stage, goal : Goal, fresh : BOOLEAN, holds : BOOLEAN]
NoFrame == [stage |-> "none", goal |-> "none", fresh |-> FALSE, holds |-> FALSE]

Memory == [
  aborted    : BOOLEAN,                     \* userAbortedChain
  stopped    : BOOLEAN,                     \* governorStoppedReason
  closed     : BOOLEAN,                     \* sessionClosed
  switch     : BOOLEAN,                     \* currentPromptSwitch is set
  target     : BOOLEAN,                     \* automaticModelTarget is set
  dispatched : BOOLEAN,                     \* continuationDispatchedForAgentTurn
  expecting  : BOOLEAN,                     \* expectingInjectedContinuation
  auto       : 0 .. MaxAuto + Cardinality(Background),  \* autoContinuesThisPrompt
  hops       : 0 .. MaxAuto + Cardinality(Background),                \* pendingResumeHops
  actions    : 0 .. RequestLimit,           \* actionsSinceRequest
  pending    : {"none", "same", "rotate"},  \* pendingResume: stay, or move on
  timer      : {"off", "fresh", "stale"},   \* pendingWakeTimer
  watch      : {"none"} \cup Task,          \* activeResumeWatch, by its owner
  watchdog   : BOOLEAN,                     \* progressWatchdogTimer is armed
  cancelling : BOOLEAN,                     \* watchdogAborting
  failures   : 0 .. BreakerLimit,           \* recoveryFailures
  open       : BOOLEAN,                     \* breakerOpenUntil lies ahead
  task       : [Task -> Frame]]

VARIABLES
  memory,    \* what the extension keeps in memory for the session
  turn,      \* the host's agent: no turn, preflight, model at work, last message out
  stop,      \* stop reason of the message that finished the turn
  signal,    \* the abort signal of the running turn is raised
  injected,  \* injected prompts the host accepted and has not started
  typed      \* a prompt of the user waits to start

host == <<turn, stop, signal, injected, typed>>
vars == <<memory, host>>

TypeOK ==
  /\ memory \in Memory
  /\ turn \in {"idle", "starting", "running", "finished"}
  /\ stop \in {"stop", "error", "aborted"}
  /\ signal \in BOOLEAN /\ typed \in BOOLEAN
  /\ injected \in 0 .. MaxQueued

busy == turn \in {"running", "finished"}   \* ~ctx.isIdle()

Init ==
  /\ memory = [aborted |-> FALSE, stopped |-> FALSE, closed |-> FALSE, switch |-> FALSE,
               target |-> FALSE, dispatched |-> FALSE, expecting |-> FALSE, auto |-> 0,
               hops |-> 0, actions |-> 0, pending |-> "none", timer |-> "off",
               watch |-> "none", watchdog |-> FALSE, cancelling |-> FALSE,
               failures |-> 0, open |-> FALSE, task |-> [t \in Task |-> NoFrame]]
  /\ turn = "idle" /\ stop = "stop" /\ signal = FALSE /\ injected = 0 /\ typed = FALSE

-----------------------------------------------------------------------------
(* The helpers every handler is made of: functions of the memory m. *)

\* chainEpoch++: whatever was captured before no longer matches.
bumpEpoch(m) ==
  [m EXCEPT !.timer = IF @ = "off" THEN "off" ELSE "stale",
            !.task = [t \in Task |-> [m.task[t] EXCEPT !.fresh = FALSE]]]

\* An assignment to currentPromptSwitch: a new record, or none.
setSwitch(m, b) ==
  [m EXCEPT !.switch = b, !.task = [t \in Task |-> [m.task[t] EXCEPT !.holds = FALSE]]]

clearPendingContinuation(m) == [m EXCEPT !.pending = "none", !.timer = "off"]
resetGovernor(m) == [m EXCEPT !.actions = 0, !.stopped = FALSE]
endResumeWatch(m) == [m EXCEPT !.watch = "none", !.watchdog = FALSE]
noteResumeProgress(m) == [m EXCEPT !.watchdog = @ \/ m.watch # "none"]
beginResumeWatch(m, t) == [m EXCEPT !.watch = t, !.watchdog = TRUE]

\* The function beginResumeWatch returned: only its own watch is ended.
stopResumeWatch(m, t) == IF m.watch = t THEN endResumeWatch(m) ELSE m

claimUserControl(m) ==
  clearPendingContinuation(endResumeWatch(setSwitch(resetGovernor(
    [bumpEpoch(m) EXCEPT !.auto = 0, !.hops = 0, !.aborted = FALSE,
                         !.dispatched = FALSE, !.expecting = FALSE]), FALSE)))

stopEverything(m) ==
  IF m.stopped THEN m
  ELSE clearPendingContinuation(setSwitch(
         [bumpEpoch(m) EXCEPT !.stopped = TRUE, !.aborted = TRUE, !.cancelling = FALSE,
                              !.expecting = FALSE, !.hops = 0, !.watchdog = FALSE], FALSE))

\* The governor is asked before every automatic step: it says no once it has
\* stopped, and stops at the step that makes too many without a request.
allowed(m) == ~m.stopped /\ m.actions + 1 < RequestLimit

\* Mutant of allowAction: the limit is not looked at.
countOnly(m) == IF m.stopped THEN m ELSE [m EXCEPT !.actions = @ + 1]

allowAction(m) ==
  LET counted == [m EXCEPT !.actions = @ + 1] IN
  IF m.stopped THEN m ELSE IF allowed(m) THEN counted ELSE stopEverything(counted)

schedulePendingWake(m) ==
  [m EXCEPT !.timer =
     IF m.stopped \/ m.open \/ m.aborted \/ m.pending = "none" THEN "off" ELSE "fresh"]

\* Mutant of setPendingContinuation: parks whatever happened meanwhile.
parkAlways(m, reason) == schedulePendingWake([m EXCEPT !.pending = reason])

setPendingContinuation(m, reason) ==
  IF m.stopped \/ m.open \/ m.aborted THEN m
  ELSE schedulePendingWake([m EXCEPT !.pending = reason])

noteRecoveryFailure(m) ==
  LET n == IF m.failures < BreakerLimit THEN m.failures + 1 ELSE BreakerLimit IN
  [m EXCEPT !.failures = n, !.open = @ \/ n = BreakerLimit]

noteRecoveryProgress(m) ==
  clearPendingContinuation([m EXCEPT !.failures = 0, !.open = FALSE])

\* A function begins to wait, with the epoch of this moment; a function ends.
begin(m, t, stage, goal) ==
  [m EXCEPT !.task[t] = [stage |-> stage, goal |-> goal, fresh |-> TRUE, holds |-> @.holds]]
done(m, t) == [m EXCEPT !.task[t] = NoFrame]

-----------------------------------------------------------------------------
(* Resuming the interrupted turn. *)

\* The caller of a resume that started nothing keeps the work armed, unless the
\* chain has moved on.
notResumed(m, t, goal) ==
  LET still == IF goal = "same" THEN m.task[t].fresh ELSE m.task[t].holds /\ ~signal IN
  done(IF m.pending = "none" /\ still /\ ~m.closed /\ ~m.aborted
       THEN setPendingContinuation(m, "same") ELSE m, t)

resumed(m, t, goal) ==
  done(IF goal = "same" THEN m
       ELSE [m EXCEPT !.dispatched = TRUE,
                      !.hops = IF goal = "hop" /\ m.task[t].fresh THEN 0 ELSE @], t)

\* Mutant of injectContinuationPrompt: the callers' look at the budget will do.
injectUnbudgeted(m, t, goal) ==
  begin(beginResumeWatch([m EXCEPT !.auto = @ + 1, !.expecting = TRUE], t), t, "sending", goal)

\* Blocked by the budget, or: count it, expect it, watch it, send it.
injectContinuationPrompt(m, t, goal) ==
  IF m.auto >= MaxAuto
  THEN notResumed(m, t, goal)
  ELSE begin(beginResumeWatch([m EXCEPT !.auto = @ + 1, !.expecting = TRUE], t),
             t, "sending", goal)

resumeWithExistingContext(m, t, goal) ==
  LET n == allowAction(m) IN
  IF m.closed \/ m.aborted \/ signal THEN notResumed(m, t, goal)
  ELSE IF ~allowed(m) THEN notResumed(n, t, goal)
  ELSE IF Seamless THEN begin(n, t, "idling", goal)
  ELSE injectContinuationPrompt(n, t, goal)

\* maybeDispatchContinuation: "ready" says whether the account now selected is.
maybeDispatchContinuation(m, t, goal, ready) ==
  IF m.aborted \/ signal \/ ~m.switch \/ m.auto >= MaxAuto \/ m.open THEN done(m, t)
  ELSE IF ~ready THEN done(setPendingContinuation(m, "rotate"), t)
  ELSE resumeWithExistingContext([begin(m, t, "none", goal) EXCEPT !.task[t].holds = TRUE], t, goal)

-----------------------------------------------------------------------------
(* Switching the account. *)

\* What the caller of activateFallback does when no switch happened.
notSwitched(m, t, goal, ready) ==
  LET moves == m.task[t].fresh /\ ~(goal = "fail" /\ (m.aborted \/ signal)) IN
  done(CASE moves /\ goal = "hop" -> schedulePendingWake(m)
         [] moves /\ goal = "fail" -> IF ready THEN setSwitch(m, TRUE)
                                      ELSE setPendingContinuation(m, "rotate")
         [] OTHER -> m, t)

\* Is this function, or its session, superseded?  A manual switch is the
\* user's own and is not held up by an earlier abort.
stale(m, t, goal) ==
  m.closed \/ ~m.task[t].fresh \/ (goal # "manual" /\ (m.aborted \/ signal))

activateFallback(m, t, goal, ready) ==
  LET b == begin(m, t, "switching", goal)
      n == IF goal = "manual" THEN resetGovernor(b) ELSE allowAction(b) IN
  IF (goal = "manual" \/ allowed(b)) /\ ~stale(n, t, goal)
  THEN [n EXCEPT !.target = TRUE]
  ELSE notSwitched(n, t, goal, ready)

\* The route is in place; the switch is recorded when work is to continue on it.
activated(m, t, goal, ready) ==
  CASE goal = "fail" -> done(setSwitch(m, TRUE), t)
    [] goal = "hop"  -> maybeDispatchContinuation(
                          clearPendingContinuation([setSwitch(m, TRUE) EXCEPT !.hops = @ + 1]),
                          t, goal, ready)
    [] OTHER -> done(setSwitch(m, FALSE), t)

\* ensureReadyModel: nothing to do, or leave the account for another one.
ensureReadyModel(m, t, goal, ready, other) ==
  IF ready \/ ~other THEN m ELSE activateFallback(m, t, goal, ready)

-----------------------------------------------------------------------------
(* The pending wake: the timer fires, and attemptPendingResume looks around. *)

Idle(t) == memory.task[t] = NoFrame
At(t, stage) == memory.task[t].stage = stage
goalOf(t) == memory.task[t].goal

\* The timer has fired.
fired == [memory EXCEPT !.timer = "off"]

\* The guards of attemptPendingResume, after those of the timer callback.
Awake(b) == memory.timer = "fresh" /\ Idle(b) /\ memory.pending # "none" /\ ~memory.open /\ ~memory.aborted
exhausted == memory.auto >= MaxAuto \/ memory.hops >= MaxAuto
Looks(b) == Awake(b) /\ ~busy /\ ~exhausted

\* A chain that was superseded while the timer slept, or has nothing to do.
WakeDropped ==
  /\ memory.timer # "off"
  /\ memory.timer = "stale" \/ memory.pending = "none" \/ memory.open \/ memory.aborted
  /\ memory' = fired
  /\ UNCHANGED host

WakeCancelled(b) ==
  /\ Awake(b) /\ ~busy /\ exhausted
  /\ memory' = clearPendingContinuation(fired)
  /\ UNCHANGED host

\* Mutant of WakeWaits: the timer is not armed again.
WakeForgets(b) ==
  /\ Awake(b) /\ (busy \/ ~exhausted)
  /\ memory' = fired
  /\ UNCHANGED host

\* Nothing is ready yet, or a turn is running.
WakeWaits(b) ==
  /\ Awake(b) /\ (busy \/ ~exhausted)
  /\ memory' = schedulePendingWake(fired)
  /\ UNCHANGED host

\* The account the work stopped on is ready: resume there, after putting the
\* session back on it if it was moved meanwhile.
WakeResumes(b) ==
  /\ Looks(b)
  /\ LET m == clearPendingContinuation(fired) IN
     \/ memory' = resumeWithExistingContext(begin(m, b, "none", "same"), b, "same")
     \/ /\ memory.pending = "same"
        /\ memory' = [begin(m, b, "restoring", "same") EXCEPT !.target = TRUE]
  /\ UNCHANGED host

\* Another account is ready: move the work.
WakeHops(b) ==
  /\ Looks(b) /\ memory.pending = "rotate"
  /\ memory' = activateFallback(fired, b, "hop", FALSE)
  /\ UNCHANGED host

-----------------------------------------------------------------------------
(* The answers of setModel, sendUserMessage and continueAgent. *)

\* An input the user's frame held back goes to the host when the frame ends.
Forward(t) ==
  typed' = (typed \/ (goalOf(t) = "ready" /\ memory'.task[t] = NoFrame /\ ~memory.closed))

\* The route changes, and the host reports it to model_select: a change that
\* is not the announced one is taken for a choice of the user.
SetModelLands(t) ==
  /\ At(t, "switching") \/ At(t, "restoring")
  /\ LET m == IF memory.target \/ memory.closed THEN memory ELSE claimUserControl(memory) IN
     memory' = [m EXCEPT !.target = FALSE,
                         !.task[t].stage = IF @ = "switching" THEN "switched" ELSE "restored"]
  /\ UNCHANGED host

\* The candidate is skipped: on to the next, or there is none left.
SetModelFails(t) ==
  /\ At(t, "switching")
  /\ \/ ~stale(memory, t, goalOf(t)) /\ memory' = [memory EXCEPT !.target = TRUE]
     \/ \E ready \in BOOLEAN :
          memory' = notSwitched([memory EXCEPT !.target = FALSE], t, goalOf(t), ready)
  /\ Forward(t)
  /\ UNCHANGED <<turn, stop, signal, injected>>

Switched(t) ==
  /\ At(t, "switched")
  /\ \E ready \in BOOLEAN :
       memory' = IF stale(memory, t, goalOf(t)) THEN notSwitched(memory, t, goalOf(t), ready)
                 ELSE activated(memory, t, goalOf(t), ready)
  /\ Forward(t)
  /\ UNCHANGED <<turn, stop, signal, injected>>

\* The restore is refused: the resume goes on where the session is; or setModel
\* throws, and the work, taken off its timer before, is gone.
RestoreFails(t) ==
  /\ At(t, "restoring")
  /\ LET m == [memory EXCEPT !.target = FALSE] IN
     memory' \in {[m EXCEPT !.task[t].stage = "restored"], done(m, t)}
  /\ UNCHANGED host

\* Mutant of Restored: the epoch is not compared after setModel.
RestoredBlindly(t) ==
  /\ At(t, "restored")
  /\ memory' = IF memory.closed THEN done(memory, t)
               ELSE resumeWithExistingContext(memory, t, "same")
  /\ UNCHANGED host

Restored(t) ==
  /\ At(t, "restored")
  /\ memory' = IF ~memory.task[t].fresh \/ memory.closed THEN done(memory, t)
               ELSE resumeWithExistingContext(memory, t, "same")
  /\ UNCHANGED host

\* The host takes the prompt, now or to follow the running turn, ...
SendAccepted(t) ==
  /\ At(t, "sending") /\ injected < MaxQueued
  /\ memory' = [memory EXCEPT !.task[t].stage = "sent"]
  /\ injected' = IF memory.closed THEN injected ELSE injected + 1
  /\ UNCHANGED <<turn, stop, signal, typed>>

\* Mutant of SendResolves: success is booked on whatever chain is current.
SendBooked(t) ==
  /\ At(t, "sent")
  /\ memory' = resumed(memory, t, goalOf(t))
  /\ UNCHANGED host

\* ... and its promise settles at any time after that,
SendResolves(t) ==
  /\ At(t, "sent")
  /\ memory' = IF memory.task[t].fresh THEN resumed(memory, t, goalOf(t))
               ELSE notResumed(stopResumeWatch(memory, t), t, goalOf(t))
  /\ UNCHANGED host

\* ... or it rejects the prompt ("already processing").
SendRejected(t) ==
  /\ At(t, "sending")
  /\ LET m == stopResumeWatch(memory, t)
         undone == [m EXCEPT !.auto = IF @ = 0 THEN 0 ELSE @ - 1, !.expecting = FALSE]
     IN memory' = notResumed(IF m.task[t].fresh THEN undone ELSE m, t, goalOf(t))
  /\ UNCHANGED host

\* Mutant of IdleEnds: the epoch is not compared after the wait.
IdleEndsBlindly(t) ==
  /\ At(t, "idling")
  /\ ~busy \/ ~memory.task[t].fresh \/ memory.aborted \/ signal
  /\ memory' = IF memory.closed \/ memory.aborted \/ signal
               THEN notResumed(memory, t, goalOf(t))
               ELSE [beginResumeWatch(memory, t) EXCEPT !.task[t].stage = "continuing"]
  /\ UNCHANGED host

\* A seamless resume first waits for the previous turn, for a bounded time.
IdleEnds(t) ==
  /\ At(t, "idling")
  /\ ~busy \/ ~memory.task[t].fresh \/ memory.aborted \/ signal
  /\ memory' = IF memory.closed \/ memory.aborted \/ signal \/ ~memory.task[t].fresh
               THEN notResumed(memory, t, goalOf(t))
               ELSE [beginResumeWatch(memory, t) EXCEPT !.task[t].stage = "continuing"]
  /\ UNCHANGED host

IdleTimeout(t) ==
  /\ At(t, "idling") /\ busy /\ memory.task[t].fresh /\ ~memory.aborted /\ ~signal
  /\ memory' = notResumed(setPendingContinuation(memory, "same"), t, goalOf(t))
  /\ UNCHANGED host

\* The host continues the agent where it stopped; no prompt, no preflight.
HostContinues(t) ==
  /\ At(t, "continuing") /\ turn = "idle" /\ ~memory.closed
  /\ memory' = [memory EXCEPT !.task[t].stage = "continued"]
  /\ turn' = "starting"
  /\ UNCHANGED <<stop, signal, injected, typed>>

ContinueResolves(t) ==
  /\ At(t, "continued")
  /\ LET m == stopResumeWatch(memory, t) IN
     memory' = IF m.task[t].fresh THEN resumed([m EXCEPT !.auto = @ + 1], t, goalOf(t))
               ELSE notResumed(m, t, goalOf(t))
  /\ UNCHANGED host

\* continueAgent throws: after an abort it says nothing, on a completed tail
\* the prompt is injected instead, anything else counts against the breaker.
ContinueFails(t) ==
  /\ At(t, "continuing") \/ At(t, "continued")
  /\ LET m == stopResumeWatch(memory, t)
         silent == ~m.task[t].fresh \/ m.cancelling \/ m.aborted \/ signal
     IN \/ memory' = notResumed(IF silent THEN m ELSE noteRecoveryFailure(m), t, goalOf(t))
        \/ At(t, "continuing") /\ ~silent /\ memory' = injectContinuationPrompt(m, t, goalOf(t))
  /\ UNCHANGED host

-----------------------------------------------------------------------------
(* The hooks of a turn, in the order the host awaits them. *)

\* before_agent_start: our own prompt keeps the chain, any other starts anew.
beforeAgentStart(m) ==
  IF m.expecting THEN [m EXCEPT !.expecting = FALSE, !.dispatched = TRUE] ELSE claimUserControl(m)

BeforeAgentStart ==
  /\ turn = "idle" /\ Idle("hook") /\ ~memory.closed
  /\ \/ injected > 0 /\ injected' = injected - 1 /\ UNCHANGED typed
     \/ typed /\ typed' = FALSE /\ UNCHANGED injected
  /\ turn' = "starting"
  /\ \E ready, other \in BOOLEAN :
       memory' = ensureReadyModel(beforeAgentStart(memory), "hook", "start", ready, other)
  /\ UNCHANGED <<stop, signal>>

AgentStart ==
  /\ turn = "starting" /\ Idle("hook")
  /\ turn' = "running"
  /\ memory' = [setSwitch(noteResumeProgress(memory), FALSE) EXCEPT !.target = FALSE]
  /\ UNCHANGED <<stop, signal, injected, typed>>

Working == turn = "running" /\ ~signal

\* after_provider_response: a refusal is a request too, a success also makes
\* a parked resume redundant.
ProviderResponse ==
  /\ Working
  /\ LET m == [noteResumeProgress(memory) EXCEPT !.actions = 0] IN
     memory' \in {m, clearPendingContinuation(m)}
  /\ UNCHANGED host

\* message_end of a completed answer ...
MessageCompleted ==
  /\ Working
  /\ memory' = noteRecoveryProgress([memory EXCEPT !.actions = 0])
  /\ turn' = "finished" /\ stop' = "stop"
  /\ UNCHANGED <<signal, injected, typed>>

\* ... of a turn the user or the watchdog aborted ...
MessageAborted ==
  /\ turn = "running" /\ signal
  /\ turn' = "finished" /\ stop' = "aborted"
  /\ UNCHANGED <<memory, signal, injected, typed>>

MessageFailed ==
  /\ Working
  /\ turn' = "finished" /\ stop' = "error"
  /\ UNCHANGED <<signal, injected, typed>>

\* ... of a temporary failure: retry on the same account, until the streak on
\* this route is used up.
retryTemporaryFailure(m, usedUp) ==
  LET n == IF m.dispatched \/ m.watch # "none" THEN noteRecoveryFailure(m) ELSE m
      c == clearPendingContinuation(setSwitch(n, FALSE))
  IN IF usedUp \/ c.open THEN c ELSE setPendingContinuation(c, "same")

TransientFailure ==
  /\ MessageFailed
  /\ \E usedUp \in BOOLEAN :
       memory' = IF memory.aborted THEN memory ELSE retryTemporaryFailure(memory, usedUp)

\* ... of a refused credential or a spent limit: probe the account first.
AccountFailure ==
  /\ MessageFailed /\ Idle("hook")
  /\ memory' = IF memory.aborted THEN memory ELSE begin(memory, "hook", "probing", "fail")

\* The token was refreshed: the same account, in a new switch record.
TokenRefreshed ==
  /\ At("hook", "probing")
  /\ memory' = IF stale(memory, "hook", "fail") THEN done(memory, "hook")
               ELSE done(setSwitch(memory, TRUE), "hook")
  /\ UNCHANGED host

switchToFallback(m, t, ready, other) ==
  IF m.auto >= MaxAuto THEN done(m, t)
  ELSE IF other THEN activateFallback(m, t, "fail", ready)
  ELSE notSwitched(m, t, "fail", ready)

LeaveAccount ==
  /\ At("hook", "probing")
  /\ \E ready, other \in BOOLEAN :
       memory' = IF stale(memory, "hook", "fail") THEN done(memory, "hook")
                 ELSE switchToFallback(memory, "hook", ready, other)
  /\ UNCHANGED host

\* agent_end.
TurnEnds ==
  /\ turn = "finished" /\ Idle("hook")
  /\ turn' = "idle" /\ stop' = "stop" /\ signal' = FALSE
  /\ UNCHANGED <<injected, typed>>

unclaimed(m) == setSwitch([m EXCEPT !.dispatched = FALSE], FALSE)

\* The watchdog's own abort is recovery: park the work.
AgentEndWatchdog ==
  /\ TurnEnds /\ memory.cancelling
  /\ memory' = setPendingContinuation(
       unclaimed(endResumeWatch([memory EXCEPT !.cancelling = FALSE])), "same")

cancelled == stop = "aborted" \/ signal

\* The user pressed Esc.
AgentEndAborted ==
  /\ TurnEnds /\ ~memory.cancelling /\ cancelled
  /\ memory' = endResumeWatch(unclaimed(clearPendingContinuation(
       [bumpEpoch(memory) EXCEPT !.aborted = TRUE, !.hops = 0])))

AgentEndCompleted ==
  /\ TurnEnds /\ ~memory.cancelling /\ ~cancelled /\ stop = "stop"
  /\ memory' = unclaimed(clearPendingContinuation(bumpEpoch(endResumeWatch(memory))))

\* A failed turn: continue it, unless this end was already continued.
AgentEndFailed(b) ==
  /\ TurnEnds /\ ~memory.cancelling /\ ~cancelled /\ stop = "error" /\ Idle(b)
  /\ LET m == [endResumeWatch(memory) EXCEPT !.dispatched = FALSE] IN
     \E ready \in BOOLEAN :
       memory' = IF (memory.dispatched /\ ~memory.switch) \/ memory.aborted THEN m
                 ELSE maybeDispatchContinuation(m, b, "end", ready)

-----------------------------------------------------------------------------
(* The watchdog and the breaker. *)

abortTurn == signal' = (signal \/ busy)

\* A resumed turn was silent for too long with no tool running.
ResumeStuck ==
  /\ memory.watchdog
  /\ IF memory.watch = "none"
     THEN memory' = [memory EXCEPT !.watchdog = FALSE] /\ UNCHANGED signal
     ELSE /\ memory' = noteRecoveryFailure([memory EXCEPT !.watchdog = FALSE, !.cancelling = TRUE])
          /\ abortTurn
  /\ UNCHANGED <<turn, stop, injected, typed>>

\* Ten minutes later.
BreakerCloses ==
  /\ memory.open
  /\ memory' = [memory EXCEPT !.open = FALSE]
  /\ UNCHANGED host

-----------------------------------------------------------------------------
(* The user, and the life of the session. *)

\* The input hook: the user's word takes over; an idle session is given a
\* ready account before the prompt goes to the host.
Input ==
  /\ ~memory.closed /\ ~typed /\ Idle("user")
  /\ LET m == noteRecoveryProgress(claimUserControl(memory)) IN
     \E ready, other \in BOOLEAN :
       memory' = IF busy THEN m ELSE ensureReadyModel(m, "user", "ready", ready, other)
  /\ typed' = (memory'.task["user"] = NoFrame)
  /\ UNCHANGED <<turn, stop, signal, injected>>

\* Esc during a turn; the extension hears of it at agent_end.
Escape ==
  /\ busy /\ signal' = TRUE /\ UNCHANGED <<memory, turn, stop, injected, typed>>

StopCommand ==
  /\ ~memory.closed
  /\ memory' = endResumeWatch(clearPendingContinuation(setSwitch(resetGovernor(
       [bumpEpoch(memory) EXCEPT !.aborted = TRUE, !.hops = 0, !.cancelling = FALSE,
                                 !.expecting = FALSE]), FALSE)))
  /\ abortTurn
  /\ UNCHANGED <<turn, stop, injected, typed>>

ResetCommand ==
  /\ ~memory.closed
  /\ memory' = clearPendingContinuation(setSwitch(resetGovernor(
       [bumpEpoch(memory) EXCEPT !.auto = 0, !.hops = 0, !.aborted = FALSE, !.failures = 0,
          !.open = FALSE, !.cancelling = FALSE, !.expecting = FALSE]), FALSE))
  /\ UNCHANGED host

\* /model, or a manual switch that finds no account.
ManualChoice ==
  /\ ~memory.closed
  /\ memory' = claimUserControl(memory)
  /\ UNCHANGED host

\* /multi-account next and switch.
ManualSwitch ==
  /\ ~memory.closed /\ Idle("user")
  /\ memory' = activateFallback(claimUserControl(memory), "user", "manual", FALSE)
  /\ UNCHANGED host

SessionShutdown ==
  /\ ~memory.closed
  /\ memory' = endResumeWatch(clearPendingContinuation(
       [bumpEpoch(memory) EXCEPT !.closed = TRUE, !.cancelling = FALSE, !.expecting = FALSE,
                                 !.aborted = FALSE, !.auto = 0]))
  /\ turn' = "idle" /\ stop' = "stop" /\ signal' = FALSE /\ injected' = 0 /\ typed' = FALSE

SessionStart ==
  /\ memory.closed
  /\ memory' = clearPendingContinuation(resetGovernor(
       [bumpEpoch(memory) EXCEPT !.closed = FALSE, !.auto = 0, !.hops = 0, !.aborted = FALSE,
          !.cancelling = FALSE, !.expecting = FALSE, !.failures = 0, !.open = FALSE]))
  /\ UNCHANGED host

-----------------------------------------------------------------------------
Wake(b) == WakeCancelled(b) \/ WakeWaits(b) \/ WakeResumes(b) \/ WakeHops(b)

Settle(t) ==
  \/ SetModelLands(t) \/ SetModelFails(t) \/ Switched(t)
  \/ RestoreFails(t) \/ Restored(t)
  \/ SendAccepted(t) \/ SendResolves(t) \/ SendRejected(t)
  \/ IdleEnds(t) \/ IdleTimeout(t) \/ HostContinues(t) \/ ContinueResolves(t) \/ ContinueFails(t)

Hook ==
  \/ BeforeAgentStart \/ AgentStart \/ ProviderResponse
  \/ MessageCompleted \/ MessageAborted \/ TransientFailure \/ AccountFailure
  \/ TokenRefreshed \/ LeaveAccount
  \/ AgentEndWatchdog \/ AgentEndAborted \/ AgentEndCompleted
  \/ \E b \in Background : AgentEndFailed(b)

User ==
  Input \/ Escape \/ StopCommand \/ ResetCommand \/ ManualChoice \/ ManualSwitch \/ SessionStart

Next ==
  \/ \E b \in Background : Wake(b)
  \/ \E t \in Task : Settle(t)
  \/ WakeDropped \/ Hook \/ ResumeStuck \/ BreakerCloses \/ User \/ SessionShutdown

Spec == Init /\ [][Next]_vars

-----------------------------------------------------------------------------
(* Fairness.  The host settles every promise and drives every turn to its     *)
(* end, and the account a parked turn waits for is ready at some of the        *)
(* moments the wake looks at it.  Nothing is assumed of the user.              *)
TurnGoesOn ==
  \/ AgentStart \/ MessageCompleted \/ MessageAborted \/ LeaveAccount
  \/ AgentEndWatchdog \/ AgentEndAborted \/ AgentEndCompleted
  \/ \E b \in Background : AgentEndFailed(b)

Fairness ==
  /\ \A t \in Task : WF_vars(Settle(t))
  /\ WF_vars(TurnGoesOn)
  /\ SF_vars(\E b \in Background : WakeCancelled(b) \/ WakeResumes(b))

FairSpec == Spec /\ Fairness

-----------------------------------------------------------------------------
(* Properties. *)

\* After a stop, an abort or the end of the session nothing is parked and no
\* timer is armed, whatever was in flight when it came: every path that parks
\* work after an await looks first (setPendingContinuation, schedulePendingWake).
Quiet ==
  memory.aborted \/ memory.stopped \/ memory.closed =>
    memory.pending = "none" /\ memory.timer # "fresh"

\* Parked work is never forgotten: as long as the breaker has not given up, a
\* timer is armed for it or a wake is just moving it to another account
\* (attemptPendingResume re-arms on every path that leaves the work parked).
ParkedWorkHasWake ==
  memory.pending # "none" /\ memory.failures < BreakerLimit =>
    \/ memory.timer = "fresh"
    \/ \E t \in Task : memory.task[t].goal = "hop"

\* Between two words of the user the extension injects at most
\* maxAutoContinuesPerPrompt prompts, however many resumes are in flight.
Budget == memory.auto <= MaxAuto

\* A function asks the host for an automatic step: a switch, a prompt, a resume.
Asks(t) ==
  /\ memory'.task[t].stage \in {"switching", "restoring", "sending", "continuing"}
  /\ memory'.task[t].stage # memory.task[t].stage
  /\ memory'.task[t].goal # "manual"

\* One stop is enough: no automatic step is asked for while the chain is
\* aborted, stopped or closed, and none ever by a function whose epoch passed.
OnlyCurrentChainActs ==
  [][ \A t \in Task : Asks(t) =>
        /\ ~memory'.aborted /\ ~memory'.stopped /\ ~memory'.closed
        /\ memory.task[t] = NoFrame \/ memory.task[t].fresh ]_vars

\* A function in flight returns from an await after its epoch passed.
ReturnsLate(t) ==
  /\ memory.task[t].stage \in {"switched", "restored", "sent", "idling", "continued"}
  /\ ~memory.task[t].fresh
  /\ memory'.task[t].stage # memory.task[t].stage

\* A superseded function, unless the switch it dispatched is still the current
\* one, leaves the chain exactly as the user's newer command has made it.
SupersededIsInert ==
  [][ \A t \in Task : ReturnsLate(t) /\ ~memory.task[t].holds =>
        \A f \in {"pending", "timer", "switch", "auto", "hops", "dispatched",
                  "failures", "aborted"} : memory'[f] = memory[f] ]_vars

\* Parked work is eventually taken up again, unless the user, a success or the
\* budget ends the chain first, or the breaker gives it up: a wake that finds
\* nothing ready, or a turn running, does not lose it.
ParkedWorkIsTakenUp ==
  memory.pending # "none" ~> memory.pending = "none" \/ memory.failures = BreakerLimit

\* index.ts at session_start: a new session "must NEVER inherit and silently
\* restart a previous session's paused work".  A superseded function parks
\* nothing.  Not so: currentPromptSwitch outlives the session.
SupersededParksNothing ==
  [][ \A t \in Task : ReturnsLate(t) /\ memory.pending = "none" => memory'.pending = "none" ]_vars

\* index.ts at before_agent_start: the extension's own prompt "must NOT be
\* mistaken for a genuine new user prompt".  Its start lifts no abort.  Not so:
\* a stop that comes between the prompt and its start clears the only mark.
InjectedPromptIsNotTheUser ==
  [][ injected' < injected /\ memory.aborted => memory'.aborted \/ memory'.closed ]_vars

\* index.ts at the governor: tripping "stops every timer".  While stopped no
\* watchdog is armed.  Not so: the watch survives, and agent_start re-arms it.
GovernorStopIsTotal == memory.stopped => ~memory.watchdog
=============================================================================

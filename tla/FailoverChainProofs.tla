------------------------ MODULE FailoverChainProofs ------------------------
(* Theorems about FailoverChain, for every number of background functions,  *)
(* every budget and limit, on both kinds of host.                           *)
EXTENDS FailoverChain, FiniteSetTheorems, TLAPS

-----------------------------------------------------------------------------
(* The inductive invariant.                                                 *)

\* A function that may still count a resume without looking at the budget
\* again, and one that is moving parked work to another account.
Drives(f) == f.stage \in {"restoring", "restored", "idling", "continuing", "continued"}
Hops(f) == f.goal = "hop" /\ f.stage \in {"switching", "switched"}

\* All of them, the function t left out.
Driving(m, t) == {u \in Background \ {t} : Drives(m.task[u])}
Hopping(m, t) == {u \in Background \ {t} : Hops(m.task[u])}

Most == MaxAuto + Cardinality(Background)

\* Above the configured budget every count was made by a slot that has ended.
Counted(m, t) ==
  /\ m.auto <= MaxAuto \/ m.auto + Cardinality(Driving(m, t)) <= Most
  /\ m.hops <= MaxAuto \/ m.hops + Cardinality(Hopping(m, t)) <= Most

\* The hooks and the user's commands move no parked work and resume nothing;
\* only a seamless host is ever waited for.
Placed(f, u) ==
  /\ u \in {"hook", "user"} => ~Drives(f) /\ f.goal # "hop"
  /\ ~Seamless => f.stage \notin {"idling", "continuing", "continued"}

\* What the helpers keep of the memory, whatever function t is about to do.
Base(m, t) ==
  /\ m \in Memory
  /\ ~m.stopped => m.actions < RequestLimit
  /\ m.stopped => m.aborted \/ m.closed
  /\ m.open => m.failures = BreakerLimit
  /\ m.aborted \/ m.stopped \/ m.closed => m.pending = "none" /\ m.timer # "fresh"
  /\ ~Seamless => m.auto <= MaxAuto
  /\ \A u \in Task \ {t} : Placed(m.task[u], u) /\ (m.closed => ~m.task[u].fresh)
  /\ Counted(m, t)

\* The work is parked and nobody but t has it in hand.
Woken(m, t) ==
  m.pending # "none" /\ m.failures < BreakerLimit =>
    \/ m.timer = "fresh"
    \/ \E u \in Task \ {t} : Hops(m.task[u]) /\ m.task[u].fresh

Sound(m, t) == Base(m, t) /\ Woken(m, t)

IInv ==
  /\ TypeOK
  /\ Sound(memory, "none")
  /\ memory.closed => turn = "idle"

-----------------------------------------------------------------------------
(* Counting.                                                                *)

LEMMA MostType == Cardinality(Background) \in Nat /\ Most \in Nat /\ MaxAuto <= Most
  BY ChainAssumption, FS_CardinalityType DEF Most

\* Background functions are few; one that ends makes the count smaller.
LEMMA CountBound ==
  ASSUME NEW F \in SUBSET Background
  PROVE  IsFiniteSet(F) /\ Cardinality(F) \in Nat /\ Cardinality(F) <= Cardinality(Background)
  BY ChainAssumption, FS_Subset, FS_CardinalityType

LEMMA CountWithout ==
  ASSUME NEW F \in SUBSET Background, NEW t \in Background, t \notin F
  PROVE  Cardinality(F) + 1 <= Cardinality(Background)
<1>1. Cardinality(Background \ {t}) = Cardinality(Background) - 1
  BY ChainAssumption, FS_RemoveElement
<1>2. F \subseteq Background \ {t}
  OBVIOUS
<1>3. Cardinality(F) <= Cardinality(Background \ {t})
  BY <1>2, ChainAssumption, FS_Subset
<1> QED
  BY <1>1, <1>3, CountBound, ChainAssumption, FS_CardinalityType

LEMMA CountOne ==
  ASSUME NEW F \in SUBSET Background, NEW G \in SUBSET Background, NEW t \in Background,
         F = G \ {t}, t \in G
  PROVE  Cardinality(F) + 1 = Cardinality(G)
<1>1. IsFiniteSet(G)
  BY CountBound
<1> QED
  BY <1>1, CountBound, FS_RemoveElement

LEMMA Typed ==
  ASSUME NEW m \in Memory
  PROVE  /\ m.aborted \in BOOLEAN /\ m.stopped \in BOOLEAN /\ m.closed \in BOOLEAN
         /\ m.open \in BOOLEAN /\ m.switch \in BOOLEAN
         /\ m.auto \in 0 .. Most /\ m.hops \in 0 .. Most
         /\ m.actions \in 0 .. RequestLimit /\ m.failures \in 0 .. BreakerLimit
         /\ m.task \in [Task -> Frame] /\ m.watch \in {"none"} \cup Task
         /\ \A u \in Task : /\ m.task[u] \in Frame /\ m.task[u].stage \in Stage
                            /\ m.task[u].goal \in Goal /\ m.task[u].fresh \in BOOLEAN
                            /\ m.task[u].holds \in BOOLEAN
  BY DEF Memory, Frame, Most

\* What the helpers that end or begin no function leave of the functions.
SameTask(m, n) ==
  \A u \in Task : /\ n.task[u].stage = m.task[u].stage /\ n.task[u].goal = m.task[u].goal
                  /\ n.task[u].fresh => m.task[u].fresh

\* A helper that changes no function keeps where they are placed and counted.
LEMMA Carry ==
  ASSUME NEW m, NEW n \in Memory, NEW t, Base(m, t), SameTask(m, n),
         n.auto \in {m.auto, 0}, n.hops \in {m.hops, 0},
         n.closed => m.closed \/ \A u \in Task : ~n.task[u].fresh
  PROVE  /\ ~Seamless => n.auto <= MaxAuto
         /\ \A u \in Task \ {t} : Placed(n.task[u], u) /\ (n.closed => ~n.task[u].fresh)
         /\ Counted(n, t)
<1>1. Background \subseteq Task
  BY DEF Task
<1>2. Driving(n, t) = Driving(m, t) /\ Hopping(n, t) = Hopping(m, t)
  BY <1>1 DEF Driving, Hopping, Drives, Hops, SameTask
<1>3. Counted(n, t)
  BY <1>2, ChainAssumption DEF Base, Counted
<1>4. \A u \in Task \ {t} : Placed(n.task[u], u)
  BY DEF Base, Placed, SameTask, Drives
<1>5. \A u \in Task \ {t} : n.closed => ~n.task[u].fresh
  BY DEF Base, SameTask
<1> QED
  BY <1>3, <1>4, <1>5, ChainAssumption DEF Base

\* A helper that changes none of the fields the invariant is about keeps it.
Calm(m, n) ==
  /\ n.aborted = m.aborted /\ n.stopped = m.stopped /\ n.closed = m.closed /\ n.open = m.open
  /\ n.auto = m.auto /\ n.hops = m.hops /\ n.failures = m.failures
  /\ n.actions = m.actions \/ n.actions < RequestLimit
  /\ n.pending = m.pending /\ n.timer = m.timer
  /\ \A u \in Task : /\ n.task[u].stage = m.task[u].stage /\ n.task[u].goal = m.task[u].goal
                     /\ n.task[u].fresh = m.task[u].fresh

LEMMA CalmKeeps ==
  ASSUME NEW m, NEW n \in Memory, NEW t, Calm(m, n), Base(m, t)
  PROVE  Base(n, t) /\ (Woken(m, t) => Woken(n, t)) /\ SameTask(m, n)
<1>1. SameTask(m, n)
  BY DEF Calm, SameTask
<1>2. n.auto \in {m.auto, 0} /\ n.hops \in {m.hops, 0} /\ n.closed = m.closed
  BY DEF Calm
<1>3. Base(n, t)
  BY <1>1, <1>2, Carry DEF Calm, Base
<1>4. Woken(m, t) => Woken(n, t)
  BY DEF Calm, Woken, Hops
<1> QED
  BY <1>1, <1>3, <1>4

\* One that leaves nothing parked keeps it, whatever it does to the functions.
Settled(m, n) ==
  /\ n.pending = "none" /\ n.timer # "fresh"
  /\ n.auto \in {m.auto, 0} /\ n.hops \in {m.hops, 0}
  /\ ~n.stopped => n.actions < RequestLimit
  /\ n.stopped => n.aborted \/ n.closed
  /\ n.open => n.failures = BreakerLimit
  /\ n.closed => m.closed \/ \A u \in Task : ~n.task[u].fresh
  /\ SameTask(m, n)

LEMMA SettledKeeps ==
  ASSUME NEW m, NEW n \in Memory, NEW t, Settled(m, n), Base(m, t)
  PROVE  Sound(n, t)
<1>1. Base(n, t)
  BY Carry DEF Settled, Base
<1>2. Woken(n, t)
  BY DEF Settled, Woken
<1> QED
  BY <1>1, <1>2 DEF Sound

-----------------------------------------------------------------------------
(* The helpers: what each makes of a memory.                                *)

LEMMA FrameMaps ==
  ASSUME NEW f \in [Task -> Frame]
  PROVE  /\ [u \in Task |-> [f[u] EXCEPT !.fresh = FALSE]] \in [Task -> Frame]
         /\ [u \in Task |-> [f[u] EXCEPT !.holds = FALSE]] \in [Task -> Frame]
  BY DEF Frame

LEMMA BumpType ==
  ASSUME NEW m \in Memory
  PROVE  bumpEpoch(m) \in Memory
<1>1. [u \in Task |-> [m.task[u] EXCEPT !.fresh = FALSE]] \in [Task -> Frame]
  BY Typed, FrameMaps
<1> QED
  BY <1>1 DEF Memory, bumpEpoch

LEMMA SwitchType ==
  ASSUME NEW m \in Memory, NEW b \in BOOLEAN
  PROVE  setSwitch(m, b) \in Memory
<1>1. [u \in Task |-> [m.task[u] EXCEPT !.holds = FALSE]] \in [Task -> Frame]
  BY Typed, FrameMaps
<1> QED
  BY <1>1 DEF Memory, setSwitch

LEMMA SmallTypes ==
  ASSUME NEW m \in Memory
  PROVE  /\ clearPendingContinuation(m) \in Memory
         /\ resetGovernor(m) \in Memory
         /\ endResumeWatch(m) \in Memory
         /\ noteResumeProgress(m) \in Memory
         /\ \A t \in Task : beginResumeWatch(m, t) \in Memory
         /\ schedulePendingWake(m) \in Memory
         /\ noteRecoveryFailure(m) \in Memory
         /\ noteRecoveryProgress(m) \in Memory
<1>1. clearPendingContinuation(m) \in Memory
  BY DEF Memory, clearPendingContinuation
<1>2. resetGovernor(m) \in Memory
  <2>1. 0 \in 0 .. RequestLimit
    BY ChainAssumption
  <2> QED
    BY <2>1 DEF Memory, resetGovernor
<1>3. endResumeWatch(m) \in Memory
  BY DEF Memory, endResumeWatch
<1>4. noteResumeProgress(m) \in Memory
  <2>1. ASSUME NEW b \in BOOLEAN PROVE [m EXCEPT !.watchdog = b] \in Memory
    BY DEF Memory
  <2> QED
    BY <2>1 DEF noteResumeProgress
<1>5. \A t \in Task : beginResumeWatch(m, t) \in Memory
  BY DEF Memory, beginResumeWatch
<1>6. schedulePendingWake(m) \in Memory
  BY DEF Memory, schedulePendingWake
<1>7. noteRecoveryFailure(m) \in Memory
  <2>1. ASSUME NEW k \in 0 .. BreakerLimit, NEW b \in BOOLEAN
        PROVE  [m EXCEPT !.failures = k, !.open = b] \in Memory
    BY DEF Memory
  <2>2. (IF m.failures < BreakerLimit THEN m.failures + 1 ELSE BreakerLimit) \in 0 .. BreakerLimit
    BY Typed, ChainAssumption
  <2> QED
    BY <2>1, <2>2 DEF noteRecoveryFailure
<1>8. noteRecoveryProgress(m) \in Memory
  <2>1. 0 \in 0 .. BreakerLimit
    BY ChainAssumption
  <2> QED
    BY <2>1 DEF Memory, noteRecoveryProgress, clearPendingContinuation
<1> QED
  BY <1>1, <1>2, <1>3, <1>4, <1>5, <1>6, <1>7, <1>8

LEMMA SwitchCalm ==
  ASSUME NEW m \in Memory, NEW b \in BOOLEAN
  PROVE  setSwitch(m, b) \in Memory /\ Calm(m, setSwitch(m, b))
<1>1. \A u \in Task : setSwitch(m, b).task[u] = [m.task[u] EXCEPT !.holds = FALSE]
  BY DEF Memory, setSwitch
<1>2. \A u \in Task : /\ setSwitch(m, b).task[u].stage = m.task[u].stage
                      /\ setSwitch(m, b).task[u].goal = m.task[u].goal
                      /\ setSwitch(m, b).task[u].fresh = m.task[u].fresh
  BY <1>1, Typed DEF Frame
<1> DEFINE n == setSwitch(m, b)
<1>3. /\ n.aborted = m.aborted /\ n.stopped = m.stopped /\ n.closed = m.closed /\ n.open = m.open
      /\ n.auto = m.auto /\ n.hops = m.hops /\ n.failures = m.failures /\ n.actions = m.actions
      /\ n.pending = m.pending /\ n.timer = m.timer
  BY DEF Memory, setSwitch
<1>4. n \in Memory
  BY SwitchType
<1> QED
  BY <1>2, <1>3, <1>4 DEF Calm

LEMMA WatchCalm ==
  ASSUME NEW m \in Memory
  PROVE  /\ endResumeWatch(m) \in Memory /\ Calm(m, endResumeWatch(m))
         /\ noteResumeProgress(m) \in Memory /\ Calm(m, noteResumeProgress(m))
         /\ \A t \in Task : /\ beginResumeWatch(m, t) \in Memory /\ Calm(m, beginResumeWatch(m, t))
                            /\ stopResumeWatch(m, t) \in Memory /\ Calm(m, stopResumeWatch(m, t))
<1>1. Calm(m, endResumeWatch(m)) /\ Calm(m, noteResumeProgress(m)) /\ Calm(m, m)
  BY DEF Memory, endResumeWatch, noteResumeProgress, Calm
<1>2. \A t \in Task : Calm(m, beginResumeWatch(m, t))
  BY DEF Memory, beginResumeWatch, Calm
<1> QED
  BY <1>1, <1>2, SmallTypes DEF stopResumeWatch

LEMMA BumpFrames ==
  ASSUME NEW m \in Memory, NEW u \in Task
  PROVE  /\ bumpEpoch(m).task[u] = [m.task[u] EXCEPT !.fresh = FALSE]
         /\ bumpEpoch(m).task[u].stage = m.task[u].stage
         /\ bumpEpoch(m).task[u].goal = m.task[u].goal
         /\ ~bumpEpoch(m).task[u].fresh
<1>1. bumpEpoch(m).task[u] = [m.task[u] EXCEPT !.fresh = FALSE]
  BY DEF Memory, bumpEpoch
<1> QED
  BY <1>1, Typed DEF Frame

\* The user takes over: the invariant holds, whatever was parked or in flight.
LEMMA ClaimSound ==
  ASSUME NEW m, NEW t, Base(m, t)
  PROVE  LET n == claimUserControl(m) IN
         /\ n \in Memory /\ Sound(n, t) /\ SameTask(m, n)
         /\ n.pending = "none" /\ n.closed = m.closed /\ n.auto = 0 /\ n.hops = 0
<1> DEFINE bare == [bumpEpoch(m) EXCEPT !.auto = 0, !.hops = 0, !.aborted = FALSE,
                                        !.dispatched = FALSE, !.expecting = FALSE]
           n == claimUserControl(m)
<1>1. m \in Memory
  BY DEF Base
<1>2. bumpEpoch(m) \in Memory /\ 0 \in 0 .. Most
  BY <1>1, BumpType, MostType
<1>3. bare \in Memory
  BY <1>2 DEF Memory, Most
<1>4. n \in Memory
  <2> HIDE DEF bare
  <2>1. setSwitch(resetGovernor(bare), FALSE) \in Memory
    BY <1>3, SmallTypes, SwitchType
  <2> QED
    BY <2>1, SmallTypes DEF claimUserControl, bare
<1>5. /\ n.pending = "none" /\ n.timer = "off" /\ n.closed = m.closed /\ ~n.stopped /\ ~n.aborted
      /\ n.auto = 0 /\ n.hops = 0 /\ n.open = m.open /\ n.failures = m.failures /\ n.actions = 0
  BY <1>1 DEF Memory, claimUserControl, bumpEpoch, setSwitch, resetGovernor,
              clearPendingContinuation, endResumeWatch
<1>6. \A u \in Task : n.task[u] = [m.task[u] EXCEPT !.fresh = FALSE, !.holds = FALSE]
  BY <1>1 DEF Memory, claimUserControl, bumpEpoch, setSwitch, resetGovernor,
              clearPendingContinuation, endResumeWatch
<1>7. SameTask(m, n)
  BY <1>1, <1>6, Typed DEF Frame, SameTask
<1>8. Settled(m, n)
  BY <1>5, <1>7, ChainAssumption DEF Settled, Base
<1>9. Sound(n, t)
  BY <1>4, <1>8, SettledKeeps
<1> QED
  BY <1>4, <1>5, <1>7, <1>9

\* The step that makes too many stops everything.
LEMMA StopSound ==
  ASSUME NEW m, NEW t, Base(m, t), ~m.stopped, ~allowed(m)
  PROVE  LET n == allowAction(m) IN
         /\ n \in Memory /\ Sound(n, t) /\ SameTask(m, n)
         /\ n.pending = "none" /\ n.stopped /\ n.aborted /\ n.closed = m.closed /\ n.auto = m.auto
<1> DEFINE counted == [m EXCEPT !.actions = @ + 1]
           bare == [bumpEpoch(counted) EXCEPT !.stopped = TRUE, !.aborted = TRUE,
                      !.cancelling = FALSE, !.expecting = FALSE, !.hops = 0, !.watchdog = FALSE]
           n == clearPendingContinuation(setSwitch(bare, FALSE))
<1>1. m \in Memory
  BY DEF Base
<1>2. counted \in Memory
  <2>1. m.actions + 1 \in 0 .. RequestLimit
    BY <1>1, Typed, ChainAssumption DEF Base
  <2> QED
    BY <1>1, <2>1 DEF Memory
<1>3. ~counted.stopped
  BY <1>1 DEF Memory
<1>4. allowAction(m) = n
  BY <1>3 DEF allowAction, stopEverything
<1>5. n \in Memory
  <2>1. bumpEpoch(counted) \in Memory /\ 0 \in 0 .. Most
    BY <1>2, BumpType, MostType
  <2>2. bare \in Memory
    BY <2>1 DEF Memory, Most
  <2> HIDE DEF bare
  <2> QED
    BY <2>2, SwitchType, SmallTypes
<1>6. /\ n.pending = "none" /\ n.timer = "off" /\ n.closed = m.closed /\ n.stopped /\ n.aborted
      /\ n.auto = m.auto /\ n.hops = 0 /\ n.open = m.open /\ n.failures = m.failures
  BY <1>1 DEF Memory, bumpEpoch, setSwitch, clearPendingContinuation
<1>7. \A u \in Task : n.task[u] = [m.task[u] EXCEPT !.fresh = FALSE, !.holds = FALSE]
  BY <1>1 DEF Memory, bumpEpoch, setSwitch, clearPendingContinuation
<1>8. SameTask(m, n)
  BY <1>1, <1>7, Typed DEF Frame, SameTask
<1>9. Settled(m, n)
  BY <1>6, <1>8, ChainAssumption DEF Settled, Base
<1> QED
  BY <1>4, <1>5, <1>6, <1>8, <1>9, SettledKeeps

\* The governor is asked: it counts the step, or nothing automatic goes on.
LEMMA AllowSound ==
  ASSUME NEW m, NEW t, Base(m, t)
  PROVE  LET n == allowAction(m) IN
         /\ n \in Memory /\ Base(n, t) /\ (Woken(m, t) => Woken(n, t)) /\ SameTask(m, n)
         /\ n.closed = m.closed /\ n.auto = m.auto
         /\ allowed(m) => /\ ~n.stopped /\ n.aborted = m.aborted
                          /\ n.pending = m.pending /\ n.timer = m.timer /\ n.task = m.task
         /\ ~allowed(m) => n.pending = "none"
<1> DEFINE n == allowAction(m)
<1>1. m \in Memory
  BY DEF Base
<1>2. CASE m.stopped
  BY <1>1, <1>2 DEF allowAction, allowed, SameTask, Base
<1>3. CASE allowed(m)
  <2>1. n = [m EXCEPT !.actions = @ + 1]
    BY <1>3 DEF allowAction, allowed
  <2>2. m.actions + 1 \in 0 .. RequestLimit /\ m.actions + 1 < RequestLimit
    BY <1>1, <1>3, Typed, ChainAssumption DEF allowed
  <2>3. n \in Memory /\ Calm(m, n)
    BY <1>1, <2>1, <2>2 DEF Memory, Calm
  <2>4. n.stopped = m.stopped /\ n.task = m.task
    BY <1>1, <2>1 DEF Memory
  <2>5. Base(n, t) /\ (Woken(m, t) => Woken(n, t)) /\ SameTask(m, n)
    BY <2>3, CalmKeeps
  <2> QED
    BY <1>3, <2>3, <2>4, <2>5 DEF Calm, allowed
<1>4. CASE ~m.stopped /\ ~allowed(m)
  BY <1>4, StopSound DEF Sound
<1> QED
  BY <1>2, <1>3, <1>4

\* Arming the wake leaves no parked work without one.
LEMMA ScheduleSound ==
  ASSUME NEW m, NEW t, Base(m, t)
  PROVE  LET n == schedulePendingWake(m) IN
         /\ n \in Memory /\ Sound(n, t) /\ n.task = m.task
         /\ n.closed = m.closed /\ n.aborted = m.aborted /\ n.stopped = m.stopped
<1> DEFINE n == schedulePendingWake(m)
<1>1. m \in Memory /\ n \in Memory
  BY SmallTypes DEF Base
<1>2. /\ n.aborted = m.aborted /\ n.stopped = m.stopped /\ n.closed = m.closed
      /\ n.open = m.open /\ n.auto = m.auto /\ n.hops = m.hops /\ n.failures = m.failures
      /\ n.actions = m.actions /\ n.pending = m.pending /\ n.task = m.task
      /\ n.timer = IF m.stopped \/ m.open \/ m.aborted \/ m.pending = "none" THEN "off" ELSE "fresh"
  BY <1>1 DEF Memory, schedulePendingWake
<1> HIDE DEF n
<1>3. Base(n, t)
  BY <1>1, <1>2, Carry DEF Base, SameTask
<1>4. Woken(n, t)
  BY <1>2, <1>3, ChainAssumption DEF Base, Woken
<1> QED
  BY <1>1, <1>2, <1>3, <1>4 DEF n, Sound

\* Parking work: with its wake, or not at all.
LEMMA ParkSound ==
  ASSUME NEW m, NEW t, Base(m, t), ~m.closed, NEW r \in {"same", "rotate"}
  PROVE  LET n == setPendingContinuation(m, r) IN
         /\ n \in Memory /\ Sound(n, t) /\ n.task = m.task
         /\ n.closed = m.closed /\ n.aborted = m.aborted /\ n.stopped = m.stopped
<1>1. CASE m.stopped \/ m.open \/ m.aborted
  <2>1. setPendingContinuation(m, r) = m
    BY <1>1 DEF setPendingContinuation
  <2>2. Woken(m, t)
    BY <1>1, ChainAssumption DEF Base, Woken
  <2> QED
    BY <2>1, <2>2 DEF Base, Sound
<1>2. CASE ~(m.stopped \/ m.open \/ m.aborted)
  <2> DEFINE n == [m EXCEPT !.pending = r]
  <2>1. m \in Memory /\ n \in Memory
    BY DEF Base, Memory
  <2>2. /\ n.aborted = m.aborted /\ n.stopped = m.stopped /\ n.closed = m.closed
        /\ n.open = m.open /\ n.auto = m.auto /\ n.hops = m.hops /\ n.failures = m.failures
        /\ n.actions = m.actions /\ n.task = m.task
    BY <2>1 DEF Memory
  <2>3. setPendingContinuation(m, r) = schedulePendingWake(n)
    BY <1>2 DEF setPendingContinuation
  <2> HIDE DEF n
  <2>4. Base(n, t)
    BY <1>2, <2>1, <2>2, Carry DEF Base, SameTask
  <2> QED
    BY <2>2, <2>3, <2>4, ScheduleSound
<1> QED
  BY <1>1, <1>2

LEMMA FailureSound ==
  ASSUME NEW m, NEW t, Base(m, t)
  PROVE  LET n == noteRecoveryFailure(m) IN
         /\ n \in Memory /\ Base(n, t) /\ (Woken(m, t) => Woken(n, t)) /\ n.task = m.task
         /\ n.closed = m.closed /\ n.aborted = m.aborted /\ n.stopped = m.stopped
<1> DEFINE n == noteRecoveryFailure(m)
           k == IF m.failures < BreakerLimit THEN m.failures + 1 ELSE BreakerLimit
<1>1. m \in Memory /\ n \in Memory
  BY SmallTypes DEF Base
<1>2. /\ n.aborted = m.aborted /\ n.stopped = m.stopped /\ n.closed = m.closed
      /\ n.auto = m.auto /\ n.hops = m.hops /\ n.actions = m.actions
      /\ n.pending = m.pending /\ n.timer = m.timer /\ n.task = m.task
      /\ n.failures = k
  BY <1>1 DEF Memory, noteRecoveryFailure
<1>3. n.open => n.failures = BreakerLimit
  <2>1. ASSUME NEW b \in BOOLEAN
        PROVE  [m EXCEPT !.failures = k, !.open = b].open = b
    BY <1>1 DEF Memory
  <2>2. n.open <=> m.open \/ k = BreakerLimit
    BY <2>1 DEF noteRecoveryFailure
  <2>3. m.open => k = BreakerLimit
    BY ChainAssumption DEF Base
  <2> QED
    BY <1>2, <2>2, <2>3
<1>4. m.failures < BreakerLimit \/ k = BreakerLimit
  OBVIOUS
<1> HIDE DEF n
<1>5. Base(n, t)
  BY <1>1, <1>2, <1>3, Carry DEF Base, SameTask
<1>6. Woken(m, t) => Woken(n, t)
  BY <1>2, <1>4, ChainAssumption DEF Woken
<1> QED
  BY <1>1, <1>2, <1>5, <1>6 DEF n

\* What is no longer parked needs no wake.
LEMMA ClearSound ==
  ASSUME NEW m, NEW t, Base(m, t)
  PROVE  LET n == clearPendingContinuation(m) IN
         /\ n \in Memory /\ Sound(n, t) /\ n.task = m.task /\ n.auto = m.auto /\ n.hops = m.hops
         /\ n.closed = m.closed /\ n.aborted = m.aborted /\ n.stopped = m.stopped
         /\ n.pending = "none"
<1> DEFINE n == clearPendingContinuation(m)
<1>1. m \in Memory /\ n \in Memory
  BY SmallTypes DEF Base
<1>2. /\ n.aborted = m.aborted /\ n.stopped = m.stopped /\ n.closed = m.closed
      /\ n.open = m.open /\ n.auto = m.auto /\ n.hops = m.hops /\ n.failures = m.failures
      /\ n.actions = m.actions /\ n.pending = "none" /\ n.timer = "off" /\ n.task = m.task
  BY <1>1 DEF Memory, clearPendingContinuation
<1> HIDE DEF n
<1>3. Settled(m, n)
  BY <1>2 DEF Settled, SameTask, Base
<1> QED
  BY <1>1, <1>2, <1>3, SettledKeeps DEF n

LEMMA ProgressSound ==
  ASSUME NEW m, NEW t, Base(m, t)
  PROVE  LET n == noteRecoveryProgress(m) IN
         /\ n \in Memory /\ Sound(n, t) /\ n.task = m.task
         /\ n.closed = m.closed /\ n.aborted = m.aborted /\ n.stopped = m.stopped
<1> DEFINE n == noteRecoveryProgress(m)
<1>1. m \in Memory /\ n \in Memory
  BY SmallTypes DEF Base
<1>2. /\ n.aborted = m.aborted /\ n.stopped = m.stopped /\ n.closed = m.closed
      /\ ~n.open /\ n.auto = m.auto /\ n.hops = m.hops
      /\ n.actions = m.actions /\ n.pending = "none" /\ n.timer = "off" /\ n.task = m.task
  BY <1>1 DEF Memory, noteRecoveryProgress, clearPendingContinuation
<1> HIDE DEF n
<1>3. Settled(m, n)
  BY <1>2 DEF Settled, SameTask, Base
<1> QED
  BY <1>1, <1>2, <1>3, SettledKeeps DEF n

-----------------------------------------------------------------------------
(* A function's own frame.                                                  *)

\* What t is at itself does not matter to the invariant without t.
LEMMA OwnFrame ==
  ASSUME NEW m, NEW t \in Task, NEW f \in Frame, Base(m, t)
  PROVE  LET n == [m EXCEPT !.task[t] = f] IN
         /\ n \in Memory /\ Base(n, t) /\ (Woken(m, t) => Woken(n, t))
         /\ n.task = [m.task EXCEPT ![t] = f]
         /\ n.auto = m.auto /\ n.hops = m.hops /\ n.pending = m.pending
         /\ n.closed = m.closed /\ n.aborted = m.aborted /\ n.stopped = m.stopped
<1> DEFINE n == [m EXCEPT !.task[t] = f]
<1>1. m \in Memory
  BY DEF Base
<1>2. n \in Memory
  <2>1. [m.task EXCEPT ![t] = f] \in [Task -> Frame]
    BY <1>1, Typed
  <2> QED
    BY <1>1, <2>1 DEF Memory
<1>3. /\ n.aborted = m.aborted /\ n.stopped = m.stopped /\ n.closed = m.closed
      /\ n.open = m.open /\ n.auto = m.auto /\ n.hops = m.hops /\ n.failures = m.failures
      /\ n.actions = m.actions /\ n.pending = m.pending /\ n.timer = m.timer
      /\ n.task = [m.task EXCEPT ![t] = f]
  BY <1>1 DEF Memory
<1> HIDE DEF n
<1>4. \A u \in Task \ {t} : n.task[u] = m.task[u]
  BY <1>1, <1>3, Typed
<1>5. Driving(n, t) = Driving(m, t) /\ Hopping(n, t) = Hopping(m, t)
  <2>1. \A u \in Background \ {t} : n.task[u] = m.task[u]
    BY <1>4 DEF Task
  <2> QED
    BY <2>1 DEF Driving, Hopping
<1>6. Base(n, t)
  BY <1>2, <1>3, <1>4, <1>5 DEF Base, Counted
<1>7. Woken(m, t) => Woken(n, t)
  BY <1>3, <1>4 DEF Woken
<1> QED
  BY <1>2, <1>3, <1>6, <1>7 DEF n

\* There is room to count t with the others.
Room(m, t) == m.auto <= MaxAuto \/ m.auto + Cardinality(Driving(m, t)) + 1 <= Most
HopRoom(m, t) == m.hops <= MaxAuto \/ m.hops + Cardinality(Hopping(m, t)) + 1 <= Most

LEMMA Nobody == Task \ {"none"} = Task /\ Background \ {"none"} = Background /\ "none" \notin Task
  BY ChainAssumption DEF Task

\* The invariant takes t in again once its frame is in order, ...
LEMMA Include ==
  ASSUME NEW m, NEW t \in Task, Base(m, t), Placed(m.task[t], t),
         m.closed => ~m.task[t].fresh,
         Drives(m.task[t]) => Room(m, t), Hops(m.task[t]) => HopRoom(m, t)
  PROVE  /\ Base(m, "none")
         /\ Woken(m, t) \/ (Hops(m.task[t]) /\ m.task[t].fresh) => Woken(m, "none")
<1> USE Nobody
<1>1. Counted(m, "none")
  <2>1. m.auto <= MaxAuto \/ m.auto + Cardinality(Driving(m, "none")) <= Most
    <3>1. CASE Drives(m.task[t]) /\ t \in Background
      <4>1. Driving(m, t) = Driving(m, "none") \ {t} /\ t \in Driving(m, "none")
        BY <3>1 DEF Driving
      <4>2. Cardinality(Driving(m, t)) + 1 = Cardinality(Driving(m, "none"))
        BY <3>1, <4>1, CountOne DEF Driving
      <4>3. m.auto \in Nat /\ Cardinality(Driving(m, t)) \in Nat
        BY Typed, CountBound, MostType DEF Base, Driving
      <4> QED
        BY <3>1, <4>2, <4>3 DEF Room
    <3>2. CASE ~(Drives(m.task[t]) /\ t \in Background)
      <4>1. Driving(m, t) = Driving(m, "none")
        BY <3>2 DEF Driving
      <4> QED
        BY <4>1 DEF Base, Counted
    <3> QED
      BY <3>1, <3>2
  <2>2. m.hops <= MaxAuto \/ m.hops + Cardinality(Hopping(m, "none")) <= Most
    <3>1. CASE Hops(m.task[t]) /\ t \in Background
      <4>1. Hopping(m, t) = Hopping(m, "none") \ {t} /\ t \in Hopping(m, "none")
        BY <3>1 DEF Hopping
      <4>2. Cardinality(Hopping(m, t)) + 1 = Cardinality(Hopping(m, "none"))
        BY <3>1, <4>1, CountOne DEF Hopping
      <4>3. m.hops \in Nat /\ Cardinality(Hopping(m, t)) \in Nat
        BY Typed, CountBound, MostType DEF Base, Hopping
      <4> QED
        BY <3>1, <4>2, <4>3 DEF HopRoom
    <3>2. CASE ~(Hops(m.task[t]) /\ t \in Background)
      <4>1. Hopping(m, t) = Hopping(m, "none")
        BY <3>2 DEF Hopping
      <4> QED
        BY <4>1 DEF Base, Counted
    <3> QED
      BY <3>1, <3>2
  <2> QED
    BY <2>1, <2>2 DEF Counted
<1>2. \A u \in Task : Placed(m.task[u], u) /\ (m.closed => ~m.task[u].fresh)
  BY DEF Base
<1>3. Base(m, "none")
  BY <1>1, <1>2 DEF Base
<1>4. Woken(m, t) \/ (Hops(m.task[t]) /\ m.task[t].fresh) => Woken(m, "none")
  BY DEF Woken
<1> QED
  BY <1>3, <1>4

\* ... and leaves it out, unless it is t that has the parked work in hand.
LEMMA Exclude ==
  ASSUME NEW m, NEW t \in Task, Base(m, "none")
  PROVE  /\ Base(m, t)
         /\ Woken(m, "none") /\ ~(Hops(m.task[t]) /\ m.task[t].fresh) => Woken(m, t)
         /\ t \in Background /\ Drives(m.task[t]) => Room(m, t)
         /\ t \in Background /\ Hops(m.task[t]) => HopRoom(m, t)
<1> USE Nobody
<1>1. /\ Driving(m, t) = Driving(m, "none") \ {t} /\ Hopping(m, t) = Hopping(m, "none") \ {t}
      /\ Driving(m, "none") \in SUBSET Background /\ Hopping(m, "none") \in SUBSET Background
      /\ Driving(m, t) \in SUBSET Background /\ Hopping(m, t) \in SUBSET Background
  BY DEF Driving, Hopping
<1>2. m.auto \in Nat /\ m.hops \in Nat
  BY Typed, MostType DEF Base
<1>3. /\ Cardinality(Driving(m, t)) <= Cardinality(Driving(m, "none"))
      /\ Cardinality(Hopping(m, t)) <= Cardinality(Hopping(m, "none"))
  <2>1. \A F, G \in SUBSET Background : F \subseteq G => Cardinality(F) <= Cardinality(G)
    BY CountBound, FS_Subset
  <2>2. Driving(m, t) \subseteq Driving(m, "none") /\ Hopping(m, t) \subseteq Hopping(m, "none")
    BY <1>1
  <2> QED
    BY <1>1, <2>1, <2>2
<1>4. /\ Cardinality(Driving(m, t)) \in Nat /\ Cardinality(Driving(m, "none")) \in Nat
      /\ Cardinality(Hopping(m, t)) \in Nat /\ Cardinality(Hopping(m, "none")) \in Nat
  BY <1>1, CountBound
<1>5. Counted(m, t)
  BY <1>2, <1>3, <1>4, MostType DEF Base, Counted
<1>6. Base(m, t)
  BY <1>5 DEF Base
<1>7. Woken(m, "none") /\ ~(Hops(m.task[t]) /\ m.task[t].fresh) => Woken(m, t)
  BY DEF Woken
<1>8. t \in Background /\ Drives(m.task[t]) => Room(m, t)
  <2> SUFFICES ASSUME t \in Background, Drives(m.task[t]) PROVE Room(m, t)
    OBVIOUS
  <2>1. t \in Driving(m, "none")
    BY DEF Driving
  <2>2. Cardinality(Driving(m, t)) + 1 = Cardinality(Driving(m, "none"))
    BY <1>1, <2>1, CountOne
  <2> QED
    BY <1>2, <1>4, <2>2, MostType DEF Base, Counted, Room
<1>9. t \in Background /\ Hops(m.task[t]) => HopRoom(m, t)
  <2> SUFFICES ASSUME t \in Background, Hops(m.task[t]) PROVE HopRoom(m, t)
    OBVIOUS
  <2>1. t \in Hopping(m, "none")
    BY DEF Hopping
  <2>2. Cardinality(Hopping(m, t)) + 1 = Cardinality(Hopping(m, "none"))
    BY <1>1, <2>1, CountOne
  <2> QED
    BY <1>2, <1>4, <2>2, MostType DEF Base, Counted, HopRoom
<1> QED
  BY <1>6, <1>7, <1>8, <1>9

-----------------------------------------------------------------------------
(* What one function's run of code does.                                    *)

\* Only t moves, ...
Leaves(m, n, t) == \A u \in Task \ {t} : n.task[u].stage = m.task[u].stage

\* ... and asks for an automatic step only while the chain may act.
Asking(f) == f.stage \in {"switching", "restoring", "sending", "continuing"} /\ f.goal # "manual"
Permitted(n, t) == Asking(n.task[t]) => ~n.aborted /\ ~n.stopped /\ ~n.closed

Steps(m, n, t) ==
  n \in Memory /\ Sound(n, "none") /\ n.closed = m.closed /\ Leaves(m, n, t) /\ Permitted(n, t)

LEMMA LeavesStep ==
  ASSUME NEW m, NEW k, NEW n, NEW t
  PROVE  /\ SameTask(m, n) => Leaves(m, n, t)
         /\ m.task = n.task => Leaves(m, n, t)
         /\ Leaves(m, k, t) /\ Leaves(k, n, t) => Leaves(m, n, t)
         /\ Leaves(m, k, t) /\ Steps(k, n, t) /\ k.closed = m.closed => Steps(m, n, t)
  BY DEF SameTask, Leaves, Steps

LEMMA DoneSteps ==
  ASSUME NEW m, NEW t \in Task, Sound(m, t)
  PROVE  Steps(m, done(m, t), t) /\ done(m, t).task[t] = NoFrame
<1> DEFINE n == done(m, t)
<1>1. NoFrame \in Frame /\ m.task \in [Task -> Frame]
  BY Typed DEF NoFrame, Frame, Stage, Goal, Sound, Base
<1>2. n = [m EXCEPT !.task[t] = NoFrame]
  BY DEF done
<1>3. /\ n \in Memory /\ Base(n, t) /\ Woken(n, t) /\ n.closed = m.closed
      /\ n.task = [m.task EXCEPT ![t] = NoFrame]
  BY <1>1, <1>2, OwnFrame DEF Sound
<1> HIDE DEF n
<1>4. n.task[t] = NoFrame /\ Leaves(m, n, t)
  BY <1>1, <1>3 DEF Leaves
<1>5. Placed(NoFrame, t) /\ ~NoFrame.fresh /\ ~Drives(NoFrame) /\ ~Hops(NoFrame) /\ ~Asking(NoFrame)
  BY DEF NoFrame, Placed, Drives, Hops, Asking
<1>6. Sound(n, "none")
  BY <1>3, <1>4, <1>5, Include DEF Sound
<1> QED
  BY <1>3, <1>4, <1>5, <1>6 DEF n, Steps, Permitted

LEMMA NotResumedSteps ==
  ASSUME NEW m, NEW t \in Task, NEW goal, Sound(m, t)
  PROVE  Steps(m, notResumed(m, t, goal), t) /\ notResumed(m, t, goal).task[t] = NoFrame
<1>1. CASE ~m.closed /\ notResumed(m, t, goal) = done(setPendingContinuation(m, "same"), t)
  <2> DEFINE k == setPendingContinuation(m, "same")
  <2>1. Sound(k, t) /\ k.task = m.task /\ k.closed = m.closed
    BY <1>1, ParkSound DEF Sound
  <2> HIDE DEF k
  <2>2. Steps(k, done(k, t), t) /\ done(k, t).task[t] = NoFrame
    BY <2>1, DoneSteps
  <2> QED
    BY <1>1, <2>1, <2>2, LeavesStep DEF k
<1>2. CASE notResumed(m, t, goal) = done(m, t)
  BY <1>2, DoneSteps
<1> QED
  BY <1>1, <1>2 DEF notResumed

LEMMA ResumedSteps ==
  ASSUME NEW m, NEW t \in Task, NEW goal, Sound(m, t)
  PROVE  Steps(m, resumed(m, t, goal), t) /\ resumed(m, t, goal).task[t] = NoFrame
<1>1. CASE goal = "same"
  BY <1>1, DoneSteps DEF resumed
<1>2. CASE goal # "same"
  <2> DEFINE h == IF goal = "hop" /\ m.task[t].fresh THEN 0 ELSE m.hops
             k == [m EXCEPT !.dispatched = TRUE, !.hops = h]
  <2>1. m \in Memory /\ h \in {0, m.hops} /\ h \in 0 .. Most
    BY Typed, MostType DEF Sound, Base
  <2>2. k \in Memory
    BY <2>1 DEF Memory, Most
  <2>3. /\ k.aborted = m.aborted /\ k.stopped = m.stopped /\ k.closed = m.closed
        /\ k.open = m.open /\ k.auto = m.auto /\ k.hops = h /\ k.failures = m.failures
        /\ k.actions = m.actions /\ k.pending = m.pending /\ k.timer = m.timer /\ k.task = m.task
    BY <2>1 DEF Memory
  <2>4. resumed(m, t, goal) = done(k, t)
    BY <1>2 DEF resumed
  <2> HIDE DEF k, h
  <2>5. Base(k, t)
    BY <2>1, <2>2, <2>3, Carry DEF Sound, Base, SameTask
  <2>6. Sound(k, t)
    BY <2>3, <2>5 DEF Sound, Woken
  <2> QED
    BY <2>3, <2>4, <2>6, DoneSteps, LeavesStep
<1> QED
  BY <1>1, <1>2

\* An in-between frame of t: the invariant without t keeps, others stay.
LEMMA BeginSound ==
  ASSUME NEW m, NEW t \in Task, NEW stage \in Stage, NEW goal \in Goal, Base(m, t)
  PROVE  LET n == begin(m, t, stage, goal) IN
         /\ n \in Memory /\ Base(n, t) /\ (Woken(m, t) => Woken(n, t)) /\ Leaves(m, n, t)
         /\ n.task[t].stage = stage /\ n.task[t].goal = goal /\ n.task[t].fresh
         /\ n.auto = m.auto /\ n.hops = m.hops /\ n.pending = m.pending
         /\ n.closed = m.closed /\ n.aborted = m.aborted /\ n.stopped = m.stopped
<1> DEFINE f == [stage |-> stage, goal |-> goal, fresh |-> TRUE, holds |-> m.task[t].holds]
<1>1. f \in Frame /\ m.task \in [Task -> Frame]
  BY Typed DEF Frame, Base
<1>2. begin(m, t, stage, goal) = [m EXCEPT !.task[t] = f]
  BY <1>1 DEF begin, Base, Memory
<1>3. f.stage = stage /\ f.goal = goal /\ f.fresh
  OBVIOUS
<1> HIDE DEF f
<1>4. [m.task EXCEPT ![t] = f][t] = f /\ \A u \in Task \ {t} : [m.task EXCEPT ![t] = f][u] = m.task[u]
  BY <1>1
<1> QED
  BY <1>1, <1>2, <1>3, <1>4, OwnFrame DEF Leaves

\* A prompt is injected while the budget lasts.
LEMMA InjectSteps ==
  ASSUME NEW m, NEW t \in Task, NEW goal \in Goal, Sound(m, t),
         ~m.closed, ~m.aborted, ~m.stopped, t \in {"hook", "user"} => goal # "hop"
  PROVE  Steps(m, injectContinuationPrompt(m, t, goal), t)
<1>1. CASE m.auto >= MaxAuto
  BY <1>1, NotResumedSteps DEF injectContinuationPrompt
<1>2. CASE ~(m.auto >= MaxAuto)
  <2> DEFINE c == [m EXCEPT !.auto = @ + 1, !.expecting = TRUE]
             w == beginResumeWatch(c, t)
             n == begin(w, t, "sending", goal)
  <2>1. m \in Memory /\ m.auto + 1 \in 0 .. Most /\ m.auto + 1 <= MaxAuto
    BY <1>2, Typed, MostType, ChainAssumption DEF Sound, Base
  <2>2. c \in Memory
    BY <2>1 DEF Memory, Most
  <2>3. /\ c.aborted = m.aborted /\ c.stopped = m.stopped /\ c.closed = m.closed
        /\ c.open = m.open /\ c.auto = m.auto + 1 /\ c.hops = m.hops /\ c.failures = m.failures
        /\ c.actions = m.actions /\ c.pending = m.pending /\ c.timer = m.timer /\ c.task = m.task
    BY <2>1 DEF Memory
  <2> HIDE DEF c
  <2>4. Sound(c, t)
    <3>1. Driving(c, t) = Driving(m, t) /\ Hopping(c, t) = Hopping(m, t)
      BY <2>3 DEF Driving, Hopping
    <3>2. Base(c, t)
      BY <2>1, <2>2, <2>3, <3>1 DEF Sound, Base, Counted
    <3> QED
      BY <2>3, <3>2 DEF Sound, Woken
  <2>5. Sound(w, t) /\ SameTask(c, w) /\ w.closed = c.closed /\ w.aborted = c.aborted /\ w.stopped = c.stopped
    <3>1. w \in Memory /\ Calm(c, w)
      BY <2>2, WatchCalm
    <3> HIDE DEF w
    <3>2. Base(w, t) /\ Woken(w, t) /\ SameTask(c, w)
      BY <2>4, <3>1, CalmKeeps DEF Sound
    <3> QED
      BY <3>1, <3>2 DEF Sound, Calm
  <2> HIDE DEF w
  <2>12. "sending" \in Stage
    BY DEF Stage
  <2>6. /\ n \in Memory /\ Base(n, t) /\ Woken(n, t) /\ Leaves(w, n, t)
        /\ n.task[t].stage = "sending" /\ n.task[t].goal = goal
        /\ n.closed = w.closed /\ n.aborted = w.aborted /\ n.stopped = w.stopped
    BY <2>5, <2>12, BeginSound DEF Sound
  <2> HIDE DEF n
  <2>7. Sound(n, "none")
    BY <1>2, <2>3, <2>5, <2>6, Include DEF Sound, Placed, Drives, Hops
  <2>8. Leaves(m, n, t)
    BY <2>3, <2>5, <2>6 DEF Leaves, SameTask
  <2>9. Steps(m, n, t)
    BY <2>3, <2>5, <2>6, <2>7, <2>8 DEF Steps, Permitted
  <2>10. injectContinuationPrompt(m, t, goal) = n
    BY <1>2 DEF injectContinuationPrompt, n, w, c
  <2> QED
    BY <2>9, <2>10
<1> QED
  BY <1>1, <1>2

LEMMA ResumeSteps ==
  ASSUME NEW m, NEW t \in Background, NEW goal \in Goal, Sound(m, t), Room(m, t)
  PROVE  Steps(m, resumeWithExistingContext(m, t, goal), t)
<1> DEFINE n == allowAction(m)
           r == resumeWithExistingContext(m, t, goal)
<1>1. t \in Task /\ t \notin {"hook", "user"}
  BY ChainAssumption DEF Task
<1>2. Sound(n, t) /\ SameTask(m, n) /\ n.closed = m.closed /\ n.auto = m.auto
  BY AllowSound DEF Sound
<1>3. allowed(m) => ~n.stopped /\ n.aborted = m.aborted
  BY AllowSound DEF Sound
<1> HIDE DEF n
<1>4. ASSUME NEW k, Steps(n, k, t) PROVE Steps(m, k, t)
  BY <1>2, <1>4, LeavesStep
<1>5. CASE m.closed \/ m.aborted \/ signal
  <2>1. r = notResumed(m, t, goal)
    BY <1>5 DEF resumeWithExistingContext
  <2> QED
    BY <1>1, <2>1, NotResumedSteps
<1>6. CASE ~(m.closed \/ m.aborted \/ signal) /\ ~allowed(m)
  <2>1. r = notResumed(n, t, goal)
    BY <1>6 DEF resumeWithExistingContext, n
  <2> QED
    BY <1>1, <1>2, <1>4, <2>1, NotResumedSteps
<1>7. CASE ~(m.closed \/ m.aborted \/ signal) /\ allowed(m) /\ Seamless
  <2> DEFINE k == begin(n, t, "idling", goal)
  <2>1. r = k
    BY <1>7 DEF resumeWithExistingContext, n
  <2>2. /\ k \in Memory /\ Base(k, t) /\ Woken(k, t) /\ Leaves(n, k, t)
        /\ k.task[t].stage = "idling" /\ k.auto = n.auto /\ k.closed = n.closed
    <3>1. "idling" \in Stage
      BY DEF Stage
    <3> QED
      BY <3>1, <1>1, <1>2, BeginSound DEF Sound
  <2>3. \A u \in Task \ {t} : k.task[u].stage = m.task[u].stage
    BY <1>2, <2>2 DEF Leaves, SameTask
  <2> HIDE DEF k
  <2>4. Driving(k, t) = Driving(m, t)
    BY <2>3 DEF Driving, Drives, Task
  <2>5. Room(k, t)
    BY <1>2, <2>2, <2>4 DEF Room
  <2>6. Sound(k, "none")
    BY <1>1, <1>2, <1>7, <2>2, <2>5, Include DEF Sound, Placed, Hops
  <2>7. Steps(n, k, t)
    BY <2>2, <2>6 DEF Steps, Permitted, Asking
  <2> QED
    BY <1>4, <2>1, <2>7
<1>8. CASE ~(m.closed \/ m.aborted \/ signal) /\ allowed(m) /\ ~Seamless
  <2>1. r = injectContinuationPrompt(n, t, goal)
    BY <1>8 DEF resumeWithExistingContext, n
  <2> QED
    BY <1>1, <1>2, <1>3, <1>4, <1>8, <2>1, InjectSteps
<1> QED
  BY <1>5, <1>6, <1>7, <1>8

LEMMA DispatchSteps ==
  ASSUME NEW m, NEW t \in Background, NEW goal \in Goal, NEW ready, Sound(m, t), ~m.closed
  PROVE  Steps(m, maybeDispatchContinuation(m, t, goal, ready), t)
<1> DEFINE r == maybeDispatchContinuation(m, t, goal, ready)
           held == m.aborted \/ signal \/ ~m.switch \/ m.auto >= MaxAuto \/ m.open
<1>1. t \in Task
  BY DEF Task
<1>2. CASE held
  <2>1. r = done(m, t)
    BY <1>2 DEF maybeDispatchContinuation
  <2> QED
    BY <1>1, <2>1, DoneSteps
<1>3. CASE ~held /\ ~ready
  <2> DEFINE k == setPendingContinuation(m, "rotate")
  <2>1. r = done(k, t)
    BY <1>3 DEF maybeDispatchContinuation
  <2>2. Sound(k, t) /\ k.task = m.task /\ k.closed = m.closed
    BY ParkSound DEF Sound
  <2> HIDE DEF k
  <2> QED
    BY <1>1, <2>1, <2>2, DoneSteps, LeavesStep
<1>4. CASE ~held /\ ready
  <2> DEFINE b == begin(m, t, "none", goal)
             k == [b EXCEPT !.task[t].holds = TRUE]
             f == [b.task[t] EXCEPT !.holds = TRUE]
  <2>1. /\ b \in Memory /\ Sound(b, t) /\ Leaves(m, b, t)
        /\ b.auto = m.auto /\ b.closed = m.closed
    BY <1>1, BeginSound DEF Sound, Stage
  <2> HIDE DEF b
  <2>2. f \in Frame /\ b.task \in [Task -> Frame]
    <3>1. b.task \in [Task -> Frame]
      BY <2>1, Typed
    <3>2. ASSUME NEW x \in Frame PROVE [x EXCEPT !.holds = TRUE] \in Frame
      BY <3>2 DEF Frame
    <3> QED
      BY <1>1, <3>1, <3>2
  <2>3. k = [b EXCEPT !.task[t] = f]
    BY <1>1, <2>1, <2>2 DEF Memory
  <2> HIDE DEF k, f
  <2>4. /\ Sound(k, t) /\ k.task = [b.task EXCEPT ![t] = f]
        /\ k.auto = b.auto /\ k.closed = b.closed
    BY <1>1, <2>1, <2>2, <2>3, OwnFrame DEF Sound
  <2>5. Leaves(m, k, t)
    BY <1>1, <2>1, <2>2, <2>4 DEF Leaves
  <2>6. Room(k, t)
    BY <1>4, <2>1, <2>4, Typed, ChainAssumption DEF Room, Sound, Base
  <2>7. Steps(k, resumeWithExistingContext(k, t, goal), t)
    BY <2>4, <2>6, ResumeSteps
  <2>8. r = resumeWithExistingContext(k, t, goal)
    BY <1>4 DEF maybeDispatchContinuation, k, b
  <2> QED
    BY <2>1, <2>4, <2>5, <2>7, <2>8, LeavesStep
<1> QED
  BY <1>2, <1>3, <1>4

-----------------------------------------------------------------------------
(* Switching the account.                                                   *)

\* Parked work is in hand of t, or it has a wake without t.
InHand(m, t, goal) == Woken(m, t) \/ (goal = "hop" /\ m.task[t].fresh)

LEMMA NotSwitchedSteps ==
  ASSUME NEW m, NEW t \in Task, NEW goal, NEW ready, Base(m, t), InHand(m, t, goal),
         m.closed => ~m.task[t].fresh
  PROVE  /\ Steps(m, notSwitched(m, t, goal, ready), t)
         /\ notSwitched(m, t, goal, ready).task[t] = NoFrame
<1> DEFINE moves == m.task[t].fresh /\ ~(goal = "fail" /\ (m.aborted \/ signal))
           r == notSwitched(m, t, goal, ready)
<1>1. ASSUME NEW k, Sound(k, t), SameTask(m, k), k.closed = m.closed, r = done(k, t)
      PROVE  Steps(m, r, t) /\ r.task[t] = NoFrame
  <2>1. Steps(k, done(k, t), t) /\ done(k, t).task[t] = NoFrame
    BY <1>1, DoneSteps
  <2>2. Leaves(m, k, t)
    BY <1>1, LeavesStep
  <2> HIDE DEF r
  <2> QED
    BY <1>1, <2>1, <2>2, LeavesStep
<1>2. CASE Woken(m, t) /\ r = done(m, t)
  BY <1>2, DoneSteps DEF Sound
<1>3. CASE moves /\ goal = "hop"
  <2>1. r = done(schedulePendingWake(m), t)
    BY <1>3 DEF notSwitched
  <2> QED
    BY <1>1, <2>1, ScheduleSound DEF SameTask
<1>4. CASE moves /\ goal = "fail" /\ ready
  <2>1. r = done(setSwitch(m, TRUE), t)
    BY <1>4 DEF notSwitched
  <2>2. Sound(setSwitch(m, TRUE), t) /\ Calm(m, setSwitch(m, TRUE))
    BY <1>4, SwitchCalm, CalmKeeps DEF Base, InHand, Sound
  <2> QED
    BY <1>1, <2>1, <2>2 DEF Calm, SameTask
<1>5. CASE moves /\ goal = "fail" /\ ~ready
  <2>1. r = done(setPendingContinuation(m, "rotate"), t)
    BY <1>5 DEF notSwitched
  <2> QED
    BY <1>1, <1>5, <2>1, ParkSound DEF SameTask
<1>6. CASE ~moves \/ goal \notin {"hop", "fail"}
  <2>1. r = done(m, t)
    BY <1>6 DEF notSwitched
  <2> QED
    BY <1>2, <1>6, <2>1 DEF InHand
<1> QED
  BY <1>3, <1>4, <1>5, <1>6

LEMMA FallbackSteps ==
  ASSUME NEW m, NEW t \in Task, NEW goal \in Goal, NEW ready, Base(m, t), ~m.closed,
         Woken(m, t) \/ goal = "hop",
         t \in {"hook", "user"} => goal # "hop",
         goal = "hop" => m.hops <= MaxAuto
  PROVE  Steps(m, activateFallback(m, t, goal, ready), t)
<1> DEFINE b == begin(m, t, "switching", goal)
           n == IF goal = "manual" THEN resetGovernor(b) ELSE allowAction(b)
           r == activateFallback(m, t, goal, ready)
<1>1. /\ b \in Memory /\ Base(b, t) /\ (Woken(m, t) => Woken(b, t)) /\ Leaves(m, b, t)
      /\ b.task[t].stage = "switching" /\ b.task[t].goal = goal /\ b.task[t].fresh
      /\ b.closed = m.closed /\ b.hops = m.hops
  BY BeginSound DEF Stage
<1> HIDE DEF b
<1>2. /\ n \in Memory /\ Base(n, t) /\ (Woken(b, t) => Woken(n, t)) /\ SameTask(b, n)
      /\ n.closed = b.closed
      /\ goal # "manual" /\ allowed(b) => ~n.stopped
      /\ goal = "manual" \/ allowed(b) => n.task = b.task /\ n.hops = b.hops
      /\ ~(goal = "manual" \/ allowed(b)) => n.pending = "none"
  <2>1. CASE goal = "manual"
    <3> DEFINE g == resetGovernor(b)
    <3>1. g \in Memory
      BY <1>1, SmallTypes
    <3>2. /\ g.aborted = b.aborted /\ ~g.stopped /\ g.closed = b.closed
          /\ g.open = b.open /\ g.auto = b.auto /\ g.hops = b.hops /\ g.failures = b.failures
          /\ g.actions = 0 /\ g.pending = b.pending /\ g.timer = b.timer /\ g.task = b.task
      BY <1>1 DEF Memory, resetGovernor
    <3>3. n = g
      BY <2>1
    <3> HIDE DEF g
    <3>4. Base(g, t)
      BY <1>1, <3>1, <3>2, Carry, ChainAssumption DEF Base, SameTask
    <3>5. Woken(b, t) => Woken(g, t)
      BY <3>2 DEF Woken
    <3> QED
      BY <2>1, <3>1, <3>2, <3>3, <3>4, <3>5 DEF SameTask
  <2>2. CASE goal # "manual"
    <3>1. n = allowAction(b)
      BY <2>2
    <3>2. allowed(b) => allowAction(b).hops = b.hops
      BY <1>1 DEF allowAction, allowed, Memory
    <3> QED
      BY <1>1, <2>2, <3>1, <3>2, AllowSound
  <2> QED
    BY <2>1, <2>2
<1>3. CASE (goal = "manual" \/ allowed(b)) /\ ~stale(n, t, goal)
  <2> DEFINE k == [n EXCEPT !.target = TRUE]
  <2>1. r = k
    BY <1>3 DEF activateFallback, b
  <2>2. k \in Memory /\ Calm(n, k) /\ k.task = n.task
    BY <1>2 DEF Memory, Calm
  <2> HIDE DEF n, k
  <2>3. Base(k, t) /\ (Woken(n, t) => Woken(k, t)) /\ k.task = b.task /\ k.hops = b.hops
    BY <1>2, <1>3, <2>2, CalmKeeps DEF Calm
  <2>4. ~n.closed /\ (goal # "manual" => ~n.aborted /\ ~n.stopped)
    BY <1>2, <1>3 DEF stale
  <2>5. ~k.closed /\ (goal # "manual" => ~k.aborted /\ ~k.stopped)
    BY <2>2, <2>4 DEF Calm
  <2>6. Base(k, "none") /\ Woken(k, "none")
    BY <1>1, <1>2, <2>2, <2>3, <2>5, Include DEF Placed, Drives, Hops, HopRoom
  <2>7. Leaves(m, k, t)
    BY <1>1, <2>3 DEF Leaves
  <2>8. Steps(m, k, t)
    <3>1. k.closed = m.closed
      BY <1>1, <1>2, <2>2 DEF Calm
    <3>2. k.task[t].goal = goal
      BY <1>1, <2>3
    <3>3. Permitted(k, t)
      BY <2>5, <3>2 DEF Permitted, Asking
    <3> QED
      BY <2>2, <2>6, <2>7, <3>1, <3>3 DEF Steps, Sound
  <2> QED
    BY <2>1, <2>8
<1>4. CASE ~((goal = "manual" \/ allowed(b)) /\ ~stale(n, t, goal))
  <2>1. r = notSwitched(n, t, goal, ready)
    BY <1>4 DEF activateFallback, b
  <2> HIDE DEF n
  <2>2. InHand(n, t, goal)
    BY <1>1, <1>2 DEF InHand, Woken
  <2>3. ~n.closed
    BY <1>1, <1>2
  <2>4. Steps(n, r, t)
    BY <1>2, <2>1, <2>2, <2>3, NotSwitchedSteps
  <2>5. Leaves(m, n, t) /\ n.closed = m.closed
    BY <1>1, <1>2 DEF Leaves, SameTask
  <2> QED
    BY <2>4, <2>5, LeavesStep
<1> QED
  BY <1>3, <1>4

LEMMA ActivatedSteps ==
  ASSUME NEW m, NEW t \in Task, NEW ready, Sound(m, "none"), ~m.closed, m.task[t].fresh,
         m.task[t].stage = "switched"
  PROVE  Steps(m, activated(m, t, m.task[t].goal, ready), t)
<1> DEFINE goal == m.task[t].goal
           r == activated(m, t, goal, ready)
<1>1. m \in Memory /\ Base(m, t) /\ goal \in Goal
  BY Exclude, Typed DEF Sound, Base
<1>2. CASE goal # "hop"
  <2>1. Sound(m, t)
    BY <1>2, Exclude DEF Sound, Hops
  <2>2. PICK b \in BOOLEAN : r = done(setSwitch(m, b), t)
    BY <1>2 DEF activated
  <2>3. Sound(setSwitch(m, b), t) /\ Calm(m, setSwitch(m, b))
    BY <1>1, <2>1, SwitchCalm, CalmKeeps DEF Sound
  <2>4. Steps(setSwitch(m, b), r, t)
    BY <2>2, <2>3, DoneSteps
  <2>5. SameTask(m, setSwitch(m, b)) /\ setSwitch(m, b).closed = m.closed
    BY <2>3 DEF Calm, SameTask
  <2> QED
    BY <2>4, <2>5, LeavesStep
<1>3. CASE goal = "hop"
  <2> DEFINE w == setSwitch(m, TRUE)
             h == [w EXCEPT !.hops = @ + 1]
             k == clearPendingContinuation(h)
  <2>1. t \in Background
    BY <1>3, Nobody DEF Sound, Base, Placed, Task
  <2>2. w \in Memory /\ Calm(m, w) /\ Base(w, t) /\ SameTask(m, w)
    BY <1>1, SwitchCalm, CalmKeeps
  <2> HIDE DEF w
  <2>3. HopRoom(m, t)
    BY <1>3, <2>1, Exclude DEF Sound, Hops
  <2>4. Hopping(w, t) = Hopping(m, t) /\ Driving(w, t) = Driving(m, t)
    BY <2>2 DEF Hopping, Driving, Hops, Drives, Calm, Task
  <2>5. w.hops + 1 \in 0 .. Most /\ w.hops + 1 + Cardinality(Hopping(w, t)) <= Most
    <3>1. Hopping(m, t) \in SUBSET Background /\ t \notin Hopping(m, t)
      BY DEF Hopping
    <3>2. /\ Cardinality(Hopping(m, t)) \in Nat
          /\ Cardinality(Hopping(m, t)) + 1 <= Cardinality(Background)
      BY <2>1, <3>1, CountBound, CountWithout
    <3>3. m.hops \in Nat /\ w.hops = m.hops
      BY <1>1, <2>2, Typed, MostType DEF Calm
    <3> QED
      BY <2>3, <2>4, <3>2, <3>3, MostType, ChainAssumption DEF HopRoom, Most
  <2>6. h \in Memory
    BY <2>2, <2>5 DEF Memory, Most
  <2>7. /\ h.aborted = w.aborted /\ h.stopped = w.stopped /\ h.closed = w.closed
        /\ h.open = w.open /\ h.auto = w.auto /\ h.hops = w.hops + 1 /\ h.failures = w.failures
        /\ h.actions = w.actions /\ h.pending = w.pending /\ h.timer = w.timer /\ h.task = w.task
    BY <2>2 DEF Memory
  <2> HIDE DEF h
  <2>8. Base(h, t)
    <3>1. Driving(h, t) = Driving(w, t) /\ Hopping(h, t) = Hopping(w, t)
      BY <2>7 DEF Driving, Hopping
    <3> QED
      BY <2>2, <2>5, <2>6, <2>7, <3>1 DEF Base, Counted
  <2>9. Sound(k, t) /\ k.task = h.task /\ k.closed = h.closed
    BY <2>8, ClearSound
  <2>10. r = maybeDispatchContinuation(k, t, goal, ready)
    BY <1>3 DEF activated, h, w
  <2> HIDE DEF k
  <2>11. Steps(k, r, t)
    BY <1>1, <2>1, <2>2, <2>7, <2>9, <2>10, DispatchSteps DEF Calm
  <2>12. Leaves(m, k, t) /\ k.closed = m.closed
    BY <2>2, <2>7, <2>9 DEF Leaves, SameTask, Calm
  <2> QED
    BY <2>11, <2>12, LeavesStep
<1> QED
  BY <1>2, <1>3

\* An idle hook or command has an account made ready, or goes on as it is.
LEMMA ReadySteps ==
  ASSUME NEW m, NEW t \in Task, NEW goal \in {"start", "ready"}, NEW ready, NEW other,
         Sound(m, "none"), ~m.closed, m.task[t].stage = "none"
  PROVE  Steps(m, ensureReadyModel(m, t, goal, ready, other), t)
<1>1. Sound(m, t)
  BY Exclude DEF Sound, Hops
<1>2. goal \in Goal /\ goal # "hop"
  BY DEF Goal
<1>3. Steps(m, activateFallback(m, t, goal, ready), t)
  BY <1>1, <1>2, FallbackSteps DEF Sound
<1>4. Steps(m, m, t)
  BY DEF Steps, Leaves, Permitted, Asking, Sound, Base
<1> QED
  BY <1>3, <1>4 DEF ensureReadyModel

\* A frame is replaced by a later stage of the same kind of wait.
LEMMA RestageSound ==
  ASSUME NEW m, NEW t \in Task, NEW f \in Frame, Sound(m, "none"), Placed(f, t),
         f.fresh = m.task[t].fresh, Drives(f) => Drives(m.task[t]),
         Hops(f) <=> Hops(m.task[t])
  PROVE  LET n == [m EXCEPT !.task[t] = f] IN
         /\ n \in Memory /\ Sound(n, "none") /\ Leaves(m, n, t) /\ n.task[t] = f
         /\ n.closed = m.closed /\ n.aborted = m.aborted /\ n.stopped = m.stopped
<1> DEFINE n == [m EXCEPT !.task[t] = f]
<1>1. /\ Base(m, t)
      /\ Woken(m, t) \/ (Hops(f) /\ f.fresh)
      /\ m.closed => ~f.fresh
  BY Nobody, Exclude DEF Sound, Base
<1>2. t \in Background \/ ~(Drives(f) \/ Hops(f))
  BY DEF Placed, Hops, Task
<1>3. (Drives(f) => Room(m, t)) /\ (Hops(f) => HopRoom(m, t))
  BY <1>2, Exclude DEF Sound
<1>4. /\ n \in Memory /\ Base(n, t) /\ (Woken(m, t) => Woken(n, t))
      /\ n.task = [m.task EXCEPT ![t] = f]
      /\ n.auto = m.auto /\ n.hops = m.hops
      /\ n.closed = m.closed /\ n.aborted = m.aborted /\ n.stopped = m.stopped
  BY <1>1, OwnFrame
<1> HIDE DEF n
<1>5. m.task \in [Task -> Frame]
  BY Typed DEF Sound, Base
<1>6. n.task[t] = f /\ \A u \in Task \ {t} : n.task[u] = m.task[u]
  BY <1>4, <1>5
<1>7. Driving(n, t) = Driving(m, t) /\ Hopping(n, t) = Hopping(m, t)
  <2>1. \A u \in Background \ {t} : n.task[u] = m.task[u]
    BY <1>6 DEF Task
  <2> QED
    BY <2>1 DEF Driving, Hopping
<1>8. (Drives(f) => Room(n, t)) /\ (Hops(f) => HopRoom(n, t))
  BY <1>3, <1>4, <1>7 DEF Room, HopRoom
<1>9. Sound(n, "none")
  BY <1>1, <1>4, <1>6, <1>8, Include DEF Sound
<1> QED
  BY <1>4, <1>6, <1>9 DEF n, Leaves

-----------------------------------------------------------------------------
(* The steps.                                                               *)

\* What every step does: the invariant holds after it, whoever asks for an
\* automatic step then may, on a chain that goes on, and nobody moves in the
\* middle of a wait but by its answer.
Answered(t) == memory.task[t].stage \in {"none", "probing"} \/ Settle(t)

Fine ==
  /\ Sound(memory', "none")
  /\ memory'.closed => turn' = "idle"
  /\ \A u \in Task : Asks(u) =>
       /\ ~memory'.aborted /\ ~memory'.stopped /\ ~memory'.closed
       /\ memory.task[u] = NoFrame \/ memory.task[u].fresh
  /\ \A u \in Task : \/ memory'.task[u].stage = memory.task[u].stage
                     \/ Answered(u)

LEMMA FineStep ==
  ASSUME NEW t \in Task, Steps(memory, memory', t), memory'.closed => turn' = "idle", Answered(t),
         Asks(t) => memory.task[t] = NoFrame \/ memory.task[t].fresh
  PROVE  Fine
  BY DEF Fine, Steps, Leaves, Permitted, Asking, Asks

\* A step after which every function is where it was.
LEMMA FineStill ==
  ASSUME Sound(memory', "none"), SameTask(memory, memory'), memory'.closed => turn' = "idle"
  PROVE  Fine
  BY DEF Fine, SameTask, Asks

LEMMA FineCalm ==
  ASSUME IInv, Calm(memory, memory'), memory' \in Memory, turn' = turn \/ ~memory.closed
  PROVE  Fine
<1>1. Sound(memory', "none") /\ SameTask(memory, memory')
  BY CalmKeeps DEF IInv, Sound
<1> QED
  BY <1>1, FineStill DEF IInv, Calm

LEMMA Here ==
  ASSUME IInv
  PROVE  /\ memory \in Memory /\ Base(memory, "none") /\ Woken(memory, "none")
         /\ memory.closed => turn = "idle"
         /\ \A t \in Task : /\ Base(memory, t) /\ Placed(memory.task[t], t)
                            /\ memory.closed => ~memory.task[t].fresh
                            /\ ~Hops(memory.task[t]) => Sound(memory, t)
<1>1. \A t \in Task : Base(memory, t) /\ (~Hops(memory.task[t]) => Sound(memory, t))
  BY Exclude DEF IInv, Sound
<1>2. \A t \in Task : Placed(memory.task[t], t) /\ (memory.closed => ~memory.task[t].fresh)
  BY Nobody DEF IInv, Sound, Base
<1> QED
  BY <1>1, <1>2 DEF IInv, Sound, Base

\* The timer has fired: the rest of the memory is as it was.
LEMMA FiredSound ==
  ASSUME IInv, NEW t
  PROVE  /\ fired \in Memory /\ fired.timer = "off" /\ fired.task = memory.task
         /\ fired.closed = memory.closed /\ fired.aborted = memory.aborted
         /\ fired.stopped = memory.stopped /\ fired.open = memory.open
         /\ fired.auto = memory.auto /\ fired.hops = memory.hops
         /\ fired.pending = memory.pending /\ fired.failures = memory.failures
         /\ Base(memory, t) => Base(fired, t)
<1>1. memory \in Memory
  BY Here
<1>2. /\ fired \in Memory /\ fired.timer = "off" /\ fired.task = memory.task
      /\ fired.closed = memory.closed /\ fired.aborted = memory.aborted
      /\ fired.stopped = memory.stopped /\ fired.open = memory.open
      /\ fired.auto = memory.auto /\ fired.hops = memory.hops
      /\ fired.actions = memory.actions
      /\ fired.pending = memory.pending /\ fired.failures = memory.failures
  BY <1>1 DEF fired, Memory
<1>3. Base(memory, t) => Base(fired, t)
  BY <1>2, Carry DEF Base, SameTask
<1> QED
  BY <1>2, <1>3

LEMMA WakeFine ==
  ASSUME IInv, NEW b \in Background, Wake(b)
  PROVE  Fine
<1>1. b \in Task /\ UNCHANGED turn
  BY DEF Task, Wake, WakeCancelled, WakeWaits, WakeResumes, WakeHops, host
<1>2. /\ memory.timer = "fresh" /\ memory.task[b] = NoFrame /\ ~memory.aborted
      /\ ~memory.closed /\ ~memory.stopped
  BY Here DEF Wake, WakeCancelled, WakeWaits, WakeResumes, WakeHops, Looks, Awake, Idle, Base
<1>3. Base(fired, "none") /\ Base(fired, b) /\ fired.task = memory.task /\ fired.closed = memory.closed
  BY <1>1, Here, FiredSound
<1>4. ASSUME NEW k, Leaves(memory, k, b), k.closed = memory.closed, Steps(k, memory', b)
      PROVE  Fine
  <2>1. Steps(memory, memory', b)
    BY <1>4, LeavesStep
  <2>2. ~memory'.closed
    BY <1>2, <2>1 DEF Steps
  <2> QED
    BY <1>1, <1>2, <2>1, <2>2, FineStep DEF Answered, NoFrame
<1>5. CASE WakeCancelled(b)
  <2>1. memory' = clearPendingContinuation(fired)
    BY <1>5 DEF WakeCancelled
  <2>2. Sound(memory', "none") /\ memory'.task = memory.task /\ memory'.closed = memory.closed
    BY <1>3, <2>1, ClearSound
  <2> QED
    BY <1>1, <1>2, <2>2, FineStill DEF SameTask
<1>6. CASE WakeWaits(b)
  <2>1. memory' = schedulePendingWake(fired)
    BY <1>6 DEF WakeWaits
  <2>2. Sound(memory', "none") /\ memory'.task = memory.task /\ memory'.closed = memory.closed
    BY <1>3, <2>1, ScheduleSound
  <2> QED
    BY <1>1, <1>2, <2>2, FineStill DEF SameTask
<1>7. CASE WakeResumes(b)
  <2> DEFINE m == clearPendingContinuation(fired)
             n == begin(m, b, "none", "same")
             r == begin(m, b, "restoring", "same")
  <2>1. /\ m \in Memory /\ Sound(m, b) /\ m.task = memory.task /\ m.auto = memory.auto
        /\ m.closed = memory.closed /\ m.aborted = memory.aborted /\ m.stopped = memory.stopped
    BY <1>3, FiredSound, ClearSound
  <2>2. memory.auto <= MaxAuto
    <3>1. memory.auto < MaxAuto
      BY <1>7, Here, Typed, MostType, ChainAssumption DEF WakeResumes, Looks, exhausted
    <3> QED
      BY <3>1, Here, Typed, MostType, ChainAssumption
  <2>3. "none" \in Stage /\ "restoring" \in Stage /\ "same" \in Goal
    BY DEF Stage, Goal
  <2>4. memory' = resumeWithExistingContext(n, b, "same") \/ memory' = [r EXCEPT !.target = TRUE]
    BY <1>7 DEF WakeResumes
  <2> HIDE DEF m
  <2>5. /\ Sound(n, b) /\ Leaves(m, n, b) /\ n.auto = m.auto /\ n.closed = m.closed
    BY <1>1, <2>1, <2>3, BeginSound DEF Sound
  <2>6. /\ r \in Memory /\ Sound(r, b) /\ Leaves(m, r, b) /\ r.auto = m.auto
        /\ r.closed = m.closed /\ r.aborted = m.aborted /\ r.stopped = m.stopped
        /\ r.task[b].stage = "restoring" /\ r.task[b].goal = "same"
    BY <1>1, <2>1, <2>3, BeginSound DEF Sound
  <2> HIDE DEF n, r
  <2>7. CASE memory' = resumeWithExistingContext(n, b, "same")
    <3>1. Steps(n, memory', b)
      BY <2>1, <2>2, <2>3, <2>5, <2>7, ResumeSteps DEF Room
    <3>2. Leaves(memory, n, b) /\ n.closed = memory.closed
      BY <2>1, <2>5 DEF Leaves
    <3> QED
      BY <1>4, <3>1, <3>2
  <2>8. CASE memory' = [r EXCEPT !.target = TRUE]
    <3>1. b \notin {"hook", "user"}
      BY ChainAssumption
    <3>2. Base(r, "none") /\ Woken(r, "none")
      BY <1>1, <1>2, <2>1, <2>2, <2>6, <3>1, Include DEF Sound, Placed, Hops, Room
    <3>3. memory' \in Memory /\ Calm(r, memory') /\ memory'.task = r.task
      BY <2>6, <2>8 DEF Memory, Calm
    <3>4. Sound(memory', "none")
      BY <3>2, <3>3, CalmKeeps DEF Sound
    <3>5. Steps(r, memory', b)
      BY <1>2, <2>1, <2>6, <3>3, <3>4 DEF Steps, Leaves, Permitted, Calm
    <3>6. Leaves(memory, r, b) /\ r.closed = memory.closed
      BY <2>1, <2>6 DEF Leaves
    <3> QED
      BY <1>4, <3>5, <3>6
  <2> QED
    BY <2>4, <2>7, <2>8
<1>8. CASE WakeHops(b)
  <2>1. memory' = activateFallback(fired, b, "hop", FALSE)
    BY <1>8 DEF WakeHops
  <2>2. fired.hops <= MaxAuto
    <3>1. memory.hops < MaxAuto
      BY <1>8, Here, Typed, MostType, ChainAssumption DEF WakeHops, Looks, exhausted
    <3> QED
      BY <3>1, Here, FiredSound, Typed, MostType, ChainAssumption
  <2>3. "hop" \in Goal /\ b \notin {"hook", "user"}
    BY ChainAssumption DEF Goal
  <2>4. Steps(fired, memory', b)
    BY <1>1, <1>2, <1>3, <2>1, <2>2, <2>3, FallbackSteps
  <2> QED
    BY <1>3, <1>4, <2>4 DEF Leaves
<1> QED
  BY <1>5, <1>6, <1>7, <1>8 DEF Wake

\* Every step of a function in flight.
LEMMA SettleFine ==
  ASSUME IInv, NEW t \in Task, Settle(t)
  PROVE  Fine
<1> DEFINE g == memory.task[t].goal
           f == memory.task[t]
<1>1. /\ memory \in Memory /\ Base(memory, t) /\ Base(memory, "none") /\ Woken(memory, "none")
      /\ Placed(f, t) /\ f \in Frame /\ g \in Goal
      /\ (memory.closed => ~f.fresh) /\ (memory.closed => turn = "idle")
      /\ ~Hops(f) => Sound(memory, t)
      /\ Sound(memory, "none")
  BY Here, Typed DEF IInv
<1>2. memory'.closed = memory.closed => (memory'.closed => turn' = "idle")
  BY <1>1 DEF Settle, SetModelLands, SetModelFails, Switched, RestoreFails, Restored,
       SendAccepted, SendResolves, SendRejected, IdleEnds, IdleTimeout, HostContinues,
       ContinueResolves, ContinueFails, host
<1>3. ASSUME Steps(memory, memory', t), f.fresh \/ memory'.task[t] = NoFrame PROVE Fine
  <2>1. Asks(t) => f.fresh
    BY <1>3 DEF Asks, NoFrame
  <2> QED
    BY <1>2, <1>3, <2>1, FineStep DEF Steps, Answered, NoFrame
<1>4. ASSUME NEW k, Leaves(memory, k, t), k.closed = memory.closed, Steps(k, memory', t),
             f.fresh \/ memory'.task[t] = NoFrame
      PROVE  Fine
  BY <1>3, <1>4, LeavesStep
<1>5. At(t, f.stage) /\ goalOf(t) = g
  BY DEF At, goalOf
<1>6. CASE SetModelLands(t)
  <2> DEFINE m == IF memory.target \/ memory.closed THEN memory ELSE claimUserControl(memory)
             s == IF m.task[t].stage = "switching" THEN "switched" ELSE "restored"
             e == [m.task[t] EXCEPT !.stage = s]
             k == [m EXCEPT !.task[t] = e]
  <2>1. m \in Memory /\ Sound(m, "none") /\ SameTask(memory, m) /\ m.closed = memory.closed
    BY <1>1, ClaimSound DEF SameTask
  <2> HIDE DEF m
  <2>2. m.task[t] \in Frame /\ m.task \in [Task -> Frame] /\ m.task[t].stage \in {"switching", "restoring"}
    BY <1>6, <2>1, Typed DEF SetModelLands, At, SameTask
  <2>3. /\ e \in Frame /\ e.stage = s /\ e.goal = m.task[t].goal /\ e.fresh = m.task[t].fresh
        /\ s \in {"switched", "restored"}
    BY <2>2 DEF Frame, Stage
  <2>4. memory' = [k EXCEPT !.target = FALSE]
    BY <1>6, <2>1, <2>2 DEF SetModelLands, m, Memory
  <2>5. Placed(m.task[t], t)
    BY <2>1, Nobody DEF Sound, Base
  <2>6. /\ Placed(e, t) /\ (Drives(e) => Drives(m.task[t])) /\ (Hops(e) <=> Hops(m.task[t]))
    BY <2>2, <2>3, <2>5 DEF Placed, Drives, Hops
  <2> HIDE DEF e, s
  <2>7. /\ k \in Memory /\ Sound(k, "none") /\ Leaves(m, k, t) /\ k.task[t] = e
        /\ k.closed = m.closed
    BY <2>1, <2>3, <2>6, RestageSound
  <2> HIDE DEF k
  <2>8. memory' \in Memory /\ Calm(k, memory') /\ memory'.task = k.task /\ memory'.closed = k.closed
    BY <2>4, <2>7 DEF Memory, Calm
  <2>9. Sound(memory', "none")
    BY <2>7, <2>8, CalmKeeps DEF Sound
  <2>10. Leaves(memory, memory', t) /\ ~Asks(t)
    BY <2>1, <2>3, <2>7, <2>8 DEF Leaves, SameTask, Asks, Asking
  <2>11. memory'.closed => turn' = "idle"
    BY <1>2, <2>1, <2>7, <2>8
  <2> QED
    BY <2>9, <2>10, <2>11 DEF Fine, Leaves, Asks, Answered
<1>7. ASSUME NEW m, m \in Memory, Calm(memory, m), NEW ready, memory' = notSwitched(m, t, g, ready)
      PROVE  Fine
  <2>1. Base(m, t) /\ m.closed = memory.closed /\ SameTask(memory, m)
    BY <1>1, <1>7, CalmKeeps DEF Calm
  <2>2. InHand(m, t, g)
    <3>1. Woken(memory, t) \/ (g = "hop" /\ f.fresh)
      BY <1>1, Exclude DEF Hops
    <3>2. m.task[t].fresh = f.fresh
      BY <1>7 DEF Calm
    <3> QED
      BY <1>1, <1>7, <3>1, <3>2, CalmKeeps DEF InHand
  <2>3. m.closed => ~m.task[t].fresh
    BY <1>1, <1>7 DEF Calm
  <2>4. Steps(m, memory', t) /\ memory'.task[t] = NoFrame
    BY <1>7, <2>1, <2>2, <2>3, NotSwitchedSteps
  <2> QED
    BY <1>4, <2>1, <2>4, LeavesStep
<1>8. CASE SetModelFails(t)
  <2> DEFINE m == [memory EXCEPT !.target = FALSE]
             k == [memory EXCEPT !.target = TRUE]
  <2>1. m \in Memory /\ Calm(memory, m) /\ k \in Memory /\ Calm(memory, k)
    BY <1>1 DEF Memory, Calm
  <2>2. turn' = turn
    BY <1>8 DEF SetModelFails
  <2>3. memory' = k \/ \E ready \in BOOLEAN : memory' = notSwitched(m, t, g, ready)
    BY <1>8, <1>5 DEF SetModelFails
  <2> HIDE DEF m, k
  <2> QED
    BY <1>7, <2>1, <2>2, <2>3, FineCalm
<1>9. CASE Switched(t)
  <2>1. PICK ready \in BOOLEAN :
          memory' = IF stale(memory, t, g) THEN notSwitched(memory, t, g, ready)
                    ELSE activated(memory, t, g, ready)
    BY <1>9, <1>5 DEF Switched
  <2>2. CASE stale(memory, t, g)
    BY <1>1, <1>7, <2>1, <2>2 DEF Calm
  <2>3. CASE ~stale(memory, t, g)
    <3>1. f.fresh /\ ~memory.closed /\ f.stage = "switched"
      BY <1>9, <2>3 DEF stale, Switched, At
    <3>2. Steps(memory, memory', t)
      BY <1>1, <2>1, <2>3, <3>1, ActivatedSteps
    <3> QED
      BY <1>3, <3>1, <3>2
  <2> QED
    BY <2>2, <2>3
<1>10. CASE RestoreFails(t)
  <2> DEFINE m == [memory EXCEPT !.target = FALSE]
             e == [m.task[t] EXCEPT !.stage = "restored"]
             k == [m EXCEPT !.task[t] = e]
  <2>1. /\ m \in Memory /\ Calm(memory, m) /\ m.task = memory.task
    BY <1>1 DEF Memory, Calm
  <2>2. m.task[t].stage = "restoring" /\ m.task[t] \in Frame
    BY <1>1, <1>10, <2>1 DEF RestoreFails, At
  <2>3. memory' = done(m, t) \/ memory' = k
    BY <1>10, <2>1, <2>2 DEF RestoreFails, Memory
  <2> HIDE DEF m
  <2>4. Sound(m, "none") /\ Sound(m, t) /\ m.closed = memory.closed
    BY <1>1, <2>1, <2>2, CalmKeeps DEF Sound, Calm, Hops
  <2>5. e \in Frame /\ e.stage = "restored" /\ e.goal = m.task[t].goal /\ e.fresh = m.task[t].fresh
    BY <2>2 DEF Frame, Stage
  <2>6. Placed(e, t) /\ (Drives(e) => Drives(m.task[t])) /\ (Hops(e) <=> Hops(m.task[t]))
    BY <1>1, <2>1, <2>2, <2>5 DEF Placed, Drives, Hops
  <2> HIDE DEF e
  <2>7. CASE memory' = k
    <3>1. /\ k \in Memory /\ Sound(k, "none") /\ Leaves(m, k, t) /\ k.task[t] = e
          /\ k.closed = m.closed
      BY <2>4, <2>5, <2>6, RestageSound
    <3> HIDE DEF k
    <3>2. Leaves(memory, memory', t) /\ ~Asks(t)
      BY <2>1, <2>5, <2>7, <3>1 DEF Leaves, Asks
    <3>3. memory'.closed => turn' = "idle"
      BY <1>2, <2>4, <2>7, <3>1
    <3> QED
      BY <2>7, <3>1, <3>2, <3>3 DEF Fine, Leaves, Asks, Answered
  <2>8. CASE memory' = done(m, t)
    BY <1>4, <2>1, <2>4, <2>8, DoneSteps, LeavesStep
  <2> QED
    BY <2>3, <2>7, <2>8
<1>11. CASE Restored(t)
  <2>1. f.stage = "restored" /\ Sound(memory, t)
    BY <1>1, <1>11 DEF Restored, At, Hops
  <2>2. CASE ~f.fresh \/ memory.closed
    <3>1. memory' = done(memory, t)
      BY <1>11, <2>2 DEF Restored
    <3> QED
      BY <1>3, <2>1, <3>1, DoneSteps
  <2>3. CASE ~(~f.fresh \/ memory.closed)
    <3>1. memory' = resumeWithExistingContext(memory, t, "same")
      BY <1>11, <2>3 DEF Restored
    <3>2. t \in Background /\ Drives(f) /\ "same" \in Goal
      BY <1>1, <2>1 DEF Placed, Drives, Task, Goal
    <3>3. Room(memory, t)
      BY <1>1, <3>2, Exclude
    <3> QED
      BY <1>3, <2>1, <2>3, <3>1, <3>2, <3>3, ResumeSteps
  <2> QED
    BY <2>2, <2>3
<1>12. CASE SendAccepted(t)
  <2> DEFINE e == [f EXCEPT !.stage = "sent"]
             k == [memory EXCEPT !.task[t] = e]
  <2>1. f.stage = "sending" /\ memory' = k
    BY <1>1, <1>12 DEF SendAccepted, At, Memory
  <2>2. e \in Frame /\ e.stage = "sent" /\ e.goal = g /\ e.fresh = f.fresh
    BY <1>1 DEF Frame, Stage
  <2>3. Placed(e, t) /\ (Drives(e) => Drives(f)) /\ (Hops(e) <=> Hops(f))
    BY <1>1, <2>1, <2>2 DEF Placed, Drives, Hops
  <2> HIDE DEF e
  <2>4. /\ k \in Memory /\ Sound(k, "none") /\ Leaves(memory, k, t) /\ k.task[t] = e
        /\ k.closed = memory.closed
    BY <1>1, <2>2, <2>3, RestageSound
  <2> HIDE DEF k
  <2>5. ~Asks(t) /\ (memory'.closed => turn' = "idle")
    BY <1>2, <2>1, <2>2, <2>4 DEF Asks
  <2> QED
    BY <2>1, <2>4, <2>5 DEF Fine, Leaves, Asks, Answered
<1>13. ASSUME NEW m, m \in Memory, Calm(memory, m), ~Hops(f) PROVE Sound(m, t) /\ m.closed = memory.closed
  BY <1>1, <1>13, CalmKeeps DEF Sound, Calm
<1>14. ASSUME NEW m, SameTask(memory, m), m.closed = memory.closed, Sound(m, t),
              memory' = notResumed(m, t, g)
       PROVE  Fine
  <2>1. Steps(m, memory', t) /\ memory'.task[t] = NoFrame
    BY <1>14, NotResumedSteps
  <2> QED
    BY <1>4, <1>14, <2>1, LeavesStep
<1>15. ASSUME NEW m, SameTask(memory, m), m.closed = memory.closed, Sound(m, t),
              memory' = resumed(m, t, g)
       PROVE  Fine
  <2>1. Steps(m, memory', t) /\ memory'.task[t] = NoFrame
    BY <1>15, ResumedSteps
  <2> QED
    BY <1>4, <1>15, <2>1, LeavesStep
<1>16. CASE SendResolves(t)
  <2> DEFINE m == stopResumeWatch(memory, t)
  <2>1. ~Hops(f)
    BY <1>16 DEF SendResolves, At, Hops
  <2>2. m \in Memory /\ Calm(memory, m)
    BY <1>1, WatchCalm
  <2>3. memory' = resumed(memory, t, g) \/ memory' = notResumed(m, t, g)
    BY <1>5, <1>16 DEF SendResolves
  <2> HIDE DEF m
  <2>4. SameTask(memory, memory) /\ SameTask(memory, m)
    BY <2>2 DEF Calm, SameTask
  <2> QED
    BY <1>1, <1>13, <1>14, <1>15, <2>1, <2>2, <2>3, <2>4
<1>17. CASE SendRejected(t)
  <2> DEFINE m == stopResumeWatch(memory, t)
             a == IF m.auto = 0 THEN 0 ELSE m.auto - 1
             k == [m EXCEPT !.auto = a, !.expecting = FALSE]
  <2>1. ~Hops(f)
    BY <1>17 DEF SendRejected, At, Hops
  <2>2. m \in Memory /\ Calm(memory, m)
    BY <1>1, WatchCalm
  <2>3. memory' = notResumed(m, t, g) \/ memory' = notResumed(k, t, g)
    BY <1>5, <1>17 DEF SendRejected
  <2>4. Sound(m, t) /\ m.closed = memory.closed /\ SameTask(memory, m)
    BY <1>13, <2>1, <2>2 DEF Calm, SameTask
  <2> HIDE DEF m
  <2>5. a \in 0 .. Most /\ a <= m.auto
    BY <2>2, Typed, MostType
  <2>6. k \in Memory
    BY <2>2, <2>5 DEF Memory, Most
  <2>7. /\ k.aborted = m.aborted /\ k.stopped = m.stopped /\ k.closed = m.closed
        /\ k.open = m.open /\ k.auto = a /\ k.hops = m.hops /\ k.failures = m.failures
        /\ k.actions = m.actions /\ k.pending = m.pending /\ k.timer = m.timer /\ k.task = m.task
    BY <2>2 DEF Memory
  <2> HIDE DEF k, a
  <2>8. Counted(k, t)
    <3>1. Driving(k, t) = Driving(m, t) /\ Hopping(k, t) = Hopping(m, t)
      BY <2>7 DEF Driving, Hopping
    <3>2. Cardinality(Driving(m, t)) \in Nat
      BY CountBound DEF Driving
    <3>3. m.auto \in Nat /\ a \in Nat
      BY <2>2, <2>5, Typed, MostType
    <3> QED
      BY <2>4, <2>5, <2>7, <3>1, <3>2, <3>3, MostType, ChainAssumption DEF Sound, Base, Counted
  <2>9. ~Seamless => k.auto <= MaxAuto
    BY <2>2, <2>4, <2>5, <2>7, Typed, MostType, ChainAssumption DEF Sound, Base
  <2>10. Sound(k, t)
    BY <2>4, <2>6, <2>7, <2>8, <2>9 DEF Sound, Base, Woken
  <2>11. SameTask(memory, k) /\ k.closed = memory.closed
    BY <2>4, <2>7 DEF SameTask
  <2> QED
    BY <1>14, <2>3, <2>4, <2>10, <2>11
<1>18. CASE IdleEnds(t)
  <2>1. f.stage = "idling" /\ ~Hops(f)
    BY <1>18 DEF IdleEnds, At, Hops
  <2>2. CASE memory.closed \/ memory.aborted \/ signal \/ ~f.fresh
    <3>1. memory' = notResumed(memory, t, g)
      BY <1>5, <1>18, <2>2 DEF IdleEnds
    <3> QED
      BY <1>1, <1>14, <2>1, <3>1 DEF SameTask
  <2>3. CASE ~(memory.closed \/ memory.aborted \/ signal \/ ~f.fresh)
    <3> DEFINE m == beginResumeWatch(memory, t)
               e == [m.task[t] EXCEPT !.stage = "continuing"]
               k == [m EXCEPT !.task[t] = e]
    <3>1. /\ m \in Memory /\ Calm(memory, m)
      BY <1>1, WatchCalm
    <3>2. m.task = memory.task
      BY <1>1 DEF Memory, beginResumeWatch
    <3>3. memory' = k
      BY <1>18, <2>3, <3>1 DEF IdleEnds, Memory
    <3> HIDE DEF m
    <3>4. Sound(m, "none")
      BY <1>1, <3>1, CalmKeeps DEF Sound
    <3>5. e \in Frame /\ e.stage = "continuing" /\ e.goal = g /\ e.fresh = f.fresh
      BY <1>1, <3>2 DEF Frame, Stage
    <3>6. Placed(e, t) /\ (Drives(e) => Drives(f)) /\ (Hops(e) <=> Hops(f))
      BY <1>1, <2>1, <3>5 DEF Placed, Drives, Hops
    <3> HIDE DEF e
    <3>7. /\ k \in Memory /\ Sound(k, "none") /\ Leaves(m, k, t) /\ k.task[t] = e
          /\ k.closed = m.closed /\ k.aborted = m.aborted /\ k.stopped = m.stopped
      BY <3>2, <3>4, <3>5, <3>6, RestageSound
    <3> HIDE DEF k
    <3>8. ~k.aborted /\ ~k.stopped /\ ~k.closed
      BY <1>1, <2>3, <3>1, <3>7 DEF Calm, Base
    <3>9. Steps(m, memory', t)
      BY <3>3, <3>7, <3>8 DEF Steps, Permitted
    <3>10. Leaves(memory, m, t) /\ m.closed = memory.closed
      BY <3>1, <3>2 DEF Leaves, Calm
    <3> QED
      BY <1>4, <2>3, <3>9, <3>10
  <2> QED
    BY <2>2, <2>3
<1>19. CASE IdleTimeout(t)
  <2> DEFINE m == setPendingContinuation(memory, "same")
  <2>1. ~memory.closed
    BY <1>1, <1>19 DEF IdleTimeout, busy
  <2>2. Sound(m, t) /\ m.task = memory.task /\ m.closed = memory.closed
    BY <1>1, <2>1, ParkSound
  <2>3. memory' = notResumed(m, t, g)
    BY <1>5, <1>19 DEF IdleTimeout
  <2> HIDE DEF m
  <2> QED
    BY <1>14, <2>2, <2>3 DEF SameTask
<1>20. CASE HostContinues(t)
  <2> DEFINE e == [f EXCEPT !.stage = "continued"]
             k == [memory EXCEPT !.task[t] = e]
  <2>1. f.stage = "continuing" /\ memory' = k /\ ~memory.closed
    BY <1>1, <1>20 DEF HostContinues, At, Memory
  <2>2. e \in Frame /\ e.stage = "continued" /\ e.goal = g /\ e.fresh = f.fresh
    BY <1>1 DEF Frame, Stage
  <2>3. Placed(e, t) /\ (Drives(e) => Drives(f)) /\ (Hops(e) <=> Hops(f))
    BY <1>1, <2>1, <2>2 DEF Placed, Drives, Hops
  <2> HIDE DEF e
  <2>4. /\ k \in Memory /\ Sound(k, "none") /\ Leaves(memory, k, t) /\ k.task[t] = e
        /\ k.closed = memory.closed
    BY <1>1, <2>2, <2>3, RestageSound
  <2> HIDE DEF k
  <2>5. ~Asks(t) /\ ~memory'.closed
    BY <2>1, <2>2, <2>4 DEF Asks
  <2> QED
    BY <2>1, <2>4, <2>5 DEF Fine, Leaves, Asks, Answered
<1>21. CASE ContinueResolves(t)
  <2> DEFINE m == stopResumeWatch(memory, t)
             k == [m EXCEPT !.auto = @ + 1]
  <2>1. f.stage = "continued" /\ Drives(f) /\ ~Hops(f) /\ Seamless /\ t \in Background
    BY <1>1, <1>21 DEF ContinueResolves, At, Hops, Drives, Placed, Task
  <2>2. m \in Memory /\ Calm(memory, m)
    BY <1>1, WatchCalm
  <2>3. memory' = resumed(k, t, g) \/ memory' = notResumed(m, t, g)
    BY <1>5, <1>21 DEF ContinueResolves
  <2>4. Sound(m, t) /\ m.closed = memory.closed /\ SameTask(memory, m)
    BY <1>13, <2>1, <2>2 DEF Calm, SameTask
  <2>5. Room(m, t)
    <3>1. Sound(m, "none") /\ Drives(m.task[t])
      BY <1>1, <2>1, <2>2, CalmKeeps DEF Sound, Calm, Drives
    <3> QED
      BY <2>1, <3>1, Exclude DEF Sound
  <2> HIDE DEF m
  <2>6. m.auto + 1 \in 0 .. Most /\ m.auto + 1 + Cardinality(Driving(m, t)) <= Most
    <3>1. Driving(m, t) \in SUBSET Background /\ t \notin Driving(m, t)
      BY DEF Driving
    <3>2. /\ Cardinality(Driving(m, t)) \in Nat
          /\ Cardinality(Driving(m, t)) + 1 <= Cardinality(Background)
      BY <2>1, <3>1, CountBound, CountWithout
    <3>3. m.auto \in Nat
      BY <2>2, Typed, MostType
    <3> QED
      BY <2>5, <3>2, <3>3, MostType, ChainAssumption DEF Room, Most
  <2>7. k \in Memory
    BY <2>2, <2>6 DEF Memory, Most
  <2>8. /\ k.aborted = m.aborted /\ k.stopped = m.stopped /\ k.closed = m.closed
        /\ k.open = m.open /\ k.auto = m.auto + 1 /\ k.hops = m.hops /\ k.failures = m.failures
        /\ k.actions = m.actions /\ k.pending = m.pending /\ k.timer = m.timer /\ k.task = m.task
    BY <2>2 DEF Memory
  <2> HIDE DEF k
  <2>9. Base(k, t)
    <3>1. Driving(k, t) = Driving(m, t) /\ Hopping(k, t) = Hopping(m, t)
      BY <2>8 DEF Driving, Hopping
    <3> QED
      BY <2>1, <2>4, <2>6, <2>7, <2>8, <3>1 DEF Sound, Base, Counted
  <2>10. Sound(k, t) /\ SameTask(memory, k) /\ k.closed = memory.closed
    BY <2>4, <2>8, <2>9 DEF Sound, Woken, SameTask
  <2> QED
    BY <1>14, <1>15, <2>3, <2>4, <2>10
<1>22. CASE ContinueFails(t)
  <2> DEFINE m == stopResumeWatch(memory, t)
             n == noteRecoveryFailure(m)
             silent == ~m.task[t].fresh \/ m.cancelling \/ m.aborted \/ signal
  <2>1. Drives(f) /\ ~Hops(f) /\ t \in Background
    BY <1>1, <1>22 DEF ContinueFails, At, Hops, Drives, Placed, Task
  <2>2. m \in Memory /\ Calm(memory, m)
    BY <1>1, WatchCalm
  <2>3. \/ memory' = notResumed(m, t, g) \/ memory' = notResumed(n, t, g)
        \/ ~silent /\ memory' = injectContinuationPrompt(m, t, g)
    BY <1>5, <1>22 DEF ContinueFails
  <2>4. Sound(m, t) /\ m.closed = memory.closed /\ SameTask(memory, m)
    BY <1>13, <2>1, <2>2 DEF Calm, SameTask
  <2> HIDE DEF m
  <2>5. Sound(n, t) /\ n.closed = m.closed /\ n.task = m.task
    BY <2>4, FailureSound DEF Sound
  <2>6. SameTask(memory, n)
    BY <2>4, <2>5 DEF SameTask
  <2> HIDE DEF n
  <2>7. CASE ~silent /\ memory' = injectContinuationPrompt(m, t, g)
    <3>1. f.fresh /\ ~m.aborted
      BY <2>2, <2>7 DEF Calm
    <3>2. ~m.closed /\ ~m.stopped
      BY <1>1, <2>4, <3>1 DEF Sound, Base
    <3>3. t \notin {"hook", "user"}
      BY <2>1, ChainAssumption
    <3>4. Steps(m, memory', t)
      BY <1>1, <2>4, <2>7, <3>1, <3>2, <3>3, InjectSteps
    <3> QED
      BY <1>4, <2>4, <3>1, <3>4, LeavesStep
  <2> QED
    BY <1>14, <2>3, <2>4, <2>5, <2>6, <2>7
<1> QED
  BY <1>6, <1>8, <1>9, <1>10, <1>11, <1>12, <1>16, <1>17, <1>18, <1>19, <1>20, <1>21, <1>22
     DEF Settle

\* What a handler that clears the parked work ends in, after a new epoch or not.
LEMMA FineSettled ==
  ASSUME IInv, memory' \in Memory, Settled(memory, memory'), memory'.closed => turn' = "idle"
  PROVE  Fine
<1>1. Sound(memory', "none")
  BY Here, SettledKeeps
<1> QED
  BY <1>1, FineStill DEF Settled

\* A step whose helpers keep every function where it is.
LEMMA FineKept ==
  ASSUME IInv, memory' \in Memory, Sound(memory', "none"), memory'.task = memory.task,
         memory'.closed => turn' = "idle"
  PROVE  Fine
  BY FineStill DEF SameTask

LEMMA BeforeAgentStartFine ==
  ASSUME IInv, BeforeAgentStart
  PROVE  Fine
<1> DEFINE m == beforeAgentStart(memory)
<1>1. ~memory.closed /\ memory.task["hook"] = NoFrame /\ "hook" \in Task
  BY DEF BeforeAgentStart, Idle, Task
<1>2. PICK ready, other \in BOOLEAN : memory' = ensureReadyModel(m, "hook", "start", ready, other)
  BY DEF BeforeAgentStart
<1>3. m \in Memory /\ Sound(m, "none") /\ SameTask(memory, m) /\ m.closed = memory.closed
  <2>1. CASE memory.expecting
    <3> DEFINE k == [memory EXCEPT !.expecting = FALSE, !.dispatched = TRUE]
    <3>1. k \in Memory /\ Calm(memory, k)
      BY Here DEF Memory, Calm
    <3>2. m = k
      BY <2>1 DEF beforeAgentStart
    <3> HIDE DEF k, m
    <3> QED
      BY <3>1, <3>2, Here, CalmKeeps DEF Sound, Calm
  <2>2. CASE ~memory.expecting
    BY <2>2, Here, ClaimSound DEF beforeAgentStart
  <2> QED
    BY <2>1, <2>2
<1> HIDE DEF m
<1>4. m.task["hook"].stage = "none"
  BY <1>1, <1>3 DEF SameTask, NoFrame
<1>5. Steps(m, memory', "hook")
  BY <1>1, <1>2, <1>3, <1>4, ReadySteps
<1>6. Steps(memory, memory', "hook")
  BY <1>3, <1>5, LeavesStep
<1>7. ~memory'.closed
  BY <1>1, <1>6 DEF Steps
<1> QED
  BY <1>1, <1>6, <1>7, FineStep DEF Answered, NoFrame

LEMMA AgentStartFine ==
  ASSUME IInv, AgentStart
  PROVE  Fine
<1> DEFINE w == noteResumeProgress(memory)
           k == setSwitch(w, FALSE)
<1>1. ~memory.closed /\ memory' = [k EXCEPT !.target = FALSE]
  BY Here DEF AgentStart
<1>2. w \in Memory /\ Calm(memory, w)
  BY Here, WatchCalm
<1> HIDE DEF w
<1>3. k \in Memory /\ Calm(w, k)
  BY <1>2, SwitchCalm
<1> HIDE DEF k
<1>4. memory' \in Memory /\ Calm(k, memory')
  BY <1>1, <1>3 DEF Memory, Calm
<1>5. Calm(memory, memory')
  BY <1>2, <1>3, <1>4 DEF Calm
<1> QED
  BY <1>1, <1>4, <1>5, FineCalm

\* A request was made: the governor counts anew.
LEMMA RequestCalm ==
  ASSUME NEW m \in Memory
  PROVE  LET n == [m EXCEPT !.actions = 0] IN n \in Memory /\ Calm(m, n)
<1>1. 0 \in 0 .. RequestLimit /\ 0 < RequestLimit
  BY ChainAssumption
<1> QED
  BY <1>1 DEF Memory, Calm

LEMMA ProviderResponseFine ==
  ASSUME IInv, ProviderResponse
  PROVE  Fine
<1> DEFINE w == noteResumeProgress(memory)
           m == [w EXCEPT !.actions = 0]
<1>1. turn' = turn /\ (memory' = m \/ memory' = clearPendingContinuation(m))
  BY DEF ProviderResponse, host
<1>2. w \in Memory /\ Calm(memory, w)
  BY Here, WatchCalm
<1> HIDE DEF w
<1>3. m \in Memory /\ Calm(w, m)
  BY <1>2, RequestCalm
<1> HIDE DEF m
<1>4. Calm(memory, m)
  BY <1>2, <1>3 DEF Calm
<1>5. CASE memory' = m
  BY <1>1, <1>3, <1>4, <1>5, FineCalm
<1>6. CASE memory' = clearPendingContinuation(m)
  <2>1. Base(m, "none") /\ SameTask(memory, m) /\ m.closed = memory.closed
    BY <1>3, <1>4, Here, CalmKeeps DEF Calm
  <2>2. Sound(memory', "none") /\ memory'.task = m.task /\ memory'.closed = m.closed
    BY <1>6, <2>1, ClearSound
  <2>3. SameTask(memory, memory') /\ (memory'.closed => turn' = "idle")
    BY <1>1, <2>1, <2>2, Here DEF SameTask
  <2> QED
    BY <2>2, <2>3, FineStill
<1> QED
  BY <1>1, <1>5, <1>6

LEMMA MessageCompletedFine ==
  ASSUME IInv, MessageCompleted
  PROVE  Fine
<1> DEFINE m == [memory EXCEPT !.actions = 0]
<1>1. ~memory.closed /\ memory' = noteRecoveryProgress(m)
  BY Here DEF MessageCompleted, Working
<1>2. m \in Memory /\ Calm(memory, m)
  BY Here, RequestCalm
<1> HIDE DEF m
<1>3. Base(m, "none") /\ SameTask(memory, m) /\ m.closed = memory.closed
  BY <1>2, Here, CalmKeeps DEF Calm
<1>4. Sound(memory', "none") /\ memory'.task = m.task /\ memory'.closed = m.closed
  BY <1>1, <1>3, ProgressSound
<1>5. SameTask(memory, memory')
  BY <1>3, <1>4 DEF SameTask
<1> QED
  BY <1>1, <1>3, <1>4, <1>5, FineStill

LEMMA TransientFailureFine ==
  ASSUME IInv, TransientFailure
  PROVE  Fine
<1>1. ~memory.closed
  BY Here DEF TransientFailure, MessageFailed, Working
<1>2. PICK usedUp \in BOOLEAN :
        memory' = IF memory.aborted THEN memory ELSE retryTemporaryFailure(memory, usedUp)
  BY DEF TransientFailure
<1>3. CASE memory' = memory
  BY <1>1, <1>3, Here, FineCalm DEF Calm
<1>4. CASE memory' = retryTemporaryFailure(memory, usedUp)
  <2> DEFINE n == IF memory.dispatched \/ memory.watch # "none"
                  THEN noteRecoveryFailure(memory) ELSE memory
             w == setSwitch(n, FALSE)
             c == clearPendingContinuation(w)
  <2>1. n \in Memory /\ Base(n, "none") /\ n.task = memory.task /\ n.closed = memory.closed
    BY Here, FailureSound
  <2>2. memory' = c \/ memory' = setPendingContinuation(c, "same")
    BY <1>4 DEF retryTemporaryFailure
  <2> HIDE DEF n
  <2>3. Base(w, "none") /\ SameTask(n, w) /\ w.closed = n.closed
    BY <2>1, SwitchCalm, CalmKeeps DEF Calm
  <2> HIDE DEF w
  <2>4. Sound(c, "none") /\ c.task = w.task /\ c.closed = w.closed
    BY <2>3, ClearSound
  <2> HIDE DEF c
  <2>5. Sound(memory', "none") /\ memory'.task = w.task /\ memory'.closed = w.closed
    BY <1>1, <2>1, <2>2, <2>3, <2>4, ParkSound DEF Sound
  <2>6. SameTask(memory, memory') /\ ~memory'.closed
    BY <1>1, <2>1, <2>3, <2>5 DEF SameTask
  <2> QED
    BY <2>5, <2>6, FineStill
<1> QED
  BY <1>2, <1>3, <1>4

\* The hook is idle, or waits for the probe: it has no parked work in hand.
LEMMA HookSound ==
  ASSUME IInv
  PROVE  "hook" \in Task /\ Sound(memory, "hook")
<1>1. "hook" \in Task
  BY DEF Task
<1> QED
  BY <1>1, Here DEF Placed, Hops

LEMMA AccountFailureFine ==
  ASSUME IInv, AccountFailure
  PROVE  Fine
<1>1. ~memory.closed
  BY Here DEF AccountFailure, MessageFailed, Working
<1>2. CASE memory' = memory
  BY <1>1, <1>2, Here, FineCalm DEF Calm
<1>3. CASE memory' = begin(memory, "hook", "probing", "fail")
  <2>1. "probing" \in Stage /\ "fail" \in Goal
    BY DEF Stage, Goal
  <2>2. /\ memory' \in Memory /\ Base(memory', "hook") /\ Woken(memory', "hook")
        /\ Leaves(memory, memory', "hook")
        /\ memory'.task["hook"].stage = "probing" /\ memory'.task["hook"].goal = "fail"
        /\ memory'.closed = memory.closed
    BY <1>3, <2>1, HookSound, BeginSound DEF Sound
  <2>3. Sound(memory', "none")
    BY <1>1, <2>2, HookSound, Include DEF Sound, Placed, Drives, Hops
  <2>4. Answered("hook")
    BY DEF AccountFailure, Idle, Answered, NoFrame
  <2> QED
    BY <1>1, <2>2, <2>3, <2>4 DEF Fine, Leaves, Asks
<1> QED
  BY <1>2, <1>3 DEF AccountFailure

LEMMA TokenRefreshedFine ==
  ASSUME IInv, TokenRefreshed
  PROVE  Fine
<1> DEFINE k == setSwitch(memory, TRUE)
<1>1. turn' = turn /\ (memory' = done(memory, "hook") \/ memory' = done(k, "hook"))
  BY DEF TokenRefreshed, host
<1>2. /\ Sound(k, "hook") /\ SameTask(memory, k) /\ k.closed = memory.closed
  BY Here, HookSound, SwitchCalm, CalmKeeps DEF Sound, Calm
<1> HIDE DEF k
<1>3. Steps(memory, memory', "hook") /\ memory'.task["hook"] = NoFrame
  <2>1. CASE memory' = done(memory, "hook")
    BY <2>1, HookSound, DoneSteps
  <2>2. CASE memory' = done(k, "hook")
    <3>1. Steps(k, memory', "hook") /\ memory'.task["hook"] = NoFrame
      BY <1>2, <2>2, HookSound, DoneSteps
    <3> QED
      BY <1>2, <3>1, LeavesStep
  <2> QED
    BY <1>1, <2>1, <2>2
<1>4. Answered("hook")
  BY DEF Answered, TokenRefreshed, At
<1> QED
  BY <1>1, <1>3, <1>4, Here, HookSound, FineStep DEF Steps, Asks, NoFrame

LEMMA LeaveAccountFine ==
  ASSUME IInv, LeaveAccount
  PROVE  Fine
<1>1. PICK ready, other \in BOOLEAN :
        memory' = IF stale(memory, "hook", "fail") THEN done(memory, "hook")
                  ELSE switchToFallback(memory, "hook", ready, other)
  BY DEF LeaveAccount
<1>2. turn' = turn
  BY DEF LeaveAccount, host
<1>3. ASSUME Steps(memory, memory', "hook"),
             memory'.task["hook"] = NoFrame \/ memory.task["hook"].fresh
      PROVE  Fine
  <2>1. Answered("hook")
    BY DEF Answered, LeaveAccount, At
  <2> QED
    BY <1>2, <1>3, <2>1, Here, HookSound, FineStep DEF Steps, Asks, NoFrame
<1>4. CASE memory' = done(memory, "hook")
  BY <1>3, <1>4, HookSound, DoneSteps
<1>5. CASE ~stale(memory, "hook", "fail") /\ memory' # done(memory, "hook")
  <2>1. ~memory.closed /\ memory.task["hook"].fresh
    BY <1>5 DEF stale
  <2>2. \/ memory' = notSwitched(memory, "hook", "fail", ready)
        \/ memory' = activateFallback(memory, "hook", "fail", ready)
    BY <1>1, <1>5 DEF switchToFallback
  <2>3. "fail" \in Goal /\ "fail" # "hop"
    BY DEF Goal
  <2>4. Steps(memory, memory', "hook")
    BY <2>1, <2>2, <2>3, HookSound, NotSwitchedSteps, FallbackSteps DEF Sound, InHand
  <2> QED
    BY <1>3, <2>1, <2>4
<1> QED
  BY <1>1, <1>4, <1>5

\* The user's word, the end of a turn and of a session start a new epoch: the
\* helpers around it clear what is parked.  What they leave of the memory:
LEMMA BumpCleared ==
  ASSUME NEW m \in Memory
  PROVE  LET n == clearPendingContinuation(bumpEpoch(m)) IN
         /\ n \in Memory /\ SameTask(m, n) /\ n.pending = "none" /\ n.timer = "off"
         /\ n.aborted = m.aborted /\ n.stopped = m.stopped /\ n.closed = m.closed
         /\ n.open = m.open /\ n.auto = m.auto /\ n.hops = m.hops /\ n.failures = m.failures
         /\ n.actions = m.actions /\ \A u \in Task : ~n.task[u].fresh
<1> DEFINE b == bumpEpoch(m)
           n == clearPendingContinuation(b)
<1>1. b \in Memory /\ n \in Memory
  BY BumpType, SmallTypes
<1>2. /\ n.pending = "none" /\ n.timer = "off" /\ n.task = b.task
      /\ n.aborted = m.aborted /\ n.stopped = m.stopped /\ n.closed = m.closed
      /\ n.open = m.open /\ n.auto = m.auto /\ n.hops = m.hops /\ n.failures = m.failures
      /\ n.actions = m.actions
  BY DEF Memory, bumpEpoch, clearPendingContinuation
<1>3. \A u \in Task : ~n.task[u].fresh
  BY <1>2, BumpFrames
<1>4. SameTask(m, n)
  <2>1. \A u \in Task : b.task[u].stage = m.task[u].stage /\ b.task[u].goal = m.task[u].goal
    BY BumpFrames
  <2> HIDE DEF b, n
  <2> QED
    BY <1>2, <1>3, <2>1 DEF SameTask
<1> QED
  BY <1>1, <1>2, <1>3, <1>4

LEMMA TurnEndsOpen ==
  ASSUME IInv, TurnEnds
  PROVE  ~memory.closed /\ turn' = "idle"
  BY Here DEF TurnEnds

LEMMA AgentEndWatchdogFine ==
  ASSUME IInv, AgentEndWatchdog
  PROVE  Fine
<1> DEFINE a == [memory EXCEPT !.cancelling = FALSE]
           e == endResumeWatch(a)
           d == [e EXCEPT !.dispatched = FALSE]
           w == setSwitch(d, FALSE)
<1>1. ~memory.closed /\ turn' = "idle" /\ memory' = setPendingContinuation(w, "same")
  BY TurnEndsOpen DEF AgentEndWatchdog, unclaimed
<1>2. a \in Memory /\ Calm(memory, a)
  BY Here DEF Memory, Calm
<1> HIDE DEF a
<1>3. e \in Memory /\ Calm(a, e)
  BY <1>2, WatchCalm
<1> HIDE DEF e
<1>4. d \in Memory /\ Calm(e, d)
  BY <1>3 DEF Memory, Calm
<1> HIDE DEF d
<1>5. w \in Memory /\ Calm(d, w)
  BY <1>4, SwitchCalm
<1> HIDE DEF w
<1>6. Calm(memory, w)
  BY <1>2, <1>3, <1>4, <1>5 DEF Calm
<1>7. Base(w, "none") /\ SameTask(memory, w) /\ ~w.closed
  BY <1>1, <1>5, <1>6, Here, CalmKeeps DEF Calm
<1>8. Sound(memory', "none") /\ memory'.task = w.task
  BY <1>1, <1>7, ParkSound
<1> QED
  BY <1>1, <1>7, <1>8, FineStill DEF SameTask

\* Esc: nothing is parked, and every function in flight is superseded.
LEMMA AbortSettled ==
  ASSUME NEW m, Base(m, "none"), ~m.closed
  PROVE  LET n == endResumeWatch(unclaimed(clearPendingContinuation(
                    [bumpEpoch(m) EXCEPT !.aborted = TRUE, !.hops = 0]))) IN
         n \in Memory /\ Settled(m, n) /\ ~n.closed
<1> DEFINE bare == [bumpEpoch(m) EXCEPT !.aborted = TRUE, !.hops = 0]
           c == clearPendingContinuation(bare)
           d == [c EXCEPT !.dispatched = FALSE]
           n == endResumeWatch(setSwitch(d, FALSE))
<1>1. m \in Memory
  BY DEF Base
<1>2. n \in Memory
  <2>1. bumpEpoch(m) \in Memory /\ 0 \in 0 .. Most
    BY <1>1, BumpType, MostType
  <2>2. bare \in Memory
    BY <2>1 DEF Memory, Most
  <2> HIDE DEF bare
  <2>3. c \in Memory
    BY <2>2, SmallTypes
  <2> HIDE DEF c
  <2>4. d \in Memory
    BY <2>3 DEF Memory
  <2> HIDE DEF d
  <2> QED
    BY <2>4, SwitchType, SmallTypes
<1>3. /\ n.pending = "none" /\ n.timer = "off" /\ n.aborted /\ n.stopped = m.stopped
      /\ n.closed = m.closed /\ n.auto = m.auto /\ n.hops = 0 /\ n.open = m.open
      /\ n.failures = m.failures /\ n.actions = m.actions
  BY <1>1 DEF Memory, bumpEpoch, setSwitch, clearPendingContinuation, endResumeWatch
<1>4. \A u \in Task : n.task[u] = [m.task[u] EXCEPT !.fresh = FALSE, !.holds = FALSE]
  BY <1>1 DEF Memory, bumpEpoch, setSwitch, clearPendingContinuation, endResumeWatch
<1>5. SameTask(m, n)
  BY <1>1, <1>4, Typed DEF Frame, SameTask
<1> HIDE DEF n
<1>6. Settled(m, n)
  BY <1>3, <1>5 DEF Settled, Base
<1> QED
  BY <1>2, <1>3, <1>6 DEF n, unclaimed

LEMMA AgentEndAbortedFine ==
  ASSUME IInv, AgentEndAborted
  PROVE  Fine
<1>1. memory' \in Memory /\ Settled(memory, memory') /\ ~memory'.closed
  BY TurnEndsOpen, Here, AbortSettled DEF AgentEndAborted
<1> QED
  BY <1>1, FineSettled

LEMMA AgentEndCompletedFine ==
  ASSUME IInv, AgentEndCompleted
  PROVE  Fine
<1> DEFINE e == endResumeWatch(memory)
           c == clearPendingContinuation(bumpEpoch(e))
           d == [c EXCEPT !.dispatched = FALSE]
           w == setSwitch(d, FALSE)
<1>1. ~memory.closed /\ turn' = "idle" /\ memory' = w
  BY TurnEndsOpen DEF AgentEndCompleted, unclaimed
<1>2. e \in Memory /\ Calm(memory, e)
  BY Here, WatchCalm
<1> HIDE DEF e
<1>3. /\ c \in Memory /\ SameTask(e, c) /\ c.pending = "none" /\ c.timer = "off"
      /\ c.aborted = e.aborted /\ c.stopped = e.stopped /\ c.closed = e.closed
      /\ c.open = e.open /\ c.auto = e.auto /\ c.hops = e.hops /\ c.failures = e.failures
      /\ c.actions = e.actions
  BY <1>2, BumpCleared
<1> HIDE DEF c
<1>4. d \in Memory /\ Calm(c, d)
  BY <1>3 DEF Memory, Calm
<1> HIDE DEF d
<1>5. w \in Memory /\ Calm(d, w)
  BY <1>4, SwitchCalm
<1> HIDE DEF w
<1>6. Base(e, "none") /\ SameTask(memory, e)
  BY <1>2, Here, CalmKeeps
<1>7. Settled(e, c)
  BY <1>3, <1>6 DEF Settled, Base
<1>8. Sound(c, "none")
  BY <1>3, <1>6, <1>7, SettledKeeps
<1>9. Calm(c, w)
  BY <1>4, <1>5 DEF Calm
<1>10. Sound(w, "none") /\ SameTask(c, w)
  BY <1>5, <1>8, <1>9, CalmKeeps DEF Sound
<1>11. SameTask(memory, w)
  BY <1>3, <1>6, <1>10 DEF SameTask
<1> QED
  BY <1>1, <1>10, <1>11, FineStill

LEMMA AgentEndFailedFine ==
  ASSUME IInv, NEW b \in Background, AgentEndFailed(b)
  PROVE  Fine
<1> DEFINE e == endResumeWatch(memory)
           m == [e EXCEPT !.dispatched = FALSE]
<1>1. /\ ~memory.closed /\ turn' = "idle" /\ b \in Task /\ memory.task[b] = NoFrame
  BY TurnEndsOpen DEF AgentEndFailed, Idle, Task
<1>2. PICK ready \in BOOLEAN : memory' = m \/ memory' = maybeDispatchContinuation(m, b, "end", ready)
  BY DEF AgentEndFailed
<1>3. e \in Memory /\ Calm(memory, e)
  BY Here, WatchCalm
<1> HIDE DEF e
<1>4. m \in Memory /\ Calm(e, m)
  BY <1>3 DEF Memory, Calm
<1> HIDE DEF m
<1>5. Calm(memory, m)
  BY <1>3, <1>4 DEF Calm
<1>6. CASE memory' = m
  BY <1>1, <1>4, <1>5, <1>6, FineCalm
<1>7. CASE memory' = maybeDispatchContinuation(m, b, "end", ready)
  <2>1. Sound(m, b) /\ ~m.closed /\ SameTask(memory, m) /\ m.closed = memory.closed
    BY <1>1, <1>4, <1>5, Here, CalmKeeps DEF Sound, Calm, Hops, NoFrame
  <2>2. "end" \in Goal
    BY DEF Goal
  <2>3. Steps(m, memory', b)
    BY <1>7, <2>1, <2>2, DispatchSteps
  <2>4. Steps(memory, memory', b)
    BY <2>1, <2>3, LeavesStep
  <2> QED
    BY <1>1, <2>4, FineStep DEF Steps, Answered, NoFrame
<1> QED
  BY <1>2, <1>6, <1>7

LEMMA MessageAbortedFine ==
  ASSUME IInv, MessageAborted
  PROVE  Fine
<1>1. ~memory.closed /\ Calm(memory, memory') /\ memory' \in Memory
  BY Here DEF MessageAborted, Calm
<1> QED
  BY <1>1, FineCalm

LEMMA WakeDroppedFine ==
  ASSUME IInv, WakeDropped
  PROVE  Fine
<1>1. memory' = fired /\ turn' = turn
  BY DEF WakeDropped, host
<1>2. /\ fired \in Memory /\ fired.task = memory.task /\ fired.closed = memory.closed
      /\ fired.pending = memory.pending /\ fired.failures = memory.failures
      /\ fired.timer = "off" /\ Base(fired, "none")
  BY Here, FiredSound
<1>3. Woken(fired, "none")
  <2>1. memory.timer = "fresh" => memory.pending = "none" \/ memory.failures = BreakerLimit
    BY Here DEF WakeDropped, Base
  <2> QED
    BY <1>2, <2>1, Here, ChainAssumption DEF Woken
<1> QED
  BY <1>1, <1>2, <1>3, Here, FineKept DEF Sound

LEMMA ResumeStuckFine ==
  ASSUME IInv, ResumeStuck
  PROVE  Fine
<1> DEFINE m == [memory EXCEPT !.watchdog = FALSE]
           k == [memory EXCEPT !.watchdog = FALSE, !.cancelling = TRUE]
<1>1. turn' = turn /\ (memory' = m \/ memory' = noteRecoveryFailure(k))
  BY DEF ResumeStuck
<1>2. m \in Memory /\ Calm(memory, m) /\ k \in Memory /\ Calm(memory, k)
  BY Here DEF Memory, Calm
<1> HIDE DEF m, k
<1>3. CASE memory' = m
  BY <1>1, <1>2, <1>3, FineCalm
<1>4. CASE memory' = noteRecoveryFailure(k)
  <2>1. Base(k, "none") /\ Woken(k, "none") /\ SameTask(memory, k) /\ k.closed = memory.closed
    BY <1>2, Here, CalmKeeps DEF Calm
  <2>2. /\ memory' \in Memory /\ Sound(memory', "none") /\ memory'.task = k.task
        /\ memory'.closed = k.closed
    BY <1>4, <2>1, FailureSound DEF Sound
  <2> QED
    BY <1>1, <2>1, <2>2, Here, FineStill DEF SameTask
<1> QED
  BY <1>1, <1>3, <1>4

LEMMA BreakerClosesFine ==
  ASSUME IInv, BreakerCloses
  PROVE  Fine
<1>1. turn' = turn /\ memory' = [memory EXCEPT !.open = FALSE] /\ memory \in Memory
  BY Here DEF BreakerCloses, host
<1>2. /\ memory' \in Memory /\ ~memory'.open
      /\ memory'.aborted = memory.aborted /\ memory'.stopped = memory.stopped
      /\ memory'.closed = memory.closed /\ memory'.auto = memory.auto
      /\ memory'.hops = memory.hops /\ memory'.failures = memory.failures
      /\ memory'.actions = memory.actions /\ memory'.pending = memory.pending
      /\ memory'.timer = memory.timer /\ memory'.task = memory.task
  BY <1>1 DEF Memory
<1>3. Base(memory', "none")
  BY <1>2, Here, Carry DEF Base, SameTask
<1>4. Woken(memory', "none")
  BY <1>2, Here DEF Woken
<1> QED
  BY <1>1, <1>2, <1>3, <1>4, Here, FineKept DEF Sound

-----------------------------------------------------------------------------
(* The user's commands, and the life of the session.                        *)

LEMMA EscapeFine ==
  ASSUME IInv, Escape
  PROVE  Fine
<1>1. turn' = turn /\ Calm(memory, memory') /\ memory' \in Memory
  BY Here DEF Escape, Calm
<1> QED
  BY <1>1, FineCalm

LEMMA ManualChoiceFine ==
  ASSUME IInv, ManualChoice
  PROVE  Fine
<1>1. ~memory.closed /\ memory' = claimUserControl(memory)
  BY DEF ManualChoice
<1>2. /\ Sound(memory', "none") /\ SameTask(memory, memory') /\ ~memory'.closed
  BY <1>1, Here, ClaimSound
<1> QED
  BY <1>2, FineStill

LEMMA ManualSwitchFine ==
  ASSUME IInv, ManualSwitch
  PROVE  Fine
<1> DEFINE m == claimUserControl(memory)
<1>1. /\ ~memory.closed /\ "user" \in Task /\ memory.task["user"] = NoFrame
      /\ memory' = activateFallback(m, "user", "manual", FALSE)
  BY DEF ManualSwitch, Idle, Task
<1>2. /\ Base(m, "user") /\ Woken(m, "user") /\ SameTask(memory, m)
      /\ m.closed = memory.closed
  BY <1>1, Here, ClaimSound DEF Sound
<1> HIDE DEF m
<1>3. "manual" \in Goal /\ "manual" # "hop"
  BY DEF Goal
<1>4. Steps(m, memory', "user")
  BY <1>1, <1>2, <1>3, FallbackSteps
<1>5. Steps(memory, memory', "user")
  BY <1>2, <1>4, LeavesStep
<1>6. Answered("user")
  BY <1>1 DEF Answered, NoFrame
<1> QED
  BY <1>1, <1>5, <1>6, FineStep DEF Steps

LEMMA InputFine ==
  ASSUME IInv, Input
  PROVE  Fine
<1> DEFINE k == claimUserControl(memory)
           m == noteRecoveryProgress(k)
<1>1. /\ ~memory.closed /\ "user" \in Task /\ memory.task["user"] = NoFrame
  BY DEF Input, Idle, Task
<1>2. PICK ready, other \in BOOLEAN :
        memory' = IF busy THEN m ELSE ensureReadyModel(m, "user", "ready", ready, other)
  BY DEF Input
<1>3. Base(k, "none") /\ SameTask(memory, k) /\ k.closed = memory.closed
  BY Here, ClaimSound DEF Sound
<1> HIDE DEF k
<1>4. Sound(m, "none") /\ m.task = k.task /\ m.closed = k.closed
  BY <1>3, ProgressSound
<1> HIDE DEF m
<1>5. SameTask(memory, m) /\ m.closed = memory.closed
  BY <1>3, <1>4 DEF SameTask
<1>6. CASE memory' = m
  BY <1>1, <1>4, <1>5, <1>6, FineStill
<1>7. CASE memory' = ensureReadyModel(m, "user", "ready", ready, other)
  <2>1. m.task["user"].stage = "none"
    BY <1>1, <1>5 DEF SameTask, NoFrame
  <2>2. Steps(m, memory', "user")
    BY <1>1, <1>4, <1>5, <1>7, <2>1, ReadySteps
  <2>3. Steps(memory, memory', "user")
    BY <1>5, <2>2, LeavesStep
  <2> QED
    BY <1>1, <2>3, FineStep DEF Steps, Answered, NoFrame
<1> QED
  BY <1>2, <1>6, <1>7

\* /stop: as Esc, and the governor starts anew.
LEMMA StopSettled ==
  ASSUME NEW m, Base(m, "none"), ~m.closed
  PROVE  LET n == endResumeWatch(clearPendingContinuation(setSwitch(resetGovernor(
                    [bumpEpoch(m) EXCEPT !.aborted = TRUE, !.hops = 0, !.cancelling = FALSE,
                                         !.expecting = FALSE]), FALSE))) IN
         n \in Memory /\ Settled(m, n) /\ ~n.closed
<1> DEFINE bare == [bumpEpoch(m) EXCEPT !.aborted = TRUE, !.hops = 0, !.cancelling = FALSE,
                                        !.expecting = FALSE]
           g == setSwitch(resetGovernor(bare), FALSE)
           n == endResumeWatch(clearPendingContinuation(g))
<1>1. m \in Memory
  BY DEF Base
<1>2. n \in Memory
  <2>1. bumpEpoch(m) \in Memory /\ 0 \in 0 .. Most
    BY <1>1, BumpType, MostType
  <2>2. bare \in Memory
    BY <2>1 DEF Memory, Most
  <2> HIDE DEF bare
  <2>3. g \in Memory
    BY <2>2, SmallTypes, SwitchType
  <2> HIDE DEF g
  <2> QED
    BY <2>3, SmallTypes
<1>3. /\ n.pending = "none" /\ n.timer = "off" /\ n.aborted /\ ~n.stopped
      /\ n.closed = m.closed /\ n.auto = m.auto /\ n.hops = 0 /\ n.open = m.open
      /\ n.failures = m.failures /\ n.actions = 0
  BY <1>1 DEF Memory, bumpEpoch, setSwitch, resetGovernor, clearPendingContinuation, endResumeWatch
<1>4. \A u \in Task : n.task[u] = [m.task[u] EXCEPT !.fresh = FALSE, !.holds = FALSE]
  BY <1>1 DEF Memory, bumpEpoch, setSwitch, resetGovernor, clearPendingContinuation, endResumeWatch
<1>5. SameTask(m, n)
  BY <1>1, <1>4, Typed DEF Frame, SameTask
<1> HIDE DEF n
<1>6. Settled(m, n)
  BY <1>3, <1>5, ChainAssumption DEF Settled, Base
<1> QED
  BY <1>2, <1>3, <1>6 DEF n

LEMMA StopCommandFine ==
  ASSUME IInv, StopCommand
  PROVE  Fine
<1>1. memory' \in Memory /\ Settled(memory, memory') /\ ~memory'.closed
  BY Here, StopSettled DEF StopCommand
<1> QED
  BY <1>1, FineSettled

\* /reset: the whole ledger starts anew.
LEMMA ResetSettled ==
  ASSUME NEW m, Base(m, "none"), ~m.closed
  PROVE  LET n == clearPendingContinuation(setSwitch(resetGovernor(
                    [bumpEpoch(m) EXCEPT !.auto = 0, !.hops = 0, !.aborted = FALSE, !.failures = 0,
                       !.open = FALSE, !.cancelling = FALSE, !.expecting = FALSE]), FALSE)) IN
         n \in Memory /\ Settled(m, n) /\ ~n.closed
<1> DEFINE bare == [bumpEpoch(m) EXCEPT !.auto = 0, !.hops = 0, !.aborted = FALSE, !.failures = 0,
                       !.open = FALSE, !.cancelling = FALSE, !.expecting = FALSE]
           g == setSwitch(resetGovernor(bare), FALSE)
           n == clearPendingContinuation(g)
<1>1. m \in Memory
  BY DEF Base
<1>2. n \in Memory
  <2>1. bumpEpoch(m) \in Memory /\ 0 \in 0 .. Most /\ 0 \in 0 .. BreakerLimit
    BY <1>1, BumpType, MostType, ChainAssumption
  <2>2. bare \in Memory
    BY <2>1 DEF Memory, Most
  <2> HIDE DEF bare
  <2>3. g \in Memory
    BY <2>2, SmallTypes, SwitchType
  <2> HIDE DEF g
  <2> QED
    BY <2>3, SmallTypes
<1>3. /\ n.pending = "none" /\ n.timer = "off" /\ ~n.aborted /\ ~n.stopped
      /\ n.closed = m.closed /\ n.auto = 0 /\ n.hops = 0 /\ ~n.open /\ n.actions = 0
  BY <1>1 DEF Memory, bumpEpoch, setSwitch, resetGovernor, clearPendingContinuation
<1>4. \A u \in Task : n.task[u] = [m.task[u] EXCEPT !.fresh = FALSE, !.holds = FALSE]
  BY <1>1 DEF Memory, bumpEpoch, setSwitch, resetGovernor, clearPendingContinuation
<1>5. SameTask(m, n)
  BY <1>1, <1>4, Typed DEF Frame, SameTask
<1> HIDE DEF n
<1>6. Settled(m, n)
  BY <1>3, <1>5, ChainAssumption DEF Settled, Base
<1> QED
  BY <1>2, <1>3, <1>6 DEF n

LEMMA ResetCommandFine ==
  ASSUME IInv, ResetCommand
  PROVE  Fine
<1>1. memory' \in Memory /\ Settled(memory, memory') /\ ~memory'.closed
  BY Here, ResetSettled DEF ResetCommand
<1> QED
  BY <1>1, FineSettled

\* The session ends: whoever returns later finds a closed session and an epoch
\* that is not its own.
LEMMA ShutdownSettled ==
  ASSUME NEW m, Base(m, "none")
  PROVE  LET n == endResumeWatch(clearPendingContinuation(
                    [bumpEpoch(m) EXCEPT !.closed = TRUE, !.cancelling = FALSE, !.expecting = FALSE,
                                         !.aborted = FALSE, !.auto = 0])) IN
         n \in Memory /\ Settled(m, n)
<1> DEFINE bare == [bumpEpoch(m) EXCEPT !.closed = TRUE, !.cancelling = FALSE, !.expecting = FALSE,
                                        !.aborted = FALSE, !.auto = 0]
           n == endResumeWatch(clearPendingContinuation(bare))
<1>1. m \in Memory
  BY DEF Base
<1>2. n \in Memory
  <2>1. bumpEpoch(m) \in Memory /\ 0 \in 0 .. Most
    BY <1>1, BumpType, MostType
  <2>2. bare \in Memory
    BY <2>1 DEF Memory, Most
  <2> HIDE DEF bare
  <2> QED
    BY <2>2, SmallTypes
<1>3. /\ n.pending = "none" /\ n.timer = "off" /\ n.stopped = m.stopped
      /\ n.closed /\ n.auto = 0 /\ n.hops = m.hops /\ n.open = m.open
      /\ n.failures = m.failures /\ n.actions = m.actions
  BY <1>1 DEF Memory, bumpEpoch, clearPendingContinuation, endResumeWatch
<1>4. \A u \in Task : n.task[u] = [m.task[u] EXCEPT !.fresh = FALSE]
  BY <1>1 DEF Memory, bumpEpoch, clearPendingContinuation, endResumeWatch
<1>5. SameTask(m, n) /\ \A u \in Task : ~n.task[u].fresh
  BY <1>1, <1>4, Typed DEF Frame, SameTask
<1> HIDE DEF n
<1>6. Settled(m, n)
  BY <1>3, <1>5 DEF Settled, Base
<1> QED
  BY <1>2, <1>6 DEF n

LEMMA SessionShutdownFine ==
  ASSUME IInv, SessionShutdown
  PROVE  Fine
<1>1. memory' \in Memory /\ Settled(memory, memory') /\ turn' = "idle"
  BY Here, ShutdownSettled DEF SessionShutdown
<1> QED
  BY <1>1, FineSettled

LEMMA StartSettled ==
  ASSUME NEW m, Base(m, "none")
  PROVE  LET n == clearPendingContinuation(resetGovernor(
                    [bumpEpoch(m) EXCEPT !.closed = FALSE, !.auto = 0, !.hops = 0, !.aborted = FALSE,
                       !.cancelling = FALSE, !.expecting = FALSE, !.failures = 0, !.open = FALSE])) IN
         n \in Memory /\ Settled(m, n) /\ ~n.closed
<1> DEFINE bare == [bumpEpoch(m) EXCEPT !.closed = FALSE, !.auto = 0, !.hops = 0, !.aborted = FALSE,
                       !.cancelling = FALSE, !.expecting = FALSE, !.failures = 0, !.open = FALSE]
           g == resetGovernor(bare)
           n == clearPendingContinuation(g)
<1>1. m \in Memory
  BY DEF Base
<1>2. n \in Memory
  <2>1. bumpEpoch(m) \in Memory /\ 0 \in 0 .. Most /\ 0 \in 0 .. BreakerLimit
    BY <1>1, BumpType, MostType, ChainAssumption
  <2>2. bare \in Memory
    BY <2>1 DEF Memory, Most
  <2> HIDE DEF bare
  <2> QED
    BY <2>2, SmallTypes
<1>3. /\ n.pending = "none" /\ n.timer = "off" /\ ~n.aborted /\ ~n.stopped
      /\ ~n.closed /\ n.auto = 0 /\ n.hops = 0 /\ ~n.open /\ n.actions = 0
  BY <1>1 DEF Memory, bumpEpoch, resetGovernor, clearPendingContinuation
<1>4. \A u \in Task : n.task[u] = [m.task[u] EXCEPT !.fresh = FALSE]
  BY <1>1 DEF Memory, bumpEpoch, resetGovernor, clearPendingContinuation
<1>5. SameTask(m, n)
  BY <1>1, <1>4, Typed DEF Frame, SameTask
<1> HIDE DEF n
<1>6. Settled(m, n)
  BY <1>3, <1>5, ChainAssumption DEF Settled, Base
<1> QED
  BY <1>2, <1>3, <1>6 DEF n

LEMMA SessionStartFine ==
  ASSUME IInv, SessionStart
  PROVE  Fine
<1>1. memory' \in Memory /\ Settled(memory, memory') /\ ~memory'.closed
  BY Here, StartSettled DEF SessionStart
<1> QED
  BY <1>1, FineSettled

-----------------------------------------------------------------------------
(* The invariant holds in every reachable state.                            *)

LEMMA InitIInv ==
  ASSUME Init
  PROVE  IInv
<1>1. NoFrame \in Frame /\ [u \in Task |-> NoFrame] \in [Task -> Frame]
  BY DEF NoFrame, Frame, Stage, Goal
<1>2. /\ 0 \in 0 .. Most /\ 0 \in 0 .. RequestLimit /\ 0 \in 0 .. BreakerLimit
      /\ 0 \in 0 .. MaxQueued
  BY MostType, ChainAssumption
<1>3. memory \in Memory
  BY <1>1, <1>2 DEF Init, Memory, Most
<1>4. /\ ~memory.aborted /\ ~memory.stopped /\ ~memory.closed /\ ~memory.open
      /\ memory.auto = 0 /\ memory.hops = 0 /\ memory.actions = 0
      /\ memory.pending = "none" /\ memory.task = [u \in Task |-> NoFrame]
  BY DEF Init
<1>5. \A u \in Task : Placed(memory.task[u], u)
  BY <1>4 DEF Placed, Drives, NoFrame
<1>6. Counted(memory, "none")
  BY <1>4, ChainAssumption DEF Counted
<1>7. Base(memory, "none")
  BY <1>3, <1>4, <1>5, <1>6, ChainAssumption DEF Base
<1>8. Woken(memory, "none")
  BY <1>4 DEF Woken
<1>9. TypeOK
  BY <1>2, <1>3 DEF Init, TypeOK
<1> QED
  BY <1>4, <1>7, <1>8, <1>9 DEF IInv, Sound

\* The host's side has its types again, whoever moved.
HostOK ==
  /\ turn \in {"idle", "starting", "running", "finished"}
  /\ stop \in {"stop", "error", "aborted"}
  /\ signal \in BOOLEAN /\ typed \in BOOLEAN
  /\ injected \in 0 .. MaxQueued

LEMMA HostTyped ==
  ASSUME HostOK, Next
  PROVE  HostOK'
<1>1. CASE UNCHANGED host
  BY <1>1 DEF HostOK, host
<1>2. ASSUME NEW t \in Task, Settle(t)
      PROVE  HostOK'
  <2>1. CASE SetModelFails(t) \/ Switched(t)
    <3>1. typed' \in BOOLEAN
      BY <2>1 DEF SetModelFails, Switched, Forward
    <3> QED
      BY <2>1, <3>1 DEF HostOK, SetModelFails, Switched
  <2>2. CASE SendAccepted(t)
    BY <2>2, ChainAssumption DEF HostOK, SendAccepted
  <2>3. CASE HostContinues(t)
    BY <2>3 DEF HostOK, HostContinues
  <2> QED
    BY <1>1, <1>2, <2>1, <2>2, <2>3 DEF Settle, SetModelLands, RestoreFails, Restored,
         SendResolves, SendRejected, IdleEnds, IdleTimeout, ContinueResolves, ContinueFails
<1>3. CASE Hook
  <2>1. CASE BeforeAgentStart
    <3>1. /\ turn' = "starting" /\ stop' = stop /\ signal' = signal
          /\ \/ injected > 0 /\ injected' = injected - 1 /\ typed' = typed
             \/ typed' = FALSE /\ injected' = injected
      BY <2>1 DEF BeforeAgentStart
    <3>2. injected' \in 0 .. MaxQueued
      BY <3>1, ChainAssumption DEF HostOK
    <3>3. typed' \in BOOLEAN
      BY <3>1 DEF HostOK
    <3> QED
      BY <3>1, <3>2, <3>3 DEF HostOK
  <2>2. CASE AgentStart \/ MessageCompleted \/ MessageAborted
    BY <2>2 DEF HostOK, AgentStart, MessageCompleted, MessageAborted
  <2>3. ASSUME MessageFailed PROVE HostOK'
    BY <2>3 DEF HostOK, MessageFailed
  <2>4. ASSUME TurnEnds PROVE HostOK'
    BY <2>4 DEF HostOK, TurnEnds
  <2> QED
    BY <1>1, <1>3, <2>1, <2>2, <2>3, <2>4
       DEF Hook, ProviderResponse, TransientFailure, AccountFailure, TokenRefreshed,
           LeaveAccount, AgentEndWatchdog, AgentEndAborted, AgentEndCompleted, AgentEndFailed
<1>4. CASE ResumeStuck \/ StopCommand
  <2>1. /\ turn' = turn /\ stop' = stop /\ injected' = injected /\ typed' = typed
        /\ signal' = signal \/ signal' = (signal \/ busy)
    BY <1>4 DEF ResumeStuck, StopCommand, abortTurn
  <2>2. signal' \in BOOLEAN
    BY <2>1 DEF HostOK
  <2> QED
    BY <2>1, <2>2 DEF HostOK
<1>5. CASE Input \/ Escape
  <2>1. /\ turn' = turn /\ stop' = stop /\ injected' = injected
        /\ signal' = signal \/ signal' = TRUE
        /\ typed' = typed \/ typed' = (memory'.task["user"] = NoFrame)
    BY <1>5 DEF Input, Escape
  <2>2. typed' \in BOOLEAN /\ signal' \in BOOLEAN
    BY <2>1 DEF HostOK
  <2> QED
    BY <2>1, <2>2 DEF HostOK
<1>6. CASE SessionShutdown
  <2>1. turn' = "idle" /\ stop' = "stop" /\ signal' = FALSE /\ injected' = 0 /\ typed' = FALSE
    BY <1>6 DEF SessionShutdown
  <2>2. injected' \in 0 .. MaxQueued
    BY <2>1, ChainAssumption
  <2>3. signal' \in BOOLEAN /\ typed' \in BOOLEAN
    BY <2>1
  <2>4. turn' \in {"idle", "starting", "running", "finished"} /\ stop' \in {"stop", "error", "aborted"}
    BY <2>1
  <2> QED
    BY <2>2, <2>3, <2>4 DEF HostOK
<1>7. CASE WakeDropped \/ BreakerCloses \/ ResetCommand \/ ManualChoice \/ ManualSwitch \/ SessionStart
  BY <1>1, <1>7 DEF WakeDropped, BreakerCloses, ResetCommand, ManualChoice, ManualSwitch, SessionStart
<1>8. ASSUME NEW b \in Background, Wake(b)
      PROVE  HostOK'
  BY <1>1, <1>8 DEF Wake, WakeCancelled, WakeWaits, WakeResumes, WakeHops
<1> QED
  BY <1>2, <1>3, <1>4, <1>5, <1>6, <1>7, <1>8 DEF Next, User

LEMMA NextFine ==
  ASSUME IInv, Next
  PROVE  Fine
<1>1. CASE Hook
  BY <1>1, BeforeAgentStartFine, AgentStartFine, ProviderResponseFine, MessageCompletedFine,
     MessageAbortedFine, TransientFailureFine, AccountFailureFine, TokenRefreshedFine,
     LeaveAccountFine, AgentEndWatchdogFine, AgentEndAbortedFine, AgentEndCompletedFine,
     AgentEndFailedFine DEF Hook
<1>2. CASE User
  BY <1>2, InputFine, EscapeFine, StopCommandFine, ResetCommandFine, ManualChoiceFine,
     ManualSwitchFine, SessionStartFine DEF User
<1> QED
  BY <1>1, <1>2, WakeFine, SettleFine, WakeDroppedFine, ResumeStuckFine, BreakerClosesFine,
     SessionShutdownFine DEF Next

LEMMA StepIInv ==
  ASSUME IInv, [Next]_vars
  PROVE  IInv'
<1>1. CASE UNCHANGED vars
  <2>1. memory' = memory /\ turn' = turn /\ stop' = stop /\ signal' = signal
        /\ injected' = injected /\ typed' = typed
    BY <1>1 DEF vars, host
  <2>2. Sound(memory', "none") /\ (memory'.closed => turn' = "idle")
    BY <2>1 DEF IInv
  <2> QED
    BY <2>1, <2>2 DEF IInv, TypeOK
<1>2. CASE Next
  <2>1. Fine
    BY <1>2, NextFine
  <2>2. HostOK'
    BY <1>2, HostTyped DEF IInv, TypeOK, HostOK
  <2> QED
    BY <2>1, <2>2 DEF IInv, TypeOK, HostOK, Fine, Sound, Base
<1> QED
  BY <1>1, <1>2

\* Every reachable state is sound: what the helpers keep between two awaits holds
\* with no function under way, for every set of functions in flight.
THEOREM AlwaysSound == Spec => []IInv
  BY InitIInv, StepIInv, PTL DEF Spec

\* TypeOK: however the hooks, the wakes, the commands and the answers interleave,
\* no counter leaves its range: the prompts and the hops of a chain stay below the
\* budget and one for each background function, whatever the host can do.
THEOREM TypeCorrect == Spec => []TypeOK
<1>1. IInv => TypeOK
  BY DEF IInv
<1> QED
  BY <1>1, AlwaysSound, PTL

\* Quiet, the promise of userAbortedChain, governorStoppedReason and
\* sessionClosed: after a stop nothing is parked and no timer is armed, for every
\* number of functions that were in flight when it came.
THEOREM StaysQuiet == Spec => []Quiet
<1>1. IInv => Quiet
  BY DEF IInv, Sound, Base, Quiet
<1> QED
  BY <1>1, AlwaysSound, PTL

\* ParkedWorkHasWake: as long as the breaker has not given up, parked work has a
\* timer armed for it or a wake that is moving it, however many wakes race.
THEOREM ParkedHasWake == Spec => []ParkedWorkHasWake
<1>1. IInv => ParkedWorkHasWake
  <2>1. Task \ {"none"} = Task
    BY Nobody
  <2> QED
    BY <2>1 DEF IInv, Sound, Woken, Hops, ParkedWorkHasWake
<1> QED
  BY <1>1, AlwaysSound, PTL

\* Budget, for a host without pi.continueAgent: whatever the number of resumes in
\* flight, injectContinuationPrompt never sends more than the configured prompts.
\* (With pi.continueAgent a resume is counted when it is answered, and TypeCorrect
\* bounds the count by the budget and one for each background function.)
THEOREM WithinBudget ==
  ASSUME Seamless = FALSE
  PROVE  Spec => []Budget
<1>1. IInv => Budget
  BY DEF IInv, Sound, Base, Budget
<1> QED
  BY <1>1, AlwaysSound, PTL

\* OnlyCurrentChainActs: no switch, prompt or resume is asked for while the chain
\* is aborted, stopped or closed, and none by a function whose epoch has passed,
\* which is what the comparisons of chainEpoch after every await are for.
THEOREM OnlyCurrentActs == Spec => OnlyCurrentChainActs
<1> DEFINE Acts == \A t \in Task : Asks(t) =>
                     /\ ~memory'.aborted /\ ~memory'.stopped /\ ~memory'.closed
                     /\ memory.task[t] = NoFrame \/ memory.task[t].fresh
<1>1. IInv /\ [Next]_vars => [Acts]_vars
  BY NextFine DEF Fine
<1>2. Spec => [][Acts]_vars
  BY <1>1, AlwaysSound, PTL DEF Spec
<1> QED
  BY <1>2 DEF OnlyCurrentChainActs

\* What the user's newer command has made of the chain.
Chain(m) == <<m.pending, m.timer, m.switch, m.auto, m.hops, m.dispatched, m.failures, m.aborted>>

LEMMA DoneKeeps ==
  ASSUME NEW m \in Memory, NEW t \in Task
  PROVE  /\ Chain(done(m, t)) = Chain(m)
         /\ stopResumeWatch(m, t) \in Memory
         /\ Chain(stopResumeWatch(m, t)) = Chain(m) /\ stopResumeWatch(m, t).task = m.task
<1>1. Chain(done(m, t)) = Chain(m)
  BY DEF Memory, done, Chain
<1>2. Chain(endResumeWatch(m)) = Chain(m) /\ endResumeWatch(m).task = m.task
  BY DEF Memory, endResumeWatch, Chain
<1>3. \A u \in Task : stopResumeWatch(m, u) \in Memory
  BY WatchCalm
<1> QED
  BY <1>1, <1>2, <1>3 DEF stopResumeWatch

\* A function whose epoch passed books nothing when it returns.
LEMMA LateIsInert ==
  ASSUME IInv, Next, NEW t \in Task, ReturnsLate(t), ~memory.task[t].holds
  PROVE  Chain(memory') = Chain(memory)
<1>1. memory \in Memory /\ ~memory.task[t].fresh
  BY Here DEF ReturnsLate
<1>2. Settle(t)
  <2>1. Fine
    BY NextFine
  <2>2. Answered(t)
    BY <2>1 DEF Fine, ReturnsLate
  <2> QED
    BY <2>2 DEF Answered, ReturnsLate
<1>3. ASSUME NEW m \in Memory, m.task = memory.task, Chain(m) = Chain(memory),
             memory' = notResumed(m, t, goalOf(t))
      PROVE  Chain(memory') = Chain(memory)
  <2>1. memory' = done(m, t)
    BY <1>1, <1>3 DEF notResumed
  <2> QED
    BY <1>3, <2>1, DoneKeeps
<1>4. CASE Switched(t)
  <2>1. PICK ready \in BOOLEAN : memory' = notSwitched(memory, t, goalOf(t), ready)
    BY <1>1, <1>4 DEF Switched, stale
  <2>2. memory' = done(memory, t)
    BY <1>1, <2>1 DEF notSwitched
  <2> QED
    BY <1>1, <2>2, DoneKeeps
<1>5. CASE Restored(t)
  <2>1. memory' = done(memory, t)
    BY <1>1, <1>5 DEF Restored
  <2> QED
    BY <1>1, <2>1, DoneKeeps
<1>6. CASE SendResolves(t)
  <2>1. memory' = notResumed(stopResumeWatch(memory, t), t, goalOf(t))
    BY <1>1, <1>6 DEF SendResolves
  <2> QED
    BY <1>1, <1>3, <2>1, DoneKeeps
<1>7. CASE IdleEnds(t)
  <2>1. memory' = notResumed(memory, t, goalOf(t))
    BY <1>1, <1>7 DEF IdleEnds
  <2> QED
    BY <1>1, <1>3, <2>1
<1>8. CASE ContinueResolves(t) \/ ContinueFails(t)
  <2>1. stopResumeWatch(memory, t).task = memory.task
    BY <1>1, DoneKeeps
  <2>2. memory' = notResumed(stopResumeWatch(memory, t), t, goalOf(t))
    BY <1>1, <1>8, <2>1 DEF ContinueResolves, ContinueFails
  <2> QED
    BY <1>1, <1>3, <2>2, DoneKeeps
<1>9. memory.task[t].stage \in {"switched", "restored", "sent", "idling", "continued"}
  BY DEF ReturnsLate
<1> QED
  BY <1>1, <1>2, <1>4, <1>5, <1>6, <1>7, <1>8, <1>9
     DEF Settle, SetModelLands, SetModelFails, RestoreFails, SendAccepted, SendRejected,
         IdleTimeout, HostContinues, At

\* SupersededIsInert: a function that returns from an await after the user's newer
\* command leaves the chain exactly as that command made it, unless the switch it
\* dispatched is still the current one (the code compares records there, not epochs).
THEOREM SupersededInert == Spec => SupersededIsInert
<1> DEFINE Inert == \A t \in Task : ReturnsLate(t) /\ ~memory.task[t].holds =>
                      \A f \in {"pending", "timer", "switch", "auto", "hops", "dispatched",
                                "failures", "aborted"} : memory'[f] = memory[f]
<1>1. ASSUME NEW m, NEW n, Chain(m) = Chain(n)
      PROVE  \A f \in {"pending", "timer", "switch", "auto", "hops", "dispatched",
                       "failures", "aborted"} : m[f] = n[f]
  BY <1>1 DEF Chain
<1>2. IInv /\ [Next]_vars => [Inert]_vars
  BY <1>1, LateIsInert
<1>3. Spec => [][Inert]_vars
  BY <1>2, AlwaysSound, PTL DEF Spec
<1> QED
  BY <1>3 DEF SupersededIsInert

=============================================================================

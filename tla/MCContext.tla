------------------------------ MODULE MCContext -----------------------------
(***************************************************************************)
(* What becomes of a context that grows: trimmed, handed off, compacted by *)
(* the guard or recovered from its archive, and the completions and        *)
(* summaries asked for beside the turns.                                   *)
(***************************************************************************)
EXTENDS Naturals, Sequences, TLC

CONSTANTS
  Scenarios

VARIABLES
  scenario,  \* the instance this behaviour is one of, of Scenarios
  health, op, active, completionTold,  \* CompletionRoute
  summarySession, queue, benched, excluded, unfit, paused, comp, summaryShown,  \* SummaryRoute
  Records, checkpointSt, listed, listDone, checkpointAt, offset, next,
  checkpointPending, batch, accepted, checkpointSize, passes, exhausted,
  checkpointResult,  \* RecoveryCheckpoint
  recoverySession, branch, ids, cache, provisional, controller, claimed,
  recoveryRun, recoveryTarget, switch,  \* SourceRecovery
  guardE, h,  \* GuardCompaction
  cfg, trimLog, trimModel, g, trimReq,  \* ContextTrim
  handoffLog, handoffSent, upto  \* HandoffRecord

completionVars == <<health, op, active, completionTold>>
summaryVars == <<summarySession, queue, benched, excluded, unfit, paused,
    comp, summaryShown>>
checkpointVars == <<Records, checkpointSt, listed, listDone, checkpointAt,
    offset, next, checkpointPending, batch, accepted, checkpointSize, passes,
    exhausted, checkpointResult>>
recoveryVars == <<recoverySession, branch, ids, cache, provisional,
    controller, claimed, recoveryRun, recoveryTarget, switch>>
guardVars == <<guardE, h>>
trimVars == <<cfg, trimLog, trimModel, g, trimReq>>
handoffVars == <<handoffLog, handoffSent, upto>>
vars == <<scenario, completionVars, summaryVars, checkpointVars, recoveryVars,
          guardVars, trimVars, handoffVars>>

\* Routes of two accounts, one of them with two models.
sol == [p |-> "codex", m |-> "sol"]
old == [p |-> "codex", m |-> "old"]
grok == [p |-> "cursor", m |-> "grok"]
MCPreferred(o) == IF o = "title" THEN <<old, grok>> ELSE <<>>

\* What a completion comes back with: its stop reason, status and message.
Fact(stop, status, says) == [stop |-> stop, status |-> status, says |-> says]
RouteFacts == {Fact("stop", 0, {}), Fact("route_unavailable", 0, {}), Fact("error", 429, {}), Fact("error", 0, {"stall"})}
OtherFacts == {Fact("aborted", 0, {}), Fact("error", 429, {"overflow", "limit"}), Fact("error", 0, {"ignore", "transient"}),
               Fact("error", 400, {"model"}), Fact("error", 401, {})}

\* Sources of up to four records, empty, short and longer than a page.
ShortSources == UNION {[1..n -> {0, 1, 3, 4}] : n \in 0..4}

\* The window each model declares.
MCWindow(m) == IF m = "small" THEN 60 ELSE 100

Routes == INSTANCE CompletionRoute WITH
  Op <- {"title", "review"}, Route <- {sol, old, grok},
  Fallbacks <- <<sol, old, grok>>, Preferred <- MCPreferred, Session <- sol,
  Excluded <- {old}, Cursor <- {"cursor"}, MaxCool <- 1, Facts <- RouteFacts,
  MaxForeground <- 0, told <- completionTold
Others == INSTANCE CompletionRoute WITH
  Op <- {"title", "review"}, Route <- {sol, old, grok},
  Fallbacks <- <<sol, old, grok>>, Preferred <- MCPreferred, Session <- sol,
  Excluded <- {old}, Cursor <- {"cursor"}, MaxCool <- 1, Facts <- OtherFacts,
  MaxForeground <- 1, told <- completionTold
Summary == INSTANCE SummaryRoute WITH
  Account <- {"codex", "claude", "kimi", "grok"},
  Order <- <<"codex", "claude", "kimi", "grok">>, Cursor <- {"grok"},
  Compaction <- 1..2, routing <- TRUE, MaxAttempts <- 2, MaxRetries <- 2,
  MaxUnfit <- 1, Sessions <- {"spent", "ready"},
  Errors <- {"dropped", "unfit"}, Excludable <- {},
  Queues <- {"none", "soon"}, session <- summarySession, shown <- summaryShown
Access == INSTANCE SummaryRoute WITH
  Account <- {"codex", "claude", "grok"},
  Order <- <<"codex", "claude", "grok">>, Cursor <- {"grok"},
  Compaction <- 1..2, routing <- TRUE, MaxAttempts <- 2, MaxRetries <- 2,
  MaxUnfit <- 1, Sessions <- {"spent"},
  Errors <- {"policy", "verify", "model"}, Excludable <- {"claude"},
  Queues <- {"none"}, session <- summarySession, shown <- summaryShown
Whole == INSTANCE RecoveryCheckpoint WITH
  Sources <- ShortSources, PageItems <- 2, PageBytes <- 2, MaxPasses <- 3,
  MaxRequest <- 8, MaxSummary <- 3, FinalBudget <- 2,
  Faults <- {"source", "response", "stale", "cancelled"}, st <- checkpointSt,
  at <- checkpointAt, pending <- checkpointPending, size <- checkpointSize,
  result <- checkpointResult
Commit == INSTANCE SourceRecovery WITH
  Sessions <- {"work", "copy"}, MaxEntries <- 4, MaxIds <- 5, Budget <- 1,
  CacheLimit <- 1, session <- recoverySession, run <- recoveryRun,
  target <- recoveryTarget
Wakes == INSTANCE GuardCompaction WITH
  MaxSeq <- 2, MaxTurns <- 2, MaxUser <- 1, Budget <- 1, NewHost <- TRUE,
  Silent <- {}, Thresholds <- 1, e <- guardE
Once == INSTANCE GuardCompaction WITH
  MaxSeq <- 1, MaxTurns <- 2, MaxUser <- 2, Budget <- 2, NewHost <- TRUE,
  Silent <- {"end", "callback"}, Thresholds <- 0, e <- guardE
Pause == INSTANCE GuardCompaction WITH
  MaxSeq <- 1, MaxTurns <- 3, MaxUser <- 2, Budget <- 1, NewHost <- TRUE,
  Silent <- {}, Thresholds <- 0, e <- guardE
Trim == INSTANCE ContextTrim WITH
  Model <- {"small", "large"}, Window <- MCWindow, Sizes <- {2, 30},
  RawSoft <- {75}, RawTarget <- {60, 80}, CompactPercent <- 70,
  KeepVerbatim <- 20, MinElide <- 5, StubSize <- 1, MaxOverhead <- 4,
  InitialOverhead <- 2, Hidden <- 12, MaxLen <- 4, log <- trimLog,
  model <- trimModel, req <- trimReq
Record == INSTANCE HandoffRecord WITH
  Reuse <- FALSE, MaxLog <- 6, MaxShown <- 1, MaxBlocks <- 2, Call <- {1, 2},
  log <- handoffLog, sent <- handoffSent
Again == INSTANCE SummaryRoute WITH
  Account <- {"codex", "claude", "kimi", "grok"},
  Order <- <<"codex", "claude", "kimi", "grok">>, Cursor <- {"grok"},
  Compaction <- 1..2, routing <- TRUE, MaxAttempts <- 2, MaxRetries <- 2,
  MaxUnfit <- 1, Sessions <- {"spent"},
  Errors <- {"policy", "verify", "transient"}, Excludable <- {},
  Queues <- {"none"}, session <- summarySession, shown <- summaryShown
Goes == INSTANCE GuardCompaction WITH
  MaxSeq <- 1, MaxTurns <- 3, MaxUser <- 1, Budget <- 1, NewHost <- FALSE,
  Silent <- {}, Thresholds <- 0, e <- guardE
Ending == INSTANCE SourceRecovery WITH
  Sessions <- {"work"}, MaxEntries <- 3, MaxIds <- 4, Budget <- 1,
  CacheLimit <- 1, session <- recoverySession, run <- recoveryRun,
  target <- recoveryTarget

ASSUME
  /\ Routes!CompletionAssumption
  /\ Others!CompletionAssumption
  /\ Summary!SummaryAssumption
  /\ Access!SummaryAssumption
  /\ Whole!CheckpointAssumption
  /\ Commit!RecoveryAssumption
  /\ Wakes!GuardCompactionAssumption
  /\ Once!GuardCompactionAssumption
  /\ Pause!GuardCompactionAssumption
  /\ Trim!ContextTrimAssumption
  /\ Record!HandoffAssumption
  /\ Again!SummaryAssumption
  /\ Goes!GuardCompactionAssumption
  /\ Ending!RecoveryAssumption

\* A behaviour moves one component; the others rest in an initial state.
Rest(moving) ==
  /\ IF moving = "completion" THEN TRUE ELSE Routes!Init
  /\ IF moving = "summary" THEN TRUE ELSE Summary!Init /\ summarySession = "spent" /\ queue = "none" /\ benched = {}
  /\ IF moving = "checkpoint" THEN TRUE ELSE Whole!Init /\ Records = <<>>
  /\ IF moving = "recovery" THEN TRUE ELSE Commit!Init /\ recoverySession = "work"
  /\ IF moving = "guard" THEN TRUE ELSE Wakes!Init
  /\ IF moving = "trim" THEN TRUE ELSE Trim!Init /\ cfg.soft = 75 /\ cfg.target = 60 /\ trimModel = "small"
  /\ IF moving = "handoff" THEN TRUE ELSE Record!Init

Stays(moving) ==
  /\ IF moving = "completion" THEN TRUE ELSE UNCHANGED completionVars
  /\ IF moving = "summary" THEN TRUE ELSE UNCHANGED summaryVars
  /\ IF moving = "checkpoint" THEN TRUE ELSE UNCHANGED checkpointVars
  /\ IF moving = "recovery" THEN TRUE ELSE UNCHANGED recoveryVars
  /\ IF moving = "guard" THEN TRUE ELSE UNCHANGED guardVars
  /\ IF moving = "trim" THEN TRUE ELSE UNCHANGED trimVars
  /\ IF moving = "handoff" THEN TRUE ELSE UNCHANGED handoffVars

Init ==
  /\ scenario \in Scenarios
  /\ \/ scenario = "routes" /\ Routes!Init /\ Rest("completion")
     \/ scenario = "others" /\ Others!Init /\ Rest("completion")
     \/ scenario = "walk" /\ Summary!Init /\ Rest("summary")
     \/ scenario = "access" /\ Access!Init /\ Rest("summary")
     \/ scenario = "whole" /\ Whole!Init /\ Rest("checkpoint")
     \/ scenario = "commit" /\ Commit!Init /\ Rest("recovery")
     \/ scenario = "wakes" /\ Wakes!Init /\ Rest("guard")
     \/ scenario = "once" /\ Once!Init /\ Rest("guard")
     \/ scenario = "pause" /\ Pause!Init /\ Rest("guard")
     \/ scenario = "trim" /\ Trim!Init /\ Rest("trim")
     \/ scenario = "record" /\ Record!Init /\ Rest("handoff")
     \/ scenario = "again" /\ Again!Init /\ Rest("summary")
     \/ scenario = "goes" /\ Goes!Init /\ Rest("guard")
     \/ scenario = "ends" /\ Ending!Init /\ Rest("recovery")

Next ==
  /\ scenario' = scenario
  /\ \/ scenario = "routes" /\ Routes!Next /\ Stays("completion")
     \/ scenario = "others" /\ Others!Next /\ Stays("completion")
     \/ scenario = "walk" /\ Summary!Next /\ Stays("summary")
     \/ scenario = "access" /\ Access!Next /\ Stays("summary")
     \/ scenario = "whole" /\ Whole!Next /\ Stays("checkpoint")
     \/ scenario = "commit" /\ Commit!Next /\ Stays("recovery")
     \/ scenario = "wakes" /\ Wakes!Next /\ Stays("guard")
     \/ scenario = "once" /\ Once!Next /\ Stays("guard")
     \/ scenario = "pause" /\ Pause!Next /\ Stays("guard")
     \/ scenario = "trim" /\ Trim!Next /\ Stays("trim")
     \/ scenario = "record" /\ Record!Next /\ Stays("handoff")
     \/ scenario = "again" /\ Again!Next /\ Stays("summary")
     \/ scenario = "goes" /\ Goes!Next /\ Stays("guard")
     \/ scenario = "ends" /\ Ending!Next /\ Stays("recovery")

Spec == Init /\ [][Next]_vars

-----------------------------------------------------------------------------
RoutesFair ==
  \A o \in {"title", "review"} : WF_completionVars(scenario = "routes" /\ Routes!Step(o))

AgainFair ==
  \A c \in 1..2 : WF_summaryVars(scenario = "again" /\ Again!Walk(c)) /\ WF_summaryVars(scenario = "again" /\ Again!Expires(c))

\* Completions and summaries walk their routes on evidence: one more try at
\* most, what was excluded only when asked for, refusals remembered, no
\* account known to be spent or barred, given up after the last; and no answer
\* is forgotten or comes after an abort, and each walk ends.
RoutesTried ==
  /\ [](/\ (scenario = "routes" => Routes!TypeOK)
       /\ (scenario = "others" => Others!TypeOK)
       /\ (scenario = "walk" => Summary!TypeOK)
       /\ (scenario = "access" => Access!TypeOK)
       /\ (scenario = "routes" => Routes!OnceAgainAtMost)
       /\ (scenario = "others" => Others!OnceAgainAtMost)
       /\ (scenario = "routes" => Routes!OnlyEvidence)
       /\ (scenario = "others" => Others!OnlyEvidence)
       /\ (scenario = "routes" => Routes!ExcludedOnlyAsked)
       /\ (scenario = "others" => Others!ExcludedOnlyAsked)
       /\ (scenario = "walk" => Summary!NothingForgotten)
       /\ (scenario = "access" => Access!NothingForgotten))
  /\ [][/\ (scenario = "routes" => Routes!NoPileOnStep)
        /\ (scenario = "routes" => Routes!GivesUpLastStep)
        /\ (scenario = "others" => Others!GivesUpLastStep)
        /\ (scenario = "walk" => Summary!SpentNeverNativeStep)
        /\ (scenario = "access" => Access!SpentNeverNativeStep)
        /\ (scenario = "walk" => Summary!RefusalRememberedStep)
        /\ (scenario = "access" => Access!RefusalRememberedStep)
        /\ (scenario = "walk" => Summary!AbortStopsStep)
        /\ (scenario = "access" => Access!AbortStopsStep)
        /\ (scenario = "access" => Access!AccessEndsWalkStep)]_vars
  /\ ((scenario = "routes" /\ RoutesFair) => Routes!OperationsEnd)
  /\ ((scenario = "again" /\ AgainFair) => Again!Answered)

EndingFair ==
  WF_recoveryVars(scenario = "ends" /\ Ending!Stop) /\ WF_recoveryVars(scenario = "ends" /\ Ending!CommitFails)

\* What a smaller model continues from is all of the context: a checkpoint
\* covers every record in order and fits its requests, views are current and
\* not held for nothing, and the record of a handoff loses no call and keeps
\* pairs and prefix; a recovery that was begun ends.
ContextComplete ==
  /\ [](/\ (scenario = "whole" => Whole!TypeOK)
       /\ (scenario = "commit" => Commit!TypeOK)
       /\ (scenario = "record" => Record!TypeOK)
       /\ (scenario = "whole" => Whole!Complete)
       /\ (scenario = "whole" => Whole!InOrder)
       /\ (scenario = "whole" => Whole!RequestFits)
       /\ (scenario = "commit" => Commit!NothingHeld)
       /\ (scenario = "record" => Record!Paired)
       /\ (scenario = "record" => Record!NothingLost)
       /\ (scenario = "record" => Record!CallsLast))
  /\ Commit!CheckpointCovers
  /\ Commit!ServesCurrent
  /\ Commit!OversizedKept
  /\ Trim!PrefixStable
  /\ Record!PrefixStable
  /\ ((scenario = "ends" /\ EndingFair) => Ending!RecoveryEnds)

GoesFair ==
  /\ WF_guardVars(scenario = "goes" /\ Goes!WatchdogExpires) /\ WF_guardVars(scenario = "goes" /\ Goes!Poll) /\ WF_guardVars(scenario = "goes" /\ Goes!Flush)
  /\ WF_guardVars(scenario = "goes" /\ Goes!TurnEnds) /\ WF_guardVars(scenario = "goes" /\ (Goes!SummaryDone \/ Goes!SummaryFails))
  /\ WF_guardVars(scenario = "goes" /\ \E cb \in h.cbs : Goes!OnComplete(cb) \/ Goes!OnError(cb))
  /\ WF_guardVars(scenario = "goes" /\ \E r \in guardE.ready : Goes!ModelFound(r))
  /\ WF_guardVars(scenario = "goes" /\ \E sub \in guardE.subs : Goes!Accept(sub) \/ Goes!Reject(sub))

=============================================================================

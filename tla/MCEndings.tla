------------------------------ MODULE MCEndings -----------------------------
(***************************************************************************)
(* Everything that is begun beside a turn ends, what is known of accounts  *)
(* and slots settles, and no lock is held for ever: one part for each      *)
(* component, under its own fairness.                                      *)
(***************************************************************************)
EXTENDS Naturals, Sequences, TLC

CONSTANTS
  Scenarios, Missing, StandIn, OldStandIn

VARIABLES
  scenario,  \* the instance this behaviour is one of, of Scenarios
  memory, chainTurn, stop, signal, injected, typed,  \* FailoverChain
  Records, checkpointSt, listed, listDone, checkpointAt, offset,
  checkpointNext, checkpointPending, batch, accepted, checkpointSize, passes,
  checkpointExhausted, checkpointResult,  \* RecoveryCheckpoint
  healthAccount, healthCooldown, healthRefused, healthRetry, streak,
  untrusted, healthInvalid, healthUsage, fetching, handler, healthSent, owed,
  heard,  \* AccountHealth
  verdictToken, verdictKnown, carries, verdictRefreshing, verdictFailures,
  verdictInvalid, rejected, verdictCurrent, strikes,  \* AccountVerdict
  family, now, readingAccount, readingUsed, readingAllowed, readingPhase,
  asker, retried, reply, readingResult, snap, asks, readingTurn,  \* UsageReading
  holder, proxyAuth, models, usable, members, proxyReady, publisher,
  handlerOwner, server, proxyStarting, proxyRoutes, proxyPc, bind, port,
  proxyClosed, proxyForeign, stray, proxyBusy, proxyLeft, crashes, losses,  \* SharedProxy
  store, requestRoutes, requestPhase, req, entry, requestRefreshed, upstream,
  requestAnswer, caller, newest, versions, requests,  \* ProxyRequest
  slotsAuth, tokens, dirty, logging, slotsSeen, slotsCooldown, catalog,
  registered, slotsShown, slotsHost, hostSeen, rotation, sync, fetch,
  slotsCommand, slotsHint,  \* SlotDiscovery
  streamPhase, streamAborted, data, streamSize, total, streamEnded, frame,
  frames, streamCurrent, content, calls, streamTerminal, streamOut,  \* GoogleStream
  authFiles, authLive, issued, authLock, authFresh, created, op, authPc,
  identity, captured, snapshot, authPlan, minted, authAborted, mishaps,  \* AuthTransaction
  settingsDisk, settingsLock, settingsConfig, settingsPc, settingsCommand,
  settingsPlan, outdated, notice, edits  \* ConfigTransaction

chainVars == <<memory, chainTurn, stop, signal, injected, typed>>
checkpointVars == <<Records, checkpointSt, listed, listDone, checkpointAt,
    offset, checkpointNext, checkpointPending, batch, accepted,
    checkpointSize, passes, checkpointExhausted, checkpointResult>>
healthVars == <<healthAccount, healthCooldown, healthRefused, healthRetry,
    streak, untrusted, healthInvalid, healthUsage, fetching, handler,
    healthSent, owed, heard>>
verdictVars == <<verdictToken, verdictKnown, carries, verdictRefreshing,
    verdictFailures, verdictInvalid, rejected, verdictCurrent, strikes>>
usageVars == <<family, now, readingAccount, readingUsed, readingAllowed,
    readingPhase, asker, retried, reply, readingResult, snap, asks,
    readingTurn>>
proxyVars == <<holder, proxyAuth, models, usable, members, proxyReady,
    publisher, handlerOwner, server, proxyStarting, proxyRoutes, proxyPc,
    bind, port, proxyClosed, proxyForeign, stray, proxyBusy, proxyLeft,
    crashes, losses>>
requestVars == <<store, requestRoutes, requestPhase, req, entry,
    requestRefreshed, upstream, requestAnswer, caller, newest, versions,
    requests>>
slotsVars == <<slotsAuth, tokens, dirty, logging, slotsSeen, slotsCooldown,
    catalog, registered, slotsShown, slotsHost, hostSeen, rotation, sync,
    fetch, slotsCommand, slotsHint>>
streamVars == <<streamPhase, streamAborted, data, streamSize, total,
    streamEnded, frame, frames, streamCurrent, content, calls, streamTerminal,
    streamOut>>
authVars == <<authFiles, authLive, issued, authLock, authFresh, created, op,
    authPc, identity, captured, snapshot, authPlan, minted, authAborted,
    mishaps>>
settingsVars == <<settingsDisk, settingsLock, settingsConfig, settingsPc,
    settingsCommand, settingsPlan, outdated, notice, edits>>
vars == <<scenario, chainVars, checkpointVars, healthVars, verdictVars,
          usageVars, proxyVars, requestVars, slotsVars, streamVars, authVars,
          settingsVars>>

\* Sources of up to two records, empty, short and longer than a page.
ShortSources == UNION {[1..n -> {0, 1, 3, 4}] : n \in 0..2}

\* One reading of each kind: nothing said, headroom, a full window, a verdict.
EveryKind == {[says |-> "unsaid", full |-> 4], [says |-> "unsaid", full |-> 0],
              [says |-> "unsaid", full |-> 3], [says |-> "yes", full |-> 3],
              [says |-> "no", full |-> 0]}

\* Roots of one process, the first two for the same session; or r3 in another process.
OneHome == [r1 |-> "p1", r2 |-> "p1", r3 |-> "p1"]
Resumed == [r1 |-> "s1", r2 |-> "s1", r3 |-> "s3"]
TwoHomes == [r1 |-> "p1", r2 |-> "p1", r3 |-> "p2"]
Distinct == [r1 |-> "s1", r2 |-> "s2", r3 |-> "s3"]

Wake == INSTANCE FailoverChain WITH
  Background <- {"b1"}, Seamless <- FALSE, MaxAuto <- 1, RequestLimit <- 2,
  BreakerLimit <- 2, MaxQueued <- 0, turn <- chainTurn
Whole == INSTANCE RecoveryCheckpoint WITH
  Sources <- ShortSources, PageItems <- 2, PageBytes <- 2, MaxPasses <- 3,
  MaxRequest <- 8, MaxSummary <- 3, FinalBudget <- 2,
  Faults <- {"source", "response", "stale", "cancelled"}, st <- checkpointSt,
  at <- checkpointAt, next <- checkpointNext, pending <- checkpointPending,
  size <- checkpointSize, exhausted <- checkpointExhausted,
  result <- checkpointResult
Parked == INSTANCE AccountHealth WITH
  Slot <- {"p"}, Metered <- {"p"}, Cheap <- {"p"}, Accounts <- 1, Live <- 3,
  Recheck <- 2, Default <- 2, Transient <- 1, Floor <- 1, Ttl <- 2,
  Streak <- 2, Distrust <- 3, Reading <- EveryKind, account <- healthAccount,
  cooldown <- healthCooldown, refused <- healthRefused, retry <- healthRetry,
  invalid <- healthInvalid, usage <- healthUsage, sent <- healthSent
Replaced == INSTANCE AccountVerdict WITH
  Request <- 1..2, Refreshable <- TRUE, MaxDistinct <- 3, MaxSameKey <- 2,
  MaxToken <- 3, token <- verdictToken, known <- verdictKnown,
  refreshing <- verdictRefreshing, failures <- verdictFailures,
  invalid <- verdictInvalid, current <- verdictCurrent
Reads == INSTANCE UsageReading WITH
  Families <- {"ollama", "cursor", "xai"},
  Sent <- {"p", "end", "plan", "config", "credit", "period"}, MaxTime <- 4,
  MaxAsks <- 1, Logins <- FALSE, Turns <- FALSE, account <- readingAccount,
  used <- readingUsed, allowed <- readingAllowed, phase <- readingPhase,
  result <- readingResult, turn <- readingTurn
Gap == INSTANCE SharedProxy WITH
  Proc <- {"p1", "p2"}, Root <- {"r1", "r2", "r3"}, Nobody <- "nobody",
  Home <- OneHome, Session <- Resumed, Off <- {}, MaxCrashes <- 0,
  MaxLoss <- 0, Contended <- FALSE, ListenFails <- FALSE, auth <- proxyAuth,
  ready <- proxyReady, starting <- proxyStarting, routes <- proxyRoutes,
  pc <- proxyPc, closed <- proxyClosed, foreign <- proxyForeign,
  busy <- proxyBusy, left <- proxyLeft
Starts == INSTANCE SharedProxy WITH
  Proc <- {"p1", "p2"}, Root <- {"r1", "r2", "r3"}, Nobody <- "nobody",
  Home <- TwoHomes, Session <- Distinct, Off <- {}, MaxCrashes <- 0,
  MaxLoss <- 0, Contended <- FALSE, ListenFails <- FALSE, auth <- proxyAuth,
  ready <- proxyReady, starting <- proxyStarting, routes <- proxyRoutes,
  pc <- proxyPc, closed <- proxyClosed, foreign <- proxyForeign,
  busy <- proxyBusy, left <- proxyLeft
Life == INSTANCE ProxyRequest WITH
  Slot <- {"chatgpt"}, Family <- [chatgpt |-> "openai"], Builtin <- {},
  MaxVersion <- 1, MaxRequests <- 2, routes <- requestRoutes,
  phase <- requestPhase, refreshed <- requestRefreshed,
  answer <- requestAnswer
Slots == INSTANCE SlotDiscovery WITH
  MaxAccounts <- 2, Account <- {"ada", "ben"}, Opaque <- {},
  AutoDiscover <- TRUE, Commands <- {}, Ways <- {"meanwhile"}, MaxToken <- 2,
  MaxHost <- 0, Limits <- FALSE, auth <- slotsAuth, seen <- slotsSeen,
  cooldown <- slotsCooldown, shown <- slotsShown, host <- slotsHost,
  command <- slotsCommand, hint <- slotsHint
Stream == INSTANCE GoogleStream WITH
  Call <- {1},
  Part <- {<<"text", 0>>, <<"call", 1>>, <<"badcall", 0>>, <<"junk", 0>>},
  Finish <- {"STOP", "OTHER"},
  Noise <- {"field", "unknown", "broken", "done"}, PerFrame <- 1,
  MaxEvent <- 2, MaxTotal <- 4, phase <- streamPhase,
  aborted <- streamAborted, size <- streamSize, ended <- streamEnded,
  current <- streamCurrent, terminal <- streamTerminal, out <- streamOut
Auth == INSTANCE AuthTransaction WITH
  Process <- {"p1", "p2"}, MaxToken <- 2, MaxLock <- 2, NoEntry <- Missing,
  Placeholder <- StandIn, OldPlaceholder <- OldStandIn, files <- authFiles,
  live <- authLive, lock <- authLock, fresh <- authFresh, pc <- authPc,
  plan <- authPlan, aborted <- authAborted
Lock == INSTANCE ConfigTransaction WITH
  Window <- {"w1", "w2"}, Scope <- {"s1"}, Model <- {"m1"}, Target <- {},
  Loose <- {}, Edits <- 1, disk <- settingsDisk, lock <- settingsLock,
  config <- settingsConfig, pc <- settingsPc, command <- settingsCommand,
  plan <- settingsPlan

ASSUME
  /\ Wake!ChainAssumption
  /\ Whole!CheckpointAssumption
  /\ Parked!HealthAssumption
  /\ Replaced!VerdictAssumption
  /\ Reads!UsageAssumption
  /\ Gap!SharedProxyAssumption
  /\ Starts!SharedProxyAssumption
  /\ Life!ProxyRequestAssumption
  /\ Slots!SlotAssumption
  /\ Stream!StreamAssumption
  /\ Auth!BoundsAssumption
  /\ Auth!EntryAssumption
  /\ Lock!ConfigAssumption

\* A behaviour moves one component; the others rest in an initial state.
Rest(moving) ==
  /\ IF moving = "chain" THEN TRUE ELSE Wake!Init
  /\ IF moving = "checkpoint" THEN TRUE ELSE Whole!Init /\ Records = <<>>
  /\ IF moving = "health" THEN TRUE ELSE Parked!Init
  /\ IF moving = "verdict" THEN TRUE ELSE Replaced!Init
  /\ IF moving = "usage" THEN TRUE ELSE Reads!Init /\ family = "xai" /\ readingAllowed[1] /\ readingUsed[1].p = 0 /\ readingUsed[1].s = 0
  /\ IF moving = "proxy" THEN TRUE ELSE Gap!Init /\ usable
  /\ IF moving = "request" THEN TRUE ELSE Life!Init /\ store["chatgpt"].type = "none"
  /\ IF moving = "slots" THEN TRUE ELSE Slots!Init /\ slotsAuth[1].acct = "ada"
  /\ IF moving = "stream" THEN TRUE ELSE Stream!Init
  /\ IF moving = "auth" THEN TRUE ELSE Auth!Init /\ authFiles.auth = 1
  /\ IF moving = "settings" THEN TRUE ELSE Lock!Init

Stays(moving) ==
  /\ IF moving = "chain" THEN TRUE ELSE UNCHANGED chainVars
  /\ IF moving = "checkpoint" THEN TRUE ELSE UNCHANGED checkpointVars
  /\ IF moving = "health" THEN TRUE ELSE UNCHANGED healthVars
  /\ IF moving = "verdict" THEN TRUE ELSE UNCHANGED verdictVars
  /\ IF moving = "usage" THEN TRUE ELSE UNCHANGED usageVars
  /\ IF moving = "proxy" THEN TRUE ELSE UNCHANGED proxyVars
  /\ IF moving = "request" THEN TRUE ELSE UNCHANGED requestVars
  /\ IF moving = "slots" THEN TRUE ELSE UNCHANGED slotsVars
  /\ IF moving = "stream" THEN TRUE ELSE UNCHANGED streamVars
  /\ IF moving = "auth" THEN TRUE ELSE UNCHANGED authVars
  /\ IF moving = "settings" THEN TRUE ELSE UNCHANGED settingsVars

Init ==
  /\ scenario \in Scenarios
  /\ \/ scenario = "wake" /\ Wake!Init /\ Rest("chain")
     \/ scenario = "whole" /\ Whole!Init /\ Rest("checkpoint")
     \/ scenario = "parked" /\ Parked!Init /\ Rest("health")
     \/ scenario = "replaced" /\ Replaced!Init /\ Rest("verdict")
     \/ scenario = "reading" /\ Reads!Init /\ Rest("usage")
     \/ scenario = "gap" /\ Gap!Init /\ Rest("proxy")
     \/ scenario = "start" /\ Starts!Init /\ Rest("proxy")
     \/ scenario = "life" /\ Life!Init /\ Rest("request")
     \/ scenario = "slots" /\ Slots!Init /\ Rest("slots")
     \/ scenario = "stream" /\ Stream!Init /\ Rest("stream")
     \/ scenario = "auth" /\ Auth!Init /\ Rest("auth")
     \/ scenario = "lock" /\ Lock!Init /\ Rest("settings")

Next ==
  /\ scenario' = scenario
  /\ \/ scenario = "wake" /\ Wake!Next /\ Stays("chain")
     \/ scenario = "whole" /\ Whole!Next /\ Stays("checkpoint")
     \/ scenario = "parked" /\ Parked!Next /\ Stays("health")
     \/ scenario = "replaced" /\ Replaced!Next /\ Stays("verdict")
     \/ scenario = "reading" /\ Reads!Next /\ Stays("usage")
     \/ scenario = "gap" /\ Gap!Next /\ Stays("proxy")
     \/ scenario = "start" /\ Starts!Next /\ Stays("proxy")
     \/ scenario = "life" /\ Life!Next /\ Stays("request")
     \/ scenario = "slots" /\ Slots!Next /\ Stays("slots")
     \/ scenario = "stream" /\ Stream!Next /\ Stays("stream")
     \/ scenario = "auth" /\ Auth!Next /\ Stays("auth")
     \/ scenario = "lock" /\ Lock!Next /\ Stays("settings")

Spec == Init /\ [][Next]_vars

-----------------------------------------------------------------------------
WakeFair ==
  /\ \A t \in Wake!Task : WF_chainVars(scenario = "wake" /\ Wake!Settle(t))
  /\ WF_chainVars(scenario = "wake" /\ Wake!TurnGoesOn)
  /\ SF_chainVars(scenario = "wake" /\ \E b \in {"b1"} : Wake!WakeCancelled(b) \/ Wake!WakeResumes(b))

WholeFair == WF_checkpointVars(scenario = "whole" /\ Whole!Fence)

LifeFair == WF_requestVars(scenario = "life" /\ Life!Handler)

StreamFair ==
  WF_streamVars(scenario = "stream" /\ Stream!Abort) /\ WF_streamVars(scenario = "stream" /\ Stream!Raises)

\* What was asked for is answered or given up: work that was parked is taken
\* up, and checkpoints, requests of children and streams end.
AskedIsAnswered ==
  /\ ((scenario = "wake" /\ WakeFair) => Wake!ParkedWorkIsTakenUp)
  /\ ((scenario = "whole" /\ WholeFair) => Whole!Ends)
  /\ ((scenario = "life" /\ LifeFair) => Life!EveryRequestAnswered)
  /\ ((scenario = "stream" /\ StreamFair) => Stream!Settles)

ParkedFair ==
  WF_healthVars(scenario = "parked" /\ Parked!Tick) /\ \A p \in {"p"} : WF_healthVars(scenario = "parked" /\ Parked!UsageFails(p))

ReplacedFair == WF_verdictVars(scenario = "replaced" /\ Replaced!Discover)

ReadsFair ==
  WF_usageVars(scenario = "reading" /\ Reads!TimesOut) /\ WF_usageVars(scenario = "reading" /\ Reads!Handle)

GapFair ==
  \A r \in {"r1", "r2", "r3"} : SF_proxyVars(scenario = "gap" /\ Gap!Progress(r))

StartsFair ==
  \A r \in {"r1", "r2", "r3"} : SF_proxyVars(scenario = "start" /\ Starts!Progress(r))

SlotsFair ==
  /\ WF_slotsVars(scenario = "slots" /\ Slots!Discover) /\ WF_slotsVars(scenario = "slots" /\ Slots!SyncStarts(FALSE)) /\ SF_slotsVars(scenario = "slots" /\ Slots!SyncEnds)
  /\ WF_slotsVars(scenario = "slots" /\ Slots!HostForgets) /\ WF_slotsVars(scenario = "slots" /\ Slots!RemoveAuthSlot) /\ WF_slotsVars(scenario = "slots" /\ Slots!RemoveDiscovers) /\ WF_slotsVars(scenario = "slots" /\ Slots!ClearWipes)
  /\ \A s \in Slots!Slot : /\ SF_slotsVars(scenario = "slots" /\ Slots!FetchReads(s)) /\ SF_slotsVars(scenario = "slots" /\ Slots!FetchAnswers(s)) /\ WF_slotsVars(scenario = "slots" /\ Slots!CatalogAges(s))

AuthFair ==
  /\ WF_authVars(scenario = "auth" /\ Auth!Age)
  /\ SF_authVars(scenario = "auth" /\ \E p \in {"p1", "p2"} : Auth!Evict(p))
  /\ WF_authVars(scenario = "auth" /\ \E p \in {"p1", "p2"} : Auth!GiveUpWaiting(p))

LockFair ==
  (\A w \in {"w1", "w2"} : WF_settingsVars(scenario = "lock" /\ Lock!Step(w))) /\ WF_settingsVars(scenario = "lock" /\ Lock!Evict)

\* What is out of date is put right: an account is not parked for ever, a
\* replaced login comes back, a reading settles, a gap of the proxy closes,
\* its start settles, slots show their own models, and no lock is held for
\* ever.
StateSettles ==
  /\ ((scenario = "parked" /\ ParkedFair) => Parked!NeverParkedForever)
  /\ ((scenario = "replaced" /\ ReplacedFair) => Replaced!ReplacedComesBack)
  /\ ((scenario = "reading" /\ ReadsFair) => Reads!Settles)
  /\ ((scenario = "gap" /\ GapFair) => Gap!GapCloses)
  /\ ((scenario = "start" /\ StartsFair) => Starts!StartSettles)
  /\ ((scenario = "slots" /\ SlotsFair) => Slots!ShownSettles)
  /\ ((scenario = "auth" /\ AuthFair) => Auth!AbandonedLockRecovered)
  /\ ((scenario = "lock" /\ LockFair) => Lock!LockIsFreed)
=============================================================================

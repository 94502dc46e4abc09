----------------------------- MODULE MCAccounts -----------------------------
(***************************************************************************)
(* What is known of each account: its benches and refusals, the verdict on *)
(* its login, the readings of its usage; and the proxy that serves         *)
(* children with them.                                                     *)
(***************************************************************************)
EXTENDS ProxyRequest, Naturals, Sequences, TLC

CONSTANTS
  Scenarios

VARIABLES
  scenario,  \* the instance this behaviour is one of, of Scenarios
  healthAccount, cooldown, refused, healthRetry, streak, untrusted,
  healthInvalid, healthUsage, fetching, handler, healthSent, owed, heard,  \* AccountHealth
  verdictToken, verdictKnown, carries, verdictRefreshing, failures,
  verdictInvalid, rejected, verdictCurrent, strikes,  \* AccountVerdict
  family, now, readingAccount, used, allowed, readingPhase, asker, retried,
  reply, result, snap, asks, turn,  \* UsageReading
  holder, auth, models, usable, members, ready, publisher, handlerOwner,
  server, starting, proxyRoutes, pc, bind, port, closed, foreign, stray, busy,
  proxyLeft, crashes, losses  \* SharedProxy

healthVars == <<healthAccount, cooldown, refused, healthRetry, streak,
    untrusted, healthInvalid, healthUsage, fetching, handler, healthSent,
    owed, heard>>
verdictVars == <<verdictToken, verdictKnown, carries, verdictRefreshing,
    failures, verdictInvalid, rejected, verdictCurrent, strikes>>
usageVars == <<family, now, readingAccount, used, allowed, readingPhase,
    asker, retried, reply, result, snap, asks, turn>>
proxyVars == <<holder, auth, models, usable, members, ready, publisher,
    handlerOwner, server, starting, proxyRoutes, pc, bind, port, closed,
    foreign, stray, busy, proxyLeft, crashes, losses>>
requestVars == vars
allVars == <<scenario, healthVars, verdictVars, usageVars, proxyVars, requestVars>>

\* The slots of the proxy's requests: Pi's own Anthropic and a ChatGPT login.
TwoFamilies == [anthropic |-> "anthropic", chatgpt |-> "openai"]

\* Roots of one process, the first two for the same session; or r3 in another process.
OneHome == [r1 |-> "p1", r2 |-> "p1", r3 |-> "p1"]
Resumed == [r1 |-> "s1", r2 |-> "s1", r3 |-> "s3"]
TwoHomes == [r1 |-> "p1", r2 |-> "p1", r3 |-> "p2"]
Distinct == [r1 |-> "s1", r2 |-> "s2", r3 |-> "s3"]

\* One reading of each kind: nothing said, headroom, a full window, a verdict.
EveryKind == {[says |-> "unsaid", full |-> 5], [says |-> "unsaid", full |-> 0],
              [says |-> "unsaid", full |-> 4], [says |-> "yes", full |-> 4],
              [says |-> "no", full |-> 0]}

One == INSTANCE AccountHealth WITH
  Slot <- {"p"}, Metered <- {"p"}, Cheap <- {"p"}, Accounts <- 1, Live <- 4,
  Recheck <- 3, Default <- 3, Transient <- 1, Floor <- 2, Ttl <- 2,
  Streak <- 3, Distrust <- 4, Reading <- EveryKind, account <- healthAccount,
  retry <- healthRetry, invalid <- healthInvalid, usage <- healthUsage,
  sent <- healthSent
Shared == INSTANCE AccountHealth WITH
  Slot <- {"p", "q"}, Metered <- {}, Cheap <- {"p", "q"}, Accounts <- 2,
  Live <- 3, Recheck <- 2, Default <- 2, Transient <- 1, Floor <- 1, Ttl <- 1,
  Streak <- 1, Distrust <- 1, Reading <- {}, account <- healthAccount,
  retry <- healthRetry, invalid <- healthInvalid, usage <- healthUsage,
  sent <- healthSent
OAuth == INSTANCE AccountVerdict WITH
  Request <- 1..2, Refreshable <- TRUE, MaxDistinct <- 3, MaxSameKey <- 2,
  MaxToken <- 4, token <- verdictToken, known <- verdictKnown,
  refreshing <- verdictRefreshing, invalid <- verdictInvalid,
  current <- verdictCurrent
Key == INSTANCE AccountVerdict WITH
  Request <- 1..2, Refreshable <- FALSE, MaxDistinct <- 3, MaxSameKey <- 2,
  MaxToken <- 4, token <- verdictToken, known <- verdictKnown,
  refreshing <- verdictRefreshing, invalid <- verdictInvalid,
  current <- verdictCurrent
Shapes == INSTANCE UsageReading WITH
  Families <- {"codex", "anthropic", "ollama", "cursor", "xai", "zai-coding-cn", "qwen"},
  Sent <- {"p", "s", "allowed", "denied", "reached", "unreached", "config", "credit", "product", "period", "legacy", "good", "less", "percent", "end", "name", "plan"},
  MaxTime <- 3, MaxAsks <- 1, Logins <- FALSE, Turns <- TRUE,
  account <- readingAccount, phase <- readingPhase
Ages == INSTANCE UsageReading WITH
  Families <- {"xai", "zai-coding-cn", "cursor"},
  Sent <- {"p", "s", "allowed", "denied", "reached", "unreached", "config", "credit", "product", "period", "legacy", "good", "less", "percent", "end", "name", "plan"},
  MaxTime <- 4, MaxAsks <- 1, Logins <- FALSE, Turns <- TRUE,
  account <- readingAccount, phase <- readingPhase
Relogin == INSTANCE UsageReading WITH
  Families <- {"codex", "ollama"},
  Sent <- {"p", "allowed", "denied", "email", "plan"}, MaxTime <- 3,
  MaxAsks <- 2, Logins <- TRUE, Turns <- FALSE, account <- readingAccount,
  phase <- readingPhase
Process == INSTANCE SharedProxy WITH
  Proc <- {"p1", "p2"}, Root <- {"r1", "r2", "r3"}, Nobody <- "nobody",
  Home <- OneHome, Session <- Resumed, Off <- {}, MaxCrashes <- 0,
  MaxLoss <- 2, Contended <- FALSE, ListenFails <- TRUE,
  routes <- proxyRoutes, left <- proxyLeft
Disabled == INSTANCE SharedProxy WITH
  Proc <- {"p1", "p2"}, Root <- {"r1", "r2", "r3"}, Nobody <- "nobody",
  Home <- OneHome, Session <- Distinct, Off <- {"r2"}, MaxCrashes <- 0,
  MaxLoss <- 2, Contended <- FALSE, ListenFails <- FALSE,
  routes <- proxyRoutes, left <- proxyLeft
Machine == INSTANCE SharedProxy WITH
  Proc <- {"p1", "p2"}, Root <- {"r1", "r2", "r3"}, Nobody <- "nobody",
  Home <- TwoHomes, Session <- Distinct, Off <- {}, MaxCrashes <- 1,
  MaxLoss <- 0, Contended <- TRUE, ListenFails <- FALSE,
  routes <- proxyRoutes, left <- proxyLeft

ASSUME
  /\ One!HealthAssumption
  /\ Shared!HealthAssumption
  /\ OAuth!VerdictAssumption
  /\ Key!VerdictAssumption
  /\ Shapes!UsageAssumption
  /\ Ages!UsageAssumption
  /\ Relogin!UsageAssumption
  /\ Process!SharedProxyAssumption
  /\ Disabled!SharedProxyAssumption
  /\ Machine!SharedProxyAssumption
  /\ ProxyRequestAssumption

\* A behaviour moves one component; the others rest in an initial state.
Rest(moving) ==
  /\ IF moving = "health" THEN TRUE ELSE One!Init
  /\ IF moving = "verdict" THEN TRUE ELSE OAuth!Init
  /\ IF moving = "usage" THEN TRUE ELSE Shapes!Init /\ family = "codex" /\ allowed[1] /\ used[1].p = 0 /\ used[1].s = 0
  /\ IF moving = "proxy" THEN TRUE ELSE Process!Init /\ usable
  /\ IF moving = "request" THEN TRUE ELSE Init /\ (\A s \in Slot : store[s] = NoEntry) /\ req.path.slot = "chatgpt"

Stays(moving) ==
  /\ IF moving = "health" THEN TRUE ELSE UNCHANGED healthVars
  /\ IF moving = "verdict" THEN TRUE ELSE UNCHANGED verdictVars
  /\ IF moving = "usage" THEN TRUE ELSE UNCHANGED usageVars
  /\ IF moving = "proxy" THEN TRUE ELSE UNCHANGED proxyVars
  /\ IF moving = "request" THEN TRUE ELSE UNCHANGED requestVars

SuiteInit ==
  /\ scenario \in Scenarios
  /\ \/ scenario = "one" /\ One!Init /\ Rest("health")
     \/ scenario = "shared" /\ Shared!Init /\ Rest("health")
     \/ scenario = "oauth" /\ OAuth!Init /\ Rest("verdict")
     \/ scenario = "key" /\ Key!Init /\ Rest("verdict")
     \/ scenario = "shapes" /\ Shapes!Init /\ Rest("usage")
     \/ scenario = "ages" /\ Ages!Init /\ Rest("usage")
     \/ scenario = "logins" /\ Relogin!Init /\ Rest("usage")
     \/ scenario = "process" /\ Process!Init /\ Rest("proxy")
     \/ scenario = "disabled" /\ Disabled!Init /\ Rest("proxy")
     \/ scenario = "machine" /\ Machine!Init /\ Rest("proxy")
     \/ scenario = "request" /\ Init /\ Rest("request")

SuiteNext ==
  /\ scenario' = scenario
  /\ \/ scenario = "one" /\ One!Next /\ Stays("health")
     \/ scenario = "shared" /\ Shared!Next /\ Stays("health")
     \/ scenario = "oauth" /\ OAuth!Next /\ Stays("verdict")
     \/ scenario = "key" /\ Key!Next /\ Stays("verdict")
     \/ scenario = "shapes" /\ Shapes!Next /\ Stays("usage")
     \/ scenario = "ages" /\ Ages!Next /\ Stays("usage")
     \/ scenario = "logins" /\ Relogin!Next /\ Stays("usage")
     \/ scenario = "process" /\ Process!Next /\ Stays("proxy")
     \/ scenario = "disabled" /\ Disabled!Next /\ Stays("proxy")
     \/ scenario = "machine" /\ Machine!Next /\ Stays("proxy")
     \/ scenario = "request" /\ Next /\ Stays("request")

SuiteSpec == SuiteInit /\ [][SuiteNext]_allVars

-----------------------------------------------------------------------------
\* No request goes to an account of the session's own accord within the delay
\* after its refusal, whichever of its slots was asked, whatever readings
\* arrive, are reconciled or were awaited meanwhile (limitRefusalByProvider):
\* the bookkeeping implements AccountFence.
FenceRespected ==
  /\ scenario = "one" => One!Fence!Init
  /\ scenario = "shared" => Shared!Fence!Init
  /\ [][/\ (scenario = "one" => One!FenceRespectedStep)
        /\ (scenario = "shared" => Shared!FenceRespectedStep)]_allVars

\* The roots of the machine share one listener: the processes implement
\* ChildLease.
LeaseRespected ==
  /\ scenario = "machine" => Machine!Lease!Init
  /\ [][scenario = "machine" => Machine!LeaseRespectedStep]_allVars

\* An account is benched and condemned for cause: an older reading of headroom
\* lifts no refusal, it is asked again within the recheck period and not at
\* once, verdicts count rejections in a row and no fault of a refresh.
BenchedForCause ==
  /\ [](/\ (scenario = "one" => One!TypeOK)
       /\ (scenario = "oauth" => OAuth!TypeOK)
       /\ (scenario = "one" => One!OldHeadroomErasesNothing)
       /\ (scenario = "one" => One!AskedWithinRecheck)
       /\ (scenario = "one" => One!NoHotRetry))
  /\ [][/\ (scenario = "oauth" => OAuth!CountsInARowStep)
        /\ (scenario = "key" => Key!CountsInARowStep)
        /\ (scenario = "oauth" => OAuth!RefreshFaultNeverKillsStep)]_allVars


\* The roots of a machine share one listener: a live root answers for the
\* children, none keeps a private listener or a needless gap, files are
\* written by the holder only, a disabled slot's siblings move and nothing is
\* left behind by the last root.
OneListenerServes ==
  /\ [](/\ (scenario = "process" => Process!TypeOK)
       /\ (scenario = "machine" => Machine!TypeOK)
       /\ (scenario = "process" => Process!OnlyLiveRootAnswers)
       /\ (scenario = "process" => Process!NoNeedlessGap)
       /\ (scenario = "disabled" => Disabled!DisabledSiblingMoved)
       /\ (scenario = "disabled" => Disabled!PlaceholderIsServed)
       /\ (scenario = "disabled" => Disabled!NothingLeft)
       /\ (scenario = "machine" => Machine!NoPrivateListener)
       /\ (scenario = "machine" => Machine!PublicationStands))
  /\ [][/\ (scenario = "machine" => Machine!OnlyHolderWritesStep)]_allVars
=============================================================================

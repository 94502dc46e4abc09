------------------------------ MODULE MCRouting -----------------------------
(***************************************************************************)
(* The choice of a route, the user's own choice of a model, the thinking   *)
(* level that goes with it, and the slots the accounts live in: those of   *)
(* Google's Antigravity, whose catalog goes with the account, are the      *)
(* module's own AntigravitySlot.                                           *)
(***************************************************************************)
EXTENDS AntigravitySlot, Naturals, Sequences, TLC

CONSTANTS
  Scenarios

VARIABLES
  scenario,  \* the instance this behaviour is one of, of Scenarios
  config, routeAuth, routeH, cur, left, last, did, choice, walk,  \* RouteChoice
  manualCurrent, forecast, turn, manualAt, manualTo, manualFresh,
  manualTarget, manualPin, covered, probePin, routeOwns, armed, owed, strayed,
  probe, choices, messages, forecasts,  \* ManualChoice
  thinkingModel, level, events, phase, byUser, desired, clamp, seenLevel,
  seenModel, pending, thinkingTarget, saved, wish, users, switches, starts,  \* ThinkingIntent
  slotsAuth, tokens, dirty, logging, slotsSeen, cooldown, catalog, registered,
  shown, slotsHost, hostSeen, rotation, sync, fetch, command, hint  \* SlotDiscovery

routeVars == <<config, routeAuth, routeH, cur, left, last, did, choice, walk>>
manualVars == <<manualCurrent, forecast, turn, manualAt, manualTo,
    manualFresh, manualTarget, manualPin, covered, probePin, routeOwns, armed,
    owed, strayed, probe, choices, messages, forecasts>>
thinkingVars == <<thinkingModel, level, events, phase, byUser, desired, clamp,
    seenLevel, seenModel, pending, thinkingTarget, saved, wish, users,
    switches, starts>>
slotsVars == <<slotsAuth, tokens, dirty, logging, slotsSeen, cooldown,
    catalog, registered, shown, slotsHost, hostSeen, rotation, sync, fetch,
    command, hint>>
evidenceVars == vars
allVars == <<scenario, routeVars, manualVars, thinkingVars, slotsVars, evidenceVars>>

AllModels == {"sol", "solHigh", "old", "terra", "opus", "sonnet", "odd", "astra"}
MCGroup(p) == CASE p \in {"codex", "codex2"} -> "codex" [] p \in {"direct", "direct2"} -> "dual" [] OTHER -> p
MCIdentity(m) == IF m = "solHigh" THEN "sol" ELSE m
MCBand(m, p) ==
  CASE m \in {"sol", "solHigh", "old", "opus"} -> "frontier" [] m \in {"terra", "sonnet"} -> "balanced"
    [] m = "astra" /\ p \in {"codex", "codex2", "direct"} -> "apex" [] OTHER -> "none"
MCApex(m) == m = "astra"
MCPaid(p) == p = "direct"
MCPreferred(g) ==
  CASE g = "codex" -> <<"sol", "old">> [] g = "claude" -> <<"opus", "sonnet">> [] g = "dual" -> <<"sol">> [] OTHER -> <<>>

NoPin == [g \in {"codex", "claude", "router", "dual"} |-> "none"]
Settings == [fallbacks |-> <<>>, autoDiscover |-> TRUE, latest |-> TRUE, pin |-> NoPin,
         ladder |-> <<"claude", "codex">>, excluded |-> {}]
At(p, m) == [p |-> p, m |-> m]

\* Three accounts, one slot each.
FamilyOrder == <<"codex", "codex2", "claude">>
FamilyRegistry(p) ==
  CASE p = "codex" -> <<"sol", "old", "terra">> [] p = "codex2" -> <<"old", "solHigh">>
    [] p = "claude" -> <<"opus", "sonnet">> [] OTHER -> <<"odd", "opus">>
FamilyLogins(p) == {p}
FamilyCurrent == {At("codex", "sol"), At("codex2", "old")}
FamilyConfigs == {[Settings EXCEPT !.latest = FALSE, !.ladder = <<>>], [Settings EXCEPT !.pin["codex"] = "old"]}

\* The same with a reseller, whose models are of no known band, and `next`.
RingOrder == <<"codex", "codex2", "claude", "router">>
RingRegistry(p) == IF p = "router" THEN <<"odd", "opus">> ELSE FamilyRegistry(p)
RingLogins(p) == {p}
RingCurrent == {At("codex", "sol"), At("router", "odd")}
RingConfigs == {[Settings EXCEPT !.fallbacks = <<At("claude", "opus"), At("codex2", "none")>>]}

\* The apex line: a Codex account, and a vendor with a subscription and a key.
BandsOrder == <<"codex", "direct2", "direct">>
BandsRegistry(p) ==
  CASE p = "codex" -> <<"sol", "astra">> [] p = "direct2" -> <<"sol", "astra">> [] OTHER -> <<"astra", "sol">>
BandsLogins(p) == {p}
BandsCurrent == {At("codex", "astra"), At("direct2", "sol"), At("direct2", "astra")}
BandsConfigs == {Settings, [Settings EXCEPT !.fallbacks = <<At("direct", "astra")>>], [Settings EXCEPT !.excluded = {"direct2"}]}

\* Two slots that may hold one login, and a third account.
LoginsOrder == <<"codex", "codex2", "claude">>
LoginsRegistry(p) == FamilyRegistry(p)
LoginsLogins(p) == CASE p = "codex" -> {"ada"} [] p = "codex2" -> {"ada", "ben", "none"} [] OTHER -> {"eve"}
LoginsCurrent == {At("codex", "sol")}
LoginsConfigs == {Settings, [Settings EXCEPT !.fallbacks = <<At("codex2", "none"), At("codex", "none")>>, !.autoDiscover = FALSE]}

\* Three models, for every level, the middle one and the lowest; no defaults, or one each.
Cap == [a |-> 3, b |-> 2, c |-> 1]
NoDefaults == [a |-> 0, b |-> 0, c |-> 0]
AllDefaults == [a |-> 2, b |-> 1, c |-> 1]

Family == INSTANCE RouteChoice WITH
  Order <- FamilyOrder, Model <- AllModels, Group <- MCGroup,
  Registry <- FamilyRegistry, Preferred <- MCPreferred,
  Identity <- MCIdentity, Band <- MCBand, Apex <- MCApex, Paid <- MCPaid,
  Configs <- FamilyConfigs, Logins <- FamilyLogins, Current <- FamilyCurrent,
  Readings <- {}, Faults <- {"model"}, MaxCool <- 1, MaxSteps <- 0,
  None <- "none", auth <- routeAuth, h <- routeH
Ring == INSTANCE RouteChoice WITH
  Order <- RingOrder, Model <- AllModels, Group <- MCGroup,
  Registry <- RingRegistry, Preferred <- MCPreferred, Identity <- MCIdentity,
  Band <- MCBand, Apex <- MCApex, Paid <- MCPaid, Configs <- RingConfigs,
  Logins <- RingLogins, Current <- RingCurrent, Readings <- {},
  Faults <- {"model"}, MaxCool <- 0, MaxSteps <- 4, None <- "none",
  auth <- routeAuth, h <- routeH
Bands == INSTANCE RouteChoice WITH
  Order <- BandsOrder, Model <- AllModels, Group <- MCGroup,
  Registry <- BandsRegistry, Preferred <- MCPreferred, Identity <- MCIdentity,
  Band <- MCBand, Apex <- MCApex, Paid <- MCPaid, Configs <- BandsConfigs,
  Logins <- BandsLogins, Current <- BandsCurrent, Readings <- {"busy"},
  Faults <- {"setModel"}, MaxCool <- 1, MaxSteps <- 1, None <- "none",
  auth <- routeAuth, h <- routeH
Logins == INSTANCE RouteChoice WITH
  Order <- LoginsOrder, Model <- AllModels, Group <- MCGroup,
  Registry <- LoginsRegistry, Preferred <- MCPreferred,
  Identity <- MCIdentity, Band <- MCBand, Apex <- MCApex, Paid <- MCPaid,
  Configs <- LoginsConfigs, Logins <- LoginsLogins, Current <- LoginsCurrent,
  Readings <- {}, Faults <- {"auth"}, MaxCool <- 1, MaxSteps <- 0,
  None <- "none", auth <- routeAuth, h <- routeH
Manual == INSTANCE ManualChoice WITH
  Accounts <- {"a", "b", "c"}, None <- "none", SlowSet <- FALSE,
  MidMessage <- TRUE, MaxChoices <- 1, MaxMessages <- 2, MaxForecasts <- 1,
  current <- manualCurrent, at <- manualAt, to <- manualTo,
  fresh <- manualFresh, target <- manualTarget, pin <- manualPin
Thinking == INSTANCE ThinkingIntent WITH
  Models <- {"a", "b", "c"}, None <- "none", Cap <- Cap, Native <- NoDefaults,
  Levels <- 1..3, HostOwns <- FALSE, UserModels <- FALSE,
  Order <- {"before", "after"}, Preflight <- FALSE, During <- FALSE,
  MaxUser <- 3, MaxSwitches <- 3, MaxStarts <- 2, model <- thinkingModel,
  target <- thinkingTarget
Native == INSTANCE ThinkingIntent WITH
  Models <- {"a", "b", "c"}, None <- "none", Cap <- Cap,
  Native <- AllDefaults, Levels <- 1..3, HostOwns <- TRUE, UserModels <- TRUE,
  Order <- {"before", "after"}, Preflight <- FALSE, During <- FALSE,
  MaxUser <- 3, MaxSwitches <- 3, MaxStarts <- 1, model <- thinkingModel,
  target <- thinkingTarget
Spare == INSTANCE SlotDiscovery WITH
  MaxAccounts <- 3, Account <- {"ada", "opaque"}, Opaque <- {"opaque"},
  AutoDiscover <- FALSE, Commands <- {"add", "remove"},
  Ways <- {"meanwhile", "afterLogout"}, Limits <- FALSE, MaxToken <- 3,
  MaxHost <- 0, auth <- slotsAuth, seen <- slotsSeen, host <- slotsHost
Lists == INSTANCE SlotDiscovery WITH
  MaxAccounts <- 2, Account <- {"ada", "ben"}, Opaque <- {},
  AutoDiscover <- TRUE, Commands <- {}, Ways <- {"meanwhile"},
  Limits <- FALSE, MaxToken <- 2, MaxHost <- 1, auth <- slotsAuth,
  seen <- slotsSeen, host <- slotsHost
Kept == INSTANCE SlotDiscovery WITH
  MaxAccounts <- 2, Account <- {"ada", "ben"}, Opaque <- {},
  AutoDiscover <- FALSE, Commands <- {"remove", "clear", "revive"},
  Ways <- {"restarts"}, Limits <- TRUE, MaxToken <- 3, MaxHost <- 0,
  auth <- slotsAuth, seen <- slotsSeen, host <- slotsHost
Own == INSTANCE SlotDiscovery WITH
  MaxAccounts <- 2, Account <- {"ada", "ben"}, Opaque <- {},
  AutoDiscover <- TRUE, Commands <- {"remove"}, Ways <- {}, Limits <- FALSE,
  MaxToken <- 2, MaxHost <- 0, auth <- slotsAuth, seen <- slotsSeen,
  host <- slotsHost

ASSUME
  /\ SlotAssumption
  /\ Family!RouteAssumption
  /\ Ring!RouteAssumption
  /\ Bands!RouteAssumption
  /\ Logins!RouteAssumption
  /\ Thinking!CapAssumption
  /\ Native!CapAssumption
  /\ Spare!SlotAssumption
  /\ Lists!SlotAssumption
  /\ Kept!SlotAssumption
  /\ Own!SlotAssumption

\* A behaviour moves one component; the others rest in an initial state.
Rest(moving) ==
  /\ IF moving = "route" THEN TRUE ELSE Family!Init /\ config.latest = FALSE /\ cur.p = "codex"
  /\ IF moving = "manual" THEN TRUE ELSE Manual!Init /\ manualCurrent = "a" /\ forecast = [x \in {"a", "b", "c"} |-> "ready"]
  /\ IF moving = "thinking" THEN TRUE ELSE Thinking!Init /\ thinkingModel = "a"
  /\ IF moving = "slots" THEN TRUE ELSE Spare!Init /\ slotsAuth[1].acct = "ada"
  /\ IF moving = "evidence" THEN TRUE ELSE Init /\ account = "a" /\ updatedAt = 0 /\ ~spent[0] /\ ~spent[1]

Stays(moving) ==
  /\ IF moving = "route" THEN TRUE ELSE UNCHANGED routeVars
  /\ IF moving = "manual" THEN TRUE ELSE UNCHANGED manualVars
  /\ IF moving = "thinking" THEN TRUE ELSE UNCHANGED thinkingVars
  /\ IF moving = "slots" THEN TRUE ELSE UNCHANGED slotsVars
  /\ IF moving = "evidence" THEN TRUE ELSE UNCHANGED evidenceVars

SuiteInit ==
  /\ scenario \in Scenarios
  /\ \/ scenario = "family" /\ Family!Init /\ Rest("route")
     \/ scenario = "ring" /\ Ring!Init /\ Rest("route")
     \/ scenario = "bands" /\ Bands!Init /\ Rest("route")
     \/ scenario = "logins" /\ Logins!Init /\ Rest("route")
     \/ scenario = "manual" /\ Manual!Init /\ Rest("manual")
     \/ scenario = "thinking" /\ Thinking!Init /\ Rest("thinking")
     \/ scenario = "native" /\ Native!Init /\ Rest("thinking")
     \/ scenario = "spare" /\ Spare!Init /\ Rest("slots")
     \/ scenario = "lists" /\ Lists!Init /\ Rest("slots")
     \/ scenario = "kept" /\ Kept!Init /\ Rest("slots")
     \/ scenario = "own" /\ Own!Init /\ Rest("slots")
     \/ scenario = "evidence" /\ Init /\ account = "a" /\ Rest("evidence")

SuiteNext ==
  /\ scenario' = scenario
  /\ \/ scenario = "family" /\ Family!Next /\ Stays("route")
     \/ scenario = "ring" /\ Ring!Next /\ Stays("route")
     \/ scenario = "bands" /\ Bands!Next /\ Stays("route")
     \/ scenario = "logins" /\ Logins!Next /\ Stays("route")
     \/ scenario = "manual" /\ Manual!Next /\ Stays("manual")
     \/ scenario = "thinking" /\ Thinking!Next /\ Stays("thinking")
     \/ scenario = "native" /\ Native!Next /\ Stays("thinking")
     \/ scenario = "spare" /\ Spare!Next /\ Stays("slots")
     \/ scenario = "lists" /\ Lists!Next /\ Stays("slots")
     \/ scenario = "kept" /\ Kept!Next /\ Stays("slots")
     \/ scenario = "own" /\ Own!Next /\ Stays("slots")
     \/ scenario = "evidence" /\ Next /\ Stays("evidence")

SuiteSpec == SuiteInit /\ [][SuiteNext]_allVars

-----------------------------------------------------------------------------
\* Work moves to a ready account, a sibling first, within the band the user
\* picked and not from a subscription to a paid key; no login is tried under
\* two names, `next` comes to all, and every login carries work.
RouteHolds ==
  /\ [](/\ (scenario = "family" => Family!TypeOK)
       /\ (scenario = "ring" => Ring!BandOfChoice)
       /\ (scenario = "bands" => Bands!BandOfChoice)
       /\ (scenario = "ring" => Ring!RingComplete)
       /\ (scenario = "logins" => Logins!AccountOnce)
       /\ (scenario = "logins" => Logins!EveryAccountServed))
  /\ [][/\ (scenario = "family" => Family!SiblingFirstStep)
        /\ (scenario = "family" => Family!MovesToReadyStep)
        /\ (scenario = "logins" => Logins!MovesToReadyStep)
        /\ (scenario = "bands" => Bands!NoSilentBillStep)]_allVars


=============================================================================

---------------------------- MODULE ManualChoice ----------------------------
(***************************************************************************)
(* An account picked by hand (src/index.ts: /multi-account switch, next,   *)
(* best, and Pi's /model) against the two places that switch by            *)
(* themselves: the preflight of a message, which the input hook and        *)
(* before_agent_start both run, and the failover after a refused turn.     *)
(* The choice is owed one message, whatever the forecast of the account    *)
(* says; the next message retires it.                                      *)
(*                                                                         *)
(* Three processes change the model: "cmd" (the user's command), "msg"     *)
(* (the message under way) and "fo" (message_end and the continuation).    *)
(* chainEpoch is not a counter here: every claim on the session makes the  *)
(* copies the processes hold stale, and fresh says which copies still      *)
(* match.  A forecast is "ready", "stale" (the meter says spent, no        *)
(* refusal yet: a switch may go there) or "spent".                         *)
(*                                                                         *)
(* Quality bands, the ladder, child sessions and the wait for recovery     *)
(* are left out (RouteChoice, FailoverChain); so is the queue of held      *)
(* messages, to which no line of the program adds.                         *)
(***************************************************************************)
EXTENDS Integers, FiniteSets

CONSTANTS Accounts, None,
          SlowSet,            \* others may act while a setModel is under way
          MidMessage,         \* the user may choose while a message is under way
          MaxChoices, MaxMessages, MaxForecasts

VARIABLES current,            \* ctx.model
          forecast,           \* [Accounts -> {"ready", "stale", "spent"}]
          turn,               \* the account the running turn was sent on
          at, to, fresh,      \* of each process: where it is, its target, its epoch
          target,             \* automaticModelTarget
          pin, covered,       \* manualPinnedProvider, manualPinCoveredMessage
          probePin,           \* failoverPinnedProvider (always covered)
          routeOwns,          \* manualRouteOwnsErrors
          armed,              \* currentPromptSwitch is set
          owed,               \* ghost: chosen by hand, nothing sent there yet
          strayed,            \* ghost: a message of this choice met a spent account
          probe,              \* ghost: where the failover went, nothing sent yet
          choices, messages, forecasts

pins == <<pin, covered, probePin, routeOwns>>
process == <<at, to, fresh>>
ghosts == <<owed, strayed, probe>>
counters == <<choices, messages, forecasts>>
vars == <<current, forecast, turn, process, target, pins, armed, ghosts, counters>>

Processes == {"cmd", "msg", "fo"}

Init ==
    /\ current \in Accounts
    /\ forecast \in [Accounts -> {"ready", "stale", "spent"}]
    /\ turn = None
    /\ at = [p \in Processes |-> "none"]
    /\ to = [p \in Processes |-> None]
    /\ fresh = [p \in Processes |-> FALSE]
    /\ target = None
    /\ pin = None /\ covered = FALSE /\ probePin = None /\ routeOwns = FALSE
    /\ armed = FALSE
    /\ owed = None /\ strayed = FALSE /\ probe = None
    /\ choices = 0 /\ messages = 0 /\ forecasts = 0

(* No setModel is under way, or others need not wait for it. *)
Free ==
    \/ SlowSet
    \/ \A p \in Processes :
          at[p] \notin {"setting", "landed", "set1", "set2", "landed1", "landed2"}

(* claimUserControl, for process p or for none: every other copy of the    *)
(* epoch is stale, an armed continuation is dropped.                       *)
Claim(p) ==
    /\ fresh' = [q \in Processes |-> q = p]
    /\ armed' = FALSE

Goes(p, place) == at' = [at EXCEPT ![p] = place]

(* activateFallback up to its setModel. *)
Sets(p, place, a) ==
    /\ at' = [at EXCEPT ![p] = place]
    /\ to' = [to EXCEPT ![p] = a]
    /\ target' = a

(* setModel reaches the host, and model_select runs: a change nobody named *)
(* as automatic is the user's.                                             *)
Lands(p, place) ==
    /\ current' = to[p]
    /\ Goes(p, place)
    /\ IF target = to[p]
       THEN target' = None /\ UNCHANGED <<fresh, armed, pins>>
       ELSE /\ Claim("none")
            /\ pin' = to[p] /\ covered' = FALSE
            /\ routeOwns' = TRUE
            /\ UNCHANGED <<target, probePin>>
    /\ UNCHANGED <<forecast, turn, to, ghosts, counters>>

(* before_agent_start and the start of the turn are one run of the host. *)
MayChoose(a) ==
    /\ Free
    /\ at["msg"] = "none" \/ (MidMessage /\ at["msg"] # "go")
    /\ a # current /\ choices < MaxChoices

Owes(a) ==
    /\ owed' = IF turn = a THEN None ELSE a
    /\ strayed' = FALSE
    /\ probe' = None

-----------------------------------------------------------------------------
(* /multi-account switch, next and best.  switch clears the cooldown first *)
(* (cleared), which makes the forecast ready unless a meter still says     *)
(* otherwise.                                                              *)
CommandSwitch(a, cleared) ==
    /\ MayChoose(a) /\ at["cmd"] = "none"
    /\ Claim("cmd")
    /\ routeOwns' = TRUE
    /\ forecast' = IF cleared THEN [forecast EXCEPT ![a] = "ready"] ELSE forecast
    /\ Sets("cmd", "setting", a)
    /\ Owes(a)
    /\ choices' = choices + 1
    /\ UNCHANGED <<current, turn, pin, covered, probePin, messages, forecasts>>

CommandLands == at["cmd"] = "setting" /\ Lands("cmd", "landed")

(* activateFallback returns; announceManualChoice pins where it landed. *)
CommandReturns ==
    /\ at["cmd"] = "landed"
    /\ Goes("cmd", "none")
    /\ IF fresh["cmd"] THEN pin' = current /\ covered' = FALSE ELSE UNCHANGED <<pin, covered>>
    /\ UNCHANGED <<current, forecast, turn, to, fresh, target, probePin, routeOwns, armed, ghosts, counters>>

(* Pi's own /model. *)
UserSelects(a) ==
    /\ MayChoose(a)
    /\ current' = a
    /\ IF target = a
       THEN target' = None /\ UNCHANGED <<fresh, armed, pins>>
       ELSE /\ Claim("none")
            /\ pin' = a /\ covered' = FALSE /\ routeOwns' = TRUE
            /\ UNCHANGED <<target, probePin>>
    /\ Owes(a)
    /\ choices' = choices + 1
    /\ UNCHANGED <<forecast, turn, at, to, messages, forecasts>>

-----------------------------------------------------------------------------
Others == {a \in Accounts \ {current} : forecast[a] \in {"ready", "stale"}}

(* ensureReadyModel for process p: stay where the account is ready or      *)
(* pinned, or where there is nowhere to go; otherwise switch.  A candidate *)
(* that is the current account is benched on the way.                      *)
(* Mutant of Pinned: only the choice of the user counts. *)
PinnedByHand(probed) == current = pin

(* Mutant of Pinned: only the failover's own pin counts. *)
PinnedByFailover(probed) == current = probed

Pinned(probed) == current \in {pin, probed}

Stays(probed) == forecast[current] = "ready" \/ Pinned(probed) \/ Others = {}

EnsureReady(p, stays, sets, probed) ==
    IF Stays(probed)
    THEN /\ Goes(p, stays)
         /\ UNCHANGED <<to, target, forecast>>
    ELSE \E a \in Others :
            /\ Sets(p, sets, a)
            /\ forecast' = [forecast EXCEPT ![current] = "spent"]

(* A pin that was asked for has covered the message. *)
Covers(retired) == retired \/ (forecast[current] # "ready" /\ pin = current)

(* Mutant of Retired: a pin that had its message stays. *)
NeverRetired == pin

(* retireSpentManualPin *)
Retired == IF covered THEN None ELSE pin

(* The input hook, on an idle session, once the answer of the last command *)
(* is there.                                                               *)
Input ==
    /\ Free
    /\ at["msg"] = "none" /\ turn = None /\ at["fo"] = "none" /\ at["cmd"] = "none"
    /\ messages < MaxMessages
    /\ messages' = messages + 1
    /\ Claim("msg")
    /\ Goes("msg", "ready1")
    /\ pin' = Retired
    /\ covered' = covered
    /\ probePin' = None
    /\ UNCHANGED <<current, forecast, turn, to, target, routeOwns, ghosts, choices, forecasts>>

(* Its preflight, and that of before_agent_start. *)
InputPreflight ==
    /\ Free /\ at["msg"] = "ready1"
    /\ EnsureReady("msg", "host", "set1", None)
    /\ covered' = Covers(covered)
    /\ UNCHANGED <<current, turn, fresh, pin, probePin, routeOwns, armed, ghosts, counters>>

BeforeAgentStart ==
    /\ Free /\ at["msg"] = "host"
    /\ Claim("msg")
    /\ EnsureReady("msg", "go", "set2", probePin)
    /\ covered' = Covers(covered)
    /\ UNCHANGED <<current, turn, pin, probePin, routeOwns, ghosts, counters>>

MessageLands ==
    \/ at["msg"] = "set1" /\ Lands("msg", "landed1")
    \/ at["msg"] = "set2" /\ Lands("msg", "landed2")

(* Stale or not, the message goes on to the host. *)
MessageReturns ==
    /\ at["msg"] \in {"landed1", "landed2"}
    /\ Goes("msg", IF at["msg"] = "landed1" THEN "host" ELSE "go")
    /\ UNCHANGED <<current, forecast, turn, to, fresh, target, pins, armed, ghosts, counters>>

Attempts(a) == owed' = IF owed = a THEN None ELSE owed

Stray == forecast[current] = "spent" /\ \E a \in Accounts : forecast[a] = "ready"

(* agent_start of the message. *)
TurnStarts ==
    /\ Free /\ at["msg"] = "go"
    /\ Goes("msg", "none")
    /\ turn' = current
    /\ target' = None
    /\ armed' = FALSE
    /\ Attempts(current)
    /\ strayed' = (strayed \/ Stray)
    /\ probe' = None
    /\ UNCHANGED <<current, forecast, to, fresh, pins, counters>>

-----------------------------------------------------------------------------
(* The turn ends well: agent_end advances the epoch. *)
TurnSucceeds ==
    /\ Free /\ turn # None /\ at["fo"] = "none"
    /\ turn' = None
    /\ forecast' = [forecast EXCEPT ![turn] = "ready"]
    /\ Claim("none")
    /\ UNCHANGED <<current, at, to, target, pins, ghosts, counters>>

(* Mutant of TurnRefused: a refusal is answered wherever it came from. *)
TurnRefusedAnywhere ==
    /\ Free /\ turn # None /\ at["fo"] = "none"
    /\ routeOwns' = FALSE
    /\ Goes("fo", "asked")
    /\ fresh' = [fresh EXCEPT !["fo"] = TRUE]
    /\ UNCHANGED <<current, forecast, turn, to, target, pin, covered, probePin, armed, ghosts, counters>>

(* Mutant of TurnRefused: the turn is over before its refusal is handled. *)
TurnRefusedOver ==
    /\ Free /\ turn # None /\ at["fo"] = "none"
    /\ routeOwns' = FALSE
    /\ Goes("fo", "asked")
    /\ fresh' = [fresh EXCEPT !["fo"] = TRUE]
    /\ turn' = None
    /\ UNCHANGED <<current, forecast, to, target, pin, covered, probePin, armed, ghosts, counters>>

(* message_end with a refusal.  A manual choice owns the route until the   *)
(* account it chose has failed itself.                                     *)
TurnRefused ==
    /\ Free /\ turn # None /\ at["fo"] = "none"
    /\ IF routeOwns /\ current # turn
       THEN /\ turn' = None
            /\ UNCHANGED <<at, fresh, routeOwns>>
       ELSE /\ routeOwns' = FALSE
            /\ Goes("fo", "asked")
            /\ fresh' = [fresh EXCEPT !["fo"] = TRUE]
            /\ UNCHANGED turn
    /\ UNCHANGED <<current, forecast, to, target, pin, covered, probePin, armed, ghosts, counters>>

(* The cooldown is known: bench the account and switch, unless the epoch   *)
(* has moved on.                                                           *)
FailoverBegins ==
    /\ Free /\ at["fo"] = "asked"
    /\ IF ~fresh["fo"]
       THEN Goes("fo", "end") /\ UNCHANGED <<forecast, to, target>>
       ELSE /\ forecast' = [forecast EXCEPT ![turn] = "spent"]
            /\ IF Others \ {turn} = {}
               THEN Goes("fo", "end") /\ UNCHANGED <<to, target>>
               ELSE \E a \in Others \ {turn} : Sets("fo", "setting", a)
    /\ UNCHANGED <<current, turn, fresh, pins, armed, ghosts, counters>>

FailoverLands == at["fo"] = "setting" /\ Lands("fo", "landed")

FailoverReturns ==
    /\ at["fo"] = "landed"
    /\ Goes("fo", "end")
    /\ IF fresh["fo"]
       THEN probePin' = to["fo"] /\ armed' = TRUE /\ probe' = to["fo"]
       ELSE UNCHANGED <<probePin, armed, probe>>
    /\ UNCHANGED <<current, forecast, turn, to, fresh, target, pin, covered, routeOwns, owed, strayed, counters>>

(* agent_end with an error: an armed continuation goes on by itself, or    *)
(* through an injected prompt, which before_agent_start preflights.        *)
AgentEndError ==
    /\ Free /\ at["fo"] = "end"
    /\ turn' = None
    /\ IF armed
       THEN Goes("fo", "cont") \/ Goes("fo", "inject")
       ELSE Goes("fo", "none")
    /\ UNCHANGED <<current, forecast, to, fresh, target, pins, armed, ghosts, counters>>

InjectPreflight ==
    /\ Free /\ at["fo"] = "inject"
    /\ Goes("fo", "injected")
    /\ IF Stays(probePin)
       THEN UNCHANGED <<current, forecast>>
       ELSE \E a \in Others :
               /\ current' = a
               /\ forecast' = [forecast EXCEPT ![current] = "spent"]
    /\ covered' = Covers(covered)
    /\ UNCHANGED <<turn, to, fresh, target, pin, probePin, routeOwns, armed, ghosts, counters>>

(* A continuation is dropped when the user has taken over; an injected     *)
(* prompt is with the host already.                                        *)
ContinuationStarts ==
    /\ Free /\ at["fo"] \in {"cont", "injected"}
    /\ Goes("fo", "none")
    /\ IF armed \/ at["fo"] = "injected"
       THEN turn' = current /\ target' = None /\ Attempts(current)
       ELSE UNCHANGED <<turn, target, owed>>
    /\ armed' = FALSE
    /\ probe' = None
    /\ UNCHANGED <<current, forecast, to, fresh, pins, strayed, counters>>

(* A usage snapshot changes the forecast of an account. *)
UsageArrives(a, f) ==
    /\ Free /\ at["msg"] = "none" /\ forecasts < MaxForecasts
    /\ forecast[a] # f
    /\ forecast' = [forecast EXCEPT ![a] = f]
    /\ forecasts' = forecasts + 1
    /\ UNCHANGED <<current, turn, process, target, pins, armed, ghosts, choices, messages>>

Next ==
    \/ \E a \in Accounts, c \in BOOLEAN : CommandSwitch(a, c)
    \/ \E a \in Accounts : UserSelects(a)
    \/ CommandLands \/ CommandReturns
    \/ Input \/ InputPreflight \/ BeforeAgentStart \/ MessageLands \/ MessageReturns \/ TurnStarts
    \/ TurnSucceeds \/ TurnRefused
    \/ FailoverBegins \/ FailoverLands \/ FailoverReturns
    \/ AgentEndError \/ InjectPreflight \/ ContinuationStarts
    \/ \E a \in Accounts, f \in {"ready", "stale", "spent"} : UsageArrives(a, f)

Spec == Init /\ [][Next]_vars

-----------------------------------------------------------------------------
TypeOK ==
    /\ current \in Accounts
    /\ forecast \in [Accounts -> {"ready", "stale", "spent"}]
    /\ turn \in Accounts \union {None}
    /\ to \in [Processes -> Accounts \union {None}]
    /\ fresh \in [Processes -> BOOLEAN]
    /\ {target, pin, probePin, owed, probe} \subseteq Accounts \union {None}
    /\ at["fo"] # "none" => turn # None \/ at["fo"] \in {"cont", "inject", "injected"}

(* The first message after a choice by hand is sent to the chosen account, *)
(* whatever its forecast says (GUARANTEES.md, row 11).                     *)
OwedOne == [][(TurnStarts /\ owed # None) => turn' = owed]_vars

(* A choice costs at most one message on a spent account while another one *)
(* is ready.                                                               *)
NotStranded == [][(TurnStarts /\ Stray) => ~strayed]_vars

(* No switch of the program's own leaves the chosen account before it was  *)
(* asked: neither the refusal of the turn that was running elsewhere, nor  *)
(* a forecast.                                                             *)
ChoiceStands == [][(owed # None /\ current = owed /\ owed' = owed) => current' = owed]_vars

(* The continuation after a failover is sent where the failover went: a    *)
(* preflight does not take a forecast for a verdict.                       *)
ProbeHeld == [][(ContinuationStarts /\ armed /\ probe # None) => turn' = probe]_vars
=============================================================================

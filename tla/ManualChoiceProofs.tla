-------------------------- MODULE ManualChoiceProofs --------------------------
(* Theorems about ManualChoice, for every number of accounts, choices,       *)
(* messages and forecasts, and choices in the middle of a message or not, on *)
(* a host whose setModel is over before it takes its next event.             *)
EXTENDS ManualChoice, TLAPS

-----------------------------------------------------------------------------
(* The inductive invariant.                                                  *)

Forecasts == {"ready", "stale", "spent"}
Setting == {"setting", "set1", "set2"}
Landed == {"landed", "landed1", "landed2"}
Places(p) == CASE p = "cmd" -> {"none", "setting", "landed"}
               [] p = "msg" -> {"none", "ready1", "set1", "landed1", "host", "set2", "landed2", "go"}
               [] p = "fo" -> {"none", "asked", "setting", "landed", "end", "cont", "inject", "injected"}
Maybe == Accounts \cup {None}

Typed ==
  /\ current \in Accounts /\ forecast \in [Accounts -> Forecasts]
  /\ at \in [Processes -> UNION {Places(p) : p \in Processes}]
  /\ \A p \in Processes : at[p] \in Places(p)
  /\ to \in [Processes -> Maybe] /\ fresh \in [Processes -> BOOLEAN]
  /\ turn \in Maybe /\ target \in Maybe /\ pin \in Maybe /\ probePin \in Maybe
  /\ owed \in Maybe /\ probe \in Maybe
  /\ covered \in BOOLEAN /\ routeOwns \in BOOLEAN /\ armed \in BOOLEAN /\ strayed \in BOOLEAN

\* A process is between setModel and its return: one at a time.
Midway(p) == at[p] \in Setting \cup Landed
OneSwitch ==
  /\ \A p, q \in Processes : Midway(p) /\ Midway(q) => p = q
  /\ \A p \in Processes : /\ at[p] \in Setting => to[p] \in Accounts /\ target = to[p]
                          /\ at[p] \in Landed => current = to[p]
  /\ (\A p \in Processes : at[p] \notin Setting) => target = None

\* A message and a failover do not overlap.
Turns ==
  /\ at["msg"] # "none" => turn = None /\ at["fo"] = "none" /\ probePin = None
  /\ at["fo"] \in {"asked", "setting", "landed", "end"} => turn # None
  /\ Midway("cmd") => fresh["cmd"] /\ ~strayed /\ probe = None /\ at["msg"] # "go"

\* A choice that is owed a message owns the route: the model is the chosen one, and
\* pinned, by a pin that has covered no message but the one under way.
ChoiceOwed ==
  owed # None =>
    /\ routeOwns /\ ~fresh["fo"] /\ turn # owed
    /\ ~Midway("msg") /\ ~Midway("fo")
    /\ Midway("cmd") => owed = to["cmd"]
    /\ ~Midway("cmd") => /\ current = owed /\ pin = owed
                         /\ covered => at["msg"] \in {"host", "go"} \/ at["fo"] = "injected"

\* A message goes to a spent account only for a pin that has covered it, and a choice
\* for which that happened has a pin no more once the next message is there.
PinSpent ==
  /\ at["msg"] = "set2" => forecast[to["msg"]] # "spent"
  /\ at["msg"] = "landed2" => forecast[current] # "spent"
  /\ at["msg"] = "go" /\ Stray => covered /\ pin = current
  /\ strayed => covered \/ pin = None
  /\ strayed /\ at["msg"] # "none" => pin = None

\* Where the failover went is the model, and pinned, up to the continuation.
ProbeWaits ==
  probe # None => /\ at["fo"] \in {"end", "cont", "inject", "injected"}
                  /\ armed /\ current = probe /\ probePin = probe

IInv == Typed /\ OneSwitch /\ Turns /\ ChoiceOwed /\ PinSpent /\ ProbeWaits

-----------------------------------------------------------------------------
(* The host between two events.                                             *)

LEMMA PlacesKnown ==
  /\ Processes = {"cmd", "msg", "fo"}
  /\ Places("cmd") = {"none", "setting", "landed"}
  /\ Places("msg") = {"none", "ready1", "set1", "landed1", "host", "set2", "landed2", "go"}
  /\ Places("fo") = {"none", "asked", "setting", "landed", "end", "cont", "inject", "injected"}
BY DEF Processes, Places

\* A process goes to one of its places, and may take a target with it.
LEMMA Moves ==
  ASSUME Typed, NEW p \in Processes, NEW s \in Places(p), at' = [at EXCEPT ![p] = s]
  PROVE  /\ at' \in [Processes -> UNION {Places(q) : q \in Processes}]
         /\ \A q \in Processes : at'[q] \in Places(q)
         /\ at'[p] = s /\ \A q \in Processes : q # p => at'[q] = at[q]
<1>1. at \in [Processes -> UNION {Places(q) : q \in Processes}] /\ \A q \in Processes : at[q] \in Places(q)
  BY DEF Typed
<1>2. s \in UNION {Places(q) : q \in Processes}
  OBVIOUS
<1>3. at' \in [Processes -> UNION {Places(q) : q \in Processes}]
  BY <1>1, <1>2, Zenon
<1>4. at'[p] = s /\ \A q \in Processes : q # p => at'[q] = at[q]
  BY <1>1
<1> QED
  BY <1>1, <1>3, <1>4

\* On a host whose setModel is over before the next event, nothing is under way then.
LEMMA Settled ==
  ASSUME IInv, SlowSet = FALSE, Free
  PROVE  target = None /\ \A p \in Processes : ~Midway(p) /\ at[p] \notin Setting
<1>1. \A p \in Processes : at[p] \notin {"setting", "landed", "set1", "set2", "landed1", "landed2"}
  BY DEF Free
<1>2. \A p \in Processes : ~Midway(p) /\ at[p] \notin Setting
  BY <1>1 DEF Midway, Setting, Landed
<1> QED
  BY <1>2 DEF IInv, OneSwitch

\* What a switch under way lands on is what the program named, so the host's event is
\* not taken for the user's.
LEMMA LandsNamed ==
  ASSUME IInv, NEW p \in Processes, at[p] \in Setting, NEW s, Lands(p, s)
  PROVE  /\ current' = to[p] /\ to[p] \in Accounts /\ at' = [at EXCEPT ![p] = s] /\ target' = None
         /\ UNCHANGED <<fresh, armed, pins, forecast, turn, to, ghosts>>
         /\ \A q \in Processes : q # p => ~Midway(q)
BY DEF IInv, OneSwitch, Lands, Goes, Midway

LEMMA InitInv ==
  ASSUME Init
  PROVE  IInv
<1>1. Typed
  <2>1. \A p \in Processes : at[p] = "none" /\ "none" \in Places(p)
    BY PlacesKnown DEF Init
  <2>2. at \in [Processes -> UNION {Places(p) : p \in Processes}]
    BY <2>1 DEF Init
  <2> QED
    BY <2>1, <2>2 DEF Init, Typed, Forecasts, Maybe
<1>2. at["cmd"] = "none" /\ at["msg"] = "none" /\ at["fo"] = "none"
  BY PlacesKnown DEF Init
<1> QED
  BY <1>1, <1>2, PlacesKnown DEF Init, IInv, OneSwitch, Turns, ChoiceOwed, PinSpent, ProbeWaits,
                                 Midway, Setting, Landed

-----------------------------------------------------------------------------
(* The user's choices.                                                      *)

LEMMA ChoiceInv ==
  ASSUME None \notin Accounts, SlowSet = FALSE, IInv, NEW a \in Accounts,
         (\E c \in BOOLEAN : CommandSwitch(a, c)) \/ UserSelects(a)
  PROVE  IInv'
<1> USE PlacesKnown
<1>1. /\ Typed /\ Turns /\ ProbeWaits /\ PinSpent
      /\ target = None /\ \A p \in Processes : ~Midway(p) /\ at[p] \notin Setting
  BY Settled DEF IInv, CommandSwitch, UserSelects, MayChoose
<1>2. /\ at["msg"] \in Places("msg") /\ at["fo"] \in Places("fo") /\ at["cmd"] \in Places("cmd")
      /\ at["msg"] # "go" /\ a # current
  BY <1>1 DEF Typed, CommandSwitch, UserSelects, MayChoose
<1>3. ASSUME NEW c \in BOOLEAN, CommandSwitch(a, c) PROVE IInv'
  <2>1. /\ fresh' = [q \in Processes |-> q = "cmd"] /\ armed' = FALSE /\ routeOwns' = TRUE
        /\ forecast' = (IF c THEN [forecast EXCEPT ![a] = "ready"] ELSE forecast)
        /\ at' = [at EXCEPT !["cmd"] = "setting"] /\ to' = [to EXCEPT !["cmd"] = a] /\ target' = a
        /\ owed' = (IF turn = a THEN None ELSE a) /\ strayed' = FALSE /\ probe' = None
        /\ UNCHANGED <<current, turn, pin, covered, probePin>>
    BY <1>3 DEF CommandSwitch, Claim, Sets, Owes
  <2>2. /\ at' \in [Processes -> UNION {Places(q) : q \in Processes}]
        /\ \A q \in Processes : at'[q] \in Places(q)
        /\ at'["cmd"] = "setting" /\ at'["msg"] = at["msg"] /\ at'["fo"] = at["fo"]
    BY <1>1, <2>1, Moves
  <2>3. Typed'
    BY <1>1, <2>1, <2>2 DEF Typed, Forecasts, Maybe
  <2>4. OneSwitch'
    BY <1>1, <2>1, <2>2 DEF OneSwitch, Midway, Setting, Landed, Typed
  <2>5. Turns'
    BY <1>1, <1>2, <2>1, <2>2 DEF Turns, Midway
  <2>6. ChoiceOwed'
    BY <1>1, <2>1, <2>2 DEF ChoiceOwed, Midway, Setting, Landed, Typed
  <2>7. PinSpent' /\ ProbeWaits'
    BY <1>1, <1>2, <2>1, <2>2 DEF PinSpent, ProbeWaits, Midway, Setting, Landed
  <2> QED
    BY <2>3, <2>4, <2>5, <2>6, <2>7 DEF IInv
<1>4. CASE UserSelects(a)
  <2>1. /\ fresh' = [q \in Processes |-> q = "none"] /\ armed' = FALSE /\ routeOwns' = TRUE
        /\ current' = a /\ pin' = a /\ covered' = FALSE
        /\ owed' = (IF turn = a THEN None ELSE a) /\ strayed' = FALSE /\ probe' = None
        /\ UNCHANGED <<forecast, turn, at, to, target, probePin>>
    BY <1>1, <1>4 DEF UserSelects, Claim, Owes
  <2>2. ~fresh'["fo"]
    BY <2>1
  <2>3. Typed'
    BY <1>1, <2>1 DEF Typed, Maybe
  <2>4. OneSwitch' /\ Turns'
    BY <1>1, <2>1 DEF OneSwitch, Turns, Midway, Setting, Landed
  <2>5. ChoiceOwed'
    BY <1>1, <2>1, <2>2 DEF ChoiceOwed, Midway
  <2>6. PinSpent' /\ ProbeWaits'
    BY <1>1, <1>2, <2>1 DEF PinSpent, ProbeWaits, Midway, Setting, Landed
  <2> QED
    BY <2>3, <2>4, <2>5, <2>6 DEF IInv
<1> QED
  BY <1>3, <1>4

\* The command's switch lands, and its answer pins where it landed.
LEMMA CommandInv ==
  ASSUME None \notin Accounts, IInv, CommandLands \/ CommandReturns
  PROVE  IInv'
<1> USE PlacesKnown
<1>1. Typed /\ OneSwitch /\ Turns /\ ChoiceOwed /\ PinSpent /\ ProbeWaits /\ Midway("cmd")
  BY DEF IInv, CommandLands, CommandReturns, Midway, Setting, Landed
<1>2. ~Midway("msg") /\ ~Midway("fo") /\ fresh["cmd"] /\ ~strayed /\ probe = None /\ at["msg"] # "go"
  BY <1>1 DEF OneSwitch, Turns
<1>3. at["msg"] \in Places("msg") /\ at["fo"] \in Places("fo")
  BY <1>1 DEF Typed
<1>4. CASE CommandLands
  <2>1. /\ current' = to["cmd"] /\ to["cmd"] \in Accounts /\ target' = None
        /\ at' = [at EXCEPT !["cmd"] = "landed"] /\ UNCHANGED <<fresh, armed, pins, forecast, turn, to, ghosts>>
    BY <1>4, LandsNamed DEF CommandLands, Setting
  <2>2. /\ at' \in [Processes -> UNION {Places(q) : q \in Processes}]
        /\ \A q \in Processes : at'[q] \in Places(q)
        /\ at'["cmd"] = "landed" /\ at'["msg"] = at["msg"] /\ at'["fo"] = at["fo"]
    BY <1>1, <2>1, Moves
  <2>3. Typed'
    BY <1>1, <2>1, <2>2 DEF Typed, pins, ghosts, Maybe
  <2>4. OneSwitch'
    BY <1>1, <1>2, <2>1, <2>2 DEF OneSwitch, Midway, Setting, Landed
  <2>5. Turns'
    BY <1>1, <1>2, <2>1, <2>2 DEF Turns, Midway, pins, ghosts
  <2>6. ChoiceOwed'
    BY <1>1, <1>2, <2>1, <2>2 DEF ChoiceOwed, Midway, Setting, Landed, pins, ghosts
  <2>7. PinSpent' /\ ProbeWaits'
    BY <1>1, <1>2, <1>3, <2>1, <2>2 DEF PinSpent, ProbeWaits, Midway, Setting, Landed, pins, ghosts
  <2> QED
    BY <2>3, <2>4, <2>5, <2>6, <2>7 DEF IInv
<1>5. CASE CommandReturns
  <2>1. /\ at["cmd"] = "landed" /\ at' = [at EXCEPT !["cmd"] = "none"] /\ pin' = current /\ covered' = FALSE
        /\ UNCHANGED <<current, forecast, turn, to, fresh, target, probePin, routeOwns, armed, owed, strayed, probe>>
    BY <1>2, <1>5 DEF CommandReturns, Goes, ghosts
  <2>2. /\ at' \in [Processes -> UNION {Places(q) : q \in Processes}]
        /\ \A q \in Processes : at'[q] \in Places(q)
        /\ at'["cmd"] = "none" /\ at'["msg"] = at["msg"] /\ at'["fo"] = at["fo"]
    BY <1>1, <2>1, Moves
  <2>3. current = to["cmd"] /\ target = None
    BY <1>1, <1>2, <2>1 DEF OneSwitch, Midway, Setting, Landed
  <2>4. Typed'
    BY <1>1, <2>1, <2>2 DEF Typed, Maybe
  <2>5. OneSwitch' /\ Turns'
    BY <1>1, <1>2, <2>1, <2>2, <2>3 DEF OneSwitch, Turns, Midway, Setting, Landed
  <2>6. ChoiceOwed'
    BY <1>1, <1>2, <2>1, <2>2, <2>3 DEF ChoiceOwed, Midway, Setting, Landed
  <2>7. PinSpent' /\ ProbeWaits'
    BY <1>1, <1>2, <1>3, <2>1, <2>2 DEF PinSpent, ProbeWaits, Midway, Setting, Landed
  <2> QED
    BY <2>4, <2>5, <2>6, <2>7 DEF IInv
<1> QED
  BY <1>4, <1>5

-----------------------------------------------------------------------------
(* The message.                                                             *)

LEMMA InputInv ==
  ASSUME None \notin Accounts, SlowSet = FALSE, IInv, Input
  PROVE  IInv'
<1> USE PlacesKnown
<1>1. /\ Typed /\ OneSwitch /\ Turns /\ ChoiceOwed /\ PinSpent /\ ProbeWaits
      /\ target = None /\ \A p \in Processes : ~Midway(p) /\ at[p] \notin Setting
  BY Settled DEF IInv, Input
<1>2. /\ at["msg"] = "none" /\ turn = None /\ at["fo"] = "none" /\ at["cmd"] = "none"
      /\ fresh' = [q \in Processes |-> q = "msg"] /\ armed' = FALSE
      /\ at' = [at EXCEPT !["msg"] = "ready1"] /\ pin' = (IF covered THEN None ELSE pin)
      /\ covered' = covered /\ probePin' = None
      /\ UNCHANGED <<current, forecast, turn, to, target, routeOwns, owed, strayed, probe>>
  BY DEF Input, Claim, Goes, Retired, ghosts
<1>3. /\ at' \in [Processes -> UNION {Places(q) : q \in Processes}]
      /\ \A q \in Processes : at'[q] \in Places(q)
      /\ at'["msg"] = "ready1" /\ at'["cmd"] = "none" /\ at'["fo"] = "none"
  BY <1>1, <1>2, Moves
<1>4. Typed'
  BY <1>1, <1>2, <1>3 DEF Typed, Maybe
<1>5. OneSwitch' /\ Turns'
  BY <1>1, <1>2, <1>3 DEF OneSwitch, Turns, Midway, Setting, Landed
<1>6. ChoiceOwed'
  BY <1>1, <1>2, <1>3 DEF ChoiceOwed, Midway, Setting, Landed
<1>7. PinSpent' /\ ProbeWaits'
  BY <1>1, <1>2, <1>3 DEF PinSpent, ProbeWaits
<1> QED
  BY <1>4, <1>5, <1>6, <1>7 DEF IInv

\* A preflight stays on a pinned account; otherwise it finds one that is not spent, and
\* benches the one it leaves.
LEMMA Preflight ==
  ASSUME Typed, NEW probed \in Maybe, NEW p \in Processes, NEW stays, NEW sets, EnsureReady(p, stays, sets, probed)
  PROVE  \/ /\ Stays(probed) /\ at' = [at EXCEPT ![p] = stays] /\ UNCHANGED <<to, target, forecast>>
         \/ /\ ~Stays(probed) /\ \E a \in Accounts \ {current} :
                 /\ forecast[a] # "spent" /\ target' = a
                 /\ at' = [at EXCEPT ![p] = sets] /\ to' = [to EXCEPT ![p] = a]
                 /\ forecast' = [forecast EXCEPT ![current] = "spent"]
BY DEF EnsureReady, Goes, Sets, Others, Typed

LEMMA PreflightInv ==
  ASSUME None \notin Accounts, SlowSet = FALSE, IInv, InputPreflight \/ BeforeAgentStart
  PROVE  IInv'
<1> USE PlacesKnown
<1>1. /\ Typed /\ OneSwitch /\ Turns /\ ChoiceOwed /\ PinSpent /\ ProbeWaits
      /\ target = None /\ \A p \in Processes : ~Midway(p) /\ at[p] \notin Setting
  BY Settled DEF IInv, InputPreflight, BeforeAgentStart
<1>2. /\ at["msg"] \in {"ready1", "host"} /\ covered' = Covers(covered)
      /\ UNCHANGED <<current, turn, pin, probePin, routeOwns, owed, strayed, probe>>
      /\ \/ UNCHANGED <<fresh, armed>>
         \/ armed' = FALSE /\ fresh' = [q \in Processes |-> q = "msg"]
  BY DEF InputPreflight, BeforeAgentStart, Claim, ghosts
<1>3. turn = None /\ at["fo"] = "none" /\ probePin = None /\ probe = None
  BY <1>1, <1>2 DEF Turns, ProbeWaits
<1>4. at["cmd"] = "none" /\ fresh' \in [Processes -> BOOLEAN] /\ armed' \in BOOLEAN /\ (~fresh["fo"] => ~fresh'["fo"])
      /\ covered' \in BOOLEAN
  <2>1. at["cmd"] = "none"
    <3>1. at["cmd"] \in {"none", "setting", "landed"}
      BY <1>1 DEF Typed
    <3>2. at["cmd"] \notin {"setting", "landed"}
      BY <1>1 DEF Midway, Setting, Landed
    <3> QED
      BY <3>1, <3>2
  <2>2. fresh' \in [Processes -> BOOLEAN] /\ armed' \in BOOLEAN /\ (~fresh["fo"] => ~fresh'["fo"])
    <3>1. fresh \in [Processes -> BOOLEAN] /\ armed \in BOOLEAN
      BY <1>1 DEF Typed
    <3>2. CASE UNCHANGED <<fresh, armed>>
      BY <3>1, <3>2
    <3>3. CASE armed' = FALSE /\ fresh' = [q \in Processes |-> q = "msg"]
      BY <3>3
    <3> QED
      BY <1>2, <3>2, <3>3
  <2>3. covered' \in BOOLEAN
    BY <1>1, <1>2 DEF Typed, Covers
  <2> QED
    BY <2>1, <2>2, <2>3
<1>5. \E stays, sets \in Places("msg") :
        /\ EnsureReady("msg", stays, sets, None)
        /\ (stays = "host" /\ sets = "set1") \/ (stays = "go" /\ sets = "set2")
  <2>1. "host" \in Places("msg") /\ "set1" \in Places("msg") /\ "go" \in Places("msg") /\ "set2" \in Places("msg")
    OBVIOUS
  <2>2. EnsureReady("msg", "host", "set1", None) \/ EnsureReady("msg", "go", "set2", None)
    BY <1>3 DEF InputPreflight, BeforeAgentStart
  <2> QED
    BY <2>1, <2>2, Zenon
<1>6. PICK stays, sets \in Places("msg") :
        /\ EnsureReady("msg", stays, sets, None)
        /\ (stays = "host" /\ sets = "set1") \/ (stays = "go" /\ sets = "set2")
  BY <1>5
<1>7. CASE Stays(None) /\ at' = [at EXCEPT !["msg"] = stays] /\ UNCHANGED <<to, target, forecast>>
  <2>1. /\ at' \in [Processes -> UNION {Places(q) : q \in Processes}]
        /\ \A q \in Processes : at'[q] \in Places(q)
        /\ at'["msg"] = stays /\ at'["cmd"] = "none" /\ at'["fo"] = "none"
    BY <1>1, <1>3, <1>4, <1>7, Moves
  <2>2. Typed'
    BY <1>1, <1>2, <1>4, <1>7, <2>1 DEF Typed
  <2>3. OneSwitch' /\ Turns'
    BY <1>1, <1>2, <1>3, <1>6, <1>7, <2>1 DEF OneSwitch, Turns, Midway, Setting, Landed
  <2>4. ChoiceOwed'
    BY <1>1, <1>2, <1>3, <1>4, <1>6, <1>7, <2>1 DEF ChoiceOwed, Midway, Setting, Landed
  <2>5. Stray' => covered' /\ pin' = current'
    <3>1. Stray' => forecast[current] = "spent" /\ Others # {}
      BY <1>1, <1>2, <1>7 DEF Stray, Others, Typed
    <3>2. Stray' => current = pin
      BY <1>1, <1>7, <3>1 DEF Stays, Pinned, Typed
    <3> QED
      BY <1>2, <3>1, <3>2 DEF Covers
  <2>6. strayed => pin = None
    BY <1>1, <1>2 DEF PinSpent
  <2>7. PinSpent'
    BY <1>2, <1>6, <1>7, <2>1, <2>5, <2>6 DEF PinSpent
  <2>8. ProbeWaits'
    BY <1>2, <1>3 DEF ProbeWaits
  <2> QED
    BY <2>2, <2>3, <2>4, <2>7, <2>8 DEF IInv
<1>8. ASSUME ~Stays(None), NEW a \in Accounts \ {current}, forecast[a] # "spent", target' = a,
             at' = [at EXCEPT !["msg"] = sets], to' = [to EXCEPT !["msg"] = a],
             forecast' = [forecast EXCEPT ![current] = "spent"]
      PROVE  IInv'
  <2>1. /\ at' \in [Processes -> UNION {Places(q) : q \in Processes}]
        /\ \A q \in Processes : at'[q] \in Places(q)
        /\ at'["msg"] = sets /\ at'["cmd"] = "none" /\ at'["fo"] = "none"
    BY <1>1, <1>3, <1>4, <1>8, Moves
  <2>2. Typed'
    BY <1>1, <1>2, <1>4, <1>8, <2>1 DEF Typed, Forecasts, Maybe
  <2>3. owed = None
    BY <1>1, <1>8 DEF ChoiceOwed, Stays, Pinned
  <2>4. to'["msg"] = a /\ forecast'[a] # "spent"
    BY <1>1, <1>8 DEF Typed
  <2>5. OneSwitch' /\ Turns'
    BY <1>1, <1>2, <1>3, <1>6, <1>8, <2>1, <2>4 DEF OneSwitch, Turns, Midway, Setting, Landed
  <2>6. PinSpent'
    BY <1>1, <1>2, <1>6, <2>1, <2>4 DEF PinSpent, Covers
  <2>7. ChoiceOwed' /\ ProbeWaits'
    BY <1>2, <1>3, <2>3 DEF ChoiceOwed, ProbeWaits
  <2> QED
    BY <2>2, <2>5, <2>6, <2>7 DEF IInv
<1>9. None \in Maybe
  BY DEF Maybe
<1>10. \/ Stays(None) /\ at' = [at EXCEPT !["msg"] = stays] /\ UNCHANGED <<to, target, forecast>>
       \/ ~Stays(None) /\ \E a \in Accounts \ {current} :
            /\ forecast[a] # "spent" /\ target' = a
            /\ at' = [at EXCEPT !["msg"] = sets] /\ to' = [to EXCEPT !["msg"] = a]
            /\ forecast' = [forecast EXCEPT ![current] = "spent"]
  BY <1>1, <1>6, <1>9, Preflight
<1> QED
  BY <1>7, <1>8, <1>10, Zenon

LEMMA MessageSwitchInv ==
  ASSUME None \notin Accounts, IInv, MessageLands \/ MessageReturns
  PROVE  IInv'
<1> USE PlacesKnown
<1>1. Typed /\ OneSwitch /\ Turns /\ ChoiceOwed /\ PinSpent /\ ProbeWaits /\ Midway("msg")
  BY DEF IInv, MessageLands, MessageReturns, Midway, Setting, Landed
<1>2. /\ ~Midway("cmd") /\ ~Midway("fo") /\ owed = None
      /\ at["msg"] # "none" /\ at["fo"] = "none" /\ turn = None /\ probePin = None /\ probe = None
  BY <1>1 DEF OneSwitch, Turns, ChoiceOwed, ProbeWaits, Midway, Setting, Landed
<1>3. at["cmd"] = "none"
  BY <1>1, <1>2 DEF Typed, Midway, Setting, Landed
<1>4. CASE MessageLands
  <2>1. PICK s \in {"landed1", "landed2"} : (at["msg"] = "set1" \/ at["msg"] = "set2") /\ Lands("msg", s)
                                            /\ (s = "landed2" => at["msg"] = "set2")
    BY <1>4 DEF MessageLands
  <2>2. /\ current' = to["msg"] /\ to["msg"] \in Accounts /\ target' = None /\ at' = [at EXCEPT !["msg"] = s]
        /\ UNCHANGED <<fresh, armed, pins, forecast, turn, to, ghosts>>
    BY <2>1, LandsNamed DEF Setting
  <2>3. /\ at' \in [Processes -> UNION {Places(q) : q \in Processes}]
        /\ \A q \in Processes : at'[q] \in Places(q)
        /\ at'["msg"] = s /\ at'["cmd"] = "none" /\ at'["fo"] = "none"
    BY <1>1, <1>2, <1>3, <2>2, Moves
  <2>4. Typed'
    BY <1>1, <2>2, <2>3 DEF Typed, pins, ghosts, Maybe
  <2>5. OneSwitch' /\ Turns'
    BY <1>1, <1>2, <1>3, <2>2, <2>3 DEF OneSwitch, Turns, Midway, Setting, Landed, pins, ghosts
  <2>6. PinSpent'
    BY <1>1, <1>2, <2>1, <2>2, <2>3 DEF PinSpent, pins, ghosts
  <2>7. ChoiceOwed' /\ ProbeWaits'
    BY <1>2, <2>2 DEF ChoiceOwed, ProbeWaits, ghosts
  <2> QED
    BY <2>4, <2>5, <2>6, <2>7 DEF IInv
<1>5. CASE MessageReturns
  <2>1. PICK s \in {"host", "go"} :
          /\ at["msg"] \in {"landed1", "landed2"} /\ (s = "go" => at["msg"] = "landed2")
          /\ at' = [at EXCEPT !["msg"] = s]
          /\ UNCHANGED <<current, forecast, turn, to, fresh, target, pins, armed, ghosts>>
    <3>1. /\ at["msg"] \in {"landed1", "landed2"}
          /\ at' = [at EXCEPT !["msg"] = IF at["msg"] = "landed1" THEN "host" ELSE "go"]
          /\ UNCHANGED <<current, forecast, turn, to, fresh, target, pins, armed, ghosts>>
      BY <1>5 DEF MessageReturns, Goes
    <3> QED
      BY <3>1
  <2>2. /\ at' \in [Processes -> UNION {Places(q) : q \in Processes}]
        /\ \A q \in Processes : at'[q] \in Places(q)
        /\ at'["msg"] = s /\ at'["cmd"] = "none" /\ at'["fo"] = "none"
    BY <1>1, <1>2, <1>3, <2>1, Moves
  <2>3. target = None
    BY <1>1, <1>2, <1>3, <2>1 DEF OneSwitch, Setting
  <2>4. Typed'
    BY <1>1, <2>1, <2>2 DEF Typed, pins, ghosts
  <2>5. OneSwitch' /\ Turns'
    BY <1>1, <1>2, <1>3, <2>1, <2>2, <2>3 DEF OneSwitch, Turns, Midway, Setting, Landed, pins, ghosts
  <2>6. PinSpent'
    BY <1>1, <1>2, <2>1, <2>2 DEF PinSpent, Stray, pins, ghosts
  <2>7. ChoiceOwed' /\ ProbeWaits'
    BY <1>2, <2>1 DEF ChoiceOwed, ProbeWaits, ghosts
  <2> QED
    BY <2>4, <2>5, <2>6, <2>7 DEF IInv
<1> QED
  BY <1>4, <1>5

LEMMA TurnStartsInv ==
  ASSUME None \notin Accounts, SlowSet = FALSE, IInv, TurnStarts
  PROVE  IInv' /\ (owed # None => turn' = owed) /\ (Stray => ~strayed)
<1> USE PlacesKnown
<1>1. /\ Typed /\ OneSwitch /\ Turns /\ ChoiceOwed /\ PinSpent /\ ProbeWaits
      /\ target = None /\ \A p \in Processes : ~Midway(p) /\ at[p] \notin Setting
  BY Settled DEF IInv, TurnStarts
<1>2. /\ at["msg"] = "go" /\ at' = [at EXCEPT !["msg"] = "none"] /\ turn' = current /\ target' = None
      /\ armed' = FALSE /\ owed' = (IF owed = current THEN None ELSE owed)
      /\ strayed' = (strayed \/ Stray) /\ probe' = None
      /\ UNCHANGED <<current, forecast, to, fresh, pins>>
  BY DEF TurnStarts, Goes, Attempts
<1>3. /\ at' \in [Processes -> UNION {Places(q) : q \in Processes}]
      /\ \A q \in Processes : at'[q] \in Places(q)
      /\ at'["msg"] = "none" /\ at'["cmd"] = at["cmd"] /\ at'["fo"] = at["fo"]
  BY <1>1, <1>2, Moves
<1>4. owed' = None /\ (owed # None => turn' = owed)
  BY <1>1, <1>2 DEF ChoiceOwed
<1>5. Stray => covered /\ pin \in Accounts
  BY <1>1, <1>2 DEF PinSpent, Typed
<1>6. Stray => ~strayed
  BY <1>1, <1>2, <1>5 DEF PinSpent
<1>7. Typed'
  <2>1. Stray \in BOOLEAN
    BY DEF Stray
  <2> QED
    BY <1>1, <1>2, <1>3, <1>4, <2>1 DEF Typed, pins, Maybe
<1>8. OneSwitch' /\ Turns'
  BY <1>1, <1>2, <1>3 DEF OneSwitch, Turns, Midway, Setting, Landed, Typed, pins
<1>9. PinSpent'
  BY <1>1, <1>2, <1>3, <1>5 DEF PinSpent, pins
<1>10. ChoiceOwed' /\ ProbeWaits'
  BY <1>2, <1>4 DEF ChoiceOwed, ProbeWaits
<1> QED
  BY <1>4, <1>6, <1>7, <1>8, <1>9, <1>10 DEF IInv

-----------------------------------------------------------------------------
(* The end of a turn, and the failover.                                     *)

LEMMA TurnEndsInv ==
  ASSUME None \notin Accounts, SlowSet = FALSE, IInv, TurnSucceeds \/ TurnRefused
  PROVE  IInv'
<1> USE PlacesKnown
<1>1. /\ Typed /\ OneSwitch /\ Turns /\ ChoiceOwed /\ PinSpent /\ ProbeWaits
      /\ target = None /\ \A p \in Processes : ~Midway(p) /\ at[p] \notin Setting
      /\ turn # None /\ at["fo"] = "none"
  BY Settled DEF IInv, TurnSucceeds, TurnRefused
<1>2. at["msg"] = "none" /\ at["cmd"] = "none" /\ probe = None
  BY <1>1 DEF Turns, ProbeWaits, Typed, Midway, Setting, Landed
<1>3. CASE TurnSucceeds
  <2>1. /\ turn' = None /\ forecast' = [forecast EXCEPT ![turn] = "ready"] /\ armed' = FALSE
        /\ fresh' = [q \in Processes |-> q = "none"]
        /\ UNCHANGED <<current, at, to, target, pins, ghosts>>
    BY <1>3 DEF TurnSucceeds, Claim
  <2>2. Typed'
    BY <1>1, <2>1 DEF Typed, Forecasts, pins, ghosts, Maybe
  <2>3. OneSwitch' /\ Turns'
    BY <1>1, <1>2, <2>1 DEF OneSwitch, Turns, Midway, Setting, Landed, pins, ghosts
  <2>4. ChoiceOwed'
    BY <1>1, <1>2, <2>1 DEF ChoiceOwed, Midway, pins, ghosts
  <2>5. PinSpent' /\ ProbeWaits'
    BY <1>1, <1>2, <2>1 DEF PinSpent, ProbeWaits, pins, ghosts
  <2> QED
    BY <2>2, <2>3, <2>4, <2>5 DEF IInv
<1>4. CASE TurnRefused /\ routeOwns /\ current # turn
  <2>1. /\ turn' = None
        /\ UNCHANGED <<at, fresh, current, forecast, to, target, pins, armed, ghosts>>
    BY <1>4 DEF TurnRefused, pins
  <2>2. Typed'
    BY <1>1, <2>1 DEF Typed, pins, ghosts, Maybe
  <2>3. OneSwitch' /\ Turns'
    BY <1>1, <1>2, <2>1 DEF OneSwitch, Turns, Midway, Setting, Landed, pins, ghosts
  <2>4. ChoiceOwed'
    BY <1>1, <1>2, <2>1 DEF ChoiceOwed, Midway, pins, ghosts
  <2>5. PinSpent' /\ ProbeWaits'
    BY <1>1, <1>2, <2>1 DEF PinSpent, ProbeWaits, pins, ghosts
  <2> QED
    BY <2>2, <2>3, <2>4, <2>5 DEF IInv
<1>5. CASE TurnRefused /\ ~(routeOwns /\ current # turn)
  <2>1. /\ routeOwns' = FALSE /\ at' = [at EXCEPT !["fo"] = "asked"] /\ fresh' = [fresh EXCEPT !["fo"] = TRUE]
        /\ UNCHANGED <<turn, current, forecast, to, target, pin, covered, probePin, armed, ghosts>>
    BY <1>5 DEF TurnRefused, Goes
  <2>2. /\ at' \in [Processes -> UNION {Places(q) : q \in Processes}]
        /\ \A q \in Processes : at'[q] \in Places(q)
        /\ at'["msg"] = "none" /\ at'["cmd"] = "none" /\ at'["fo"] = "asked"
    BY <1>1, <1>2, <2>1, Moves
  <2>3. owed = None
    BY <1>1, <1>5 DEF ChoiceOwed
  <2>4. Typed'
    BY <1>1, <2>1, <2>2 DEF Typed, ghosts
  <2>5. OneSwitch' /\ Turns'
    BY <1>1, <1>2, <2>1, <2>2 DEF OneSwitch, Turns, Midway, Setting, Landed, ghosts
  <2>6. PinSpent' /\ ProbeWaits' /\ ChoiceOwed'
    BY <1>1, <1>2, <2>1, <2>2, <2>3 DEF PinSpent, ProbeWaits, ChoiceOwed, ghosts
  <2> QED
    BY <2>4, <2>5, <2>6 DEF IInv
<1> QED
  BY <1>3, <1>4, <1>5

LEMMA FailoverBeginsInv ==
  ASSUME None \notin Accounts, SlowSet = FALSE, IInv, FailoverBegins
  PROVE  IInv'
<1> USE PlacesKnown
<1>1. /\ Typed /\ OneSwitch /\ Turns /\ ChoiceOwed /\ PinSpent /\ ProbeWaits
      /\ target = None /\ \A p \in Processes : ~Midway(p) /\ at[p] \notin Setting
      /\ at["fo"] = "asked" /\ UNCHANGED <<current, turn, fresh, pins, armed, ghosts>>
  BY Settled DEF IInv, FailoverBegins
<1>2. at["msg"] = "none" /\ at["cmd"] = "none" /\ turn \in Accounts /\ probe = None
  BY <1>1 DEF Turns, ProbeWaits, Typed, Midway, Setting, Landed, Maybe
<1>3. ASSUME at' = [at EXCEPT !["fo"] = "end"], UNCHANGED <<to, target>>, forecast' \in [Accounts -> Forecasts]
      PROVE  IInv'
  <2>1. /\ at' \in [Processes -> UNION {Places(q) : q \in Processes}]
        /\ \A q \in Processes : at'[q] \in Places(q)
        /\ at'["msg"] = "none" /\ at'["cmd"] = "none" /\ at'["fo"] = "end"
    BY <1>1, <1>2, <1>3, Moves
  <2>2. Typed'
    BY <1>1, <1>3, <2>1 DEF Typed, pins, ghosts
  <2>3. OneSwitch' /\ Turns'
    BY <1>1, <1>2, <1>3, <2>1 DEF OneSwitch, Turns, Midway, Setting, Landed, pins, ghosts
  <2>4. ChoiceOwed'
    BY <1>1, <1>2, <1>3, <2>1 DEF ChoiceOwed, Midway, Setting, Landed, pins, ghosts
  <2>5. PinSpent' /\ ProbeWaits'
    BY <1>1, <1>2, <2>1 DEF PinSpent, ProbeWaits, pins, ghosts
  <2> QED
    BY <2>2, <2>3, <2>4, <2>5 DEF IInv
<1>4. ASSUME fresh["fo"], forecast' \in [Accounts -> Forecasts], NEW a \in Accounts, Sets("fo", "setting", a)
      PROVE  IInv'
  <2>1. at' = [at EXCEPT !["fo"] = "setting"] /\ to' = [to EXCEPT !["fo"] = a] /\ target' = a
    BY <1>4 DEF Sets
  <2>2. /\ at' \in [Processes -> UNION {Places(q) : q \in Processes}]
        /\ \A q \in Processes : at'[q] \in Places(q)
        /\ at'["msg"] = "none" /\ at'["cmd"] = "none" /\ at'["fo"] = "setting"
    BY <1>1, <1>2, <2>1, Moves
  <2>3. owed = None
    BY <1>1, <1>4 DEF ChoiceOwed
  <2>4. Typed'
    BY <1>1, <1>4, <2>1, <2>2 DEF Typed, pins, ghosts, Maybe
  <2>5. OneSwitch' /\ Turns'
    BY <1>1, <1>2, <2>1, <2>2 DEF OneSwitch, Turns, Midway, Setting, Landed, pins, ghosts, Typed
  <2>6. PinSpent' /\ ProbeWaits' /\ ChoiceOwed'
    BY <1>1, <1>2, <2>2, <2>3 DEF PinSpent, ProbeWaits, ChoiceOwed, pins, ghosts
  <2> QED
    BY <2>4, <2>5, <2>6 DEF IInv
<1>5. forecast \in [Accounts -> Forecasts] /\ [forecast EXCEPT ![turn] = "spent"] \in [Accounts -> Forecasts]
  BY <1>1, <1>2 DEF Typed, Forecasts
<1>6. CASE ~fresh["fo"]
  BY <1>1, <1>3, <1>5, <1>6 DEF FailoverBegins, Goes
<1>7. CASE fresh["fo"]
  <2>1. /\ forecast' = [forecast EXCEPT ![turn] = "spent"]
        /\ \/ at' = [at EXCEPT !["fo"] = "end"] /\ UNCHANGED <<to, target>>
           \/ \E a \in Others \ {turn} : Sets("fo", "setting", a)
    BY <1>7 DEF FailoverBegins, Goes
  <2>2. Others \subseteq Accounts
    BY DEF Others
  <2> QED
    BY <1>3, <1>4, <1>5, <1>7, <2>1, <2>2
<1> QED
  BY <1>6, <1>7

LEMMA FailoverSwitchInv ==
  ASSUME None \notin Accounts, IInv, FailoverLands \/ FailoverReturns
  PROVE  IInv'
<1> USE PlacesKnown
<1>1. Typed /\ OneSwitch /\ Turns /\ ChoiceOwed /\ PinSpent /\ ProbeWaits /\ Midway("fo")
  BY DEF IInv, FailoverLands, FailoverReturns, Midway, Setting, Landed
<1>2. /\ ~Midway("cmd") /\ ~Midway("msg") /\ owed = None /\ at["fo"] \in {"setting", "landed"}
      /\ at["msg"] = "none" /\ turn # None /\ probe = None
  BY <1>1 DEF OneSwitch, Turns, ChoiceOwed, ProbeWaits, Midway, Setting, Landed, Typed
<1>3. at["cmd"] = "none"
  BY <1>1, <1>2 DEF Typed, Midway, Setting, Landed
<1>4. CASE FailoverLands
  <2>1. /\ current' = to["fo"] /\ to["fo"] \in Accounts /\ target' = None /\ at' = [at EXCEPT !["fo"] = "landed"]
        /\ UNCHANGED <<fresh, armed, pins, forecast, turn, to, ghosts>>
    BY <1>4, LandsNamed DEF FailoverLands, Setting
  <2>2. /\ at' \in [Processes -> UNION {Places(q) : q \in Processes}]
        /\ \A q \in Processes : at'[q] \in Places(q)
        /\ at'["fo"] = "landed" /\ at'["cmd"] = "none" /\ at'["msg"] = "none"
    BY <1>1, <1>2, <1>3, <2>1, Moves
  <2>3. Typed'
    BY <1>1, <2>1, <2>2 DEF Typed, pins, ghosts, Maybe
  <2>4. OneSwitch' /\ Turns'
    BY <1>1, <1>2, <1>3, <2>1, <2>2 DEF OneSwitch, Turns, Midway, Setting, Landed, pins, ghosts
  <2>5. PinSpent' /\ ChoiceOwed' /\ ProbeWaits'
    BY <1>1, <1>2, <2>1, <2>2 DEF PinSpent, ChoiceOwed, ProbeWaits, pins, ghosts
  <2> QED
    BY <2>3, <2>4, <2>5 DEF IInv
<1>5. CASE FailoverReturns
  <2>1. /\ at["fo"] = "landed" /\ at' = [at EXCEPT !["fo"] = "end"]
        /\ \/ probePin' = to["fo"] /\ armed' = TRUE /\ probe' = to["fo"]
           \/ UNCHANGED <<probePin, armed, probe>>
        /\ UNCHANGED <<current, forecast, turn, to, fresh, target, pin, covered, routeOwns, owed, strayed>>
    BY <1>5 DEF FailoverReturns, Goes
  <2>2. /\ at' \in [Processes -> UNION {Places(q) : q \in Processes}]
        /\ \A q \in Processes : at'[q] \in Places(q)
        /\ at'["fo"] = "end" /\ at'["cmd"] = "none" /\ at'["msg"] = "none"
    BY <1>1, <1>2, <1>3, <2>1, Moves
  <2>3. target = None /\ current = to["fo"]
    <3>1. \A p \in Processes : at[p] \notin Setting
      BY <1>2, <1>3, <2>1 DEF Setting
    <3>2. target = None
      BY <1>1, <3>1 DEF OneSwitch
    <3>3. at["fo"] \in Landed /\ "fo" \in Processes
      BY <2>1 DEF Landed
    <3>4. \A p \in Processes : at[p] \in Landed => current = to[p]
      BY <1>1 DEF OneSwitch
    <3> QED
      BY <3>2, <3>3, <3>4
  <2>4. Typed'
    <3>1. to["fo"] \in Maybe
      BY <1>1 DEF Typed
    <3>2. probePin' \in Maybe /\ armed' \in BOOLEAN /\ probe' \in Maybe
      BY <1>1, <2>1, <3>1 DEF Typed
    <3> QED
      BY <1>1, <2>1, <2>2, <3>2 DEF Typed
  <2>5. OneSwitch' /\ Turns'
    BY <1>1, <1>2, <1>3, <2>1, <2>2, <2>3 DEF OneSwitch, Turns, Midway, Setting, Landed
  <2>6. PinSpent' /\ ChoiceOwed' /\ ProbeWaits'
    BY <1>1, <1>2, <2>1, <2>2, <2>3 DEF PinSpent, ChoiceOwed, ProbeWaits
  <2> QED
    BY <2>4, <2>5, <2>6 DEF IInv
<1> QED
  BY <1>4, <1>5

LEMMA AgentEndErrorInv ==
  ASSUME None \notin Accounts, SlowSet = FALSE, IInv, AgentEndError
  PROVE  IInv'
<1> USE PlacesKnown
<1>1. /\ Typed /\ OneSwitch /\ Turns /\ ChoiceOwed /\ PinSpent /\ ProbeWaits
      /\ target = None /\ \A p \in Processes : ~Midway(p) /\ at[p] \notin Setting
      /\ at["fo"] = "end" /\ turn' = None
      /\ UNCHANGED <<current, forecast, to, fresh, target, pins, armed, ghosts>>
  BY Settled DEF IInv, AgentEndError
<1>2. at["msg"] = "none" /\ at["cmd"] = "none"
  BY <1>1 DEF Turns, Typed, Midway, Setting, Landed
<1>3. PICK s \in {"cont", "inject", "none"} : at' = [at EXCEPT !["fo"] = s] /\ (s = "none" => ~armed)
  BY DEF AgentEndError, Goes
<1>4. /\ at' \in [Processes -> UNION {Places(q) : q \in Processes}]
      /\ \A q \in Processes : at'[q] \in Places(q)
      /\ at'["msg"] = "none" /\ at'["cmd"] = "none" /\ at'["fo"] = s
  BY <1>1, <1>2, <1>3, Moves
<1>5. Typed'
  BY <1>1, <1>4 DEF Typed, pins, ghosts, Maybe
<1>6. OneSwitch' /\ Turns'
  BY <1>1, <1>2, <1>4 DEF OneSwitch, Turns, Midway, Setting, Landed, pins, ghosts
<1>7. ChoiceOwed'
  BY <1>1, <1>2, <1>4 DEF ChoiceOwed, Midway, Setting, Landed, pins, ghosts
<1>8. PinSpent' /\ ProbeWaits'
  BY <1>1, <1>2, <1>3, <1>4 DEF PinSpent, ProbeWaits, pins, ghosts
<1> QED
  BY <1>5, <1>6, <1>7, <1>8 DEF IInv

LEMMA InjectPreflightInv ==
  ASSUME None \notin Accounts, SlowSet = FALSE, IInv, InjectPreflight
  PROVE  IInv' /\ (owed # None => current' = current)
<1> USE PlacesKnown
<1>1. /\ Typed /\ OneSwitch /\ Turns /\ ChoiceOwed /\ PinSpent /\ ProbeWaits
      /\ target = None /\ \A p \in Processes : ~Midway(p) /\ at[p] \notin Setting
      /\ at["fo"] = "inject" /\ at' = [at EXCEPT !["fo"] = "injected"] /\ covered' = Covers(covered)
      /\ UNCHANGED <<turn, to, fresh, target, pin, probePin, routeOwns, armed, owed, strayed, probe>>
  BY Settled DEF IInv, InjectPreflight, Goes, ghosts
<1>2. at["msg"] = "none" /\ at["cmd"] = "none" /\ covered' \in BOOLEAN /\ (covered => covered')
  BY <1>1 DEF Turns, Typed, Midway, Setting, Landed, Covers
<1>3. /\ at' \in [Processes -> UNION {Places(q) : q \in Processes}]
      /\ \A q \in Processes : at'[q] \in Places(q)
      /\ at'["msg"] = "none" /\ at'["cmd"] = "none" /\ at'["fo"] = "injected"
  BY <1>1, <1>2, Moves
<1>4. /\ current' \in Accounts /\ forecast' \in [Accounts -> Forecasts]
      /\ Pinned(probePin) => current' = current
  BY <1>1 DEF InjectPreflight, Stays, Others, Typed, Forecasts
<1>5. (owed # None => Pinned(probePin)) /\ (probe # None => Pinned(probePin))
  BY <1>1 DEF ChoiceOwed, ProbeWaits, Pinned
<1>6. Typed'
  BY <1>1, <1>2, <1>3, <1>4 DEF Typed
<1>7. OneSwitch' /\ Turns'
  BY <1>1, <1>2, <1>3 DEF OneSwitch, Turns, Midway, Setting, Landed
<1>8. ChoiceOwed'
  BY <1>1, <1>2, <1>3, <1>4, <1>5 DEF ChoiceOwed, Midway, Setting, Landed
<1>9. PinSpent' /\ ProbeWaits'
  BY <1>1, <1>2, <1>3, <1>4, <1>5 DEF PinSpent, ProbeWaits
<1> QED
  BY <1>4, <1>5, <1>6, <1>7, <1>8, <1>9 DEF IInv

LEMMA ContinuationStartsInv ==
  ASSUME None \notin Accounts, SlowSet = FALSE, IInv, ContinuationStarts
  PROVE  IInv' /\ (armed /\ probe # None => turn' = probe)
<1> USE PlacesKnown
<1>1. /\ Typed /\ OneSwitch /\ Turns /\ ChoiceOwed /\ PinSpent /\ ProbeWaits
      /\ target = None /\ \A p \in Processes : ~Midway(p) /\ at[p] \notin Setting
      /\ at["fo"] \in {"cont", "injected"} /\ at' = [at EXCEPT !["fo"] = "none"]
      /\ armed' = FALSE /\ probe' = None
      /\ UNCHANGED <<current, forecast, to, fresh, pins, strayed>>
  BY Settled DEF IInv, ContinuationStarts, Goes
<1>2. at["msg"] = "none" /\ at["cmd"] = "none"
  BY <1>1 DEF Turns, Typed, Midway, Setting, Landed
<1>3. /\ at' \in [Processes -> UNION {Places(q) : q \in Processes}]
      /\ \A q \in Processes : at'[q] \in Places(q)
      /\ at'["msg"] = "none" /\ at'["cmd"] = "none" /\ at'["fo"] = "none"
  BY <1>1, <1>2, Moves
<1>4. \/ /\ turn' = current /\ target' = None /\ owed' = (IF owed = current THEN None ELSE owed)
      \/ /\ ~armed /\ at["fo"] = "cont" /\ UNCHANGED <<turn, target, owed>>
  BY <1>1 DEF ContinuationStarts, Attempts
<1>5. target' = None /\ turn' \in Maybe /\ owed' \in Maybe
  BY <1>1, <1>4 DEF Typed, Maybe
<1>6. Typed'
  BY <1>1, <1>3, <1>5 DEF Typed, pins, Maybe
<1>7. OneSwitch' /\ Turns'
  BY <1>1, <1>2, <1>3, <1>5 DEF OneSwitch, Turns, Midway, Setting, Landed, pins
<1>8. ChoiceOwed'
  <2>1. CASE turn' = current /\ owed' = (IF owed = current THEN None ELSE owed)
    BY <1>1, <2>1 DEF ChoiceOwed
  <2>2. CASE ~armed /\ at["fo"] = "cont" /\ UNCHANGED <<turn, target, owed>>
    BY <1>1, <1>2, <1>3, <2>2 DEF ChoiceOwed, Midway, Setting, Landed, pins
  <2> QED
    BY <1>4, <2>1, <2>2
<1>9. PinSpent' /\ ProbeWaits'
  BY <1>1, <1>2, <1>3 DEF PinSpent, ProbeWaits, pins
<1>10. armed /\ probe # None => turn' = probe
  BY <1>1, <1>4 DEF ProbeWaits
<1> QED
  BY <1>6, <1>7, <1>8, <1>9, <1>10 DEF IInv

LEMMA UsageArrivesInv ==
  ASSUME IInv, NEW a \in Accounts, NEW f \in Forecasts, UsageArrives(a, f)
  PROVE  IInv'
<1>1. /\ at["msg"] = "none" /\ forecast' = [forecast EXCEPT ![a] = f]
      /\ UNCHANGED <<current, turn, at, to, fresh, target, pins, armed, ghosts>>
  BY DEF UsageArrives, process
<1> QED
  BY <1>1 DEF IInv, Typed, OneSwitch, Turns, ChoiceOwed, PinSpent, ProbeWaits, Midway, pins, ghosts

-----------------------------------------------------------------------------
(* The theorems.                                                            *)

LEMMA NextInv ==
  ASSUME None \notin Accounts, SlowSet = FALSE, IInv, Next
  PROVE  IInv'
<1>1. Forecasts = {"ready", "stale", "spent"}
  BY DEF Forecasts
<1> QED
  BY <1>1, ChoiceInv, CommandInv, InputInv, PreflightInv, MessageSwitchInv, TurnStartsInv, TurnEndsInv,
     FailoverBeginsInv, FailoverSwitchInv, AgentEndErrorInv, InjectPreflightInv,
     ContinuationStartsInv, UsageArrivesInv, Zenon DEF Next

\* One switch at a time, a choice that keeps the route until its message is sent, a
\* pin that covers one message, and a failover that is followed where it went.
THEOREM AlwaysOrderly ==
  ASSUME None \notin Accounts, SlowSet = FALSE
  PROVE  Spec => []IInv
<1>1. IInv /\ [Next]_vars => IInv'
  <2>1. ASSUME IInv, UNCHANGED vars PROVE IInv'
    BY <2>1 DEF vars, process, pins, ghosts, counters, IInv, Typed, OneSwitch, Turns, ChoiceOwed,
                PinSpent, ProbeWaits, Midway, Stray
  <2> QED
    BY <2>1, NextInv
<1> QED
  BY InitInv, <1>1, PTL DEF Spec

\* No process or pin leaves its type, and a failover always has the turn it answers.
THEOREM TypeCorrect ==
  ASSUME None \notin Accounts, SlowSet = FALSE
  PROVE  Spec => []TypeOK
<1>1. IInv => TypeOK
  <2> SUFFICES ASSUME IInv PROVE TypeOK
    OBVIOUS
  <2>1. at["fo"] \in Places("fo")
    BY PlacesKnown DEF IInv, Typed
  <2> QED
    BY <2>1, PlacesKnown DEF IInv, Typed, Turns, TypeOK, Maybe, Forecasts
<1> QED
  BY <1>1, AlwaysOrderly, PTL

\* The first message after a choice by hand goes to the chosen account, whatever its
\* forecast says and whatever failover was under way (GUARANTEES.md, row 11).
THEOREM ChoiceGetsMessage ==
  ASSUME None \notin Accounts, SlowSet = FALSE
  PROVE  Spec => OwedOne
<1>1. IInv /\ [Next]_vars => [(TurnStarts /\ owed # None) => turn' = owed]_vars
  BY TurnStartsInv
<1> QED
  BY <1>1, AlwaysOrderly, PTL DEF Spec, OwedOne

\* A choice never costs a second message on a spent account while another is ready.
THEOREM OneMessageAtMost ==
  ASSUME None \notin Accounts, SlowSet = FALSE
  PROVE  Spec => NotStranded
<1>1. IInv /\ [Next]_vars => [(TurnStarts /\ Stray) => ~strayed]_vars
  BY TurnStartsInv
<1> QED
  BY <1>1, AlwaysOrderly, PTL DEF Spec, NotStranded

\* No preflight and no failover leaves the chosen account before it was asked.
THEOREM NobodyOverrides ==
  ASSUME None \notin Accounts, SlowSet = FALSE
  PROVE  Spec => ChoiceStands
<1>1. IInv /\ [Next]_vars => [(owed # None /\ current = owed /\ owed' = owed) => current' = owed]_vars
  <2> SUFFICES ASSUME IInv, Next, owed # None, current = owed, owed' = owed, current' # current
               PROVE  FALSE
    OBVIOUS
  <2>1. ~Midway("msg") /\ ~Midway("fo") /\ (Midway("cmd") => owed = to["cmd"])
    BY DEF IInv, ChoiceOwed
  <2>2. ASSUME NEW a \in Accounts, UserSelects(a) PROVE FALSE
    BY <2>2 DEF UserSelects, MayChoose, Owes
  <2>3. CASE CommandLands
    BY <2>1, <2>3, LandsNamed, PlacesKnown DEF CommandLands, Midway, Setting
  <2>4. ~MessageLands /\ ~FailoverLands
    BY <2>1 DEF MessageLands, FailoverLands, Midway, Setting
  <2>5. CASE InjectPreflight
    <3>1. Pinned(probePin)
      <4>1. ~Midway("cmd")
        BY <2>5, PlacesKnown DEF InjectPreflight, IInv, Turns, OneSwitch, Free, Midway, Setting, Landed, Processes
      <4> QED
        BY <4>1 DEF IInv, ChoiceOwed, Pinned
    <3> QED
      BY <2>5, <3>1 DEF InjectPreflight, Stays
  <2>6. ASSUME \/ \E a \in Accounts, c \in BOOLEAN : CommandSwitch(a, c)
               \/ CommandReturns \/ Input \/ InputPreflight \/ BeforeAgentStart \/ MessageReturns
               \/ TurnStarts \/ TurnSucceeds \/ TurnRefused \/ FailoverBegins \/ FailoverReturns
               \/ AgentEndError \/ ContinuationStarts
               \/ \E a \in Accounts, f \in {"ready", "stale", "spent"} : UsageArrives(a, f)
        PROVE  FALSE
    BY <2>6 DEF CommandSwitch, CommandReturns, Input, InputPreflight, BeforeAgentStart, MessageReturns,
                TurnStarts, TurnSucceeds, TurnRefused, FailoverBegins, FailoverReturns,
                AgentEndError, ContinuationStarts, UsageArrives
  <2> QED
    BY <2>2, <2>3, <2>4, <2>5, <2>6, Zenon DEF Next
<1> QED
  BY <1>1, AlwaysOrderly, PTL DEF Spec, ChoiceStands

\* The continuation after a failover is sent where the failover went.
THEOREM ContinuationFollows ==
  ASSUME None \notin Accounts, SlowSet = FALSE
  PROVE  Spec => ProbeHeld
<1>1. IInv /\ [Next]_vars => [(ContinuationStarts /\ armed /\ probe # None) => turn' = probe]_vars
  BY ContinuationStartsInv
<1> QED
  BY <1>1, AlwaysOrderly, PTL DEF Spec, ProbeHeld
=============================================================================

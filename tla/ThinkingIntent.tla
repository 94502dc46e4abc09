--------------------------- MODULE ThinkingIntent ---------------------------
(***************************************************************************)
(* The thinking level of a session (src/index.ts, thinking_level_select,   *)
(* model_select, agent_start, session_start and the failover): the host    *)
(* caps the level at what the current model can do, and applies a model's  *)
(* own default when it has one, whenever the model changes.  The extension *)
(* changes models by itself, and tells the level the user wants from the   *)
(* level a fallback model happened to leave behind.                        *)
(*                                                                         *)
(* The host awaits the model_select handlers inside setModel, but sends    *)
(* thinking_level_select without waiting: an event is a record in a queue, *)
(* and its handler may run before or after the model_select handler, or    *)
(* after setModel has returned.                                            *)
(*                                                                         *)
(* Levels are ranks; 0 stands for undefined.  config.reasoningLevel is     *)
(* "auto", the session is no subagent child and carries no --model or      *)
(* --thinking flag.  lastModelByFamily, the notices and the usage refresh  *)
(* of model_select are left out.                                           *)
(***************************************************************************)
EXTENDS Integers, Sequences

CONSTANTS Models,       \* the models of the ready accounts
          None,         \* "no model"
          Cap,          \* Cap[m]: the highest level m accepts
          Native,       \* Native[m]: m's own default level, 0 when it has none
          Levels,       \* the levels the user picks from
          HostOwns,     \* the host keeps a branch per session (hostOwnsSessionModel)
          UserModels,   \* the user may pick a model by hand
          Order,        \* where the handler of a change of model's event may run:
                        \* "before" model_select, "between" it and the return of
                        \* setModel, "after" that
          Preflight,    \* the failover may act before the first turn
          During,       \* the user may pick a level while a model is being set
          MaxUser, MaxSwitches, MaxStarts

CapAssumption == \A m \in Models : Cap[m] \in Levels /\ Native[m] \in Levels \union {0}

VARIABLES model, level,       \* the host's model and level
          events,             \* thinking_level_select events not yet handled
          phase,              \* "idle", "asked", "selected": where a setModel is
          byUser,             \* that setModel is the user's
          desired,            \* desiredThinkingLevel
          clamp,              \* thinkingClamp
          seenLevel,          \* lastObservedThinkingLevel
          seenModel,          \* lastObservedModelKey
          pending,            \* pendingModelThinkingChange
          target,             \* automaticModelTarget
          saved,              \* lastUserModel and lastUserThinkingLevel on disk
          wish,               \* ghost: the level the user has asked for
          users, switches, starts

host == <<model, level, events>>
intent == <<desired, clamp, seenLevel, seenModel, pending>>
counters == <<users, switches, starts>>
vars == <<host, phase, byUser, intent, target, saved, wish, counters>>

NoClamp == [model |-> None, level |-> 0]
NoPending == [model |-> None, previous |-> 0, applied |-> 0]
Lower(a, b) == IF a < b THEN a ELSE b

(* The event the host sends when a change of level took place. *)
Emits(from, to, own) ==
    IF from = to THEN <<>> ELSE <<[previous |-> from, applied |-> to, own |-> own]>>


(* The level the host has after changing to model m at level l. *)
OnModel(m, l) == IF Native[m] # 0 THEN Native[m] ELSE Lower(l, Cap[m])

(* restoreDesiredThinking: assert the wanted level d, and remember as a    *)
(* clamp whatever the host made of it.  The event carries the mark of the  *)
(* extension.                                                              *)
Restore(d) ==
    IF d = 0
    THEN UNCHANGED <<level, events, clamp, seenLevel>>
    ELSE LET applied == Lower(d, Cap[model])
         IN  /\ level' = applied
             /\ events' = events \o Emits(level, applied, TRUE)
             /\ seenLevel' = applied
             /\ clamp' = IF applied = d THEN NoClamp ELSE [model |-> model, level |-> applied]

(* Mutant of Remember: the level the host runs at is saved. *)
RememberCurrent(m, d) ==
    saved' = IF HostOwns THEN saved ELSE [model |-> m, level |-> level]

(* rememberUserModel: what the next session starts from, on a host that    *)
(* keeps no branch of its own.                                             *)
Remember(m, d) ==
    saved' = IF HostOwns THEN saved ELSE [model |-> m, level |-> d]

-----------------------------------------------------------------------------
Settled == phase = "idle" /\ events = <<>>

Init ==
    /\ model \in Models
    /\ level = Cap[model]
    /\ events = <<>>
    /\ phase = "idle" /\ byUser = FALSE
    /\ desired = (IF HostOwns THEN level ELSE 0)
    /\ clamp = NoClamp
    /\ seenLevel = level /\ seenModel = model
    /\ pending = NoPending
    /\ target = None
    /\ saved = [model |-> model, level |-> level]
    /\ wish = level
    /\ users = 0 /\ switches = 0 /\ starts = 0

(* agent_start: the level before any failover can lower it.  A level that  *)
(* is not the wanted one and not the last clamp on this model is taken for *)
(* the user's.                                                             *)
(* Mutant of IsKnownClamp: every other level is the user's. *)
NeverKnownClamp == FALSE

IsKnownClamp == clamp = [model |-> model, level |-> level] /\ level # desired

CaptureDesiredThinking ==
    LET captured ==
            IF desired = 0
            THEN IF HostOwns \/ saved.level = 0 THEN level ELSE saved.level
            ELSE IF level # desired /\ ~IsKnownClamp THEN level ELSE desired
    IN  /\ desired' = captured
        /\ Restore(captured)

AgentStart ==
    /\ Settled
    /\ CaptureDesiredThinking
    /\ target' = None
    /\ UNCHANGED <<model, phase, byUser, seenModel, pending, saved, wish, counters>>

(* The failover asks for another model (setModelEnsuringVisible). *)
HostChanges(m) ==
    LET applied == OnModel(m, level)
    IN  /\ model' = m
        /\ level' = applied
        /\ events' = events \o Emits(level, applied, FALSE)

ActivateFallback(m) ==
    /\ Settled /\ m # model /\ switches < MaxSwitches
    /\ desired = 0 => Preflight
    /\ HostChanges(m)
    /\ target' = m
    /\ phase' = "asked" /\ byUser' = FALSE
    /\ switches' = switches + 1
    /\ UNCHANGED <<intent, saved, wish, users, starts>>

(* The user picks a model by hand.  The user's level is then the model's   *)
(* own default, or the level asked for before, as far as the model goes.   *)
UserSelectsModel(m) ==
    /\ UserModels
    /\ Settled /\ m # model /\ users < MaxUser
    /\ HostChanges(m)
    /\ wish' = OnModel(m, wish)
    /\ phase' = "asked" /\ byUser' = TRUE
    /\ users' = users + 1
    /\ UNCHANGED <<intent, target, saved, switches, starts>>

(* The event that came ahead of model_select explains the level found. *)
Foreseen == pending.model = model /\ pending.applied = level

NotedPending ==
    IF ~Foreseen /\ level # seenLevel
    THEN [model |-> model, previous |-> seenLevel, applied |-> level] ELSE NoPending

NotedClamp ==
    IF Foreseen \/ level # seenLevel THEN [model |-> model, level |-> level] ELSE clamp

(* The model_select handler. *)
ModelSelect ==
    /\ phase = "asked"
    /\ events # <<>> => Order \intersect {"between", "after"} # {}
    /\ pending' = NotedPending
    /\ seenLevel' = level /\ seenModel' = model
    /\ IF target = model
       THEN /\ target' = None
            /\ clamp' = NotedClamp
            /\ Remember(model, IF desired = 0 THEN level ELSE desired)
            /\ UNCHANGED desired
       ELSE /\ desired' = level
            /\ clamp' = NoClamp
            /\ Remember(model, level)
            /\ UNCHANGED target
    /\ phase' = IF byUser THEN "idle" ELSE "selected"
    /\ UNCHANGED <<host, byUser, wish, counters>>

(* Mutant of SetModelReturns: the intent is not asserted again. *)
SetModelLeaves ==
    /\ phase = "selected"
    /\ phase' = "idle"
    /\ UNCHANGED <<host, byUser, intent, target, saved, wish, counters>>

(* setModel has returned to the failover, which asserts the intent again. *)
SetModelReturns ==
    /\ phase = "selected"
    /\ events # <<>> => "after" \in Order
    /\ Restore(desired)
    /\ phase' = "idle"
    /\ UNCHANGED <<model, byUser, desired, seenModel, pending, target, saved, wish, counters>>

(* The user picks a level.  The host sends an event only when it changes. *)
UserSetsLevel(l) ==
    /\ IF During THEN phase = "selected" \/ Settled ELSE Settled
    /\ users < MaxUser
    /\ LET applied == Lower(l, Cap[model])
       IN  /\ applied # level
           /\ level' = applied
           /\ events' = Append(events, [previous |-> level, applied |-> applied, own |-> FALSE])
           /\ wish' = applied
    /\ users' = users + 1
    /\ UNCHANGED <<model, phase, byUser, intent, target, saved, switches, starts>>

-----------------------------------------------------------------------------
(* The thinking_level_select handler, one operator per way out of it. *)
Internal(e) == e.own \/ (phase \in {"asked", "selected"} /\ ~byUser)    \* internalModelChanges > 0

(* Mutant of ExplainsPending: the change model_select noted is forgotten. *)
ForgetsPending(e) == FALSE

ExplainsPending(e) ==
    pending = [model |-> model, previous |-> e.previous, applied |-> e.applied]

(* The handler runs before model_select: the model is new, the change      *)
(* starts at the level seen last.                                          *)
AheadOfModelSelect(e) == model # seenModel /\ e.previous = seenLevel

ThinkingLevelSelect ==
    /\ events # <<>>
    /\ phase = "asked" => "before" \in Order
    /\ phase = "selected" => "between" \in Order
    /\ events' = Tail(events)
    /\ \E e \in {Head(events)} :
        /\ seenLevel' = e.applied
        /\ IF Internal(e)
           THEN UNCHANGED <<desired, clamp, pending, saved>>
           ELSE IF ExplainsPending(e)
           THEN pending' = NoPending /\ UNCHANGED <<desired, clamp, saved>>
           ELSE IF AheadOfModelSelect(e)
           THEN /\ pending' = [model |-> model, previous |-> e.previous, applied |-> e.applied]
                /\ UNCHANGED <<desired, clamp, saved>>
           ELSE /\ desired' = e.applied
                /\ clamp' = NoClamp
                /\ Remember(model, e.applied)
                /\ UNCHANGED pending
    /\ UNCHANGED <<model, level, phase, byUser, seenModel, target, wish, counters>>

(* A new process: the host opens a model at that model's cap or below, and *)
(* the extension starts over from what is on disk.  A host with a branch   *)
(* hands the session its own level.                                        *)
SessionStart(m, l) ==
    /\ Settled /\ starts < MaxStarts
    /\ starts' = starts + 1
    /\ model' = m /\ level' = Lower(l, Cap[m])
    /\ desired' = (IF HostOwns THEN level' ELSE 0)
    /\ wish' = IF HostOwns \/ saved.level = 0 THEN level' ELSE wish
    /\ clamp' = NoClamp
    /\ seenLevel' = level' /\ seenModel' = m
    /\ pending' = NoPending /\ target' = None
    /\ phase' = "starting" /\ byUser' = FALSE
    /\ UNCHANGED <<events, saved, users, switches>>

(* restoreRememberedModel: already there, gone from the registry, or set. *)
RestoreRememberedModel ==
    /\ phase = "starting"
    /\ IF HostOwns \/ saved.model \in {None, model}
       THEN /\ Restore(desired)
            /\ phase' = "idle"
            /\ UNCHANGED <<model, desired, target>>
       ELSE \/ /\ phase' = "idle"
               /\ UNCHANGED <<host, desired, clamp, seenLevel, target>>
            \/ /\ desired' = IF saved.level # 0 THEN saved.level ELSE desired
               /\ HostChanges(saved.model)
               /\ target' = saved.model
               /\ phase' = "asked"
               /\ UNCHANGED <<clamp, seenLevel>>
    /\ UNCHANGED <<byUser, seenModel, pending, saved, wish, counters>>

Next ==
    \/ AgentStart
    \/ \E m \in Models : ActivateFallback(m) \/ UserSelectsModel(m)
    \/ ModelSelect
    \/ SetModelReturns
    \/ \E l \in Levels : UserSetsLevel(l)
    \/ ThinkingLevelSelect
    \/ \E m \in Models, l \in Levels : SessionStart(m, l)
    \/ RestoreRememberedModel

Spec == Init /\ [][Next]_vars

-----------------------------------------------------------------------------
TypeOK ==
    /\ model \in Models /\ seenModel \in Models
    /\ level \in Levels /\ level <= Cap[model]
    /\ desired \in Levels \union {0} /\ wish \in Levels
    /\ clamp.model \in Models \union {None} /\ pending.model \in Models \union {None}
    /\ phase \in {"idle", "starting", "asked", "selected"}
    /\ target \in Models \union {None}
    /\ saved.model \in Models \union {None} /\ saved.level \in Levels \union {0}

AtRest == phase = "idle" /\ events = <<>> /\ desired # 0

(* The next turn takes the host's level for the user's choice. *)
WillBeCaptured == level = wish /\ level # desired /\ ~IsKnownClamp

(* The level the extension holds for the session is the level the user     *)
(* asked for, or will be from the next turn on: no cap and no default of a *)
(* model the failover went through replaces it (GUARANTEES.md, row 22).    *)
IntentKept == AtRest => (desired = wish \/ WillBeCaptured)

(* Whatever fallbacks the session went through, it runs at the wanted      *)
(* level as far as the current model goes.                                 *)
RunsAsWished == AtRest => level = Lower(wish, Cap[model])

(* On a host that keeps no branch, the level a later session will start    *)
(* from is the user's, not a fallback's.                                   *)
SavedIsTheUsers == (AtRest /\ saved.level # 0) => saved.level = wish
=============================================================================

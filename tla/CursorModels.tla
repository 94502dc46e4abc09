---------------------------- MODULE CursorModels ----------------------------
(***************************************************************************)
(* The models of the Cursor accounts (src/cursor/index.ts, processModels;  *)
(* src/cursor/proxy.ts, getCursorModels and resolveModelId;                *)
(* src/cursor/cursor-shared.ts and src/cursor-bridge.ts).  Cursor lists    *)
(* every effort of a model as a model of its own.  The picker shows one    *)
(* entry for all of them, with a map from Pi's thinking level to an        *)
(* effort, and the proxy puts the effort back into the id it sends.  The   *)
(* entries of a slot come from a catalog read earlier, perhaps with        *)
(* another account's token, and the proxy keeps one catalog for all.       *)
(*                                                                         *)
(* An id is the sequence of its parts between dashes, so that a base may   *)
(* itself end in the name of an effort.  Display names, costs and limits   *)
(* are left out.  A level of Pi is a number; 0 is a request without one.   *)
(***************************************************************************)
EXTENDS Integers, Sequences, FiniteSets, SequencesExt

CONSTANTS Slots,        \* how many slots have a login
          Offers,       \* the catalogs an account may have
          Fallback      \* FALLBACK_MODELS

Efforts == {"low", "medium", "high", "xhigh", "max", "none"}
EffortOrder == <<"none", "low", "", "medium", "high", "xhigh", "max">>
Levels == 1..5      \* minimal, low, medium, high, xhigh

CatalogAssumption == Fallback # {} /\ {} \notin Offers

VARIABLES
    offered,    \* service: the models each slot's account may use
    cached,     \* cachedModels; {} for null
    registered, \* the catalog each slot's entries were made from
    hooked,     \* slots registered with onModelsDiscovered
    reading,    \* calls of getCursorModels that wait for Cursor
    next        \* the slot the startup's discovery is at; 0 when it is over

vars == <<offered, cached, registered, hooked, reading, next>>

-----------------------------------------------------------------------------
Rank(e) == CHOOSE i \in DOMAIN EffortOrder : EffortOrder[i] = e

Drop(id, part) == IF id[Len(id)] = part THEN Front(id) ELSE id
EndsIn(id, part) == id[Len(id)] = part
Suffix(part, present) == IF present THEN <<part>> ELSE <<>>

(* parseModelId, of the id without its -fast and -thinking. *)
Effort(rest) == IF Len(rest) >= 2 /\ Last(rest) \in Efforts THEN Last(rest) ELSE ""
Base(rest) == IF Len(rest) >= 2 /\ Last(rest) \in Efforts THEN Front(rest) ELSE rest

Parse(id) ==
    LET rest == Drop(Drop(id, "fast"), "thinking")
    IN  [base |-> Base(rest), effort |-> Effort(rest), fast |-> EndsIn(id, "fast"),
         thinking |-> EndsIn(Drop(id, "fast"), "thinking")]

GroupOf(id) == LET p == Parse(id) IN [base |-> p.base, fast |-> p.fast, thinking |-> p.thinking]

Groups(catalog) == {GroupOf(id) : id \in catalog}
EffortsOf(catalog, g) == {Parse(id).effort : id \in {i \in catalog : GroupOf(i) = g}}

(* Mutant of FirstOf: the wanted effort is taken whether it is there or not. *)
FirstOfBlind(targets, es) == targets[1]

(* pick: the first target among the efforts es, or else the lowest of es.  *)
FirstOf(targets, es) ==
    LET there == SelectSeq(targets, LAMBDA t : t \in es)
    IN  IF there # <<>> THEN there[1] ELSE SelectSeq(EffortOrder, LAMBDA t : t \in es)[1]

buildEffortMap(es) ==
    <<FirstOf(<<"none", "low", "">>, es), FirstOf(<<"low", "none", "">>, es),
      FirstOf(<<"medium", "", "low">>, es), FirstOf(<<"high", "medium", "">>, es),
      FirstOf(<<"max", "xhigh", "high">>, es)>>

(* Mutant of Entry: the id of a fast group is that of the slow one. *)
EntrySlow(g, es) ==
    [id |-> g.base \o Suffix("thinking", g.thinking), group |-> g,
     efforts |-> IF es = {""} THEN [l \in Levels |-> ""] ELSE buildEffortMap(es)]

(* One entry of the picker for a group with the efforts es.  A group whose *)
(* only member has no effort in its id stays what it is.                   *)
Entry(g, es) ==
    [id |-> g.base \o Suffix("thinking", g.thinking) \o Suffix("fast", g.fast),
     group |-> g,
     efforts |-> IF es = {""} THEN [l \in Levels |-> ""] ELSE buildEffortMap(es)]

processModels(catalog) == {Entry(g, EffortsOf(catalog, g)) : g \in Groups(catalog)}

-----------------------------------------------------------------------------
(* Where the proxy puts an effort: before one of -fast and -thinking.      *)
Stem(id) == IF EndsIn(id, "fast") THEN Front(id) ELSE Drop(id, "thinking")
Tail1(id) == IF EndsIn(id, "fast") THEN <<"fast">> ELSE Suffix("thinking", EndsIn(id, "thinking"))
WithEffort(id, e) == Stem(id) \o <<e>> \o Tail1(id)

(* Mutant of resolveModelId: the effort goes to the end of the id. *)
resolveModelIdAtEnd(id, e) == IF e = "" THEN id ELSE Append(id, e)

resolveModelId(id, e) == IF e = "" THEN id ELSE WithEffort(id, e)

EffortFallback == <<"medium", "high", "low", "xhigh", "max", "none">>

(* Mutant of resolveUsableModelId: an id nobody lists is sent as it is. *)
resolveUsableModelIdAsIs(id, known) == id

(* An id that is not listed goes to the variant of it that is. *)
resolveUsableModelId(id, known) ==
    IF known = {} \/ id \in known
    THEN id
    ELSE LET there == SelectSeq(EffortFallback, LAMBDA e : WithEffort(id, e) \in known)
         IN  IF there = <<>> THEN id ELSE WithEffort(id, there[1])

-----------------------------------------------------------------------------
(* What the proxy sends Cursor for entry at a level.  A request changes    *)
(* nothing here.                                                           *)
Sent(entry, level) ==
    resolveUsableModelId(
        resolveModelId(entry.id, IF level = 0 THEN "" ELSE entry.efforts[level]), cached)

(* setupCursorSubscription: every slot starts with the fallback list. *)
Init ==
    /\ offered \in [1..Slots -> Offers]
    /\ cached = {}
    /\ registered = [s \in 1..Slots |-> Fallback]
    /\ hooked = [s \in 1..Slots |-> TRUE]
    /\ reading = {}
    /\ next = 1

(* The startup's discovery goes through the slots until one can read a     *)
(* catalog, and gives that catalog to all of them, without the hook.       *)
RegisterAll(models) ==
    /\ registered' = [s \in 1..Slots |-> models]
    /\ hooked' = [s \in 1..Slots |-> FALSE]
    /\ next' = 0

(* A login or a token refresh reads a catalog for its own slot. *)
RegisterOne(s, models) ==
    /\ registered' = [registered EXCEPT ![s] = models]
    /\ hooked' = [hooked EXCEPT ![s] = FALSE]
    /\ UNCHANGED next

(* getCursorModels: the first catalog read in this process serves every    *)
(* later call, whatever its account.                                       *)
StartDiscovery ==
    /\ next # 0 /\ [slot |-> next, startup |-> TRUE] \notin reading
    /\ IF cached # {}
       THEN /\ RegisterAll(cached)
            /\ UNCHANGED reading
       ELSE /\ reading' = reading \union {[slot |-> next, startup |-> TRUE]}
            /\ UNCHANGED <<registered, hooked, next>>
    /\ UNCHANGED <<offered, cached>>

LoginOrRefresh(s) ==
    /\ hooked[s] /\ [slot |-> s, startup |-> FALSE] \notin reading
    /\ IF cached # {}
       THEN /\ RegisterOne(s, cached)
            /\ UNCHANGED reading
       ELSE /\ reading' = reading \union {[slot |-> s, startup |-> FALSE]}
            /\ UNCHANGED <<registered, hooked, next>>
    /\ UNCHANGED <<offered, cached>>

(* Cursor answers a call that was under way: the catalog is kept, over one *)
(* another call may have kept meanwhile.                                   *)
CatalogRead(r) ==
    /\ r \in reading
    /\ reading' = reading \ {r}
    /\ cached' = offered[r.slot]
    /\ IF r.startup THEN RegisterAll(offered[r.slot]) ELSE RegisterOne(r.slot, offered[r.slot])
    /\ UNCHANGED offered

(* Mutant of SlotAfter: the discovery does not stop behind the last slot. *)
SlotAfterLast(n) == n + 1

SlotAfter(n) == IF n < Slots THEN n + 1 ELSE 0

(* It times out, or its answer cannot be decoded. *)
CatalogFails(r) ==
    /\ r \in reading
    /\ reading' = reading \ {r}
    /\ next' = IF r.startup THEN SlotAfter(r.slot) ELSE next
    /\ UNCHANGED <<offered, cached, registered, hooked>>

(* The setup runs again when the slots change, and starts over. *)
SetupAgain ==
    /\ next = 0
    /\ registered' = [s \in 1..Slots |-> Fallback]
    /\ hooked' = [s \in 1..Slots |-> TRUE]
    /\ next' = 1
    /\ UNCHANGED <<offered, cached, reading>>

Next ==
    \/ StartDiscovery
    \/ \E s \in 1..Slots : LoginOrRefresh(s)
    \/ \E r \in reading : CatalogRead(r) \/ CatalogFails(r)
    \/ SetupAgain

Spec == Init /\ [][Next]_vars
-----------------------------------------------------------------------------
Entries(s) == processModels(registered[s])

TypeOK ==
    /\ offered \in [1..Slots -> Offers]
    /\ cached \in Offers \union {{}}
    /\ \A s \in 1..Slots : registered[s] \in Offers \union {Fallback}
    /\ hooked \in [1..Slots -> BOOLEAN]
    /\ reading \subseteq [slot : 1..Slots, startup : BOOLEAN]
    /\ next \in 0..Slots

(* The picker shows every model of the catalog once: no two entries have   *)
(* one id, though a base may end in the name of an effort.                 *)
EntriesApart ==
    \A s \in 1..Slots :
        Cardinality({entry.id : entry \in Entries(s)}) = Cardinality(Entries(s))

(* An entry at any level goes out as a model of its own base, speed and    *)
(* kind, one from the catalog the entry was made from or from the one the  *)
(* proxy holds by then, perhaps another account's.                         *)
PickIsListed ==
    \A s \in 1..Slots : \A entry \in Entries(s), level \in Levels :
        /\ Sent(entry, level) \in registered[s] \union cached
        /\ GroupOf(Sent(entry, level)) = entry.group

(* A request without a level goes out as a listed variant too, once the    *)
(* proxy holds the catalog the entries came from: the bare id of a folded  *)
(* entry "would otherwise ... die with `not_found`" (proxy.ts:671).        *)
BareIsListed ==
    \A s \in 1..Slots : registered[s] = cached =>
        \A entry \in Entries(s) :
            /\ Sent(entry, 0) \in cached
            /\ GroupOf(Sent(entry, 0)) = entry.group

=============================================================================

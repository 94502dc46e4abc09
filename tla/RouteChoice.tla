------------------------------ MODULE RouteChoice ------------------------------
(***************************************************************************)
(* Which account and model a session works on: the rotation discovered     *)
(* from the logins, the fallbacks of a refused request, `next` and `best`. *)
(*                                                                         *)
(* Abstractions: what a model is (its identity across accounts, quality    *)
(* band, place in the family's order) comes from tables; a login is the    *)
(* account it belongs to, so that two slots of one account show.  Bans are *)
(* counted in steps of Tick.  Of the refusals only the latest is           *)
(* remembered.  A switch that Pi refuses is a step of the walk over the    *)
(* candidates; what is cancelled meanwhile is in FailoverChain.            *)
(***************************************************************************)
EXTENDS Naturals, Sequences, SequencesExt, FiniteSets, FiniteSetsExt

CONSTANTS
  Order,          \* providers, family by family, base slot first
  Model, Group(_), \* models; the family or vendor of a provider
  Registry(_),    \* sequence of the models the host knows for a provider
  Preferred(_),   \* a family's order, strongest first
  Identity(_),    \* the model without its effort
  Band(_, _),     \* quality band of a model at a provider, or None
  Apex(_),        \* the model is of the apex line by its name
  Paid(_),        \* pay-per-token account of the dual-auth vendor
  Configs,        \* configurations
  Logins(_),      \* accounts a provider may be logged in to
  Current,        \* models a session starts on
  Readings,       \* subset of {"sure", "busy"}: verdicts a usage reading may give
  Faults,         \* subset of {"auth", "model", "setModel"}
  MaxCool,        \* longest ban, in ticks
  MaxSteps,       \* `next`s followed in a row
  None

Provider == ToSet(Order)
Route == [p : Provider, m : Model]

RouteAssumption ==
  /\ None \notin Model
  /\ \A p \in Provider : ToSet(Registry(p)) \subseteq Model
  /\ Current \subseteq {r \in Route : r.m \in ToSet(Registry(r.p))}
  /\ Readings \subseteq {"sure", "busy"} /\ MaxCool \in Nat /\ MaxSteps \in Nat

VARIABLES
  config, \* fallbacks, autoDiscover, latest, pin, ladder, excluded
  auth,   \* account each provider is logged in to
  h,      \* what is known of the accounts
  cur,    \* the route in use
  left,   \* lastLeftProvider, within its minute
  last,   \* lastModelByFamily
  did,    \* history: the step just taken
  choice, \* history: the route the user picked last
  walk    \* history: the providers of the `next`s since, and what they were for

vars == <<config, auth, h, cur, left, last, did, choice, walk>>

NoWalk == [seen |-> {}, steps |-> 0, due |-> {}]

Init ==
  /\ config \in Configs
  /\ auth \in [Provider -> UNION {Logins(p) : p \in Provider} \cup {None}]
  /\ \A p \in Provider : auth[p] \in Logins(p)
  /\ h = [cool |-> [p \in Provider |-> 0], spent |-> {}, invalid |-> {}, sure |-> {}, busy |-> {},
          refused |-> None]
  /\ cur \in Current /\ auth[cur.p] # None
  /\ left = None
  /\ last = [g \in {Group(p) : p \in Provider} |-> None]
  /\ did = "calm"
  /\ choice = cur
  /\ walk = NoWalk

(***************************************************************************)
(* Accounts.                                                               *)
(***************************************************************************)
Before(s, i) == {s[j] : j \in 1..(i - 1)}
Kept(s, Ok(_)) ==
  LET k == SelectSeq([i \in DOMAIN s |-> i], Ok) IN [j \in DOMAIN k |-> s[k[j]]]
Usable(p) == auth[p] # None
Eligible(p) == Usable(p) /\ p \notin h.invalid /\ p \notin config.excluded

Target(p) == [p |-> p, m |-> None]
Slots == [i \in DOMAIN Order |-> Target(Order[i])]

\* Mutant of discoverRotation: a slot stands for its account though it cannot serve.
discoverFirst ==
  Kept(Slots, LAMBDA i : Eligible(Order[i]) /\ \A p \in Before(Order, i) : auth[p] # auth[Order[i]])

\* One slot of every account, the first of its family.
discoverRotation ==
  Kept(Slots, LAMBDA i : /\ Eligible(Order[i])
                         /\ \A p \in Before(Order, i) : Eligible(p) => auth[p] # auth[Order[i]])

source ==
  IF config.autoDiscover THEN config.fallbacks \o discoverRotation
  ELSE IF config.fallbacks # <<>> THEN config.fallbacks ELSE discoverRotation

Allowed == SelectSeq(source, LAMBDA t : t.p \notin config.excluded)
OncePerTarget(s) == Kept(s, LAMBDA i : s[i] \notin Before(s, i))
OncePerAccount(s) ==
  Kept(s, LAMBDA i : \A t \in Before(s, i) : t # s[i] /\ (Usable(s[i].p) => auth[t.p] # auth[s[i].p]))

\* Mutant of activeFallbacks: only equal targets are dropped.
fallbacksByTarget == OncePerTarget(Allowed)

\* The targets in order, each account once.
activeFallbacks == OncePerAccount(Allowed)

(***************************************************************************)
(* Models of an account.                                                   *)
(***************************************************************************)
Same(a, b) == a # None /\ b # None /\ Identity(a) = Identity(b)
Pin(p) == config.pin[Group(p)]

familyPreferredModels(p) ==
  IF last[Group(p)] = None THEN Preferred(Group(p))
  ELSE <<last[Group(p)]>> \o SelectSeq(Preferred(Group(p)), LAMBDA m : m # last[Group(p)])
preferredModelsForProvider(p) ==
  IF Pin(p) = None THEN familyPreferredModels(p)
  ELSE <<Pin(p)>> \o SelectSeq(familyPreferredModels(p), LAMBDA m : ~Same(m, Pin(p)))

\* The last rank is that of a model in no order.
Unranked == 99
Place(s, Is(_)) == LET at == {i \in DOMAIN s : Is(s[i])} IN IF at = {} THEN Unranked ELSE Min(at)
modelRecencyRank(r) == Place(preferredModelsForProvider(r.p), LAMBDA m : Same(m, r.m))

\* Mutant of Find: a name is believed.
FindAnyway(p, m) == m

\* The models the host knows under these names, each once.
Find(p, m) ==
  IF m \in ToSet(Registry(p)) THEN m
  ELSE LET alike == SelectSeq(Registry(p), LAMBDA r : Same(r, m)) IN IF alike = <<>> THEN None ELSE alike[1]
Firsts(s) == Kept(s, LAMBDA i : s[i] # None /\ s[i] \notin Before(s, i))
findModels(p, ids) == Firsts([i \in DOMAIN ids |-> Find(p, ids[i])])

resolveTargets(t, from) ==
  LET kept == IF Group(t.p) = Group(from.p) THEN <<from.m>> ELSE <<>>
      order == preferredModelsForProvider(t.p)
  IN findModels(t.p, IF t.m # None THEN <<t.m>>
                     ELSE IF config.latest \/ Pin(t.p) # None THEN order \o kept \o Registry(t.p)
                     ELSE kept \o order \o Registry(t.p))

(***************************************************************************)
(* What may replace a model: the money, the pin, the bands.                *)
(***************************************************************************)
Named(r) == \E i \in DOMAIN config.fallbacks :
              config.fallbacks[i].p = r.p /\ (config.fallbacks[i].m = None \/ Same(config.fallbacks[i].m, r.m))
explicitlyAllowsPaidApexFallback(r, from) == ~Paid(r.p) \/ r.p = from.p \/ Named(r)
pinQualityCompatible(r, from) ==
  \/ ~Same(r.m, Pin(r.p)) \/ Band(from.m, from.p) = None
  \/ Band(r.m, r.p) = Band(from.m, from.p)

\* Mutant of bandCompatible: an equal band is asked of known bands only.
bandLoose(r, from) ==
  \/ Band(from.m, from.p) = None \/ Band(r.m, r.p) = None
  \/ Band(r.m, r.p) = Band(from.m, from.p)

\* Mutant of bandCompatible: a session of an unknown band may go anywhere.
bandPromotes(r, from) == Band(from.m, from.p) = None \/ Band(r.m, r.p) = Band(from.m, from.p)

\* Apex work stays apex and no other work becomes it; a name alone is not apex.
bandCompatible(r, from) ==
  LET b == Band(r.m, r.p)
      was == Band(from.m, from.p)
  IN IF Apex(r.m) /\ b # "apex" THEN was = None /\ Same(r.m, from.m)
     ELSE IF was = "apex" THEN b = "apex" /\ explicitlyAllowsPaidApexFallback(r, from)
     ELSE b # "apex" /\ (was = None \/ b = was)

\* Mutant of paidConsent: a paid account is as good as a subscription.
paidFreely(r, from) == TRUE

\* A subscription of the dual-auth vendor is not continued on its paid key.
paidConsent(r, from) ==
  (Group(from.p) = "dual" /\ ~Paid(from.p) /\ Paid(r.p)) =>
    \E i \in DOMAIN config.fallbacks : config.fallbacks[i].p = r.p

Offers(t, from, without) ==
  SelectSeq(resolveTargets(t, from), LAMBDA m :
    LET r == [p |-> t.p, m |-> m]
    IN /\ Eligible(r.p) /\ r.p \notin without
       /\ paidConsent(r, from) /\ pinQualityCompatible(r, from) /\ bandCompatible(r, from))

Cooled(r) == r \in h.spent

Flag(ms, free) == IF free = <<>> THEN ms[1] ELSE free[1]
Upgrade(p, m, flag) ==
  /\ config.latest /\ ~Same(Pin(p), flag) /\ modelRecencyRank([p |-> p, m |-> m]) # Unranked
  /\ modelRecencyRank([p |-> p, m |-> flag]) < modelRecencyRank([p |-> p, m |-> m])
OneOf(t, from, identity, ms, free, alike) ==
  IF ms = <<>> THEN None
  ELSE IF /\ identity /\ Group(t.p) = Group(from.p) /\ alike # <<>>
          /\ ~Upgrade(t.p, alike[1], Flag(ms, free))
  THEN alike[1] ELSE Flag(ms, free)
OfferOf(t, from, identity, ms, free) == OneOf(t, from, identity, ms, free, SelectSeq(free, LAMBDA m : Same(m, from.m)))
OfOffers(t, from, identity, ms) ==
  OfferOf(t, from, identity, ms, SelectSeq(ms, LAMBDA m : ~Cooled([p |-> t.p, m |-> m])))

\* Mutant of pick: the account's best model, whatever the work was done with.
pickFlagship(t, from, without, identity) == OfOffers(t, from, FALSE, Offers(t, from, without))

\* Each account offers one model: the one at work if its family has it and no
\* better one is free, else its best.
pick(t, from, without, identity) == OfOffers(t, from, identity, Offers(t, from, without))

(***************************************************************************)
(* The order of the candidates.                                            *)
(***************************************************************************)
Bit(b) == IF b THEN 1 ELSE 0
remaining(r) == Max({h.cool[r.p], Bit(Cooled(r))})
priorityRank(p) == Place(config.ladder, LAMBDA g : g = Group(p))

\* The keys candidates are compared by, the first that differs decides.
policy(r, i, from, identity) ==
  << Bit(identity /\ ~(Group(r.p) = Group(from.p) /\ Same(r.m, from.m))),
     Bit(identity /\ Group(r.p) # Group(from.p)),
     Bit(r.p \notin h.sure),
     Bit(r.p \in h.busy),
     priorityRank(r.p),
     Bit(r.p = h.refused),
     IF config.latest THEN modelRecencyRank(r) ELSE 0,
     i >>
Precedes(a, b) == \E k \in DOMAIN a : a[k] < b[k] /\ \A j \in 1..(k - 1) : a[j] = b[j]

\* What each account would be used for, leaving out the route in use.
Offered(fb, from, o) ==
  [i \in DOMAIN fb |-> [r |-> [p |-> fb[i].p, m |-> pick(fb[i], from, o.without, o.identity)], i |-> i]]
OncePerProvider(s) == Kept(s, LAMBDA k : \A a \in Before(s, k) : a.r.p # s[k].r.p)
scored(from, o) ==
  OncePerProvider(SelectSeq(Offered(activeFallbacks, from, o), LAMBDA a :
    a.r.m # None /\ (o.current \/ ~(a.r.p = from.p /\ Same(a.r.m, from.m)))))

Routes(s) == [k \in DOMAIN s |-> s[k].r]

ByPolicy(S, from, o) ==
  Routes(SortSeq(S, LAMBDA a, b : Precedes(policy(a.r, a.i, from, o.identity), policy(b.r, b.i, from, o.identity))))

\* Mutant of rankAutomatic: the ladder and the readings decide before the bans.
rankBlind(S, from, o) == ByPolicy(S, from, o)

\* rankAutomaticRouteCandidates, for candidates that are ready now; the account
\* just left is not returned to while there is another.
Unleft(S) == IF \E k \in DOMAIN S : S[k].r.p # left THEN SelectSeq(S, LAMBDA a : a.r.p # left) ELSE S
rankAutomatic(S, from, o) == ByPolicy(Unleft(SelectSeq(S, LAMBDA a : remaining(a.r) = 0)), from, o)

\* Mutant of ring: the ring begins at its start.
ringFromStart(S, from, l) == Routes(S)

\* `next`: the ring of the fallbacks, forward from the account in use.
Distance(i, from, fb) ==
  LET here == Place(fb, LAMBDA t : t.p = from.p)
      d == (Len(fb) + i - here) % Len(fb)
  IN IF here = Unranked THEN i ELSE IF d = 0 THEN Len(fb) ELSE d
Unhurried(s, l) == IF Len(s) > 1 /\ s[1].p = l THEN Append(Tail(s), s[1]) ELSE s
ring(S, from, l) ==
  Unhurried(Routes(SortSeq(S, LAMBDA a, b :
    Distance(a.i, from, activeFallbacks) < Distance(b.i, from, activeFallbacks))), l)

(***************************************************************************)
(* The steps.  A refusal and the switch it asks for are one run of code.   *)
(***************************************************************************)
Refused == {"limit", "auth", "model"}
Calm == did \notin Refused
Env == did' = IF did = "parked" THEN did ELSE "calm"

Bench(k, p, n) ==
  [k EXCEPT !.cool = [q \in Provider |->
     IF q = p \/ (Usable(p) /\ auth[q] = auth[p]) THEN Max({@[q], n}) ELSE @[q]]]

\* A request is refused for the account's quota, its login, or the model.
Limit ==
  /\ Calm /\ did # "parked"
  /\ \E n \in 1..MaxCool : h' = [Bench(h, cur.p, n) EXCEPT !.refused = cur.p]
  /\ left' = cur.p /\ did' = "limit" /\ walk' = NoWalk
  /\ UNCHANGED <<config, auth, cur, last, choice>>

AuthFails ==
  /\ "auth" \in Faults /\ Calm /\ did # "parked"
  /\ h' = [h EXCEPT !.invalid = @ \cup {cur.p}]
  /\ left' = cur.p /\ did' = "auth" /\ walk' = NoWalk
  /\ UNCHANGED <<config, auth, cur, last, choice>>

ModelFails ==
  /\ "model" \in Faults /\ Calm /\ did # "parked"
  /\ h' = [h EXCEPT !.spent = @ \cup {cur}]
  /\ did' = "model" /\ walk' = NoWalk
  /\ UNCHANGED <<config, auth, cur, left, last, choice>>

\* activateFallback: the first candidate Pi takes; the ones before it are benched.
Activate(s, n) ==
  /\ n \in 0..(IF "setModel" \in Faults THEN Len(s) ELSE 0)
  /\ h' = FoldLeft(LAMBDA k, r : Bench(k, r.p, 1), h, SubSeq(s, 1, n))
  /\ cur' = IF n < Len(s) THEN s[n + 1] ELSE cur

Remember == last' = IF cur' = cur THEN last ELSE [last EXCEPT ![Group(cur'.p)] = cur'.m]
Options(current, identity, without) == [current |-> current, identity |-> identity, without |-> without]
Candidates == scored(cur, Options(FALSE, TRUE, IF did = "auth" THEN {cur.p} ELSE {}))

Follow(s) ==
  \E n \in 0..Len(s) :
    /\ Activate(s, n)
    /\ did' = IF n < Len(s) THEN "auto" ELSE "parked"
    /\ UNCHANGED <<config, auth, left, last, choice, walk>>
Automatic == Follow(rankAutomatic(Candidates, cur, Options(FALSE, TRUE, {})))

\* switchToFallback, after the refusal.
Switch == ~Calm /\ Automatic

\* The wake of parked work: another account if one is ready, else the one that
\* was left once it is.
Wake ==
  /\ did = "parked"
  /\ \/ Automatic /\ did' = "auto"
     \/ /\ Candidates = <<>>
        /\ Eligible(cur.p) /\ remaining(cur) = 0
        /\ did' = "auto"
        /\ UNCHANGED <<config, auth, h, cur, left, last, choice, walk>>

\* /multi-account next
NextCommand ==
  /\ Calm
  /\ \E S \in {Candidates} : \E s \in {ring(S, cur, cur.p)} : \E n \in 0..Len(s) :
       LET able == {S[k].r.p : k \in DOMAIN S}
           due == IF walk.steps = 0 THEN able ELSE walk.due \cap (able \cup {cur.p})
       IN /\ s # <<>> /\ walk.steps < MaxSteps
          /\ Activate(s, n)
          /\ walk' = [seen |-> walk.seen \cup {s[k].p : k \in 1..Min({n + 1, Len(s)})},
                      steps |-> walk.steps + 1, due |-> due]
  /\ left' = cur.p /\ did' = "next" /\ Remember
  /\ UNCHANGED <<config, auth, choice>>

\* /multi-account best; a walk that comes to the account in use benches it too.
Best ==
  /\ Calm
  /\ LET o == Options(TRUE, FALSE, {})
     IN \E s \in {rankAutomatic(scored(cur, o), cur, o)} :
          /\ s # <<>> /\ s[1] # cur
          /\ \E n \in 0..Len(s) : (n < Len(s) => s[n + 1] # cur) /\ Activate(s, n)
  /\ did' = "best" /\ walk' = NoWalk /\ Remember
  /\ UNCHANGED <<config, auth, left, choice>>

\* The user picks a model.
Pick ==
  /\ Calm
  /\ \E r \in Current \ {cur} : Usable(r.p) /\ cur' = r
  /\ choice' = cur' /\ last' = [last EXCEPT ![Group(cur'.p)] = cur'.m]
  /\ did' = "calm" /\ walk' = NoWalk
  /\ UNCHANGED <<config, auth, h, left>>

\* A request succeeds.
Succeed ==
  /\ Calm /\ did # "parked"
  /\ h' = [h EXCEPT !.cool[cur.p] = 0, !.refused = IF @ = cur.p THEN None ELSE @]
  /\ Env /\ UNCHANGED <<config, auth, cur, left, last, choice, walk>>

Tick ==
  /\ Calm
  /\ h' = [h EXCEPT !.cool = [p \in Provider |-> IF @[p] = 0 THEN 0 ELSE @[p] - 1], !.spent = {}]
  /\ left' = None
  /\ Env /\ walk' = NoWalk /\ UNCHANGED <<config, auth, cur, last, choice>>

\* A usage reading: the account is free, or spent, or says nothing.
Reading ==
  /\ Calm /\ Readings # {}
  /\ \E p \in Provider, v \in Readings \cup {"silent"} :
       h' = [h EXCEPT !.sure = IF v = "sure" THEN @ \cup {p} ELSE @ \ {p},
                      !.busy = IF v = "busy" THEN @ \cup {p} ELSE @ \ {p}]
  /\ Env /\ UNCHANGED <<config, auth, cur, left, last, choice, walk>>

\* The user logs in or out; a new login is believed.
Login ==
  /\ Calm
  /\ \E p \in Provider : \E a \in Logins(p) \ {auth[p]} :
       /\ auth' = [auth EXCEPT ![p] = a]
       /\ h' = [h EXCEPT !.invalid = @ \ {p}, !.cool[p] = 0]
  /\ Env /\ walk' = NoWalk /\ UNCHANGED <<config, cur, left, last, choice>>

Next ==
  \/ Limit \/ AuthFails \/ ModelFails
  \/ Switch \/ Wake
  \/ NextCommand \/ Best \/ Pick
  \/ Succeed \/ Tick \/ Reading \/ Login

Spec == Init /\ [][Next]_vars

-------------------------------------------------------------------------------
(***************************************************************************)
(* Properties.                                                             *)
(***************************************************************************)
\* Routes in use exist; bans are bounded; only configured logins are known.
TypeOK ==
  /\ cur \in Route /\ cur.m \in ToSet(Registry(cur.p))
  /\ h.cool \in [Provider -> 0..MaxCool] /\ h.invalid \subseteq Provider /\ h.spent \subseteq Route
  /\ \A p \in Provider : auth[p] \in Logins(p)
  /\ Cardinality(walk.seen) <= Len(Order)

\* No account is tried twice under two names.
AccountOnce ==
  \A i, j \in DOMAIN activeFallbacks :
    i # j => \/ auth[activeFallbacks[i].p] = None
             \/ auth[activeFallbacks[i].p] # auth[activeFallbacks[j].p]

\* Every account the user is logged in to carries work, under one of its slots.
EveryAccountServed ==
  config.autoDiscover =>
    \A p \in Provider : Eligible(p) =>
      \E i \in DOMAIN activeFallbacks :
        /\ auth[activeFallbacks[i].p] = auth[p] /\ Eligible(activeFallbacks[i].p)
        /\ resolveTargets(activeFallbacks[i], cur) # <<>>

\* Whatever the extension does, by itself or on `next` and `best`, work stays
\* in the quality band of the model the user picked, and never becomes apex.
BandOfChoice ==
  \/ Band(cur.m, cur.p) = Band(choice.m, choice.p)
  \/ Band(choice.m, choice.p) = None /\ Band(cur.m, cur.p) # "apex"

\* A sibling account, other than the one just left, can serve the model at work.
SiblingAble ==
  \E i \in DOMAIN activeFallbacks :
    LET r == [p |-> activeFallbacks[i].p, m |-> cur.m]
    IN /\ activeFallbacks[i].m = None /\ r.p \notin {cur.p, left} /\ Group(r.p) = Group(cur.p)
       /\ Eligible(r.p) /\ paidConsent(r, cur)
       /\ \E m \in ToSet(Registry(r.p)) : Same(m, cur.m) /\ remaining([r EXCEPT !.m = m])' = 0

\* While there is one, a refusal moves the work to a sibling, with this model
\* or, if the newest is wanted, a better one; a pin is no reason to change it.
SiblingFirstStep ==
  (did' = "auto" /\ cur' # cur /\ SiblingAble)
    => /\ Group(cur'.p) = Group(cur.p)
       /\ \/ Same(cur'.m, cur.m)
          \/ /\ config.latest /\ ~Same(cur'.m, Pin(cur.p))
             /\ modelRecencyRank(cur') < modelRecencyRank([cur EXCEPT !.p = cur'.p])
SiblingFirst == [][SiblingFirstStep]_vars

\* Work of a subscription is not continued on a key the user pays per token
\* unless the configuration names it.
NoSilentBillStep ==
  (did' \in {"auto", "best", "next"} /\ cur' # cur /\ Group(cur.p) = "dual" /\ ~Paid(cur.p) /\ Paid(cur'.p))
    => \E i \in DOMAIN config.fallbacks : config.fallbacks[i].p = cur'.p
NoSilentBill == [][NoSilentBillStep]_vars

\* Work is moved only to an account that is not benched, and `best` prefers
\* none that is not known to be free to one that is.
MovesToReadyStep ==
  (did' \in {"auto", "best"} /\ cur' # cur) =>
    h.cool[cur'.p] = 0 /\ cur' \notin h.spent /\ Eligible(cur'.p)
MovesToReady == [][MovesToReadyStep]_vars

\* `next` comes to every account that can take the work before it comes back.
RingComplete == walk.steps >= Cardinality(walk.due) => walk.due \subseteq walk.seen

===============================================================================

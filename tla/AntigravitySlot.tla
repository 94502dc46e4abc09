--------------------------- MODULE AntigravitySlot ---------------------------
(***************************************************************************)
(* One Antigravity slot (src/antigravity/provider.ts): the account's model *)
(* catalog with its quotas, kept in memory beside the identity it belongs  *)
(* to, and checked before every request leaves.  Requests, the catalog     *)
(* refresh of /antigravity, the local refresh of a session start, a login  *)
(* and Pi's token rotation all write it, each across an await.             *)
(*                                                                         *)
(* The catalog is one model with its quota.  A quota of the service has a  *)
(* version, which grows with every change; what an answer says is as of    *)
(* the moment the service answers.  A project is taken with its account.   *)
(* The generation counter is relative: a process that took the current     *)
(* number is in `current`, and every increment empties it.  A unit of the  *)
(* clock stands for more than 60 s.                                        *)
(***************************************************************************)
EXTENDS Integers, FiniteSets

CONSTANTS Accounts, None,
          Requests,     \* requests of this slot in flight
          Refreshes,    \* catalog refreshes in flight
          Kinds,        \* "network" and "offline" refreshes that happen
          LoginAccounts,\* the accounts that sign in to this slot during the run
          MaxTokens, MaxVersion, MaxClock

Processes == Requests \union Refreshes
Versions == 0..MaxVersion

SlotAssumption ==
    /\ None \notin Accounts
    /\ Requests \intersect Refreshes = {}
    /\ LoginAccounts \subseteq Accounts
    /\ MaxTokens \in Nat \ {0} /\ MaxClock \in Nat \ {0} /\ MaxVersion \in Nat

VARIABLES
    spent,      \* service: spent[v]: the quota of version v is zero
    version,    \* service: the version each account's quota is at
    clock,
    stored,     \* Pi's credential for the slot, with the catalog of its login
    entries,    \* entries: [owner, version], the account they were read for
    account,    \* account and accountProject
    updatedAt,  \* 0: never
    binding,    \* requestBinding: [account, token]
    current,    \* the processes whose epoch is still the generation
    pc,         \* where a request or a refresh stands
    cred,       \* the credential it works with
    answer,     \* the catalog the service answered
    login,      \* a login between its catalog and Pi's storage
    known,      \* ghost: the newest version read since the slot took its account
    sent        \* ghost: what the last request left with

memory == <<entries, account, updatedAt, binding>>
work == <<pc, cred, answer>>
vars == <<spent, version, clock, stored, memory, current, work, login, known, sent>>

NoCred == [account |-> None, token |-> 0, version |-> 0, at |-> 0]
NoEntries == [owner |-> None, version |-> 0]
NoSent == [account |-> None, owner |-> None, version |-> 0, known |-> 0, at |-> 0, clock |-> 0]

BindingOf(c) == [account |-> c.account, token |-> c.token]

-----------------------------------------------------------------------------
Init ==
    /\ spent \in [Versions -> BOOLEAN]
    /\ clock = 1
    /\ \E a \in Accounts, at \in 0..1 :
           /\ version = [b \in Accounts |-> 0]
           /\ stored = [account |-> a, token |-> 1, version |-> 0, at |-> at]
           /\ entries = [owner |-> a, version |-> 0]
           /\ account = a
           /\ updatedAt = at
           /\ binding = [account |-> a, token |-> 1]
    /\ current = {}
    /\ pc = [p \in Processes |-> "idle"]
    /\ cred = [p \in Processes |-> NoCred]
    /\ answer = [p \in Processes |-> NoEntries]
    /\ login = NoCred
    /\ known = 0
    /\ sent = NoSent

Newest(v) == IF known > v THEN known ELSE v

(* publish: the slot becomes credential c, with the entries es read at t;  *)
(* every epoch taken before is out of date.                                *)
Publish(c, es, t) ==
    /\ entries' = es
    /\ account' = c.account
    /\ updatedAt' = t
    /\ binding' = BindingOf(c)
    /\ current' = {}
    /\ known' = IF c.account = account THEN Newest(es.version) ELSE es.version

CatalogOf(c) == [owner |-> c.account, version |-> c.version]

(* Pi reads the slot's credential for a request or for a refresh. *)
ReadCredential(p) ==
    /\ pc[p] = "idle" /\ stored # NoCred
    /\ pc' = [pc EXCEPT ![p] = IF p \in Requests THEN "auth" ELSE "refresh"]
    /\ cred' = [cred EXCEPT ![p] = stored]
    /\ UNCHANGED <<spent, version, clock, stored, memory, current, answer, login, known, sent>>

(* A new token of the same account: what was read with the old one is no   *)
(* longer trusted.                                                         *)
Rebind(c) ==
    IF BindingOf(c) = binding
    THEN UNCHANGED <<memory, current, known>>
    ELSE /\ binding' = BindingOf(c)
         /\ updatedAt' = 0
         /\ current' = {}
         /\ UNCHANGED <<entries, account, known>>

(* oauth.toAuth: the host resolves the request's credential. *)
ToAuth(p) ==
    /\ pc[p] = "auth"
    /\ IF cred[p].account # account
       THEN Publish(cred[p], CatalogOf(cred[p]), cred[p].at)
       ELSE Rebind(cred[p])
    /\ pc' = [pc EXCEPT ![p] = "before"]
    /\ UNCHANGED <<spent, version, clock, stored, cred, answer, login, sent>>

Expired == updatedAt # clock

(* Mutant of MayLeave: the model's quota is not looked at. *)
MayLeaveListed(es) == es.owner # None

(* The model is in the catalog and is not known to be spent. *)
MayLeave(es) == es.owner # None /\ ~spent[es.version]

(* The end of beforeRequest with catalog es, read at t, where k is the     *)
(* newest version the slot has read: the request leaves or fails.          *)
Dispatch(p, es, t, k) ==
    /\ pc' = [pc EXCEPT ![p] = IF MayLeave(es) THEN "left" ELSE "refused"]
    /\ sent' = IF MayLeave(es)
               THEN [account |-> cred[p].account, owner |-> es.owner, version |-> es.version,
                     known |-> k, at |-> t, clock |-> clock]
               ELSE sent

(* Mutant of TakeEpoch: a fetch does not count as a change of generation. *)
TakeEpochShared(p) == current' = current \union {p}

(* const epoch = ++generation *)
TakeEpoch(p) == current' = {p}

(* Mutant of Matches: only the project of the request is looked at. *)
MatchesAny(c) == account # None

(* The request's token and project are those the slot resolved last. *)
Matches(c) == BindingOf(c) = binding /\ c.account = account

(* beforeRequest up to its await: the request's token has to be the one    *)
(* the slot resolved last, and an expired snapshot is read again.          *)
BeforeRequest(p) ==
    /\ pc[p] = "before"
    /\ IF ~Matches(cred[p])
       THEN /\ pc' = [pc EXCEPT ![p] = "mismatch"]
            /\ UNCHANGED <<current, sent>>
       ELSE IF Expired
       THEN /\ TakeEpoch(p)
            /\ pc' = [pc EXCEPT ![p] = "asked"]
            /\ UNCHANGED sent
       ELSE /\ Dispatch(p, entries, updatedAt, known)
            /\ UNCHANGED current
    /\ UNCHANGED <<spent, version, clock, stored, memory, cred, answer, login, known>>

(* The service answers a catalog request, or the request fails. *)
Answer(p) ==
    /\ pc[p] = "asked"
    /\ \/ /\ answer' = [answer EXCEPT ![p] = [owner |-> cred[p].account,
                                              version |-> version[cred[p].account]]]
          /\ pc' = [pc EXCEPT ![p] = "answered"]
       \/ /\ pc' = [pc EXCEPT ![p] = "failed"]
          /\ UNCHANGED answer
    /\ UNCHANGED <<spent, version, clock, stored, memory, current, cred, login, known, sent>>

(* Mutant of StillCurrent: the epoch is not compared. *)
AlwaysCurrent(p) == TRUE

(* epoch === generation *)
StillCurrent(p) == p \in current

(* beforeRequest after its await: only the latest reading may write the    *)
(* snapshot, and the request goes by what it read.                         *)
Fetched(p) ==
    /\ p \in Requests /\ pc[p] = "answered"
    /\ IF StillCurrent(p)
       THEN /\ entries' = answer[p]
            /\ updatedAt' = clock
            /\ binding' = BindingOf(cred[p])
            /\ known' = Newest(answer[p].version)
            /\ Dispatch(p, answer[p], clock, Newest(answer[p].version))
            /\ UNCHANGED account
       ELSE /\ pc' = [pc EXCEPT ![p] = "changed"]
            /\ UNCHANGED <<memory, known, sent>>
    /\ UNCHANGED <<spent, version, clock, stored, current, cred, answer, login>>

(* The process is over; the next one starts anew. *)
Ends(p) ==
    /\ pc[p] \in {"left", "refused", "mismatch", "changed", "failed", "done"}
    /\ pc' = [pc EXCEPT ![p] = "idle"]
    /\ cred' = [cred EXCEPT ![p] = NoCred]
    /\ answer' = [answer EXCEPT ![p] = NoEntries]
    /\ sent' = IF pc[p] = "left" THEN NoSent ELSE sent
    /\ current' = current \ {p}
    /\ UNCHANGED <<spent, version, clock, stored, memory, login, known>>

-----------------------------------------------------------------------------
(* refreshModels: without network it publishes what the credential holds,  *)
(* with it the catalog is asked for.                                       *)
RefreshOffline(p) ==
    /\ "offline" \in Kinds
    /\ pc[p] = "refresh"
    /\ Publish(cred[p], CatalogOf(cred[p]), cred[p].at)
    /\ pc' = [pc EXCEPT ![p] = "done"]
    /\ UNCHANGED <<spent, version, clock, stored, cred, answer, login, sent>>

RefreshNetwork(p) ==
    /\ "network" \in Kinds
    /\ pc[p] = "refresh"
    /\ TakeEpoch(p)
    /\ pc' = [pc EXCEPT ![p] = "asked"]
    /\ UNCHANGED <<spent, version, clock, stored, memory, cred, answer, login, known, sent>>

(* After its answer the refresh looks at the generation twice: before it   *)
(* asks Pi to publish, and inside the update Pi runs.                      *)
RefreshAnswered(p) ==
    /\ p \in Refreshes /\ pc[p] = "answered"
    /\ pc' = [pc EXCEPT ![p] = IF StillCurrent(p) THEN "publishing" ELSE "done"]
    /\ UNCHANGED <<spent, version, clock, stored, memory, current, cred, answer, login, known, sent>>

RefreshPublishes(p) ==
    /\ pc[p] = "publishing"
    /\ IF StillCurrent(p)
       THEN Publish(cred[p], answer[p], clock)
       ELSE UNCHANGED <<memory, current, known>>
    /\ pc' = [pc EXCEPT ![p] = "done"]
    /\ UNCHANGED <<spent, version, clock, stored, cred, answer, login, sent>>

(* The slot has no credential any more: the refresh empties it. *)
RefreshSignedOut ==
    /\ stored = NoCred /\ account # None
    /\ entries' = NoEntries /\ account' = None /\ updatedAt' = 0
    /\ binding' = BindingOf(NoCred)
    /\ current' = {}
    /\ known' = 0
    /\ UNCHANGED <<spent, version, clock, stored, work, login, sent>>

-----------------------------------------------------------------------------
(* oauth.login: the account's catalog is read, the slot becomes the new    *)
(* account, and Pi stores the credential afterwards.                       *)
LoginResolves(a) ==
    /\ login = NoCred /\ a \in LoginAccounts /\ a # stored.account
    /\ login' = [account |-> a, token |-> 1, version |-> version[a], at |-> clock]
    /\ Publish(login', CatalogOf(login'), clock)
    /\ UNCHANGED <<spent, version, clock, stored, work, sent>>

LoginStored ==
    /\ login # NoCred
    /\ stored' = login
    /\ login' = NoCred
    /\ UNCHANGED <<spent, version, clock, memory, current, work, known, sent>>

(* Pi refreshes the token: the rest of the credential is carried over. *)
RotateToken ==
    /\ stored # NoCred /\ stored.token < MaxTokens
    /\ stored' = [stored EXCEPT !.token = @ + 1]
    /\ UNCHANGED <<spent, version, clock, memory, current, work, login, known, sent>>

SignOut ==
    /\ LoginAccounts # {} /\ stored # NoCred
    /\ stored' = NoCred
    /\ UNCHANGED <<spent, version, clock, memory, current, work, login, known, sent>>

(* The service: an account's quota is spent or comes back. *)
QuotaMoves(a) ==
    /\ version[a] < MaxVersion
    /\ version' = [version EXCEPT ![a] = @ + 1]
    /\ UNCHANGED <<spent, clock, stored, memory, current, work, login, known, sent>>

Minute ==
    /\ clock < MaxClock
    /\ clock' = clock + 1
    /\ UNCHANGED <<spent, version, stored, memory, current, work, login, known, sent>>

Next ==
    \/ \E p \in Processes : ReadCredential(p) \/ Answer(p) \/ Ends(p)
    \/ \E p \in Requests : ToAuth(p) \/ BeforeRequest(p) \/ Fetched(p)
    \/ \E p \in Refreshes : \/ RefreshOffline(p) \/ RefreshNetwork(p)
                            \/ RefreshAnswered(p) \/ RefreshPublishes(p)
    \/ RefreshSignedOut
    \/ \E a \in Accounts : LoginResolves(a) \/ QuotaMoves(a)
    \/ LoginStored \/ RotateToken \/ SignOut \/ Minute

Spec == Init /\ [][Next]_vars

-----------------------------------------------------------------------------
TypeOK ==
    /\ spent \in [Versions -> BOOLEAN] /\ version \in [Accounts -> Versions]
    /\ clock \in 1..MaxClock /\ updatedAt \in 0..clock
    /\ {stored.account, account, entries.owner} \subseteq Accounts \union {None}
    /\ current \subseteq Processes /\ Cardinality(current) <= 1
    /\ \A p \in Processes : pc[p] \in {"idle", "auth", "before", "asked", "answered", "left",
                                       "refused", "mismatch", "changed", "failed",
                                       "refresh", "publishing", "done"}

(* A request leaves only against the catalog of its own account, however   *)
(* logins, rotations, refreshes and other requests interleave with it      *)
(* ("exact account binding", docs/antigravity.md:38).                      *)
OwnCatalog == sent.owner = sent.account

(* A request leaves only on a catalog read within the last minute, and on  *)
(* nothing older than what the slot has read of the account already: a     *)
(* quota known to be zero stops it (docs/antigravity.md:22).               *)
LatestEvidence == sent # NoSent => sent.at = sent.clock /\ sent.version >= sent.known

(* A request never leaves for a model whose quota the slot has read to be  *)
(* zero since it took the account ("Known zero quota prevents dispatch",   *)
(* docs/antigravity.md:22).                                                *)
KnownZeroStops == sent # NoSent => ~spent[sent.known]

(* The slot's snapshot is what its account has to go by: every request     *)
(* leaves against its own catalog and on the newest evidence of its quota. *)
EvidenceOwn == TypeOK /\ OwnCatalog /\ LatestEvidence /\ KnownZeroStops

=============================================================================

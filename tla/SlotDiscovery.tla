--------------------------- MODULE SlotDiscovery ---------------------------
(***************************************************************************)
(* The numbered slots of one family with interactive login (Codex), as one *)
(* process sees them: what is registered with Pi, which models a slot       *)
(* shows, which cooldown and which live catalog are kept for it, and the    *)
(* rotation.  The login file is written by Pi (login, logout, refresh), by  *)
(* other programs and by this extension's commands; refreshDiscovery brings *)
(* the memory up to date whenever the file's time has changed, and the      *)
(* catalog sync fetches each account's models over the network.             *)
(*                                                                         *)
(* Abstractions: a list of models is the set of accounts whose live        *)
(* catalogs it holds and the version of the host's list behind them (0 is   *)
(* this extension's own static list); a cooldown is the account that was    *)
(* refused; one catalog sync is in flight at a time.                        *)
(***************************************************************************)
EXTENDS Naturals, FiniteSets, FiniteSetsExt

CONSTANTS
  MaxAccounts,   \* config.maxAccountsPerProvider: slots are numbered 1..MaxAccounts
  Account,       \* the real accounts
  Opaque,        \* those whose logins carry no stable identity
  AutoDiscover,  \* config.autoDiscoverModels
  Commands,      \* the commands in use: add, remove, clear, revive
  Ways,          \* how a login may reach a slot, beyond being written over the one it replaces
  Limits,        \* whether accounts are refused for quota
  MaxToken,      \* bound on the tokens issued
  MaxHost        \* the newest version of the host's list

Nobody == "none"

SlotAssumption ==
  /\ MaxAccounts \in Nat \ {0, 1}
  /\ Opaque \subseteq Account /\ Nobody \notin Account
  /\ AutoDiscover \in BOOLEAN
  /\ Commands \subseteq {"add", "remove", "clear", "revive"}
  \* afterLogout: the slot is seen empty first; meanwhile: while a catalog is fetched, or
  \* before discovery has seen the last change; restarts: the process ends and starts again;
  \* whileDown: and the file changes between; besideIt: in another window too
  /\ Ways \subseteq {"afterLogout", "meanwhile", "restarts", "whileDown", "besideIt"}
  /\ Limits \in BOOLEAN
  /\ MaxToken \in Nat /\ MaxHost \in Nat

VARIABLES
  auth,        \* the login file
  tokens,      \* tokens issued so far
  dirty,       \* the file's time is not the one discovery has seen
  logging,     \* logins that passed the check for duplicates and are not stored yet
  seen,        \* credentialHashes and credentialIdentities
  cooldown,    \* exhaustedUntilByProvider: whose refusal it is
  catalog,     \* codexModelCatalogByProvider: whose models, and within the TTL
  registered,  \* registeredSlots
  shown,       \* the models registered with Pi
  host,        \* the host's list
  hostSeen,    \* registryCodexModelOrder
  rotation,    \* the slots in rotation
  sync,        \* the providers of the sync in flight; empty when there is none
  fetch,       \* their fetches
  command,     \* the command in flight
  hint         \* the slot `add` has just named, 0 for none

vars == <<auth, tokens, dirty, logging, seen, cooldown, catalog, registered, shown,
          host, hostSeen, rotation, sync, fetch, command, hint>>
fileVars == <<auth, tokens, dirty, logging>>
keptVars == <<seen, cooldown, catalog>>
listVars == <<registered, shown, hostSeen, rotation>>
syncVars == <<sync, fetch>>

Slot == 1..MaxAccounts
Base == 1
Someone == Account \cup {Nobody}
NoLogin == [acct |-> Nobody, tok |-> 0, live |-> FALSE]
Login(a, t) == [acct |-> a, tok |-> t, live |-> TRUE]
NoFetch == [st |-> "no", acct |-> Nobody, again |-> FALSE]
Idle == [kind |-> Nobody, slot |-> Base, st |-> "idle", todo |-> {}]
Models(of, h) == [of |-> of, host |-> h]
NoCatalog == [of |-> Nobody, fresh |-> FALSE]

TypeOK ==
  /\ auth \in [Slot -> [acct : Someone, tok : 0..MaxToken, live : BOOLEAN]]
  /\ tokens \in 0..MaxToken /\ dirty \in BOOLEAN
  /\ logging \in [Slot -> Someone]
  /\ seen \in [Slot -> [tok : 0..MaxToken, acct : Someone]]
  /\ cooldown \in [Slot -> Someone]
  /\ catalog \in [Slot -> [of : Someone, fresh : BOOLEAN]]
  /\ registered \subseteq Slot \ {Base}
  /\ shown \in [Slot -> [of : SUBSET Account, host : 0..MaxHost]]
  /\ host \in 0..MaxHost /\ hostSeen \in 0..MaxHost
  /\ rotation \subseteq Slot /\ sync \subseteq Slot
  /\ fetch \in [Slot -> [st : {"no", "asked", "sent"}, acct : Someone, again : BOOLEAN]]
  /\ \A s \in Slot : fetch[s].st # "no" => s \in sync
  /\ command \in [kind : Commands \cup {Nobody}, slot : Slot,
                  st : {"idle", "asked", "gone", "clears", "finds", "wipes"}, todo : SUBSET Slot]
  /\ hint \in 0..MaxAccounts

----------------------------------------------------------------------------
\* isEntryUsable: an expired token that cannot be refreshed is dead.
IsEntryUsable(l) == l.live
Usable(file) == {s \in Slot : IsEntryUsable(file[s])}
\* accountIdentity falls back to the token: opaque logins are never the same.
AccountIdentity(l) == IF l.acct \in Opaque THEN <<"tok", l.tok>> ELSE <<l.acct, 0>>
\* stableAccountFingerprint does not: it is absent for an opaque login.
Fingerprint(l) == IF l.acct \in Opaque THEN Nobody ELSE l.acct

\* discoverDuplicateSlots
DuplicateSlots(file) ==
  {s \in Usable(file) : \E p \in Usable(file) :
     p < s /\ AccountIdentity(file[p]) = AccountIdentity(file[s])}
DiscoverRotation(file) == Usable(file) \ DuplicateSlots(file)

WantedSlots(file) ==
  LET used == Usable(file)
      free == (Slot \ {Base}) \ used
  IN (used \cup (IF free = {} THEN {} ELSE {Min(free)})) \ {Base}

\* Whether the live catalog of the slot is used.
Live(k, s) == AutoDiscover /\ k[s].of # Nobody
\* registerCodexSlot, for a slot registered now.
FirstModels(k, s) == IF Live(k, s) THEN Models({k[s].of}, 0) ELSE Models({}, 0)

\* refreshRegistryCodexModels: nothing while the host's list is the same; a live catalog stands.
\* Mutant of RegistryModels: it does not ask for a live catalog.
RegistryModelsOverAll(k, r, m) ==
  [s \in Slot |-> IF host # hostSeen /\ s \in r THEN Models({}, host) ELSE m[s]]
RegistryModels(k, r, m) ==
  [s \in Slot |-> IF host # hostSeen /\ s \in r /\ ~Live(k, s) THEN Models({}, host) ELSE m[s]]

\* Mutant of OtherAccount: the token decides.
OtherAccountByToken(file, s) ==
  seen[s].tok # 0 /\ file[s].tok # 0 /\ seen[s].tok # file[s].tok
\* Mutant of OtherAccount: only the numbered slots are looked at.
OtherAccountNumbered(file, s) ==
  /\ s # Base /\ seen[s].acct # Nobody /\ Fingerprint(file[s]) # Nobody
  /\ seen[s].acct # Fingerprint(file[s])
\* The slot is seen to hold another account than before.
OtherAccount(file, s) ==
  /\ seen[s].acct # Nobody /\ Fingerprint(file[s]) # Nobody
  /\ seen[s].acct # Fingerprint(file[s])

\* syncRegisteredSlots alone, from the registered slots r.
SyncRegisteredSlots(file, k, r) ==
  /\ registered' = r \cup WantedSlots(file)
  /\ shown' = [s \in Slot |-> IF s \in WantedSlots(file) \ r THEN FirstModels(k, s) ELSE shown[s]]

\* refreshDiscovery over the file, with the cooldowns, catalogs and slots the caller left.
RefreshDiscovery(file, c, k, r) ==
  LET kept == [s \in Slot |-> IF OtherAccount(file, s) THEN NoCatalog ELSE k[s]]
      slots == r \cup WantedSlots(file)
      first == [s \in Slot |-> IF s \in WantedSlots(file) \ r THEN FirstModels(kept, s) ELSE shown[s]]
  IN /\ dirty' = FALSE
     /\ seen' = [s \in Slot |-> [tok |-> file[s].tok, acct |-> Fingerprint(file[s])]]
     /\ cooldown' = [s \in Slot |-> IF OtherAccount(file, s) THEN Nobody ELSE c[s]]
     /\ catalog' = kept
     /\ registered' = slots
     /\ shown' = RegistryModels(kept, slots, first)
     /\ hostSeen' = host
     /\ rotation' = DiscoverRotation(file)

\* A new session over an empty file but for the base login.
Init ==
  /\ \E a \in Account : auth = [s \in Slot |-> IF s = Base THEN Login(a, 1) ELSE NoLogin]
  /\ tokens = 1 /\ dirty = FALSE /\ logging = [s \in Slot |-> Nobody]
  /\ seen = [s \in Slot |-> [tok |-> auth[s].tok, acct |-> Fingerprint(auth[s])]]
  /\ cooldown = [s \in Slot |-> Nobody] /\ catalog = [s \in Slot |-> NoCatalog]
  /\ host = 0 /\ hostSeen = 0
  /\ registered = {2} /\ shown = [s \in Slot |-> Models({}, 0)]
  /\ rotation = {Base}
  /\ sync = {} /\ fetch = [s \in Slot |-> NoFetch]
  /\ command = Idle /\ hint = 0

----------------------------------------------------------------------------
\* Whether a login of this slot may be changed now, in the ways of this instance.
MayChange(s) ==
  \/ "meanwhile" \in Ways
  \/ fetch[s].st = "no" /\ seen[s].acct = Fingerprint(auth[s])
Undisturbed == "meanwhile" \in Ways \/ command = Idle

\* rejectDuplicateLogin: the account is in no other slot of the file.
RejectDuplicateLogin(s, a) ==
  \E o \in Slot \ {s} : auth[o].acct = a /\ a \notin Opaque

\* /login of Pi in this window or another: the check, and later the host's write.
LoginChecked(s, a) ==
  /\ s \in registered \cup {Base}
  /\ \A o \in Slot : logging[o] # Nobody => "besideIt" \in Ways
  /\ logging[s] = Nobody /\ ~RejectDuplicateLogin(s, a)
  /\ logging' = [logging EXCEPT ![s] = a]
  /\ hint' = 0
  /\ UNCHANGED <<auth, tokens, dirty, keptVars, listVars, host, syncVars, command>>

LoginStored(s) ==
  /\ logging[s] # Nobody /\ tokens < MaxToken /\ MayChange(s) /\ Undisturbed
  /\ tokens' = tokens + 1
  /\ auth' = [auth EXCEPT ![s] = Login(logging[s], tokens + 1)]
  /\ logging' = [logging EXCEPT ![s] = Nobody]
  /\ dirty' = TRUE /\ hint' = 0
  /\ UNCHANGED <<keptVars, listVars, host, syncVars, command>>

Logout(s) ==
  /\ "afterLogout" \in Ways /\ auth[s] # NoLogin /\ MayChange(s) /\ Undisturbed
  /\ auth' = [auth EXCEPT ![s] = NoLogin]
  /\ dirty' = TRUE /\ hint' = 0
  /\ UNCHANGED <<tokens, logging, keptVars, listVars, host, syncVars, command>>

\* A routine refresh: a new token of the same account.
Rotate(s) ==
  /\ IsEntryUsable(auth[s]) /\ tokens < MaxToken
  /\ tokens' = tokens + 1
  /\ auth' = [auth EXCEPT ![s].tok = tokens + 1]
  /\ dirty' = TRUE /\ hint' = 0
  /\ UNCHANGED <<logging, keptVars, listVars, host, syncVars, command>>

\* The login runs out and cannot be refreshed; the file does not change.
Expire(s) ==
  /\ IsEntryUsable(auth[s])
  /\ auth' = [auth EXCEPT ![s].live = FALSE]
  /\ dirty' = TRUE /\ hint' = 0
  /\ UNCHANGED <<tokens, logging, keptVars, listVars, host, syncVars, command>>

HostLearns ==
  /\ host < MaxHost /\ host' = host + 1 /\ hint' = 0
  /\ UNCHANGED <<fileVars, keptVars, listVars, syncVars, command>>

\* A request is refused for quota; later the cooldown runs out.
Refused(s) ==
  /\ Limits /\ s \in rotation /\ IsEntryUsable(auth[s]) /\ ~dirty
  /\ cooldown' = [cooldown EXCEPT ![s] = auth[s].acct] /\ hint' = 0
  /\ UNCHANGED <<fileVars, seen, catalog, listVars, host, syncVars, command>>

CoolsDown(s) ==
  /\ cooldown[s] # Nobody
  /\ cooldown' = [cooldown EXCEPT ![s] = Nobody] /\ hint' = 0
  /\ UNCHANGED <<fileVars, seen, catalog, listVars, host, syncVars, command>>

\* refreshDiscovery, asked for by a turn, a timer or a command: only when the file's time changed.
Discover ==
  /\ dirty \/ host # hostSeen
  /\ RefreshDiscovery(auth, cooldown, catalog, registered)
  /\ hint' = 0
  /\ UNCHANGED <<auth, tokens, logging, host, syncVars, command>>

\* Pi ends and is started again: the cooldowns and the catalogs come from the state file.
Restart ==
  /\ {"whileDown", "restarts"} \cap Ways # {}
  /\ (dirty \/ command # Idle) => "whileDown" \in Ways
  /\ seen' = [s \in Slot |-> [tok |-> auth[s].tok, acct |-> Fingerprint(auth[s])]]
  /\ registered' = WantedSlots(auth)
  /\ hostSeen' = host
  /\ shown' = [s \in Slot |-> IF s \in WantedSlots(auth) /\ Live(catalog, s)
                              THEN Models({catalog[s].of}, 0) ELSE Models({}, host)]
  /\ rotation' = DiscoverRotation(auth)
  /\ dirty' = FALSE /\ sync' = {} /\ fetch' = [s \in Slot |-> NoFetch]
  /\ command' = Idle /\ hint' = 0
  /\ UNCHANGED <<auth, tokens, logging, cooldown, catalog, host>>

----------------------------------------------------------------------------
\* syncCodexModelCatalog, from the timer or forced by a command: each usable login whose
\* catalog is not fresh is asked for.
SyncStarts(force) ==
  /\ AutoDiscover /\ sync = {} /\ Usable(auth) # {}
  /\ sync' = Usable(auth)
  /\ fetch' = [s \in Slot |-> IF s \in Usable(auth) /\ (force \/ ~catalog[s].fresh)
                              THEN [NoFetch EXCEPT !.st = "asked"] ELSE NoFetch]
  /\ hint' = 0
  /\ UNCHANGED <<fileVars, keptVars, listVars, host, command>>

\* fetchFreshCodexCatalog: when the host has resolved the login, it is read from the file.
FetchReads(s) ==
  /\ fetch[s].st = "asked"
  /\ fetch' = [fetch EXCEPT ![s] = IF auth[s] = NoLogin THEN NoFetch
                                   ELSE [@ EXCEPT !.st = "sent", !.acct = auth[s].acct]]
  /\ hint' = 0
  /\ UNCHANGED <<fileVars, keptVars, listVars, host, sync, command>>

\* A 401: the login is refreshed, read again and asked once more.
FetchRejected(s) ==
  /\ fetch[s].st = "sent" /\ ~fetch[s].again
  /\ fetch' = [fetch EXCEPT ![s] = [st |-> "asked", acct |-> Nobody, again |-> TRUE]]
  /\ hint' = 0
  /\ UNCHANGED <<fileVars, keptVars, listVars, host, sync, command>>

FetchAnswers(s) ==
  /\ fetch[s].st = "sent"
  /\ catalog' = [catalog EXCEPT ![s] = [of |-> fetch[s].acct, fresh |-> TRUE]]
  /\ fetch' = [fetch EXCEPT ![s] = NoFetch]
  /\ hint' = 0
  /\ UNCHANGED <<fileVars, seen, cooldown, listVars, host, sync, command>>

\* Mutant of FetchFails: a failed fetch leaves its provider in the sync of nobody.
FetchFailsForgetful(s) ==
  /\ fetch[s].st # "no"
  /\ sync' = sync \ {s}
  /\ hint' = 0
  /\ UNCHANGED <<fileVars, keptVars, listVars, host, fetch, command>>
FetchFails(s) ==
  /\ fetch[s].st # "no"
  /\ fetch' = [fetch EXCEPT ![s] = NoFetch]
  /\ hint' = 0
  /\ UNCHANGED <<fileVars, keptVars, listVars, host, sync, command>>

CatalogAges(s) ==
  /\ catalog[s].fresh
  /\ catalog' = [catalog EXCEPT ![s].fresh = FALSE] /\ hint' = 0
  /\ UNCHANGED <<fileVars, seen, cooldown, listVars, host, syncVars, command>>

\* The end of the sync: every provider shows its catalog or the host's list, the slots
\* without a login show everything that is known.
\* Mutant of SyncedModels: the providers are left to the next discovery.
SyncedModelsSpares(s) ==
  IF s \in registered \ sync THEN Models({catalog[p].of : p \in sync} \ {Nobody}, host) ELSE shown[s]
SyncedModels(s) ==
  IF s \in sync THEN (IF catalog[s].of # Nobody THEN Models({catalog[s].of}, 0) ELSE Models({}, host))
  ELSE IF s \in registered THEN Models({catalog[p].of : p \in sync} \ {Nobody}, host) ELSE shown[s]

SyncEnds ==
  /\ sync # {} /\ \A s \in Slot : fetch[s].st = "no"
  /\ shown' = [s \in Slot |-> SyncedModels(s)]
  /\ sync' = {} /\ hint' = 0
  /\ UNCHANGED <<fileVars, keptVars, registered, hostSeen, rotation, host, fetch, command>>

----------------------------------------------------------------------------
\* /multi-account add: names the first slot without an entry, and registers slots.
Add ==
  /\ "add" \in Commands /\ command = Idle
  /\ LET free == {s \in Slot \ {Base} : auth[s] = NoLogin}
     IN IF free = {} THEN /\ hint' = 0 /\ UNCHANGED <<registered, shown>>
        ELSE /\ hint' = Min(free)
             /\ SyncRegisteredSlots(auth, catalog, registered)
  /\ UNCHANGED <<fileVars, keptVars, hostSeen, rotation, host, syncVars, command>>

\* resolveRemoveTarget: an exact slot that has a login, or for a family its highest one.
ResolveRemoveTarget == {s \in Slot : auth[s] # NoLogin}

Remove(s) ==
  /\ "remove" \in Commands /\ command = Idle /\ s \in ResolveRemoveTarget
  /\ command' = [kind |-> "remove", slot |-> s, st |-> "asked", todo |-> {}] /\ hint' = 0
  /\ UNCHANGED <<fileVars, keptVars, listVars, host, syncVars>>

\* /multi-account clear removes every numbered slot, one after the other.
Clear ==
  /\ "clear" \in Commands /\ command = Idle
  /\ LET aliases == ResolveRemoveTarget \ {Base}
     IN command' = IF aliases = {} THEN [Idle EXCEPT !.kind = "clear", !.st = "wipes"]
                   ELSE [kind |-> "clear", slot |-> Min(aliases), st |-> "asked",
                         todo |-> aliases \ {Min(aliases)}]
  /\ hint' = 0
  /\ UNCHANGED <<fileVars, keptVars, listVars, host, syncVars>>

\* The slot after this one, or the end of the clear.
NextSlot ==
  IF command.kind = "remove" THEN Idle
  ELSE IF command.todo = {} THEN [command EXCEPT !.st = "wipes"]
  ELSE [command EXCEPT !.slot = Min(command.todo), !.st = "asked",
                       !.todo = command.todo \ {Min(command.todo)}]

\* removeCommandCredential: Pi deletes the login, or the deletion is not confirmed.
HostForgets ==
  /\ command.st = "asked"
  /\ \/ /\ MayChange(command.slot)
        /\ auth' = [auth EXCEPT ![command.slot] = NoLogin]
        /\ dirty' = (dirty \/ auth[command.slot] # NoLogin)
        /\ command' = [command EXCEPT !.st = "gone"]
     \/ command' = NextSlot /\ UNCHANGED <<auth, dirty>>
  /\ hint' = 0
  /\ UNCHANGED <<tokens, logging, keptVars, listVars, host, syncVars>>

\* clearProviderRuntimeState; a remove then waits for Pi to refresh its snapshot.
\* Mutant of ClearProviderRuntimeState: the catalog is kept.
ClearProviderRuntimeStateKeeping(s) ==
  /\ cooldown' = [cooldown EXCEPT ![s] = Nobody] /\ UNCHANGED catalog
  /\ seen' = [seen EXCEPT ![s] = [tok |-> 0, acct |-> Nobody]]
  /\ registered' = registered \ {s}
ClearProviderRuntimeState(s) ==
  /\ cooldown' = [cooldown EXCEPT ![s] = Nobody] /\ catalog' = [catalog EXCEPT ![s] = NoCatalog]
  /\ seen' = [seen EXCEPT ![s] = [tok |-> 0, acct |-> Nobody]]
  /\ registered' = registered \ {s}

RemoveAuthSlot ==
  /\ command.st = "gone"
  /\ ClearProviderRuntimeState(command.slot)
  /\ command' = IF command.kind = "remove" THEN [command EXCEPT !.st = "finds"] ELSE NextSlot
  /\ hint' = 0
  /\ UNCHANGED <<fileVars, shown, hostSeen, rotation, host, syncVars>>

RemoveDiscovers ==
  /\ command.st = "finds"
  /\ RefreshDiscovery(auth, cooldown, catalog, registered)
  /\ command' = Idle /\ hint' = 0
  /\ UNCHANGED <<auth, tokens, logging, host, syncVars>>

\* The end of /multi-account clear.  Nothing is discovered until the file changes again.
ClearWipes ==
  /\ command.st = "wipes"
  /\ registered' = {} /\ rotation' = {}
  /\ cooldown' = [s \in Slot |-> Nobody] /\ catalog' = [s \in Slot |-> NoCatalog]
  /\ command' = Idle /\ hint' = 0
  /\ UNCHANGED <<fileVars, seen, shown, hostSeen, host, syncVars>>

Revive(s) ==
  /\ "revive" \in Commands /\ command = Idle
  /\ RefreshDiscovery(auth, [cooldown EXCEPT ![s] = Nobody], catalog, registered)
  /\ hint' = 0
  /\ UNCHANGED <<auth, tokens, logging, host, syncVars, command>>

----------------------------------------------------------------------------
Next ==
  \/ \E s \in Slot :
       \/ \E a \in Account : LoginChecked(s, a)
       \/ LoginStored(s) \/ Logout(s) \/ Rotate(s) \/ Expire(s)
       \/ Refused(s) \/ CoolsDown(s)
       \/ FetchReads(s) \/ FetchRejected(s) \/ FetchAnswers(s) \/ FetchFails(s) \/ CatalogAges(s)
       \/ Remove(s) \/ Revive(s)
  \/ HostLearns \/ Discover \/ Restart
  \/ \E force \in BOOLEAN : SyncStarts(force)
  \/ SyncEnds \/ Add \/ Clear \/ HostForgets \/ RemoveAuthSlot \/ RemoveDiscovers \/ ClearWipes

Spec == Init /\ [][Next]_vars

\* The timers go on, catalogs age, a fetch that is asked often enough is answered.
Fairness ==
  /\ WF_vars(Discover) /\ WF_vars(SyncStarts(FALSE)) /\ SF_vars(SyncEnds)
  /\ WF_vars(HostForgets) /\ WF_vars(RemoveAuthSlot) /\ WF_vars(RemoveDiscovers) /\ WF_vars(ClearWipes)
  /\ \A s \in Slot : /\ SF_vars(FetchReads(s)) /\ SF_vars(FetchAnswers(s)) /\ WF_vars(CatalogAges(s))

FairSpec == Spec /\ Fairness

----------------------------------------------------------------------------
\* After every discovery each usable login has its slot, and an empty slot is on offer
\* for the next one as long as there is one (syncRegisteredSlots).
SpareOffered ==
  (~dirty /\ command = Idle) =>
    /\ Usable(auth) \ {Base} \subseteq registered
    /\ (Slot \ {Base}) \subseteq Usable(auth) \/ \E s \in registered : ~IsEntryUsable(auth[s])

\* A login's live list is never replaced by the fallback while its catalog is kept
\* (refreshRegistryCodexModels, syncCodexModelCatalog).  A slot that has got its login
\* since the sync began is still taken for an empty one.
LiveCatalogStandsStep ==
  \A s \in Slot : (shown[s].of # {} /\ Live(catalog, s) /\ Live(catalog', s)
                   /\ s \in Usable(auth))
    => \/ shown'[s].of # {} \/ Restart
       \/ SyncEnds /\ s \notin sync
LiveCatalogStands == [][LiveCatalogStandsStep]_vars

\* A cooldown ends when it runs out, by a command, or because the slot has got another
\* account: a new token, and a login that went and came back, do not lift it.
CooldownKeptStep ==
  \A s \in Slot : (cooldown[s] # Nobody /\ cooldown'[s] # cooldown[s])
    => \/ CoolsDown(s) \/ Refused(s) \/ Revive(s) \/ RemoveAuthSlot \/ ClearWipes
       \/ auth[s].acct # cooldown[s]
CooldownKept == [][CooldownKeptStep]_vars

\* What discovery has seen in the slot decides: the catalog kept for a slot is that of the
\* account in it ("Never let a newly logged-in account inherit the previous account's
\* five-minute catalog snapshot for this slot", refreshDiscovery).
CatalogOfAccount ==
  (~dirty /\ command = Idle) =>
    \A s \in Slot : (auth[s].acct \notin Opaque \cup {Nobody} /\ catalog[s].of \notin Opaque \cup {Nobody})
                      => catalog[s].of = auth[s].acct

\* The same for the cooldown: it is dropped "when the slot is re-logged into a DIFFERENT
\* real account".
CooldownOfAccount ==
  (~dirty /\ command = Idle) =>
    \A s \in Slot : (auth[s].acct \notin Opaque \cup {Nobody} /\ cooldown[s] \notin Opaque \cup {Nobody})
                      => cooldown[s] = auth[s].acct

\* In the end every login shows its account's own models.
ShownSettles ==
  \A s \in Slot : []<>(IsEntryUsable(auth[s]) => shown[s].of = {auth[s].acct})
=============================================================================

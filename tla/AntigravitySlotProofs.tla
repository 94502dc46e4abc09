----------------------- MODULE AntigravitySlotProofs -----------------------
(* Theorems about an Antigravity slot, for every number of accounts,       *)
(* requests, refreshes, tokens, versions of a quota and minutes.           *)
EXTENDS AntigravitySlot, FiniteSetTheorems, TLAPS

-----------------------------------------------------------------------------
(* The inductive invariant.                                                 *)

Account == Accounts \cup {None}
Times == 0 .. MaxClock
Credential == [account : Account, token : Nat, version : Versions, at : Times]
Catalog == [owner : Account, version : Versions]
Sent == [account : Account, owner : Account, version : Versions, known : Versions,
         at : Times, clock : Times]
Stages == {"idle", "auth", "before", "asked", "answered", "left", "refused", "mismatch",
           "changed", "failed", "refresh", "publishing", "done"}

\* The stages of a process that has taken the generation, up to its end.
Asking == {"asked", "answered", "failed", "left", "refused", "publishing", "done"}

\* TypeOK, with the whole of the credentials, the catalogs and what was sent.
Typed ==
  /\ spent \in [Versions -> BOOLEAN] /\ version \in [Accounts -> Versions]
  /\ clock \in Times /\ clock >= 1 /\ updatedAt \in Times /\ updatedAt <= clock
  /\ stored \in Credential /\ login \in Credential /\ cred \in [Processes -> Credential]
  /\ entries \in Catalog /\ answer \in [Processes -> Catalog]
  /\ account \in Account /\ known \in Versions /\ sent \in Sent
  /\ binding \in [account : Account, token : Nat]
  /\ current \subseteq Processes
  /\ pc \in [Processes -> Stages]

\* A credential is of an account of the slot and no newer than the service,
\* or it is none.
Genuine(c) ==
  /\ c.at <= clock
  /\ c # NoCred => c.account \in Accounts /\ c.version <= version[c.account]

Credited ==
  /\ Genuine(stored) /\ Genuine(login)
  /\ \A p \in Processes : Genuine(cred[p]) /\ (pc[p] # "idle" => cred[p].account \in Accounts)

\* One process at most has the generation, and only since it asked; a request
\* that has it is of the account the slot has.
Generation ==
  /\ \A p, q \in current : p = q
  /\ \A p \in current :
       pc[p] \in Asking /\ (p \in Requests => cred[p].account = account)

\* An answer is the catalog of the process's own account.
Answered(p) ==
  pc[p] \in {"answered", "publishing"} =>
    answer[p].owner = cred[p].account /\ answer[p].version <= version[cred[p].account]

Owned ==
  /\ entries.owner = account
  /\ account # None => entries.version <= version[account] /\ known <= version[account]
  /\ \A p \in Processes : Answered(p)
  /\ sent.owner = sent.account

IInv == Typed /\ Credited /\ Generation /\ Owned

\* The snapshot is the newest that the slot has read of its account, and what
\* is about to replace it is no older.
Latest ==
  /\ entries.version = known
  /\ \A p \in current :
       pc[p] \in {"answered", "publishing"} /\ cred[p].account = account =>
         answer[p].version >= known
  /\ sent # NoSent => sent.at = sent.clock /\ sent.version = sent.known /\ ~spent[sent.known]

-----------------------------------------------------------------------------
(* Credentials, catalogs and publications.                                  *)

LEMMA Nothings ==
  ASSUME SlotAssumption
  PROVE  /\ NoCred \in Credential /\ NoEntries \in Catalog /\ NoSent \in Sent
         /\ Genuine(NoCred) <=> 0 <= clock
         /\ BindingOf(NoCred) \in [account : Account, token : Nat]
         /\ Versions \subseteq Nat /\ Times \subseteq Nat /\ 0 \in Versions /\ 0 \in Times
<1>1. MaxVersion \in Nat /\ MaxClock \in Nat
  BY DEF SlotAssumption
<1> QED
  BY <1>1 DEF NoCred, NoEntries, NoSent, Credential, Catalog, Sent, Genuine, BindingOf, Account, Versions, Times

\* A credential of an account, with its catalog.
LEMMA CredentialFields ==
  ASSUME NEW c \in Credential
  PROVE  /\ c.account \in Account /\ c.token \in Nat /\ c.version \in Versions /\ c.at \in Times
         /\ BindingOf(c) \in [account : Account, token : Nat]
         /\ CatalogOf(c) \in Catalog
         /\ CatalogOf(c).owner = c.account /\ CatalogOf(c).version = c.version
  BY DEF Credential, BindingOf, CatalogOf, Catalog

LEMMA CatalogFields ==
  ASSUME NEW es \in Catalog
  PROVE  es.owner \in Account /\ es.version \in Versions
  BY DEF Catalog

\* Whatever is published is of one account and no newer than the service.
LEMMA Publishes ==
  ASSUME SlotAssumption, Typed, Owned,
         NEW c \in Credential, NEW es \in Catalog, NEW t \in Times,
         c.account \in Accounts, es.owner = c.account, es.version <= version[c.account], t <= clock,
         Publish(c, es, t)
  PROVE  /\ entries' \in Catalog /\ account' \in Account /\ known' \in Versions
         /\ binding' \in [account : Account, token : Nat]
         /\ updatedAt' = t /\ current' = {}
         /\ account' = c.account /\ entries' = es
         /\ known' <= version[account']
         /\ Latest /\ (c.account = account => es.version >= known) => known' = es.version
<1>1. Versions \subseteq Nat /\ version[c.account] \in Nat /\ known \in Nat /\ es.version \in Nat
  BY Nothings, CatalogFields DEF Typed
<1>2. c.account = account => known <= version[c.account]
  BY DEF Owned, SlotAssumption
<1>3. known' \in {known, es.version} /\ known' <= version[c.account]
  BY <1>1, <1>2 DEF Publish, Newest
<1>4. account' = c.account /\ entries' = es /\ updatedAt' = t /\ current' = {}
  BY DEF Publish
<1>5. binding' \in [account : Account, token : Nat]
  BY CredentialFields DEF Publish
<1>6. Latest /\ (c.account = account => es.version >= known) => known' = es.version
  BY <1>1 DEF Publish, Newest
<1> QED
  BY <1>3, <1>4, <1>5, <1>6, CatalogFields DEF Typed, Account

-----------------------------------------------------------------------------
(* The invariant of the slot's account, for every kind of refresh.          *)

LEMMA StartsOwn ==
  ASSUME SlotAssumption, Init
  PROVE  IInv /\ Latest
<1>1. Versions \subseteq Nat /\ 0 \in Versions /\ 0 \in Times /\ 1 \in Times
  BY Nothings DEF SlotAssumption, Times
<1>2. PICK a \in Accounts, at \in 0 .. 1 :
           /\ version = [b \in Accounts |-> 0]
           /\ stored = [account |-> a, token |-> 1, version |-> 0, at |-> at]
           /\ entries = [owner |-> a, version |-> 0]
           /\ account = a
           /\ updatedAt = at
           /\ binding = [account |-> a, token |-> 1]
  BY DEF Init
<1>3. at \in Times /\ at <= 1
  BY <1>1
<1>4. Typed
  <2>1. stored \in Credential /\ entries \in Catalog /\ account \in Account
        /\ binding \in [account : Account, token : Nat]
    BY <1>1, <1>2, <1>3 DEF Credential, Catalog, Account
  <2>2. NoCred \in Credential /\ NoEntries \in Catalog /\ NoSent \in Sent
    BY Nothings
  <2>3. cred \in [Processes -> Credential] /\ answer \in [Processes -> Catalog]
    BY <2>2 DEF Init
  <2>4. pc \in [Processes -> Stages]
    BY DEF Init, Stages
  <2>5. version \in [Accounts -> Versions]
    BY <1>1, <1>2
  <2> QED
    BY <1>1, <1>2, <1>3, <2>1, <2>2, <2>3, <2>4, <2>5 DEF Typed, Init
<1>5. Credited
  BY <1>1, <1>2, <1>3 DEF Init, Credited, Genuine, NoCred
<1>6. Generation
  BY DEF Init, Generation
<1>7. Owned
  BY <1>1, <1>2 DEF Init, Owned, Answered, NoSent
<1>8. Latest
  BY <1>2 DEF Init, Latest
<1> QED
  BY <1>4, <1>5, <1>6, <1>7, <1>8 DEF IInv
\* What a step of one process or of the world outside leaves as it was.
Outside == <<spent, version, clock, stored, login>>

LEMMA Reads ==
  ASSUME SlotAssumption, IInv, NEW p \in Processes, ReadCredential(p)
  PROVE  IInv' /\ (Latest => Latest')
<1>1. Typed'
  BY DEF IInv, Typed, ReadCredential, Stages, memory
<1>2. Credited'
  BY DEF IInv, Typed, Credited, Genuine, ReadCredential
<1>3. p \notin current
  BY DEF IInv, Generation, Asking, ReadCredential
<1>4. Generation'
  BY <1>3 DEF IInv, Typed, Generation, Asking, ReadCredential, memory
<1>5. Owned'
  BY DEF IInv, Typed, Owned, Answered, ReadCredential, memory
<1>6. Latest => Latest'
  BY <1>3 DEF IInv, Typed, Latest, ReadCredential, memory
<1> QED
  BY <1>1, <1>2, <1>4, <1>5, <1>6 DEF IInv

LEMMA Auths ==
  ASSUME SlotAssumption, IInv, NEW p \in Requests, ToAuth(p)
  PROVE  IInv' /\ (Latest => Latest')
<1> DEFINE c == cred[p]
<1>1. p \in Processes /\ c \in Credential /\ Genuine(c) /\ c.account \in Accounts /\ pc[p] = "auth"
  BY DEF IInv, Typed, Credited, Processes, ToAuth
<1>2. /\ CatalogOf(c) \in Catalog /\ CatalogOf(c).owner = c.account /\ CatalogOf(c).version = c.version
      /\ c.at \in Times /\ c.at <= clock /\ c.version <= version[c.account]
  BY <1>1, CredentialFields DEF Genuine, NoCred, SlotAssumption
<1>3. p \notin current
  BY <1>1 DEF IInv, Generation, Asking
<1>4. CASE c.account # account
  <2>1. Publish(c, CatalogOf(c), c.at)
    BY <1>4 DEF ToAuth
  <2>2. /\ entries' \in Catalog /\ account' \in Account /\ known' \in Versions
        /\ binding' \in [account : Account, token : Nat]
        /\ updatedAt' = c.at /\ current' = {} /\ account' = c.account /\ entries' = CatalogOf(c)
        /\ known' <= version[account']
        /\ Latest => known' = c.version
    BY <1>1, <1>2, <1>4, <2>1, Publishes DEF IInv
  <2> HIDE DEF c
  <2>3. UNCHANGED <<Outside, cred, answer, sent>> /\ pc' = [pc EXCEPT ![p] = "before"]
    BY DEF ToAuth, Outside
  <2>4. Typed'
    BY <1>2, <2>2, <2>3 DEF IInv, Typed, Stages, Outside
  <2>5. Credited'
    BY <1>1, <2>3 DEF IInv, Typed, Credited, Genuine, Outside
  <2>6. Generation'
    BY <2>2 DEF Generation
  <2>7. Owned'
    BY <1>2, <2>2, <2>3 DEF IInv, Typed, Owned, Answered, Outside
  <2>8. Latest => Latest'
    BY <1>2, <2>2, <2>3 DEF Latest, Outside
  <2> QED
    BY <2>4, <2>5, <2>6, <2>7, <2>8 DEF IInv
<1>5. CASE c.account = account
  <2>1. /\ UNCHANGED <<Outside, cred, answer, sent, entries, account, known>>
        /\ pc' = [pc EXCEPT ![p] = "before"]
        /\ \/ binding' = BindingOf(c) /\ updatedAt' = 0 /\ current' = {}
           \/ UNCHANGED <<binding, updatedAt, current>>
    BY <1>5 DEF ToAuth, Rebind, Outside, memory
  <2>2. BindingOf(c) \in [account : Account, token : Nat] /\ 0 \in Times /\ 0 <= clock
    BY <1>1, CredentialFields, Nothings DEF IInv, Typed, Times, SlotAssumption
  <2> HIDE DEF c
  <2>3. Typed'
    BY <2>1, <2>2 DEF IInv, Typed, Stages, Outside
  <2>4. Credited'
    BY <1>1, <2>1 DEF IInv, Typed, Credited, Genuine, Outside
  <2>5. Generation'
    BY <1>3, <2>1 DEF IInv, Typed, Generation, Outside
  <2>6. Owned'
    BY <2>1 DEF IInv, Typed, Owned, Answered, Outside
  <2>7. Latest => Latest'
    BY <1>3, <2>1 DEF IInv, Typed, Latest, Outside
  <2> QED
    BY <2>3, <2>4, <2>5, <2>6, <2>7 DEF IInv
<1> QED
  BY <1>4, <1>5

\* What the end of beforeRequest sends.
LEMMA Dispatches ==
  ASSUME SlotAssumption, IInv, NEW p \in Requests, NEW es \in Catalog, NEW k \in Versions,
         es.owner = cred[p].account, Dispatch(p, es, clock, k)
  PROVE  /\ sent' \in Sent /\ sent'.owner = sent'.account
         /\ pc' = [pc EXCEPT ![p] = pc'[p]] /\ pc'[p] \in {"left", "refused"}
         /\ Latest /\ es.version = k /\ UNCHANGED spent =>
              (sent' # NoSent => sent'.at = sent'.clock /\ sent'.version = sent'.known /\ ~spent[sent'.known])
<1> DEFINE new == [account |-> cred[p].account, owner |-> es.owner, version |-> es.version,
                   known |-> k, at |-> clock, clock |-> clock]
<1>1. p \in Processes /\ es.owner \in Account /\ es.version \in Versions /\ clock \in Times
  BY CatalogFields DEF IInv, Typed, Processes
<1>2. new \in Sent /\ new.owner = new.account /\ new.at = new.clock /\ new.version = es.version /\ new.known = k
  BY <1>1 DEF Sent
<1>3. \/ sent' = new /\ ~spent[es.version] /\ pc' = [pc EXCEPT ![p] = "left"]
      \/ sent' = sent /\ pc' = [pc EXCEPT ![p] = "refused"]
  BY DEF Dispatch, MayLeave
<1> HIDE DEF new
<1>4. sent \in Sent /\ sent.owner = sent.account
  BY DEF IInv, Typed, Owned
<1>5. pc' = [pc EXCEPT ![p] = pc'[p]] /\ pc'[p] \in {"left", "refused"}
  BY <1>1, <1>3 DEF IInv, Typed
<1> QED
  BY <1>2, <1>3, <1>4, <1>5 DEF Latest

LEMMA Befores ==
  ASSUME SlotAssumption, IInv, NEW p \in Requests, BeforeRequest(p)
  PROVE  IInv' /\ (Latest => Latest')
<1>1. p \in Processes /\ pc[p] = "before" /\ p \notin current
  BY DEF IInv, Typed, Processes, BeforeRequest, Generation, Asking
<1>2. UNCHANGED <<Outside, memory, cred, answer, known>>
  BY DEF BeforeRequest, Outside
<1>3. CASE ~Matches(cred[p])
  <2>1. pc' = [pc EXCEPT ![p] = "mismatch"] /\ UNCHANGED <<current, sent>>
    BY <1>3 DEF BeforeRequest
  <2>2. Typed'
    BY <1>2, <2>1 DEF IInv, Typed, Stages, Outside, memory
  <2>3. Credited' /\ Owned' /\ (Latest => Latest')
    BY <1>1, <1>2, <2>1 DEF IInv, Typed, Credited, Genuine, Owned, Answered, Latest, Outside, memory
  <2>4. Generation'
    BY <1>1, <1>2, <2>1 DEF IInv, Typed, Generation, Outside, memory
  <2> QED
    BY <2>2, <2>3, <2>4 DEF IInv
<1>4. CASE Matches(cred[p]) /\ Expired
  <2>1. pc' = [pc EXCEPT ![p] = "asked"] /\ current' = {p} /\ UNCHANGED sent
        /\ cred[p].account = account
    BY <1>4 DEF BeforeRequest, TakeEpoch, Matches
  <2>2. Typed'
    BY <1>1, <1>2, <2>1 DEF IInv, Typed, Stages, Outside, memory
  <2>3. Credited' /\ Owned' /\ (Latest => Latest')
    BY <1>1, <1>2, <2>1 DEF IInv, Typed, Credited, Genuine, Owned, Answered, Latest, Outside, memory
  <2>4. Generation'
    BY <1>1, <1>2, <2>1 DEF IInv, Typed, Generation, Asking, Outside, memory
  <2> QED
    BY <2>2, <2>3, <2>4 DEF IInv
<1>5. CASE Matches(cred[p]) /\ ~Expired
  <2>1. Dispatch(p, entries, clock, known) /\ UNCHANGED current /\ cred[p].account = account
    BY <1>5 DEF BeforeRequest, Matches, Expired
  <2>2. /\ sent' \in Sent /\ sent'.owner = sent'.account
        /\ pc' = [pc EXCEPT ![p] = pc'[p]] /\ pc'[p] \in {"left", "refused"}
        /\ Latest => (sent' # NoSent => sent'.at = sent'.clock /\ sent'.version = sent'.known
                                        /\ ~spent[sent'.known])
    BY <1>2, <2>1, Dispatches DEF IInv, Typed, Owned, Latest, Outside
  <2>3. Typed'
    BY <1>1, <1>2, <2>1, <2>2 DEF IInv, Typed, Stages, Outside, memory
  <2>4. Credited' /\ Owned' /\ (Latest => Latest')
    BY <1>1, <1>2, <2>1, <2>2 DEF IInv, Typed, Credited, Genuine, Owned, Answered, Latest, Outside, memory
  <2>5. Generation'
    BY <1>1, <1>2, <2>1, <2>2 DEF IInv, Typed, Generation, Outside, memory
  <2> QED
    BY <2>3, <2>4, <2>5 DEF IInv
<1> QED
  BY <1>3, <1>4, <1>5
LEMMA Answers ==
  ASSUME SlotAssumption, IInv, NEW p \in Processes, Answer(p)
  PROVE  IInv' /\ (Latest => Latest')
<1> DEFINE a == [owner |-> cred[p].account, version |-> version[cred[p].account]]
<1>1. pc[p] = "asked" /\ cred[p].account \in Accounts
  BY DEF IInv, Credited, Answer
<1>2. version[cred[p].account] \in Versions /\ Versions \subseteq Nat
  BY <1>1, Nothings DEF IInv, Typed
<1>3. a \in Catalog /\ a.owner = cred[p].account /\ a.version = version[cred[p].account]
  BY <1>1, <1>2 DEF Catalog, Account
<1>4. UNCHANGED <<Outside, memory, current, cred, known, sent>>
  BY DEF Answer, Outside
<1>5. \/ answer' = [answer EXCEPT ![p] = a] /\ pc' = [pc EXCEPT ![p] = "answered"]
      \/ UNCHANGED answer /\ pc' = [pc EXCEPT ![p] = "failed"]
  BY DEF Answer
<1> HIDE DEF a
<1>6. Typed'
  BY <1>3, <1>4, <1>5 DEF IInv, Typed, Stages, Outside, memory
<1>7. Credited'
  BY <1>1, <1>4, <1>5 DEF IInv, Typed, Credited, Genuine, Outside
<1>8. Generation'
  <2>1. UNCHANGED <<current, cred, account>>
    BY <1>4 DEF memory
  <2>2. \A q \in current : pc[q] \in Asking => pc'[q] \in Asking
    BY <1>5 DEF IInv, Typed, Asking
  <2> QED
    BY <2>1, <2>2 DEF IInv, Generation
<1>9. version[cred[p].account] <= version[cred[p].account]
  <2>1. version[cred[p].account] \in Nat
    BY <1>2
  <2> QED
    BY <2>1
<1>10. Owned'
  BY <1>3, <1>4, <1>5, <1>9 DEF IInv, Typed, Owned, Answered, Outside, memory
<1>11. Latest => Latest'
  <2>1. cred[p].account = account => known <= version[cred[p].account]
    BY <1>1 DEF IInv, Owned, SlotAssumption
  <2> QED
    BY <1>3, <1>4, <1>5, <2>1 DEF IInv, Typed, Latest, Outside, memory
<1> QED
  BY <1>6, <1>7, <1>8, <1>10, <1>11 DEF IInv

LEMMA Fetches ==
  ASSUME SlotAssumption, IInv, NEW p \in Requests, Fetched(p)
  PROVE  IInv' /\ (Latest => Latest')
<1> DEFINE k == Newest(answer[p].version)
<1>1. p \in Processes /\ pc[p] = "answered" /\ cred[p] \in Credential /\ answer[p] \in Catalog
      /\ cred[p].account \in Accounts
  BY DEF IInv, Typed, Credited, Processes, Fetched
<1>2. UNCHANGED <<Outside, current, cred, answer>>
  BY DEF Fetched, Outside
<1>3. CASE p \notin current
  <2>1. pc' = [pc EXCEPT ![p] = "changed"] /\ UNCHANGED <<memory, known, sent>>
    BY <1>3 DEF Fetched, StillCurrent
  <2>2. Typed'
    BY <1>2, <2>1 DEF IInv, Typed, Stages, Outside, memory
  <2>3. Credited' /\ Owned' /\ (Latest => Latest')
    BY <1>1, <1>2, <2>1 DEF IInv, Typed, Credited, Genuine, Owned, Answered, Latest, Outside, memory
  <2>4. Generation'
    BY <1>2, <1>3, <2>1 DEF IInv, Typed, Generation, Outside, memory
  <2> QED
    BY <2>2, <2>3, <2>4 DEF IInv
<1>4. CASE p \in current
  <2>1. /\ entries' = answer[p] /\ updatedAt' = clock /\ binding' = BindingOf(cred[p])
        /\ known' = k /\ UNCHANGED account
        /\ Dispatch(p, answer[p], clock, k)
    BY <1>4 DEF Fetched, StillCurrent
  <2>2. /\ cred[p].account = account /\ answer[p].owner = account
        /\ answer[p].version <= version[account] /\ known <= version[account]
    BY <1>1, <1>4 DEF IInv, Generation, Owned, Answered, SlotAssumption
  <2>3. answer[p].version \in Versions /\ known \in Versions /\ Versions \subseteq Nat
    BY <1>1, CatalogFields, Nothings DEF IInv, Typed
  <2>4. /\ k \in Versions /\ k <= version[account]
        /\ Latest => k = answer[p].version
    <3>1. k = (IF known > answer[p].version THEN known ELSE answer[p].version)
      BY DEF Newest
    <3>2. Latest => answer[p].version >= known
      BY <1>1, <1>4, <2>2 DEF Latest
    <3>3. ASSUME NEW x \in Nat, NEW y \in Nat
          PROVE  (IF x > y THEN x ELSE y) \in {x, y} /\ (y >= x => (IF x > y THEN x ELSE y) = y)
      OBVIOUS
    <3>4. known \in Nat /\ answer[p].version \in Nat
      BY <2>3
    <3> HIDE DEF k
    <3>5. k \in {known, answer[p].version} /\ (answer[p].version >= known => k = answer[p].version)
      BY <3>1, <3>3, <3>4
    <3> QED
      BY <2>2, <2>3, <3>2, <3>5
  <2> HIDE DEF k
  <2>5. /\ sent' \in Sent /\ sent'.owner = sent'.account
        /\ pc' = [pc EXCEPT ![p] = pc'[p]] /\ pc'[p] \in {"left", "refused"}
        /\ Latest => (sent' # NoSent => sent'.at = sent'.clock /\ sent'.version = sent'.known
                                        /\ ~spent[sent'.known])
    <3>1. answer[p].owner = cred[p].account /\ UNCHANGED spent
      BY <1>2, <2>2 DEF Outside
    <3> QED
      BY <1>1, <2>1, <2>4, <3>1, Dispatches
  <2>6. BindingOf(cred[p]) \in [account : Account, token : Nat]
    BY <1>1, CredentialFields
  <2>7. Typed'
    <3>1. clock <= clock
      BY Nothings DEF IInv, Typed
    <3> QED
      BY <1>1, <1>2, <2>1, <2>4, <2>5, <2>6, <3>1 DEF IInv, Typed, Stages, Outside
  <2>8. Credited'
    BY <1>1, <1>2, <2>5 DEF IInv, Typed, Credited, Genuine, Outside
  <2>9. Owned'
    BY <1>1, <1>2, <2>1, <2>2, <2>4, <2>5 DEF IInv, Typed, Owned, Answered, Outside
  <2>10. Generation'
    BY <1>1, <1>2, <2>1, <2>5 DEF IInv, Typed, Generation, Asking
  <2>11. Latest => Latest'
    <3>1. \A q \in current : pc'[q] \notin {"answered", "publishing"}
      BY <1>4, <2>5 DEF IInv, Typed, Generation
    <3> QED
      BY <1>2, <2>1, <2>4, <2>5, <3>1 DEF Latest, Outside
  <2> QED
    BY <2>7, <2>8, <2>9, <2>10, <2>11 DEF IInv
<1> QED
  BY <1>3, <1>4

LEMMA EndsOwn ==
  ASSUME SlotAssumption, IInv, NEW p \in Processes, Ends(p)
  PROVE  IInv' /\ (Latest => Latest')
<1>1. /\ UNCHANGED <<Outside, memory, known>> /\ current' = current \ {p}
      /\ pc' = [pc EXCEPT ![p] = "idle"] /\ cred' = [cred EXCEPT ![p] = NoCred]
      /\ answer' = [answer EXCEPT ![p] = NoEntries] /\ sent' \in {NoSent, sent}
  BY DEF Ends, Outside
<1>2. NoCred \in Credential /\ NoEntries \in Catalog /\ NoSent \in Sent /\ Genuine(NoCred)
      /\ NoSent.owner = NoSent.account
  BY Nothings DEF IInv, Typed, Times, SlotAssumption, NoSent
<1>3. Typed'
  BY <1>1, <1>2 DEF IInv, Typed, Stages, Outside, memory
<1>4. Credited'
  BY <1>1, <1>2 DEF IInv, Typed, Credited, Genuine, Outside
<1>5. Generation'
  BY <1>1 DEF IInv, Typed, Generation, memory
<1>6. Owned'
  BY <1>1, <1>2 DEF IInv, Typed, Owned, Answered, Outside, memory
<1>7. Latest => Latest'
  BY <1>1 DEF IInv, Typed, Latest, Outside, memory
<1> QED
  BY <1>3, <1>4, <1>5, <1>6, <1>7 DEF IInv

LEMMA Offline ==
  ASSUME SlotAssumption, IInv, NEW p \in Refreshes, RefreshOffline(p)
  PROVE  IInv'
<1> DEFINE c == cred[p]
<1>1. p \in Processes /\ c \in Credential /\ Genuine(c) /\ c.account \in Accounts
  BY DEF IInv, Typed, Credited, Processes, RefreshOffline
<1>2. /\ CatalogOf(c) \in Catalog /\ CatalogOf(c).owner = c.account /\ CatalogOf(c).version = c.version
      /\ c.at \in Times /\ c.at <= clock /\ c.version <= version[c.account]
  BY <1>1, CredentialFields DEF Genuine, NoCred, SlotAssumption
<1>3. UNCHANGED <<Outside, cred, answer, sent>> /\ pc' = [pc EXCEPT ![p] = "done"]
  BY DEF RefreshOffline, Outside
<1>4. /\ entries' \in Catalog /\ account' \in Account /\ known' \in Versions
      /\ binding' \in [account : Account, token : Nat]
      /\ updatedAt' = c.at /\ current' = {} /\ account' = c.account /\ entries' = CatalogOf(c)
      /\ known' <= version[account']
  <2>1. Publish(c, CatalogOf(c), c.at)
    BY DEF RefreshOffline
  <2> QED
    BY <1>1, <1>2, <2>1, Publishes DEF IInv
<1> HIDE DEF c
<1>5. Typed'
  <2>1. pc' \in [Processes -> Stages]
    BY <1>3 DEF IInv, Typed, Stages
  <2>2. current' \subseteq Processes /\ updatedAt' \in Times /\ updatedAt' <= clock
    BY <1>2, <1>4
  <2> QED
    BY <1>3, <1>4, <2>1, <2>2 DEF IInv, Typed, Outside
<1>6. Credited'
  BY <1>1, <1>3 DEF IInv, Typed, Credited, Genuine, Outside, c
<1>7. Generation'
  BY <1>4 DEF Generation
<1>8. Owned'
  BY <1>2, <1>3, <1>4 DEF IInv, Typed, Owned, Answered, Outside
<1> QED
  BY <1>5, <1>6, <1>7, <1>8 DEF IInv

LEMMA Asks ==
  ASSUME SlotAssumption, IInv, NEW p \in Refreshes, RefreshNetwork(p) \/ RefreshAnswered(p)
  PROVE  IInv' /\ (Latest => Latest')
<1>1. p \in Processes /\ p \notin Requests
  BY DEF Processes, SlotAssumption
<1>2. UNCHANGED <<Outside, memory, cred, answer, known, sent>>
  BY DEF RefreshNetwork, RefreshAnswered, Outside
<1>3. \/ pc[p] = "refresh" /\ pc' = [pc EXCEPT ![p] = "asked"] /\ current' = {p}
      \/ /\ pc[p] = "answered" /\ UNCHANGED current
         /\ pc' = [pc EXCEPT ![p] = IF p \in current THEN "publishing" ELSE "done"]
  BY DEF RefreshNetwork, RefreshAnswered, TakeEpoch, StillCurrent
<1>4. Typed'
  BY <1>1, <1>2, <1>3 DEF IInv, Typed, Stages, Outside, memory
<1>5. Credited' /\ Owned' /\ (Latest => Latest')
  BY <1>1, <1>2, <1>3 DEF IInv, Typed, Credited, Genuine, Owned, Answered, Latest, Outside, memory
<1>6. Generation'
  BY <1>1, <1>2, <1>3 DEF IInv, Typed, Generation, Asking, Outside, memory
<1> QED
  BY <1>4, <1>5, <1>6 DEF IInv
LEMMA RefreshPublishesOwn ==
  ASSUME SlotAssumption, IInv, NEW p \in Refreshes, RefreshPublishes(p)
  PROVE  IInv' /\ (Latest => Latest')
<1>1. p \in Processes /\ pc[p] = "publishing" /\ cred[p] \in Credential /\ answer[p] \in Catalog
      /\ cred[p].account \in Accounts
  BY DEF IInv, Typed, Credited, Processes, RefreshPublishes
<1>2. UNCHANGED <<Outside, cred, answer, sent>> /\ pc' = [pc EXCEPT ![p] = "done"]
  BY DEF RefreshPublishes, Outside
<1>3. pc' \in [Processes -> Stages]
  BY <1>2 DEF IInv, Typed, Stages
<1>4. Credited'
  BY <1>1, <1>2 DEF IInv, Typed, Credited, Genuine, Outside
<1>5. CASE p \notin current
  <2>1. UNCHANGED <<memory, current, known>>
    BY <1>5 DEF RefreshPublishes, StillCurrent
  <2>2. Typed'
    BY <1>2, <1>3, <2>1 DEF IInv, Typed, Outside, memory
  <2>3. Owned' /\ (Latest => Latest')
    BY <1>1, <1>2, <2>1 DEF IInv, Typed, Owned, Answered, Latest, Outside, memory
  <2>4. Generation'
    BY <1>2, <1>5, <2>1 DEF IInv, Typed, Generation, Outside, memory
  <2> QED
    BY <1>4, <2>2, <2>3, <2>4 DEF IInv
<1>6. CASE p \in current
  <2>1. Publish(cred[p], answer[p], clock)
    BY <1>6 DEF RefreshPublishes, StillCurrent
  <2>2. answer[p].owner = cred[p].account /\ answer[p].version <= version[cred[p].account]
    BY <1>1 DEF IInv, Owned, Answered
  <2>3. clock \in Times /\ clock <= clock
    BY Nothings DEF IInv, Typed
  <2>4. Latest => (cred[p].account = account => answer[p].version >= known)
    BY <1>1, <1>6 DEF Latest
  <2>5. /\ entries' \in Catalog /\ account' \in Account /\ known' \in Versions
        /\ binding' \in [account : Account, token : Nat]
        /\ updatedAt' = clock /\ current' = {} /\ account' = cred[p].account /\ entries' = answer[p]
        /\ known' <= version[account']
        /\ Latest => known' = answer[p].version
    BY <1>1, <2>1, <2>2, <2>3, <2>4, Publishes DEF IInv
  <2>6. Typed'
    BY <1>2, <1>3, <2>3, <2>5 DEF IInv, Typed, Outside
  <2>7. Generation'
    BY <2>5 DEF Generation
  <2>8. Owned'
    BY <1>1, <1>2, <2>2, <2>5 DEF IInv, Typed, Owned, Answered, Outside
  <2>9. Latest => Latest'
    BY <1>2, <2>5 DEF Latest, Outside
  <2> QED
    BY <1>4, <2>6, <2>7, <2>8, <2>9 DEF IInv
<1> QED
  BY <1>5, <1>6

LEMMA SignsOut ==
  ASSUME SlotAssumption, IInv, RefreshSignedOut \/ SignOut
  PROVE  IInv' /\ (Latest => Latest')
<1>1. NoCred \in Credential /\ NoEntries \in Catalog /\ BindingOf(NoCred) \in [account : Account, token : Nat]
      /\ 0 \in Versions /\ 0 \in Times /\ 0 <= clock /\ Genuine(NoCred) /\ None \in Account
  BY Nothings DEF IInv, Typed, Times, SlotAssumption, Account
<1>2. CASE RefreshSignedOut
  <2>1. /\ entries' = NoEntries /\ account' = None /\ updatedAt' = 0 /\ binding' = BindingOf(NoCred)
        /\ current' = {} /\ known' = 0 /\ UNCHANGED <<Outside, work, sent>>
    BY <1>2 DEF RefreshSignedOut, Outside
  <2>2. Typed'
    BY <1>1, <2>1 DEF IInv, Typed, Outside, work
  <2>3. Credited'
    BY <2>1 DEF IInv, Credited, Genuine, Outside, work
  <2>4. Generation'
    BY <2>1 DEF Generation
  <2>5. Owned'
    BY <2>1 DEF IInv, Owned, Answered, NoEntries, Outside, work
  <2>6. Latest => Latest'
    BY <2>1 DEF Latest, NoEntries, Outside
  <2> QED
    BY <2>2, <2>3, <2>4, <2>5, <2>6 DEF IInv
<1>3. CASE SignOut
  <2>1. stored' = NoCred /\ UNCHANGED <<spent, version, clock, memory, current, work, login, known, sent>>
    BY <1>3 DEF SignOut
  <2> QED
    BY <1>1, <2>1 DEF IInv, Typed, Credited, Genuine, Generation, Owned, Answered, Latest, memory, work
<1> QED
  BY <1>2, <1>3

LEMMA LogsIn ==
  ASSUME SlotAssumption, IInv, NEW a \in Accounts, LoginResolves(a)
  PROVE  IInv' /\ (Latest => Latest')
<1>1. /\ login' = [account |-> a, token |-> 1, version |-> version[a], at |-> clock]
      /\ Publish(login', CatalogOf(login'), clock)
      /\ UNCHANGED <<spent, version, clock, stored, work, sent>>
  BY DEF LoginResolves
<1>2. version[a] \in Versions /\ clock \in Times /\ clock <= clock /\ version[a] <= version[a]
  BY Nothings DEF IInv, Typed
<1>3. /\ login' \in Credential /\ login'.account = a /\ login'.version = version[a]
      /\ Genuine(login')
  BY <1>1, <1>2 DEF Credential, Account, Genuine
<1>4. CatalogOf(login') \in Catalog /\ CatalogOf(login').owner = a /\ CatalogOf(login').version = version[a]
  BY <1>3, CredentialFields
<1>5. account = a => version[a] >= known
  BY <1>2 DEF IInv, Owned, SlotAssumption
<1>6. /\ entries' \in Catalog /\ account' \in Account /\ known' \in Versions
      /\ binding' \in [account : Account, token : Nat]
      /\ updatedAt' = clock /\ current' = {} /\ account' = a /\ entries' = CatalogOf(login')
      /\ known' <= version[account']
      /\ Latest => known' = version[a]
  BY <1>1, <1>2, <1>3, <1>4, <1>5, Publishes DEF IInv
<1>7. Typed'
  BY <1>1, <1>2, <1>3, <1>6 DEF IInv, Typed, work
<1>8. Credited'
  BY <1>1, <1>3 DEF IInv, Credited, Genuine, work
<1>9. Generation'
  BY <1>6 DEF Generation
<1>10. Owned'
  BY <1>1, <1>2, <1>4, <1>6 DEF IInv, Owned, Answered, work
<1>11. Latest => Latest'
  BY <1>1, <1>4, <1>6 DEF Latest
<1> QED
  BY <1>7, <1>8, <1>9, <1>10, <1>11 DEF IInv

LEMMA Rotates ==
  ASSUME SlotAssumption, IInv, LoginStored \/ RotateToken
  PROVE  IInv' /\ (Latest => Latest')
<1>1. UNCHANGED <<spent, version, clock, memory, current, work, known, sent>>
  BY DEF LoginStored, RotateToken
<1>2. stored' \in Credential /\ Genuine(stored') /\ login' \in Credential /\ Genuine(login')
  <2>1. CASE LoginStored
    BY <2>1, Nothings DEF LoginStored, IInv, Typed, Credited, Times, SlotAssumption
  <2>2. CASE RotateToken
    <3>1. /\ stored' = [stored EXCEPT !.token = @ + 1] /\ stored # NoCred /\ UNCHANGED login
          /\ stored \in Credential /\ login \in Credential /\ Genuine(stored) /\ Genuine(login)
      BY <2>2 DEF RotateToken, IInv, Typed, Credited
    <3>2. stored' \in Credential /\ stored'.account = stored.account /\ stored'.version = stored.version
          /\ stored'.at = stored.at
      BY <3>1 DEF Credential
    <3> QED
      BY <3>1, <3>2 DEF Genuine
  <2> QED
    BY <2>1, <2>2
<1>3. Typed'
  BY <1>1, <1>2 DEF IInv, Typed, memory, work
<1> QED
  BY <1>1, <1>2, <1>3 DEF IInv, Credited, Genuine, Generation, Owned, Answered, Latest, memory, work

LEMMA TimePasses ==
  ASSUME SlotAssumption, IInv, Minute \/ \E a \in Accounts : QuotaMoves(a)
  PROVE  IInv' /\ (Latest => Latest')
<1>1. UNCHANGED <<spent, stored, memory, current, work, login, known, sent>>
  BY DEF QuotaMoves, Minute
<1>2. Versions \subseteq Nat /\ Times \subseteq Nat
  BY Nothings
<1>3. /\ version' \in [Accounts -> Versions] /\ \A b \in Accounts : version'[b] >= version[b]
      /\ clock' \in Times /\ clock' >= clock
  <2>1. ASSUME NEW a \in Accounts, QuotaMoves(a)
        PROVE  /\ version' \in [Accounts -> Versions] /\ \A b \in Accounts : version'[b] >= version[b]
               /\ clock' \in Times /\ clock' >= clock
    BY <1>2, <2>1 DEF QuotaMoves, IInv, Typed, Versions, SlotAssumption
  <2>2. CASE Minute
    <3>1. clock \in 0 .. MaxClock /\ MaxClock \in Nat /\ clock < MaxClock /\ clock' = clock + 1
      BY <2>2 DEF Minute, IInv, Typed, Times, SlotAssumption
    <3>2. clock' \in Times /\ clock' >= clock
      BY <3>1 DEF Times
    <3>3. version \in [Accounts -> Versions] /\ version' = version
      BY <2>2 DEF Minute, IInv, Typed
    <3>4. \A b \in Accounts : version[b] \in Nat
      BY <1>2, <3>3
    <3> QED
      BY <3>2, <3>3, <3>4
  <2> QED
    BY <2>1, <2>2
<1>4. Typed'
  BY <1>1, <1>2, <1>3 DEF IInv, Typed, memory, work
<1>5. ASSUME NEW c \in Credential, Genuine(c) PROVE Genuine(c)'
  <2>1. c.at \in Nat /\ c.version \in Nat
    BY <1>2, CredentialFields
  <2>2. clock \in Nat /\ clock' \in Nat /\ \A b \in Accounts : version[b] \in Nat /\ version'[b] \in Nat
    BY <1>2, <1>3 DEF IInv, Typed
  <2> QED
    BY <1>3, <1>5, <2>1, <2>2 DEF Genuine
<1>6. Credited'
  BY <1>1, <1>5 DEF IInv, Typed, Credited, work
<1>7. Generation' /\ (Latest => Latest')
  BY <1>1 DEF IInv, Generation, Latest, memory, work
<1>8. \A b \in Accounts, v \in Versions : v <= version[b] => v <= version'[b]
  <2>1. ASSUME NEW b \in Accounts, NEW v \in Versions, v <= version[b]
        PROVE  v <= version'[b]
    <3>1. v \in Nat /\ version[b] \in Nat /\ version'[b] \in Nat
      BY <1>2, <1>3 DEF IInv, Typed
    <3> QED
      BY <1>3, <2>1, <3>1
  <2> QED
    BY <2>1
<1>9. Owned'
  <2>1. entries.version \in Versions /\ \A p \in Processes : answer[p].version \in Versions
    BY CatalogFields DEF IInv, Typed
  <2>2. ASSUME NEW p \in Processes PROVE Answered(p)'
    BY <1>1, <1>8, <2>1 DEF IInv, Owned, Credited, Answered, work
  <2>3. account # None => account \in Accounts
    BY DEF IInv, Typed, Account
  <2> QED
    BY <1>1, <1>8, <2>1, <2>2, <2>3 DEF IInv, Typed, Owned, memory
<1> QED
  BY <1>4, <1>6, <1>7, <1>9 DEF IInv

LEMMA Steps ==
  ASSUME SlotAssumption, IInv, [Next]_vars
  PROVE  IInv' /\ ("offline" \notin Kinds /\ Latest => Latest')
<1>1. CASE Next
  <2>1. ASSUME NEW p \in Processes, ReadCredential(p) \/ Answer(p) \/ Ends(p)
        PROVE  IInv' /\ (Latest => Latest')
    BY <2>1, Reads, Answers, EndsOwn
  <2>2. ASSUME NEW p \in Requests, ToAuth(p) \/ BeforeRequest(p) \/ Fetched(p)
        PROVE  IInv' /\ (Latest => Latest')
    BY <2>2, Auths, Befores, Fetches
  <2>3. ASSUME NEW p \in Refreshes,
               RefreshOffline(p) \/ RefreshNetwork(p) \/ RefreshAnswered(p) \/ RefreshPublishes(p)
        PROVE  IInv' /\ ("offline" \notin Kinds /\ Latest => Latest')
    <3>1. RefreshOffline(p) => "offline" \in Kinds
      BY DEF RefreshOffline
    <3> QED
      BY <2>3, <3>1, Offline, Asks, RefreshPublishesOwn
  <2>4. ASSUME NEW a \in Accounts, LoginResolves(a) \/ QuotaMoves(a)
        PROVE  IInv' /\ (Latest => Latest')
    BY <2>4, LogsIn, TimePasses
  <2>5. CASE RefreshSignedOut \/ SignOut
    BY <2>5, SignsOut
  <2>6. CASE LoginStored \/ RotateToken
    BY <2>6, Rotates
  <2>7. CASE Minute
    BY <2>7, TimePasses
  <2> QED
    BY <1>1, <2>1, <2>2, <2>3, <2>4, <2>5, <2>6, <2>7 DEF Next
<1>2. CASE UNCHANGED vars
  BY <1>2 DEF vars, memory, work, IInv, Typed, Credited, Genuine, Generation, Owned, Answered, Latest
<1> QED
  BY <1>1, <1>2

-----------------------------------------------------------------------------
(* The theorems.                                                            *)

\* The inductive invariant: what the slot's memory, its processes and the
\* credentials on their way say of one another, whatever refreshes happen.
THEOREM AlwaysOwned == ASSUME SlotAssumption PROVE Spec => []IInv
<1>1. Init => IInv
  BY StartsOwn
<1>2. IInv /\ [Next]_vars => IInv'
  BY Steps
<1> QED
  BY <1>1, <1>2, PTL DEF Spec

LEMMA OwnedTypes == ASSUME SlotAssumption, IInv PROVE TypeOK /\ OwnCatalog
<1>1. clock \in 1..MaxClock /\ updatedAt \in 0..clock
  BY Nothings DEF IInv, Typed, Times, SlotAssumption
<1>2. stored.account \in Account /\ account \in Account /\ entries.owner \in Account
  BY CredentialFields, CatalogFields DEF IInv, Typed
<1>3. Cardinality(current) <= 1
  <2>1. CASE current = {}
    BY <2>1, FS_EmptySet
  <2>2. CASE current # {}
    <3>1. PICK p \in current : TRUE
      BY <2>2
    <3>2. current = {p}
      BY <3>1 DEF IInv, Generation
    <3> QED
      BY <3>2, FS_Singleton
  <2> QED
    BY <2>1, <2>2
<1>4. OwnCatalog
  BY DEF IInv, Owned, OwnCatalog
<1> QED
  BY <1>1, <1>2, <1>3, <1>4 DEF TypeOK, IInv, Typed, Account, Stages

\* No variable leaves its values, and one process at most has the generation
\* ("const epoch = ++generation"), whatever refreshes happen.
THEOREM TypeCorrect == ASSUME SlotAssumption PROVE Spec => []TypeOK
  BY AlwaysOwned, OwnedTypes, PTL

\* A request leaves only against the catalog of its own account, whatever
\* logins, rotations and refreshes, with or without network, come in between.
THEOREM CatalogIsOwn == ASSUME SlotAssumption PROVE Spec => []OwnCatalog
  BY AlwaysOwned, OwnedTypes, PTL

\* The snapshot is the newest the slot has read of its account and the one a
\* request goes by: every refresh has the network.
THEOREM AlwaysLatest ==
  ASSUME SlotAssumption, "offline" \notin Kinds
  PROVE  Spec => [](IInv /\ Latest)
<1>1. Init => IInv /\ Latest
  BY StartsOwn
<1>2. IInv /\ Latest /\ [Next]_vars => IInv' /\ Latest'
  BY Steps
<1> QED
  BY <1>1, <1>2, PTL DEF Spec

\* With the network a request leaves against its own catalog, read within the
\* last minute and the newest the slot has seen, and never for a quota that
\* it has read to be zero.
THEOREM EvidenceIsOwn ==
  ASSUME SlotAssumption, "offline" \notin Kinds
  PROVE  Spec => []EvidenceOwn
<1>1. IInv /\ Latest => EvidenceOwn
  <2>1. IInv => sent.version \in Nat /\ sent.known \in Nat
    BY Nothings DEF IInv, Typed, Sent
  <2> QED
    BY <2>1, OwnedTypes DEF EvidenceOwn, LatestEvidence, KnownZeroStops, Latest
<1> QED
  BY <1>1, AlwaysLatest, PTL
=============================================================================

-------------------------- MODULE AuthTransaction --------------------------
(***************************************************************************)
(* The credential store of pi-multi-account, for one numbered OAuth slot.  *)
(*                                                                         *)
(* Two files hold the slot's login: auth.json, which children also read,   *)
(* and a sidecar only the parent reads.  While the slot is published, the  *)
(* auth.json entry is a non-secret placeholder and the login lives in the  *)
(* sidecar.  Several processes move the login between the files (shadow,   *)
(* restore), delete it, and exchange it for a new one: the provider        *)
(* revokes the old refresh token the moment it issues the next, so a       *)
(* rotated token that is not written back is a lost login.                 *)
(*                                                                         *)
(* All of them serialise on the directory auth.json.lock.  A synchronous   *)
(* transaction (mutateProxyAuth) runs without yielding; an asynchronous    *)
(* one (mutateProxyAuthAsync) holds the lock across the network exchange,  *)
(* restamps it every second, and may be stalled long enough for a          *)
(* contender to evict it: it then finds out at its next ownership check.   *)
(*                                                                         *)
(* Steps.  One action is one run of code that neither yields nor spans two *)
(* file replacements; a crash, another process or a foreign writer may     *)
(* come between any two.  An ownership check is one step with the write it *)
(* guards, and mkdir is one step with the stat that identifies the lock.   *)
(***************************************************************************)
EXTENDS Naturals, FiniteSets

CONSTANTS
  Process,         \* activities that may hold the lock, each in some Pi process
  MaxToken,        \* bound: tokens the provider issues in a behaviour
  MaxLock,         \* bound: times the lock directory is created
  NoEntry,         \* the slot has no entry in a file
  Placeholder,     \* the child-facing api_key published today
  OldPlaceholder   \* the one an earlier release published

Token == 1 .. MaxToken      \* refresh tokens, numbered in the order of issue
Facing == {Placeholder, OldPlaceholder}
Files == [auth : Token \cup Facing \cup {NoEntry}, sidecar : Token \cup {NoEntry}]

ASSUME BoundsAssumption == MaxToken \in Nat \ {0} /\ MaxLock \in Nat
ASSUME EntryAssumption ==
  /\ NoEntry \notin Nat /\ Placeholder \notin Nat /\ OldPlaceholder \notin Nat
  /\ NoEntry \notin Facing
  /\ Placeholder # OldPlaceholder

VARIABLES
  files,      \* the slot's entry in auth.json and in the sidecar
  live,       \* refresh tokens the provider still accepts
  issued,     \* tokens issued so far
  lock,       \* which lock directory exists: its number, 0 when there is none
  fresh,      \* its mtime is younger than the 30 s stale bound
  created,    \* lock directories created so far
  op,         \* the operation each process runs
  pc,         \* where it is in it
  identity,   \* the lock directory it created, 0 when it holds none
  captured,   \* the credential it read before it queued for the lock
  snapshot,   \* the files as read under the lock
  plan,       \* the files its transaction will leave
  minted,     \* the token its exchange returned, NoEntry before that
  aborted,    \* its lease or its 30 s budget is gone
  mishaps     \* ghost: what went wrong since the last login (see Mishap)

disk == <<files, live, issued>>
lease == <<lock, fresh, created>>
local == <<op, pc, identity, captured, snapshot, plan, minted, aborted>>
vars == <<disk, lease, local, mishaps>>

SyncOperation == {"shadow", "restore", "remove"}
Operation == SyncOperation \cup {"refresh"}

\* "waiting" for the lock, "acquired", network "exchange" under way, its
\* answer ("answered" or "refused") on the way back, "plan" of a synchronous
\* transaction, first and second file replacement, "release".
Stage == {"idle", "waiting", "acquired", "exchange", "answered", "refused",
          "plan", "write1", "write2", "release"}

\* The only events that may cost a login: a process died, or was evicted,
\* or its budget ran out, with a rotated token not yet written; the answer to
\* an exchange was lost; a writer that takes no lock wrote inside a commit.
Mishap == {"crash", "lease", "answer", "foreign write"}

TypeOK ==
  /\ files \in Files
  /\ live \subseteq Token
  /\ issued \in 0 .. MaxToken
  /\ lock \in 0 .. MaxLock /\ fresh \in BOOLEAN /\ created \in 0 .. MaxLock
  /\ op \in [Process -> Operation \cup {"none"}]
  /\ pc \in [Process -> Stage]
  /\ identity \in [Process -> 0 .. MaxLock]
  /\ captured \in [Process -> Token \cup {NoEntry}]
  /\ snapshot \in [Process -> Files]
  /\ plan \in [Process -> Files]
  /\ minted \in [Process -> Token \cup {NoEntry}]
  /\ aborted \in [Process -> BOOLEAN]
  /\ mishaps \subseteq Mishap

-----------------------------------------------------------------------------
(* The transforms a transaction applies to the two files. *)

\* What the parent uses: the sidecar's login behind a placeholder.
mergeParentAuth(f) ==
  IF f.auth \in Facing /\ f.sidecar \in Token THEN f.sidecar ELSE f.auth

\* Mutant: a placeholder of an older release is taken for a login.
shadowAnything(f) ==
  IF f.auth \notin {NoEntry, Placeholder}
  THEN [auth |-> Placeholder, sidecar |-> f.auth]
  ELSE f

applyShadowPlan(f) ==
  IF f.auth = OldPlaceholder /\ f.sidecar \in Token
  THEN [f EXCEPT !.auth = Placeholder]
  ELSE IF f.auth \in Token
       THEN [auth |-> Placeholder, sidecar |-> f.auth]
       ELSE f

\* Mutant: takes any entry that is not a login for a placeholder.
restoreOverNothing(f) ==
  IF f.sidecar \in Token
  THEN [auth |-> IF f.auth \in Token THEN f.auth ELSE f.sidecar, sidecar |-> NoEntry]
  ELSE f

applyRestorePlan(f) ==
  IF f.sidecar \in Token
  THEN [auth |-> IF f.auth \in Facing THEN f.sidecar ELSE f.auth, sidecar |-> NoEntry]
  ELSE f

\* The sidecar half of removeAuthSlot: a re-login meanwhile is left alone.
dropShadow(f) == IF f.auth = NoEntry THEN [f EXCEPT !.sidecar = NoEntry] ELSE f

transform(o, f) ==
  CASE o = "shadow"  -> applyShadowPlan(f)
    [] o = "restore" -> applyRestorePlan(f)
    [] OTHER         -> dropShadow(f)

\* Mutants: the merge keeps the old refresh token; the sidecar gets every token.
keepOldToken(f, token) == f
persistInSidecar(f, token) == [f EXCEPT !.sidecar = token]

\* A rotated credential goes back where the login was found.
persistRefreshed(f, token) ==
  IF f.auth \in Facing THEN [f EXCEPT !.sidecar = token] ELSE [f EXCEPT !.auth = token]

\* Mutant: publishes the placeholder before the copy behind it is written.
publishFirst(o) == o = "refresh"

\* The order of the two replacements: never a moment without a copy.
writesSidecarFirst(o) == o \in {"refresh", "shadow"}

Effective == mergeParentAuth(files)

-----------------------------------------------------------------------------
Nothing == [auth |-> NoEntry, sidecar |-> NoEntry]

Init ==
  /\ files \in {[auth |-> 1, sidecar |-> NoEntry], [auth |-> OldPlaceholder, sidecar |-> 1]}
  /\ live = {1} /\ issued = 1
  /\ lock = 0 /\ fresh = TRUE /\ created = 0
  /\ op = [p \in Process |-> "none"]
  /\ pc = [p \in Process |-> "idle"]
  /\ identity = [p \in Process |-> 0]
  /\ captured = [p \in Process |-> NoEntry]
  /\ snapshot = [p \in Process |-> Nothing]
  /\ plan = [p \in Process |-> Nothing]
  /\ minted = [p \in Process |-> NoEntry]
  /\ aborted = [p \in Process |-> FALSE]
  /\ mishaps = {}

stillOwned(p) == identity[p] # 0 /\ lock = identity[p]
assertOwned(p) == ~aborted[p] /\ stillOwned(p)

At(p, stage) == pc[p] = stage
Goto(p, stage) == pc' = [pc EXCEPT ![p] = stage]

\* The end of a transaction, with everything it held in memory.
Finish(p) ==
  /\ Goto(p, "idle")
  /\ op' = [op EXCEPT ![p] = "none"]
  /\ identity' = [identity EXCEPT ![p] = 0]
  /\ captured' = [captured EXCEPT ![p] = NoEntry]
  /\ snapshot' = [snapshot EXCEPT ![p] = Nothing]
  /\ plan' = [plan EXCEPT ![p] = Nothing]
  /\ minted' = [minted EXCEPT ![p] = NoEntry]
  /\ aborted' = [aborted EXCEPT ![p] = FALSE]

\* A transaction that spent the stored token ends without writing the next.
Forfeit(p, mishap) ==
  mishaps' = IF minted[p] \in Token /\ Effective \notin live
             THEN mishaps \cup {mishap} ELSE mishaps

mkdirLock(p) ==
  /\ lock = 0 /\ created < MaxLock
  /\ created' = created + 1
  /\ lock' = created + 1
  /\ fresh' = TRUE
  /\ identity' = [identity EXCEPT ![p] = created + 1]

-----------------------------------------------------------------------------
(* A forced refresh. *)

\* performForcedRefresh reads the credential it was asked to replace, then
\* queues for the lock; a slot without a login is "unsupported".
BeginRefresh(p) ==
  /\ At(p, "idle")
  /\ Effective \in Token
  /\ captured' = [captured EXCEPT ![p] = Effective]
  /\ op' = [op EXCEPT ![p] = "refresh"]
  /\ Goto(p, "waiting")
  /\ UNCHANGED <<disk, lease, identity, snapshot, plan, minted, aborted, mishaps>>

\* Mutant: only the recorded owner of a lock may remove it.
evictableByOwner(p) == stillOwned(p) /\ ~fresh

evictable(p) == lock # 0 /\ ~fresh

\* A contender removes a lock whose mtime is over the stale bound ...
Evict(p) ==
  /\ At(p, "waiting") /\ ~aborted[p]
  /\ evictable(p)
  /\ lock' = 0 /\ fresh' = TRUE
  /\ UNCHANGED <<disk, created, local, mishaps>>

\* ... and competes for the next mkdir with everybody else.
Acquire(p) ==
  /\ At(p, "waiting") /\ ~aborted[p]
  /\ mkdirLock(p)
  /\ Goto(p, "acquired")
  /\ UNCHANGED <<disk, op, captured, snapshot, plan, minted, aborted, mishaps>>

GiveUpWaiting(p) ==
  /\ At(p, "waiting") /\ aborted[p]
  /\ Finish(p)
  /\ UNCHANGED <<disk, lease, mishaps>>

\* Under the lock: nothing to refresh, or the login has already changed since
\* it was captured (adopt the winner), or spend the token that is stored.
Inspect(p) ==
  /\ At(p, "acquired")
  /\ snapshot' = [snapshot EXCEPT ![p] = files]
  /\ Goto(p, IF assertOwned(p) /\ Effective = captured[p] THEN "exchange" ELSE "release")
  /\ UNCHANGED <<disk, lease, op, identity, captured, plan, minted, aborted, mishaps>>

\* The provider rotates a token it still accepts and refuses any other.
Exchange(p) ==
  LET spent == mergeParentAuth(snapshot[p]) IN
  /\ At(p, "exchange")
  /\ IF spent \in live
     THEN /\ issued < MaxToken
          /\ issued' = issued + 1
          /\ live' = (live \ {spent}) \cup {issued + 1}
          /\ minted' = [minted EXCEPT ![p] = issued + 1]
          /\ Goto(p, "answered")
     ELSE /\ Goto(p, "refused")
          /\ UNCHANGED <<issued, live, minted>>
  /\ UNCHANGED <<files, lease, op, identity, captured, snapshot, plan, aborted, mishaps>>

\* A network failure says nothing of the token and is never retried here.
ExchangeFails(p) ==
  /\ At(p, "exchange")
  /\ Goto(p, "release")
  /\ UNCHANGED <<disk, lease, op, identity, captured, snapshot, plan, minted, aborted, mishaps>>

AnswerLost(p) ==
  /\ At(p, "answered")
  /\ Forfeit(p, "answer")
  /\ Goto(p, "release")
  /\ UNCHANGED <<disk, lease, op, identity, captured, snapshot, plan, minted, aborted>>

\* The answer: give way to a newer login written meanwhile by a writer that
\* takes no lock, else plan the commit.
Settle(p) ==
  /\ At(p, "answered")
  /\ IF aborted[p]
     THEN Forfeit(p, "lease") /\ Goto(p, "release") /\ UNCHANGED plan
     ELSE IF Effective \in Token /\ Effective # mergeParentAuth(snapshot[p])
     THEN Goto(p, "release") /\ UNCHANGED <<plan, mishaps>>
     ELSE /\ plan' = [plan EXCEPT ![p] = persistRefreshed(snapshot[p], minted[p])]
          /\ Goto(p, "write1")
          /\ UNCHANGED mishaps
  /\ UNCHANGED <<disk, lease, op, identity, captured, snapshot, minted, aborted>>

\* invalid_grant: a stored login that differs from the one spent is adopted;
\* otherwise the verdict is terminal and the slot asks for a new login.  The
\* files are left alone either way.
Refused(p) ==
  /\ At(p, "refused")
  /\ Goto(p, "release")
  /\ UNCHANGED <<disk, lease, op, identity, captured, snapshot, plan, minted, aborted, mishaps>>

-----------------------------------------------------------------------------
(* The synchronous transactions, and the writes all transactions share. *)

\* lockSync takes a free or a stale lock, and throws on any other (the caller
\* then defers).  Its caller does not yield before release.
BeginSync(p, o) ==
  /\ At(p, "idle")
  /\ lock = 0 \/ ~fresh
  /\ created < MaxLock
  /\ created' = created + 1 /\ lock' = created + 1 /\ fresh' = TRUE
  /\ identity' = [identity EXCEPT ![p] = created + 1]
  /\ op' = [op EXCEPT ![p] = o]
  /\ Goto(p, "plan")
  /\ UNCHANGED <<disk, captured, snapshot, plan, minted, aborted, mishaps>>

PlanSync(p) ==
  /\ At(p, "plan")
  /\ snapshot' = [snapshot EXCEPT ![p] = files]
  /\ plan' = [plan EXCEPT ![p] = transform(op[p], files)]
  /\ Goto(p, IF transform(op[p], files) # files THEN "write1" ELSE "release")
  /\ UNCHANGED <<disk, lease, op, identity, captured, minted, aborted, mishaps>>

\* Only the asynchronous commit is fenced: it must own the lock at each
\* replacement, and the files must still be the ones it read.
fenced(p) == op[p] = "refresh"

\* Mutants: no compare before the commit; no ownership check in the middle.
commitBlindly(p) == fenced(p) => assertOwned(p)
commitUnfenced(p) == TRUE

mayWrite1(p) == fenced(p) => assertOwned(p) /\ files = snapshot[p]
mayWrite2(p) == fenced(p) => assertOwned(p)

replaceSidecar(p) == files' = [files EXCEPT !.sidecar = plan[p].sidecar]
replaceAuth(p) == files' = [files EXCEPT !.auth = plan[p].auth]

Write1(p) ==
  /\ At(p, "write1")
  /\ IF mayWrite1(p)
     THEN /\ IF writesSidecarFirst(op[p]) THEN replaceSidecar(p) ELSE replaceAuth(p)
          /\ Goto(p, "write2")
          /\ UNCHANGED mishaps
     ELSE /\ Goto(p, "release")
          /\ Forfeit(p, IF assertOwned(p) THEN "foreign write" ELSE "lease")
          /\ UNCHANGED files
  /\ UNCHANGED <<live, issued, lease, op, identity, captured, snapshot, plan, minted, aborted>>

Write2(p) ==
  /\ At(p, "write2")
  /\ Goto(p, "release")
  /\ IF mayWrite2(p)
     THEN /\ IF writesSidecarFirst(op[p]) THEN replaceAuth(p) ELSE replaceSidecar(p)
          /\ UNCHANGED mishaps
     ELSE Forfeit(p, "lease") /\ UNCHANGED files
  /\ UNCHANGED <<live, issued, lease, op, identity, captured, snapshot, plan, minted, aborted>>

\* Mutant: removes whatever lock directory exists.
unlockAnything(p) == 0

unlock(p) == IF stillOwned(p) THEN 0 ELSE lock

\* finally: only the directory this transaction created is removed.
Release(p) ==
  /\ At(p, "release")
  /\ Finish(p)
  /\ lock' = unlock(p)
  /\ fresh' = (stillOwned(p) \/ fresh)
  /\ UNCHANGED <<disk, created, mishaps>>

-----------------------------------------------------------------------------
(* Time, death and the other writers. *)

Awaiting(p) == pc[p] \in {"exchange", "answered", "refused"}

\* The 1 s heartbeat: restamp a lock still owned, else abort the lease.
Heartbeat(p) ==
  /\ Awaiting(p)
  /\ IF stillOwned(p)
     THEN fresh' = TRUE /\ UNCHANGED aborted
     ELSE aborted' = [aborted EXCEPT ![p] = TRUE] /\ UNCHANGED fresh
  /\ UNCHANGED <<disk, lock, created, op, pc, identity, captured, snapshot, plan, minted, mishaps>>

\* An event loop that is blocked, or a suspended machine, misses its
\* heartbeats; this can happen only while the transaction awaits.
Stall(p) ==
  /\ Awaiting(p) \/ At(p, "acquired")
  /\ stillOwned(p)
  /\ fresh' = FALSE
  /\ UNCHANGED <<disk, lock, created, local, mishaps>>

\* The 30 s budget of the refresh.
Timeout(p) ==
  /\ Awaiting(p) \/ At(p, "waiting")
  /\ aborted' = [aborted EXCEPT ![p] = TRUE]
  /\ UNCHANGED <<disk, lease, op, pc, identity, captured, snapshot, plan, minted, mishaps>>

\* The process dies anywhere; each file is replaced whole or not at all.
Crash(p) ==
  /\ ~At(p, "idle")
  /\ Finish(p)
  /\ Forfeit(p, "crash")
  /\ UNCHANGED <<disk, lease>>

\* The lock of a dead process ages until a contender may remove it.
Age ==
  /\ lock # 0 /\ fresh
  /\ \A p \in Process : ~stillOwned(p)
  /\ fresh' = FALSE
  /\ UNCHANGED <<disk, lock, created, local, mishaps>>

issueLogin ==
  /\ issued < MaxToken
  /\ issued' = issued + 1
  /\ live' = live \cup {issued + 1}
  /\ files' = [files EXCEPT !.auth = issued + 1]

\* /login in the host, which holds the same lock while it writes.
HostLogin ==
  /\ lock = 0
  /\ issueLogin
  /\ mishaps' = {}
  /\ UNCHANGED <<lease, local>>

\* Has some transaction read the files for the last time but not yet written?
Committing ==
  \E p \in Process : At(p, "write2") \/ (At(p, "write1") /\ ~fenced(p))

\* A login by a program that ignores the lock.
ForeignLogin ==
  /\ issueLogin
  /\ mishaps' = IF Committing THEN {"foreign write"} ELSE {}
  /\ UNCHANGED <<lease, local>>

\* The host deletes the auth.json entry first; the sidecar half follows as a
\* transaction of its own.
HostRemove ==
  /\ lock = 0
  /\ files.auth # NoEntry
  /\ files' = [files EXCEPT !.auth = NoEntry]
  /\ UNCHANGED <<live, issued, lease, local, mishaps>>

-----------------------------------------------------------------------------
Step(p) ==
  \/ BeginRefresh(p) \/ Evict(p) \/ Acquire(p) \/ GiveUpWaiting(p) \/ Inspect(p)
  \/ Exchange(p) \/ ExchangeFails(p) \/ AnswerLost(p) \/ Settle(p) \/ Refused(p)
  \/ \E o \in SyncOperation : BeginSync(p, o)
  \/ PlanSync(p) \/ Write1(p) \/ Write2(p) \/ Release(p)
  \/ Heartbeat(p) \/ Stall(p) \/ Timeout(p) \/ Crash(p)

Next == (\E p \in Process : Step(p)) \/ Age \/ HostLogin \/ ForeignLogin \/ HostRemove

Spec == Init /\ [][Next]_vars

\* A contender polls the lock every 20 ms until its budget ends, and then gives
\* up; an abandoned mtime only gets older.  Nothing else has to happen.
Fairness ==
  /\ WF_vars(Age)
  /\ SF_vars(\E p \in Process : Evict(p))
  /\ WF_vars(\E p \in Process : GiveUpWaiting(p))

FairSpec == Spec /\ Fairness

-----------------------------------------------------------------------------
(* Why a placeholder is always backed: the inductive invariant. *)

\* Lock directories are never confused with one another, ...
LockDiscipline ==
  /\ lock <= created
  /\ \A p \in Process : identity[p] <= created
  /\ \A p, q \in Process : identity[p] = identity[q] /\ identity[p] # 0 => p = q
  /\ \A p \in Process : pc[p] \in {"idle", "waiting"} => identity[p] = 0

\* ... each stage belongs to its kind of transaction, ...
StageDiscipline ==
  \A p \in Process :
    /\ pc[p] \in {"waiting", "acquired", "exchange", "answered", "refused"} => op[p] = "refresh"
    /\ pc[p] = "plan" => op[p] # "refresh"
    /\ pc[p] = "answered" => minted[p] \in Token

\* ... a synchronous transaction cannot be evicted, ...
SyncHolds ==
  \A p \in Process :
    pc[p] \in {"plan", "write1", "write2"} /\ ~fenced(p) => stillOwned(p) /\ fresh

\* ... and the files a commit passes through are backed.  Sidecar first: the
\* copy is there before the placeholder.  auth.json first: no placeholder is
\* left when the copy goes.
CommitBacked ==
  \A p \in Process :
    /\ writesSidecarFirst(op[p]) =>
         /\ pc[p] \in {"write1", "write2"} =>
              (plan[p].auth \in Facing => plan[p].sidecar \in Token)
         /\ pc[p] = "write1" /\ op[p] = "shadow" => plan[p].sidecar \in Token
         /\ pc[p] = "write1" /\ op[p] = "refresh" =>
              (snapshot[p].auth \in Facing => plan[p].sidecar \in Token)
         /\ pc[p] = "write2" /\ stillOwned(p) => files.sidecar = plan[p].sidecar
    /\ ~writesSidecarFirst(op[p]) =>
         /\ pc[p] \in {"write1", "write2"} => plan[p].auth \notin Facing
         /\ pc[p] = "write2" => files.auth \notin Facing

-----------------------------------------------------------------------------
(* Properties. *)

\* No child-facing placeholder without the login behind it, at any crash
\* point and in any order of shadow, restore, refresh, removal and re-login:
\* this is what the two write orders of the transactions are for.
PlaceholderBacked == files.auth \in Facing => files.sidecar \in Token

BackedInv ==
  /\ TypeOK /\ LockDiscipline /\ StageDiscipline /\ SyncHolds
  /\ CommitBacked /\ PlaceholderBacked

\* The stored login is one the provider accepts, or a running transaction has
\* its replacement in hand, unless one of the named mishaps befell a rotation.
LoginSurvives ==
  Effective \in Token /\ mishaps = {} =>
    Effective \in live \/ \E p \in Process : minted[p] \in live

\* A refresher that kept its lease is refused, with no newer login stored to
\* adopt, only after a mishap or while a holder evicted in mid-exchange has
\* the replacement: cooperating refreshers never spend one token twice.
NoFalseTerminal ==
  \A p \in Process :
    At(p, "refused") /\ stillOwned(p) /\ Effective = mergeParentAuth(snapshot[p]) =>
      \/ mishaps # {}
      \/ \E q \in Process : minted[q] \in Token /\ ~stillOwned(q)

\* No step of a transaction replaces the login by an older one or by nothing,
\* except over a foreign login that landed inside its commit.
LoginNeverOlder ==
  [][ \A p \in Process :
        pc'[p] # pc[p] /\ Effective \in Token /\ "foreign write" \notin mishaps =>
          Effective' \in Token /\ Effective' >= Effective ]_vars

\* A removed login does not come back: no transaction that was under way, and
\* no copy left in the sidecar, brings it back into use.
RemovedStaysRemoved ==
  [][ (\E p \in Process : pc'[p] # pc[p]) /\ Effective = NoEntry => Effective' = NoEntry ]_vars

\* Files are replaced only by the process that owns the lock at that moment,
\* even when its lease was taken from it earlier in the transaction.
WritesByOwnerOnly ==
  [][ \A p \in Process :
        pc[p] \in {"write1", "write2"} /\ pc'[p] # pc[p] /\ files' # files => stillOwned(p) ]_vars

\* A lock that its living owner keeps fresh is removed by nobody else.
FreshLockKept ==
  [][ \A p \in Process : stillOwned(p) /\ fresh /\ lock' # lock => identity'[p] = 0 ]_vars

\* A lock left by a dead process never blocks the contenders for good.
AbandonedLockRecovered ==
  \A l \in 1 .. MaxLock :
    (lock = l /\ (\A p \in Process : ~stillOwned(p)) /\ (\E p \in Process : At(p, "waiting")))
      ~> (lock # l \/ \A p \in Process : ~At(p, "waiting"))
=============================================================================

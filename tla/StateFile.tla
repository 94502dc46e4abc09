------------------------------ MODULE StateFile ------------------------------
(***************************************************************************)
(* provider-failover-state.json: one file shared by every Pi window and    *)
(* every delegated child of the machine.                                   *)
(*                                                                         *)
(* A window keeps the whole content in memory and remembers what the file  *)
(* held when it last wrote it ("base", lastSavedState in the code).  To    *)
(* write, it takes the lock, reads the file, applies the differences       *)
(* between base and memory to what it read, and replaces the file by       *)
(* rename; all that is synchronous code and one step here.  The lock may   *)
(* be busy for too long, or the disk full: the write is then dropped and   *)
(* the window goes on with what it has in memory.                          *)
(*                                                                         *)
(* The maps of the file are merged key by key and no key depends on        *)
(* another, so one account stands for all.  Times are the values of a      *)
(* clock; 0 stands for an absent entry.                                    *)
(***************************************************************************)
EXTENDS Naturals

CONSTANTS
  Window,      \* processes that share the file
  Child,       \* those of them that are delegated children
  MaxTime,     \* bound of the clock
  MaxLogin,    \* bound: logins of the account
  MaxChoice,   \* bound: models the user may choose
  Exercised    \* the records this instance writes; no record depends on another

WindowAssumption ==
  /\ Child \subseteq Window
  /\ Window \cap {"none", "legacy", "gone"} = {}
  /\ MaxTime \in Nat /\ MaxLogin \in Nat \ {0} /\ MaxChoice \in Nat
  /\ Exercised \subseteq {"refusal", "cooldown", "usage", "login", "marker", "choice", "best"}

\* pendingOwner of the parked work the file tells of: nobody's, recorded by a
\* version that named no owner, a live window's, one of a session that is gone.
Marker == {"none", "legacy", "gone"} \cup Window

Time == 0 .. MaxTime

File == [
  cooldown : Time,                            \* exhaustedUntilByProvider
  refusal  : Time,                            \* limitRefusalByProvider, observedAt
  usage    : [at : Time, login : 0 .. MaxLogin],  \* usageByProvider
  invalid  : 0 .. MaxLogin,                   \* invalidatedByProvider, tokenHash
  marker   : Marker,                          \* pendingFrom, pendingReason, pendingOwner
  choice   : 0 .. MaxChoice,                  \* lastUserModel, thinking, by family
  best     : Time]                            \* lastSuccessfulModel, at

NoUsage == [at |-> 0, login |-> 0]
Empty == [cooldown |-> 0, refusal |-> 0, usage |-> NoUsage, invalid |-> 0,
          marker |-> "none", choice |-> 0, best |-> 0]

VARIABLES
  disk,     \* the file
  local,    \* what each window holds in memory
  base,     \* what the file held when the window last wrote or read it
  parked,   \* the window has work waiting (pendingResume)
  fetch,    \* when the usage answer a window awaits was taken (0: none)
  login,    \* the login the credential store holds
  known,    \* the login each window has last seen there (credentialHashes)
  clock

session == <<parked, fetch, login, known, clock>>
vars == <<disk, local, base, session>>

TypeOK ==
  /\ disk \in File
  /\ local \in [Window -> File] /\ base \in [Window -> File]
  /\ parked \in [Window -> BOOLEAN] /\ fetch \in [Window -> Time]
  /\ login \in 1 .. MaxLogin /\ known \in [Window -> 1 .. MaxLogin] /\ clock \in 1 .. MaxTime + 1

\* A version that named no owner, or a crashed session, may have left a marker.
Init ==
  /\ disk \in {[Empty EXCEPT !.marker = m] : m \in {"none", "legacy", "gone"}}
  /\ local = [w \in Window |-> disk] /\ base = [w \in Window |-> disk]
  /\ parked = [w \in Window |-> FALSE] /\ fetch = [w \in Window |-> 0]
  /\ login = 1 /\ known = [w \in Window |-> 1] /\ clock = 1

-----------------------------------------------------------------------------
(* The merge of one window's differences into what the file holds now. *)

\* Mutant of mergeEntry: a removal removes whatever is there.
removeAlways(b, l, d, none, outdated) ==
  IF l = b THEN d ELSE IF l # none THEN (IF outdated THEN d ELSE l) ELSE none

\* b: the entry at the last write, l: in memory, d: in the file.  An unchanged
\* entry follows the file, a new one is written unless it is outdated, and a
\* removal removes only what it saw.
mergeEntry(b, l, d, none, outdated) ==
  IF l = b THEN d
  ELSE IF l # none THEN (IF outdated THEN d ELSE l)
  ELSE IF d = b THEN none ELSE d

\* Mutant of mergeStateDeltas: the last writer wins.
lastWriterWins(b, l, d) == l

\* Mutant of mergeStateDeltas: a shorter cooldown is written whatever was seen.
shortenBlindly(b, l, d) ==
  [lastWriterWins(b, l, d) EXCEPT
     !.cooldown = mergeEntry(b.cooldown, l.cooldown, d.cooldown, 0, FALSE)]

\* A refusal gives way to a later one, a usage reading to a later one of the
\* same login, a cooldown to a longer one the window has not seen.
mergeStateDeltas(b, l, d) ==
  [l EXCEPT
     !.cooldown = mergeEntry(b.cooldown, l.cooldown, d.cooldown, 0,
                             d.cooldown # b.cooldown /\ d.cooldown > l.cooldown),
     !.refusal  = mergeEntry(b.refusal, l.refusal, d.refusal, 0, d.refusal > l.refusal),
     !.usage    = mergeEntry(b.usage, l.usage, d.usage, NoUsage,
                             d.usage.login = l.usage.login /\ d.usage.at > l.usage.at),
     !.invalid  = mergeEntry(b.invalid, l.invalid, d.invalid, 0, FALSE)]

\* Mutant of mergeMarker: a marker in memory is written back.
mergeMarkerRevives(w, clear, l, d) ==
  CASE clear = "owned"           -> IF d = w THEN l ELSE d
    [] clear = "owned-or-legacy" -> IF d \in {w, "legacy"} THEN l ELSE d
    [] clear = "no" -> IF d = "none" THEN l ELSE d

\* What becomes of the marker: an ordinary write keeps that of another window
\* and revives none, a clear removes the window's own (or an ownerless one).
mergeMarker(w, clear, l, d) ==
  CASE clear = "owned"           -> IF d = w THEN l ELSE d
    [] clear = "owned-or-legacy" -> IF d \in {w, "legacy"} THEN l ELSE d
    [] clear = "no" -> IF d = "none" THEN (IF l = w THEN w ELSE "none") ELSE d

\* Mutant of published: every write carries the window's preferences.
publishesAll(w, l, clear, choosing) ==
  [mergeStateDeltas(base[w], l, disk) EXCEPT
     !.marker = mergeMarker(w, clear, l.marker, disk.marker)]

\* The transform persist hands to the file transaction.
published(w, l, clear, choosing) ==
  LET m == mergeStateDeltas(base[w], l, disk) IN
  [m EXCEPT !.best   = IF disk.best > l.best THEN disk.best ELSE l.best,
            !.marker = mergeMarker(w, clear, l.marker, disk.marker),
            !.choice = IF choosing THEN l.choice ELSE disk.choice]

\* persist, with memory l: written, dropped before the file was read (the lock
\* is busy), or dropped after the merge (the disk is full).  Only a write makes
\* the window adopt the merged maps; what is not a map it adopts with the merge.
persist(w, l, clear, choosing) ==
  LET n == published(w, l, clear, choosing) IN
  \/ disk' = n /\ local' = [local EXCEPT ![w] = n] /\ base' = [base EXCEPT ![w] = n]
  \/ local' = [local EXCEPT ![w] = l] /\ UNCHANGED <<disk, base>>
  \/ /\ local' = [local EXCEPT ![w] = [l EXCEPT !.best = n.best, !.marker = n.marker,
                                                !.choice = n.choice]]
     /\ UNCHANGED <<disk, base>>

-----------------------------------------------------------------------------
(* Records about the account. *)

\* resolveLimitCooldownMs: the account refused; its refusal is written before
\* any reading of the meter can contradict it.
NoteRefusal(w) ==
  /\ clock <= MaxTime
  /\ persist(w, [local[w] EXCEPT !.refusal = clock], "no", FALSE)
  /\ UNCHANGED session

\* Mutant of Bench: the new cooldown is added to the recorded one.
BenchAdds(w) ==
  /\ \E until \in Time :
       /\ until > clock
       /\ persist(w, [local[w] EXCEPT !.cooldown = @ + until], "no", FALSE)
  /\ UNCHANGED session

\* markExhausted: a cooldown is only ever prolonged here.
Bench(w) ==
  /\ \E until \in Time :
       /\ until > clock /\ until > local[w].cooldown
       /\ persist(w, [local[w] EXCEPT !.cooldown = until], "no", FALSE)
  /\ UNCHANGED session

\* noteAuthSuccess: an answer of the account clears everything against it.
Succeed(w) ==
  /\ <<local[w].cooldown, local[w].refusal, local[w].invalid>> # <<0, 0, 0>>
  /\ persist(w, [local[w] EXCEPT !.cooldown = 0, !.refusal = 0, !.invalid = 0], "no", FALSE)
  /\ UNCHANGED session

\* pruneCooldowns: what has passed is dropped.
Prune(w) ==
  /\ local[w].cooldown # 0 /\ local[w].cooldown <= clock /\ local[w].invalid = 0
  /\ persist(w, [local[w] EXCEPT !.cooldown = 0], "no", FALSE)
  /\ UNCHANGED session

\* The usage endpoint answers; the window stores the answer when it gets to it.
FetchUsage(w) ==
  /\ fetch[w] = 0 /\ clock <= MaxTime
  /\ fetch' = [fetch EXCEPT ![w] = clock]
  /\ UNCHANGED <<disk, local, base, parked, login, known, clock>>

\* storeUsage: kept if the login is still the one that was asked for, with a
\* cooldown shortened to what it reports; applyUsageToCooldown holds back while
\* a refusal is fresh.
StoreUsage(w) ==
  /\ fetch[w] # 0
  /\ fetch' = [fetch EXCEPT ![w] = 0]
  /\ \E until \in {local[w].cooldown} \cup {t \in Time : t = 0 \/ t > clock} :
       /\ until <= local[w].cooldown
       /\ local[w].refusal # 0 => until = local[w].cooldown
       /\ persist(w, [local[w] EXCEPT !.usage = [at |-> fetch[w], login |-> login],
                                      !.cooldown = until], "no", FALSE)
  /\ UNCHANGED <<parked, login, known, clock>>

\* The fetch fails, or its answer is one of a login that has been replaced.
DropUsage(w) ==
  /\ fetch[w] # 0
  /\ fetch' = [fetch EXCEPT ![w] = 0]
  /\ UNCHANGED <<disk, local, base, parked, login, known, clock>>

\* markInvalid: the login is condemned, by its hash.
Invalidate(w) ==
  /\ local[w].invalid # login
  /\ persist(w, [local[w] EXCEPT !.invalid = login], "no", FALSE)
  /\ UNCHANGED session

\* refreshDiscovery: the window meets another login.  The usage reading goes
\* (from memory: no write), what was held against another account goes too, and
\* so does a condemnation of another login (clearReauthedInvalidations).
RefreshDiscovery(w) ==
  /\ known[w] # login
  /\ known' = [known EXCEPT ![w] = login]
  /\ \E otherAccount \in BOOLEAN :
       LET l == [local[w] EXCEPT !.usage = NoUsage]
           m == IF otherAccount THEN [l EXCEPT !.cooldown = 0, !.refusal = 0] ELSE l
           n == IF m.invalid \notin {0, login} THEN [m EXCEPT !.invalid = 0, !.cooldown = 0] ELSE m
       IN IF n = l THEN local' = [local EXCEPT ![w] = l] /\ UNCHANGED <<disk, base>>
          ELSE persist(w, n, "no", FALSE)
  /\ UNCHANGED <<parked, fetch, login, clock>>

\* The user logs in again; a usage answer under way is one of the old login.
Relogin ==
  /\ login < MaxLogin
  /\ login' = login + 1 /\ fetch' = [w \in Window |-> 0]
  /\ UNCHANGED <<disk, local, base, parked, known, clock>>

Tick ==
  /\ clock <= MaxTime
  /\ clock' = clock + 1
  /\ UNCHANGED <<disk, local, base, parked, fetch, login, known>>

-----------------------------------------------------------------------------
(* Records about the session. *)

\* setPendingContinuation
Park(w) ==
  /\ parked' = [parked EXCEPT ![w] = TRUE]
  /\ persist(w, [local[w] EXCEPT !.marker = w], "no", FALSE)
  /\ UNCHANGED <<fetch, login, known, clock>>

\* Mutant of clearPendingContinuation: an ownerless marker, and any other, goes.
clearAny(w, legacy) ==
  /\ parked' = [parked EXCEPT ![w] = FALSE]
  /\ disk' = [disk EXCEPT !.marker = "none"]
  /\ local' = [local EXCEPT ![w].marker = "none"]
  /\ UNCHANGED base

clearPendingContinuation(w, legacy) ==
  /\ parked' = [parked EXCEPT ![w] = FALSE]
  /\ persist(w, [local[w] EXCEPT !.marker = "none"],
             IF legacy THEN "owned-or-legacy" ELSE "owned", FALSE)

Unpark(w) ==
  /\ clearPendingContinuation(w, FALSE)
  /\ UNCHANGED <<fetch, login, known, clock>>

\* session_start of a window that is not a child, and found a marker at load.
StartSession(w) ==
  /\ w \notin Child /\ local[w].marker # "none"
  /\ clearPendingContinuation(w, TRUE)
  /\ UNCHANGED <<fetch, login, known, clock>>

\* rememberUserModel: the one write that carries the user's choice.
RememberUserModel(w) ==
  /\ w \notin Child
  /\ \E c \in 1 .. MaxChoice : persist(w, [local[w] EXCEPT !.choice = c], "no", TRUE)
  /\ UNCHANGED session

\* agent_end: a completed answer of the foreground.
Answer(w) ==
  /\ clock <= MaxTime /\ local[w].best # clock
  /\ persist(w, [local[w] EXCEPT !.best = clock], "no", FALSE)
  /\ UNCHANGED session

\* /multi-account reset: the window's own marker is cleared, then the file is
\* replaced, unmerged, by an empty one.
Reset(w) ==
  /\ parked' = [parked EXCEPT ![w] = FALSE]
  /\ LET l == [local[w] EXCEPT !.cooldown = 0, !.refusal = 0, !.usage = NoUsage, !.marker = "none"]
         n == published(w, l, "owned", FALSE) IN
     \/ disk' = Empty /\ base' \in {base, [base EXCEPT ![w] = n]}
     \/ disk' = n /\ base' = [base EXCEPT ![w] = n]
     \/ UNCHANGED <<disk, base>>
  /\ local' = [local EXCEPT ![w] = Empty]
  /\ UNCHANGED <<fetch, login, known, clock>>

\* The process ends and a new one loads the file.  Its instance id is new: a
\* marker of the old one belongs to a session that is gone.
Restart(w) ==
  LET orphan(f) == [f EXCEPT !.marker = IF @ = w THEN "gone" ELSE @] IN
  /\ disk' = orphan(disk)
  /\ local' = [v \in Window |-> IF v = w THEN disk' ELSE orphan(local[v])]
  /\ base' = [v \in Window |-> IF v = w THEN disk' ELSE orphan(base[v])]
  /\ parked' = [parked EXCEPT ![w] = FALSE] /\ fetch' = [fetch EXCEPT ![w] = 0]
  /\ known' = [known EXCEPT ![w] = login]
  /\ UNCHANGED <<login, clock>>

WindowStep(w) ==
  \/ "refusal" \in Exercised /\ (NoteRefusal(w) \/ Succeed(w) \/ Prune(w))
  \/ "cooldown" \in Exercised /\ (Bench(w) \/ Succeed(w) \/ Prune(w))
  \/ "usage" \in Exercised /\ (FetchUsage(w) \/ StoreUsage(w) \/ DropUsage(w))
  \/ "login" \in Exercised /\ (Invalidate(w) \/ Succeed(w))
  \/ RefreshDiscovery(w)
  \/ "marker" \in Exercised /\ (Park(w) \/ Unpark(w) \/ StartSession(w))
  \/ "choice" \in Exercised /\ RememberUserModel(w)
  \/ "best" \in Exercised /\ Answer(w)
  \/ Reset(w) \/ Restart(w)

Next == (\E w \in Window : WindowStep(w)) \/ Relogin \/ Tick

Spec == Init /\ [][Next]_vars

-----------------------------------------------------------------------------
(* Properties. *)

Wiped == disk' = Empty

\* The window knows of the entry of this field that the file holds, and has
\* itself put it away.
putAway(field) ==
  \E w \in Window : base[w][field] = disk[field] /\ local'[w][field] # disk[field]

\* A refusal in the file gives way to a later one only; it is removed only by a
\* window that knew of this very refusal (or by a reset).  Whatever windows hold
\* in memory, however old, and whichever of their writes were dropped.
RefusalStandsStep ==
  disk'.refusal < disk.refusal =>
    Wiped \/ (disk'.refusal = 0 /\ putAway("refusal"))
RefusalStands == [][RefusalStandsStep]_vars

\* A cooldown is shortened or removed only by a window that has seen the very
\* cooldown it shortens: an older estimate does not roll back a sibling's.
CooldownStandsStep ==
  disk'.cooldown < disk.cooldown => Wiped \/ putAway("cooldown")
CooldownStands == [][CooldownStandsStep]_vars

\* Between readings of one login the file only moves forward, unless a window
\* removes the reading it has seen.
UsageForwardStep ==
  (disk'.usage.login = disk.usage.login /\ disk'.usage # disk.usage)
    => disk'.usage.at >= disk.usage.at
UsageForward == [][UsageForwardStep]_vars

\* A condemned login stays condemned in the file until a window that knows of it
\* lifts that, or condemns another login; a reset apart.
CondemnedStandsStep ==
  (disk.invalid # 0 /\ disk'.invalid = 0) => Wiped \/ putAway("invalid")
CondemnedStands == [][CondemnedStandsStep]_vars

\* The last successful model does not go back in time, whoever writes; a reset
\* apart.
BestForwardStep ==
  disk'.best < disk.best => Wiped
BestForward == [][BestForwardStep]_vars

\* The marker of parked work is removed or replaced only by the window it names;
\* nobody's marker by a session that starts, and any by a reset or when its
\* owner ends.
OnlyOwnerUnmarksStep ==
  \A w \in Window : (disk.marker = w /\ disk'.marker # w) =>
    Wiped \/ disk'.marker = "gone" \/ (~parked'[w] /\ local'[w].marker = "none")
OnlyOwnerUnmarks == [][OnlyOwnerUnmarksStep]_vars

\* A marker appears only by a write of the window it names: one its owner has
\* cleared does not come back from the memory of another window.
MarkerNotRevivedStep ==
  \A w \in Window : (disk.marker # w /\ disk'.marker = w) =>
    parked'[w] \/ (local'[w] = disk' /\ base'[w] = disk')
MarkerNotRevived == [][MarkerNotRevivedStep]_vars

\* The user's choice of a model is changed by the write that records a choice,
\* and by no telemetry of another window with an older memory.
ChoiceByUserStep ==
  disk'.choice # disk.choice =>
    Wiped \/ \E w \in Window \ Child : base'[w].choice = disk'.choice /\ local'[w] = disk'
ChoiceByUser == [][ChoiceByUserStep]_vars

=============================================================================

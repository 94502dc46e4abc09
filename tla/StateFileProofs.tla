-------------------------- MODULE StateFileProofs --------------------------
(* Theorems about the two files the windows share beside auth.json: the    *)
(* state file (StateFile), for every number of windows and children, every *)
(* clock and every set of records the windows write; and the configuration *)
(* file (ConfigTransaction), in the second half.                           *)
EXTENDS StateFile, TLAPS

-----------------------------------------------------------------------------
(* The inductive invariant.                                                 *)

\* A file without a usage reading says so in one way only: no reading is kept
\* under no login.  A merge tells "removed" from "read at 0" by that.
Plain == {f \in File : f.usage.login = 0 => f.usage = NoUsage}

IInv ==
  /\ TypeOK
  /\ disk \in Plain
  /\ \A w \in Window : local[w] \in Plain /\ base[w] \in Plain

Clearing == {"no", "owned", "owned-or-legacy"}

\* What every caller of persist sees to: memory is a file, a clear comes with a
\* memory without a marker and no work left waiting, and only a user's window
\* writes a choice.
Careful(w, l, clear, choosing) ==
  /\ l \in Plain /\ clear \in Clearing /\ choosing \in BOOLEAN
  /\ clear # "no" => l.marker = "none" /\ ~parked'[w]
  /\ choosing => w \notin Child

Persists(w) ==
  \E l \in Plain, clear \in Clearing, choosing \in BOOLEAN :
    Careful(w, l, clear, choosing) /\ persist(w, l, clear, choosing)

\* The window changes its memory, and nothing but its memory.
Remembers(w) ==
  \E l \in Plain : local' = [local EXCEPT ![w] = l] /\ UNCHANGED <<disk, base>>

-----------------------------------------------------------------------------
(* The merge.                                                               *)

LEMMA Nothing ==
  ASSUME WindowAssumption
  PROVE  /\ 0 \in Time /\ 0 \in 0 .. MaxLogin /\ "none" \in Marker
         /\ NoUsage \in [at : Time, login : 0 .. MaxLogin]
         /\ Empty \in Plain
<1>1. 0 \in Time /\ 0 \in 0 .. MaxLogin /\ 0 \in 0 .. MaxChoice
  BY DEF Time, WindowAssumption
<1>2. "none" \in Marker
  BY DEF Marker
<1>3. NoUsage \in [at : Time, login : 0 .. MaxLogin]
  BY <1>1 DEF NoUsage
<1>4. Empty \in Plain
  BY <1>1, <1>2, <1>3, Zenon DEF Empty, Plain, File
<1> QED
  BY <1>1, <1>2, <1>3, <1>4

\* A merged file is a file: each field comes from one of the three, or is absent.
LEMMA MergedPlain ==
  ASSUME WindowAssumption, NEW b \in Plain, NEW l \in Plain, NEW d \in Plain
  PROVE  mergeStateDeltas(b, l, d) \in Plain
<1> DEFINE c == mergeEntry(b.cooldown, l.cooldown, d.cooldown, 0,
                           d.cooldown # b.cooldown /\ d.cooldown > l.cooldown)
           r == mergeEntry(b.refusal, l.refusal, d.refusal, 0, d.refusal > l.refusal)
           u == mergeEntry(b.usage, l.usage, d.usage, NoUsage,
                           d.usage.login = l.usage.login /\ d.usage.at > l.usage.at)
           i == mergeEntry(b.invalid, l.invalid, d.invalid, 0, FALSE)
<1>1. b \in File /\ l \in File /\ d \in File
  BY DEF Plain
<1>2. c \in Time /\ r \in Time /\ i \in 0 .. MaxLogin
  BY <1>1, Nothing DEF mergeEntry, File
<1>3. u \in {l.usage, d.usage, NoUsage}
  BY DEF mergeEntry
<1>4. u \in [at : Time, login : 0 .. MaxLogin]
  BY <1>1, <1>3, Nothing DEF File
<1>5. u.login = 0 => u = NoUsage
  BY <1>3 DEF Plain
<1>6. mergeStateDeltas(b, l, d)
        = [l EXCEPT !.cooldown = c, !.refusal = r, !.usage = u, !.invalid = i]
  BY Zenon DEF mergeStateDeltas
<1> HIDE DEF c, r, u, i
<1> QED
  BY <1>1, <1>2, <1>4, <1>5, <1>6, Zenon DEF Plain, File

\* The marker that results is in the file already, the window's own, or none.
LEMMA MarkerOf ==
  ASSUME WindowAssumption, NEW w \in Window, NEW clear \in Clearing, NEW l, NEW d,
         clear # "no" => l = "none"
  PROVE  LET n == mergeMarker(w, clear, l, d) IN
           /\ n \in {d, w, "none"}
           /\ n = w => d = w \/ l = w
           /\ d \in Window /\ n # d => d = w /\ l = "none" /\ clear # "no"
<1>1. CASE clear = "no"
  BY <1>1 DEF mergeMarker, WindowAssumption
<1>2. CASE clear = "owned"
  BY <1>2 DEF mergeMarker, WindowAssumption
<1>3. CASE clear = "owned-or-legacy"
  BY <1>3 DEF mergeMarker, WindowAssumption
<1> QED
  BY <1>1, <1>2, <1>3 DEF Clearing

LEMMA PublishedPlain ==
  ASSUME WindowAssumption, IInv, NEW w \in Window, NEW l \in Plain,
         NEW clear \in Clearing, NEW choosing \in BOOLEAN,
         clear # "no" => l.marker = "none"
  PROVE  published(w, l, clear, choosing) \in Plain
<1> DEFINE m == mergeStateDeltas(base[w], l, disk)
           b == IF disk.best > l.best THEN disk.best ELSE l.best
           k == mergeMarker(w, clear, l.marker, disk.marker)
           c == IF choosing THEN l.choice ELSE disk.choice
<1>1. m \in Plain
  BY MergedPlain DEF IInv
<1>2. b \in Time /\ c \in 0 .. MaxChoice
  BY DEF IInv, Plain, File
<1>3. k \in Marker
  BY MarkerOf DEF IInv, Plain, File, Marker
<1>4. published(w, l, clear, choosing)
        = [m EXCEPT !.best = b, !.marker = k, !.choice = c]
  BY DEF published
<1> HIDE DEF m, b, k, c
<1> QED
  BY <1>1, <1>2, <1>3, <1>4, Zenon DEF Plain, File

-----------------------------------------------------------------------------
(* Every step writes through the merge, resets the file, restarts a window,  *)
(* or leaves the file alone.                                                *)

LEMMA RecordSteps ==
  ASSUME WindowAssumption, IInv, NEW w \in Window,
         \/ NoteRefusal(w) \/ Succeed(w) \/ Prune(w) \/ Bench(w)
         \/ Invalidate(w) \/ StoreUsage(w) \/ Answer(w) \/ RememberUserModel(w)
  PROVE  Persists(w)
<1>1. local[w] \in Plain /\ local[w] \in File
  BY DEF IInv, Plain
<1>2. ASSUME NEW l \in Plain, NEW choosing \in BOOLEAN,
             choosing => w \notin Child, persist(w, l, "no", choosing)
      PROVE  Persists(w)
  BY <1>2 DEF Persists, Careful, Clearing
<1>3. CASE NoteRefusal(w)
  <2>1. [local[w] EXCEPT !.refusal = clock] \in Plain
    <3>1. clock \in Time
      BY <1>3 DEF NoteRefusal, IInv, TypeOK, Time, WindowAssumption
    <3> QED
      BY <1>1, <3>1, Zenon DEF Plain, File
  <2> QED
    BY <1>2, <1>3, <2>1 DEF NoteRefusal
<1>4. CASE Succeed(w)
  <2>1. [local[w] EXCEPT !.cooldown = 0, !.refusal = 0, !.invalid = 0] \in Plain
    BY <1>1, Nothing, Zenon DEF Plain, File
  <2> QED
    BY <1>2, <1>4, <2>1 DEF Succeed
<1>5. CASE Prune(w)
  <2>1. [local[w] EXCEPT !.cooldown = 0] \in Plain
    BY <1>1, Nothing, Zenon DEF Plain, File
  <2> QED
    BY <1>2, <1>5, <2>1 DEF Prune
<1>6. CASE Bench(w)
  <2>1. ASSUME NEW until \in Time
        PROVE  [local[w] EXCEPT !.cooldown = until] \in Plain
    BY <1>1, <2>1, Zenon DEF Plain, File
  <2> QED
    BY <1>2, <1>6, <2>1 DEF Bench
<1>7. CASE Invalidate(w)
  <2>1. [local[w] EXCEPT !.invalid = login] \in Plain
    <3>1. login \in 0 .. MaxLogin
      BY DEF IInv, TypeOK, WindowAssumption
    <3> QED
      BY <1>1, <3>1, Zenon DEF Plain, File
  <2> QED
    BY <1>2, <1>7, <2>1 DEF Invalidate
<1>8. CASE StoreUsage(w)
  <2>1. ASSUME NEW until, until = local[w].cooldown \/ until \in Time
        PROVE  [local[w] EXCEPT !.usage = [at |-> fetch[w], login |-> login],
                                !.cooldown = until] \in Plain
    <3>1. until \in Time
      BY <1>1, <2>1 DEF File
    <3>2. [at |-> fetch[w], login |-> login] \in [at : Time, login : 0 .. MaxLogin] /\ login # 0
      BY SMT DEF IInv, TypeOK, WindowAssumption
    <3> QED
      BY <1>1, <3>1, <3>2, Zenon DEF Plain, File
  <2> QED
    BY <1>2, <1>8, <2>1 DEF StoreUsage
<1>9. CASE Answer(w)
  <2>1. [local[w] EXCEPT !.best = clock] \in Plain
    <3>1. clock \in Time
      BY <1>9 DEF Answer, IInv, TypeOK, Time, WindowAssumption
    <3> QED
      BY <1>1, <3>1, Zenon DEF Plain, File
  <2> QED
    BY <1>2, <1>9, <2>1 DEF Answer
<1>10. CASE RememberUserModel(w)
  <2>1. ASSUME NEW c \in 1 .. MaxChoice
        PROVE  [local[w] EXCEPT !.choice = c] \in Plain
    BY <1>1, SMT DEF Plain, File, WindowAssumption
  <2> QED
    BY <1>2, <1>10, <2>1 DEF RememberUserModel
<1> QED
  BY <1>3, <1>4, <1>5, <1>6, <1>7, <1>8, <1>9, <1>10

LEMMA MarkerSteps ==
  ASSUME WindowAssumption, IInv, NEW w \in Window,
         Park(w) \/ Unpark(w) \/ StartSession(w)
  PROVE  Persists(w)
<1>1. local[w] \in Plain /\ local[w] \in File
  BY DEF IInv, Plain
<1>2. ASSUME NEW l \in Plain, NEW clear \in Clearing,
             clear # "no" => l.marker = "none" /\ ~parked'[w], persist(w, l, clear, FALSE)
      PROVE  Persists(w)
  BY <1>2 DEF Persists, Careful
<1>3. CASE Park(w)
  <2>1. [local[w] EXCEPT !.marker = w] \in Plain
    BY <1>1, SMT DEF Plain, File, Marker
  <2> QED
    BY <1>2, <1>3, <2>1 DEF Park, Clearing
<1>4. [local[w] EXCEPT !.marker = "none"] \in Plain
  BY <1>1, SMT DEF Plain, File, Marker
<1>5. [local[w] EXCEPT !.marker = "none"].marker = "none"
  BY <1>1 DEF File
<1>6. ASSUME NEW legacy \in BOOLEAN, clearPendingContinuation(w, legacy)
      PROVE  Persists(w)
  <2>1. ~parked'[w]
    BY <1>6 DEF clearPendingContinuation, IInv, TypeOK
  <2>2. (IF legacy THEN "owned-or-legacy" ELSE "owned") \in Clearing
    BY DEF Clearing
  <2> QED
    BY <1>2, <1>4, <1>5, <1>6, <2>1, <2>2 DEF clearPendingContinuation
<1> QED
  BY <1>3, <1>6 DEF Unpark, StartSession

LEMMA DiscoverySteps ==
  ASSUME WindowAssumption, IInv, NEW w \in Window, RefreshDiscovery(w)
  PROVE  Persists(w) \/ Remembers(w)
<1>1. local[w] \in Plain /\ local[w] \in File
  BY DEF IInv, Plain
<1> DEFINE l == [local[w] EXCEPT !.usage = NoUsage]
           m(other) == IF other THEN [l EXCEPT !.cooldown = 0, !.refusal = 0] ELSE l
           n(other) == IF m(other).invalid \notin {0, login}
                         THEN [m(other) EXCEPT !.invalid = 0, !.cooldown = 0] ELSE m(other)
<1>2. l \in Plain
  BY <1>1, Nothing, Zenon DEF Plain, File
<1>3. ASSUME NEW other \in BOOLEAN
      PROVE  m(other) \in Plain
  <2> HIDE DEF l
  <2> QED
    BY <1>2, Nothing, Zenon DEF Plain, File
<1>4. ASSUME NEW other \in BOOLEAN
      PROVE  n(other) \in Plain
  <2> HIDE DEF m
  <2> QED
    BY <1>3, Nothing, Zenon DEF Plain, File
<1>5. PICK other \in BOOLEAN :
        IF n(other) = l THEN local' = [local EXCEPT ![w] = l] /\ UNCHANGED <<disk, base>>
        ELSE persist(w, n(other), "no", FALSE)
  BY DEF RefreshDiscovery
<1> HIDE DEF l, n
<1> QED
  BY <1>2, <1>4, <1>5 DEF Persists, Remembers, Careful, Clearing

LEMMA StepKinds ==
  ASSUME WindowAssumption, IInv, Next
  PROVE  \/ \E w \in Window : Persists(w) \/ Remembers(w) \/ Reset(w) \/ Restart(w)
         \/ UNCHANGED <<disk, local, base>>
<1>1. ASSUME NEW w \in Window, WindowStep(w)
      PROVE  \/ Persists(w) \/ Remembers(w) \/ Reset(w) \/ Restart(w)
             \/ UNCHANGED <<disk, local, base>>
  BY <1>1, RecordSteps, MarkerSteps, DiscoverySteps
     DEF WindowStep, FetchUsage, DropUsage
<1> QED
  BY <1>1 DEF Next, Relogin, Tick

-----------------------------------------------------------------------------
(* The invariant.                                                           *)

LEMMA InitPlain == ASSUME WindowAssumption PROVE Init => IInv
<1> SUFFICES ASSUME Init PROVE IInv
  OBVIOUS
<1>1. Empty \in Plain
  BY Nothing
<1>2. ASSUME NEW k \in {"none", "legacy", "gone"}
      PROVE  [Empty EXCEPT !.marker = k] \in Plain
  <2>1. k \in Marker
    BY DEF Marker
  <2> QED
    BY <1>1, <2>1, Zenon DEF Plain, File
<1>3. disk \in Plain
  BY <1>2 DEF Init
<1>4. disk \in File
  BY <1>3 DEF Plain
<1>5. 0 \in Time /\ 1 \in 1 .. MaxLogin /\ clock \in 1 .. MaxTime + 1
  BY DEF Init, Time, WindowAssumption
<1> QED
  BY <1>3, <1>4, <1>5 DEF Init, IInv, TypeOK

\* A step that leaves plain files leaves the rest well typed.
LEMMA SessionTyped ==
  ASSUME WindowAssumption, IInv, Next
  PROVE  /\ parked' \in [Window -> BOOLEAN] /\ fetch' \in [Window -> Time]
         /\ login' \in 1 .. MaxLogin /\ known' \in [Window -> 1 .. MaxLogin]
         /\ clock' \in 1 .. MaxTime + 1
<1> USE DEF IInv, TypeOK
<1>1. CASE Relogin
  BY <1>1, Nothing DEF Relogin, WindowAssumption
<1>2. CASE Tick
  BY <1>2 DEF Tick, WindowAssumption
<1>3. ASSUME NEW w \in Window, WindowStep(w)
      PROVE  /\ parked' \in [Window -> BOOLEAN] /\ fetch' \in [Window -> Time]
             /\ login' = login /\ known' \in [Window -> 1 .. MaxLogin] /\ clock' = clock
  <2>1. CASE FetchUsage(w)
    <3>1. clock \in Time
      BY <2>1 DEF FetchUsage, Time, WindowAssumption
    <3> QED
      BY <2>1, <3>1 DEF FetchUsage
  <2>2. CASE StoreUsage(w) \/ DropUsage(w)
    BY <2>2, Nothing DEF StoreUsage, DropUsage
  <2>3. CASE NoteRefusal(w) \/ Succeed(w) \/ Prune(w) \/ Bench(w) \/ Invalidate(w)
             \/ RememberUserModel(w) \/ Answer(w)
    BY <2>3 DEF NoteRefusal, Succeed, Prune, Bench, Invalidate, RememberUserModel, Answer, session
  <2>4. CASE RefreshDiscovery(w)
    BY <2>4 DEF RefreshDiscovery
  <2>5. CASE Park(w) \/ Unpark(w) \/ StartSession(w)
    BY <2>5 DEF Park, Unpark, StartSession, clearPendingContinuation
  <2>6. CASE Reset(w)
    BY <2>6 DEF Reset
  <2>7. CASE Restart(w)
    BY <2>7, Nothing DEF Restart
  <2> QED
    BY <1>3, <2>1, <2>2, <2>3, <2>4, <2>5, <2>6, <2>7 DEF WindowStep
<1> QED
  BY <1>1, <1>2, <1>3 DEF Next

\* Whatever a window does, the files of the disk and of every memory stay plain.
LEMMA FilesPlain ==
  ASSUME WindowAssumption, IInv, Next
  PROVE  /\ disk' \in Plain
         /\ local' \in [Window -> Plain] /\ base' \in [Window -> Plain]
<1>1. disk \in Plain /\ local \in [Window -> Plain] /\ base \in [Window -> Plain]
  BY DEF IInv, TypeOK
<1>2. Empty \in Plain
  BY Nothing
<1>3. ASSUME NEW w \in Window, Persists(w)
      PROVE  disk' \in Plain /\ local' \in [Window -> Plain] /\ base' \in [Window -> Plain]
  <2>1. PICK l \in Plain, clear \in Clearing, choosing \in BOOLEAN :
          Careful(w, l, clear, choosing) /\ persist(w, l, clear, choosing)
    BY <1>3 DEF Persists
  <2> DEFINE n == published(w, l, clear, choosing)
  <2>2. n \in Plain
    BY <2>1, PublishedPlain DEF Careful
  <2>3. [l EXCEPT !.best = n.best, !.marker = n.marker, !.choice = n.choice] \in Plain
    <3> HIDE DEF n
    <3> QED
      BY <2>1, <2>2, Zenon DEF Plain, File
  <2> QED
    BY <1>1, <2>1, <2>2, <2>3 DEF persist
<1>4. ASSUME NEW w \in Window, Remembers(w)
      PROVE  disk' \in Plain /\ local' \in [Window -> Plain] /\ base' \in [Window -> Plain]
  BY <1>1, <1>4 DEF Remembers
<1>5. ASSUME NEW w \in Window, Reset(w)
      PROVE  disk' \in Plain /\ local' \in [Window -> Plain] /\ base' \in [Window -> Plain]
  <2> DEFINE l == [local[w] EXCEPT !.cooldown = 0, !.refusal = 0, !.usage = NoUsage, !.marker = "none"]
             n == published(w, l, "owned", FALSE)
  <2>1. local[w] \in Plain
    BY <1>1
  <2>2. l \in Plain /\ l.marker = "none"
    BY <2>1, Nothing, Zenon DEF Plain, File
  <2>3. n \in Plain
    <3> HIDE DEF l
    <3> QED
      BY <2>2, PublishedPlain DEF Clearing
  <2>4. local' = [local EXCEPT ![w] = Empty]
    BY <1>5 DEF Reset
  <2>5. /\ disk' \in {Empty, n, disk}
        /\ base' \in {base, [base EXCEPT ![w] = n]}
    <3> HIDE DEF n
    <3>1. \/ disk' = Empty /\ base' \in {base, [base EXCEPT ![w] = n]}
          \/ disk' = n /\ base' = [base EXCEPT ![w] = n]
          \/ UNCHANGED <<disk, base>>
      BY <1>5 DEF Reset, n
    <3> QED
      BY <3>1
  <2> HIDE DEF n
  <2> QED
    BY <1>1, <1>2, <2>3, <2>4, <2>5
<1>6. ASSUME NEW w \in Window, Restart(w)
      PROVE  disk' \in Plain /\ local' \in [Window -> Plain] /\ base' \in [Window -> Plain]
  <2>1. ASSUME NEW f \in Plain
        PROVE  [f EXCEPT !.marker = IF @ = w THEN "gone" ELSE @] \in Plain
    <3>1. (IF f.marker = w THEN "gone" ELSE f.marker) \in Marker
      BY DEF Plain, File, Marker
    <3> QED
      BY <3>1, Zenon DEF Plain, File
  <2> QED
    BY <1>1, <1>6, <2>1 DEF Restart
<1> QED
  BY <1>1, <1>3, <1>4, <1>5, <1>6, StepKinds

LEMMA NextPlain == ASSUME WindowAssumption, IInv, [Next]_vars PROVE IInv'
<1>1. CASE Next
  <2>1. /\ disk' \in File
        /\ local' \in [Window -> File] /\ base' \in [Window -> File]
    BY <1>1, FilesPlain DEF Plain
  <2> QED
    BY <1>1, <2>1, FilesPlain, SessionTyped DEF IInv, TypeOK
<1>2. CASE UNCHANGED vars
  BY <1>2 DEF vars, session, IInv, TypeOK
<1> QED
  BY <1>1, <1>2

\* The inductive invariant: every file, in memory or on the disk, is a proper one.
THEOREM AlwaysPlain == ASSUME WindowAssumption PROVE Spec => []IInv
  BY InitPlain, NextPlain, PTL DEF Spec

\* TypeOK: no merge, dropped write or restart leaves the fields of a state file
\* outside their types, whatever the windows hold in memory.
THEOREM TypeCorrect == ASSUME WindowAssumption PROVE Spec => []TypeOK
<1>1. IInv => TypeOK
  BY DEF IInv
<1> QED
  BY <1>1, AlwaysPlain, PTL

-----------------------------------------------------------------------------
(* What one write does to each field of the file.                           *)

\* The file after a step, field by field, as the merge leaves it.
Merged(w, l) ==
  /\ disk'.cooldown = mergeEntry(base[w].cooldown, l.cooldown, disk.cooldown, 0,
                        disk.cooldown # base[w].cooldown /\ disk.cooldown > l.cooldown)
  /\ disk'.refusal = mergeEntry(base[w].refusal, l.refusal, disk.refusal, 0,
                        disk.refusal > l.refusal)
  /\ disk'.usage = mergeEntry(base[w].usage, l.usage, disk.usage, NoUsage,
                        disk.usage.login = l.usage.login /\ disk.usage.at > l.usage.at)
  /\ disk'.invalid = mergeEntry(base[w].invalid, l.invalid, disk.invalid, 0, FALSE)
  /\ disk'.best = (IF disk.best > l.best THEN disk.best ELSE l.best)

LEMMA PublishedFields ==
  ASSUME NEW w \in Window, NEW l \in Plain, NEW clear, NEW choosing,
         disk' = published(w, l, clear, choosing)
  PROVE  /\ Merged(w, l)
         /\ disk'.marker = mergeMarker(w, clear, l.marker, disk.marker)
         /\ disk'.choice = IF choosing THEN l.choice ELSE disk.choice
<1> DEFINE m == mergeStateDeltas(base[w], l, disk)
           b == IF disk.best > l.best THEN disk.best ELSE l.best
           k == mergeMarker(w, clear, l.marker, disk.marker)
           h == IF choosing THEN l.choice ELSE disk.choice
           c == mergeEntry(base[w].cooldown, l.cooldown, disk.cooldown, 0,
                  disk.cooldown # base[w].cooldown /\ disk.cooldown > l.cooldown)
           r == mergeEntry(base[w].refusal, l.refusal, disk.refusal, 0, disk.refusal > l.refusal)
           u == mergeEntry(base[w].usage, l.usage, disk.usage, NoUsage,
                  disk.usage.login = l.usage.login /\ disk.usage.at > l.usage.at)
           i == mergeEntry(base[w].invalid, l.invalid, disk.invalid, 0, FALSE)
<1>1. disk' = [m EXCEPT !.best = b, !.marker = k, !.choice = h]
  BY DEF published
<1>2. m = [l EXCEPT !.cooldown = c, !.refusal = r, !.usage = u, !.invalid = i]
  BY Zenon DEF mergeStateDeltas
<1>3. l \in File
  BY DEF Plain
<1> HIDE DEF m, b, k, h, c, r, u, i
<1>4. /\ disk'.cooldown = c /\ disk'.refusal = r /\ disk'.usage = u /\ disk'.invalid = i
      /\ disk'.best = b /\ disk'.marker = k /\ disk'.choice = h
  BY <1>1, <1>2, <1>3, Zenon DEF File
<1> QED
  BY <1>4 DEF Merged, b, k, h, c, r, u, i


\* Of a step that is no restart: the file is unchanged, wiped, or what one window
\* published, and that window holds the result, or has just reset itself.
LEMMA WriteOf ==
  ASSUME WindowAssumption, IInv, Next, disk' # disk, ~Wiped,
         ~\E w \in Window : Restart(w)
  PROVE  \E w \in Window, l \in Plain, clear \in Clearing, choosing \in BOOLEAN :
           /\ Careful(w, l, clear, choosing)
           /\ disk' = published(w, l, clear, choosing)
           /\ base' = [base EXCEPT ![w] = disk']
           /\ \/ local' = [local EXCEPT ![w] = disk']
              \/ /\ local' = [local EXCEPT ![w] = Empty] /\ ~choosing /\ l.marker = "none"
                 /\ l.cooldown = 0 /\ l.refusal = 0 /\ l.usage = NoUsage
                 /\ l.invalid = local[w].invalid
<1>1. ASSUME NEW w \in Window, Persists(w)
      PROVE  \E l \in Plain, clear \in Clearing, choosing \in BOOLEAN :
               /\ Careful(w, l, clear, choosing)
               /\ disk' = published(w, l, clear, choosing)
               /\ base' = [base EXCEPT ![w] = disk']
               /\ local' = [local EXCEPT ![w] = disk']
  BY <1>1 DEF Persists, persist
<1>2. ASSUME NEW w \in Window, Reset(w)
      PROVE  \E l \in Plain :
               /\ Careful(w, l, "owned", FALSE) /\ disk' = published(w, l, "owned", FALSE)
               /\ base' = [base EXCEPT ![w] = disk'] /\ local' = [local EXCEPT ![w] = Empty]
               /\ l.marker = "none" /\ l.cooldown = 0 /\ l.refusal = 0 /\ l.usage = NoUsage
               /\ l.invalid = local[w].invalid
  <2> DEFINE l == [local[w] EXCEPT !.cooldown = 0, !.refusal = 0, !.usage = NoUsage,
                                   !.marker = "none"]
  <2>1. local[w] \in Plain
    BY DEF IInv
  <2>2. l \in Plain
    BY <2>1, Nothing, Zenon DEF Plain, File
  <2>3. /\ l.marker = "none" /\ l.cooldown = 0 /\ l.refusal = 0 /\ l.usage = NoUsage
        /\ l.invalid = local[w].invalid
    BY <2>1, Zenon DEF Plain, File
  <2>4. ~parked'[w]
    BY <1>2 DEF Reset, IInv, TypeOK
  <2>5. /\ disk' = published(w, l, "owned", FALSE)
        /\ base' = [base EXCEPT ![w] = disk'] /\ local' = [local EXCEPT ![w] = Empty]
    BY <1>2 DEF Reset, Wiped
  <2> HIDE DEF l
  <2> QED
    BY <2>2, <2>3, <2>4, <2>5 DEF Careful, Clearing
<1>3. PICK w \in Window : Persists(w) \/ Reset(w)
  BY StepKinds DEF Remembers
<1>4. CASE Persists(w)
  BY <1>1, <1>4
<1>5. CASE Reset(w)
  <2>1. PICK l \in Plain :
          /\ Careful(w, l, "owned", FALSE) /\ disk' = published(w, l, "owned", FALSE)
          /\ base' = [base EXCEPT ![w] = disk'] /\ local' = [local EXCEPT ![w] = Empty]
          /\ l.marker = "none" /\ l.cooldown = 0 /\ l.refusal = 0 /\ l.usage = NoUsage
          /\ l.invalid = local[w].invalid
    BY <1>2, <1>5
  <2> "owned" \in Clearing /\ FALSE \in BOOLEAN
    BY DEF Clearing
  <2> WITNESS w \in Window, l \in Plain, "owned" \in Clearing, FALSE \in BOOLEAN
  <2> QED
    BY <2>1
<1> QED
  BY <1>3, <1>4, <1>5

\* A restart rewrites nothing but the marker of the process that ended.
LEMMA RestartKeeps ==
  ASSUME WindowAssumption, IInv, NEW w \in Window, Restart(w)
  PROVE  /\ \A field \in {"cooldown", "refusal", "usage", "invalid", "best", "choice"} :
              disk'[field] = disk[field]
         /\ disk'.marker = IF disk.marker = w THEN "gone" ELSE disk.marker
<1>1. disk \in File
  BY DEF IInv, Plain
<1>2. disk' = [disk EXCEPT !.marker = IF @ = w THEN "gone" ELSE @]
  BY DEF Restart
<1> QED
  BY <1>1, <1>2 DEF File

\* RefusalStands: no window, however old its memory and whichever of its writes were
\* dropped, makes the file forget a refusal it has not itself seen there.
THEOREM RefusalStays == ASSUME WindowAssumption PROVE Spec => RefusalStands
<1>1. ASSUME IInv, Next, disk'.refusal < disk.refusal, ~Wiped
      PROVE  disk'.refusal = 0 /\ putAway("refusal")
  <2>1. disk \in File
    BY <1>1 DEF IInv, Plain
  <2>2. disk.refusal \in Nat
    BY <2>1 DEF File, Time
  <2>3. ~\E w \in Window : Restart(w)
    BY <1>1, <2>2, RestartKeeps
  <2>4. PICK w \in Window, l \in Plain, clear \in Clearing, choosing \in BOOLEAN :
          /\ disk' = published(w, l, clear, choosing)
          /\ \/ local' = [local EXCEPT ![w] = disk']
             \/ local' = [local EXCEPT ![w] = Empty] /\ l.refusal = 0
    BY <1>1, <2>2, <2>3, WriteOf
  <2>5. l.refusal \in Nat
    BY DEF Plain, File, Time
  <2>6. disk'.refusal = mergeEntry(base[w].refusal, l.refusal, disk.refusal, 0,
                                   disk.refusal > l.refusal)
    BY <2>4, PublishedFields DEF Merged
  <2>7. disk'.refusal = 0 /\ base[w].refusal = disk.refusal
    BY <1>1, <2>2, <2>5, <2>6 DEF mergeEntry
  <2>8. local'[w].refusal = 0
    BY <1>1, <2>4, <2>7 DEF Empty, IInv, TypeOK
  <2> QED
    BY <1>1, <2>2, <2>7, <2>8 DEF putAway
<1>2. IInv /\ [Next]_vars => [RefusalStandsStep]_vars
  BY <1>1 DEF RefusalStandsStep
<1> QED
  BY <1>2, AlwaysPlain, PTL DEF Spec, RefusalStands

\* CooldownStands: a cooldown is shortened only by a window that has seen that very
\* cooldown, so an older estimate never rolls back a sibling's.
THEOREM CooldownStays == ASSUME WindowAssumption PROVE Spec => CooldownStands
<1>1. ASSUME IInv, Next, disk'.cooldown < disk.cooldown, ~Wiped
      PROVE  putAway("cooldown")
  <2>1. disk \in File
    BY <1>1 DEF IInv, Plain
  <2>2. disk.cooldown \in Nat
    BY <2>1 DEF File, Time
  <2>3. ~\E w \in Window : Restart(w)
    BY <1>1, <2>2, RestartKeeps
  <2>4. PICK w \in Window, l \in Plain, clear \in Clearing, choosing \in BOOLEAN :
          /\ disk' = published(w, l, clear, choosing)
          /\ \/ local' = [local EXCEPT ![w] = disk']
             \/ local' = [local EXCEPT ![w] = Empty] /\ l.cooldown = 0
    BY <1>1, <2>2, <2>3, WriteOf
  <2>5. l.cooldown \in Nat
    BY DEF Plain, File, Time
  <2>6. disk'.cooldown = mergeEntry(base[w].cooldown, l.cooldown, disk.cooldown, 0,
                            disk.cooldown # base[w].cooldown /\ disk.cooldown > l.cooldown)
    BY <2>4, PublishedFields DEF Merged
  <2>7. base[w].cooldown = disk.cooldown /\ disk'.cooldown = l.cooldown
    BY <1>1, <2>2, <2>5, <2>6 DEF mergeEntry
  <2>8. local'[w].cooldown = l.cooldown
    BY <1>1, <2>4, <2>7 DEF Empty, IInv, TypeOK
  <2> QED
    BY <1>1, <2>2, <2>5, <2>7, <2>8 DEF putAway
<1>2. IInv /\ [Next]_vars => [CooldownStandsStep]_vars
  BY <1>1 DEF CooldownStandsStep
<1> QED
  BY <1>2, AlwaysPlain, PTL DEF Spec, CooldownStands

\* UsageForward: the reading of a login in the file is replaced by a later one only.
THEOREM UsageAdvances == ASSUME WindowAssumption PROVE Spec => UsageForward
<1>1. ASSUME IInv, Next, disk'.usage.login = disk.usage.login, disk'.usage # disk.usage
      PROVE  disk'.usage.at >= disk.usage.at
  <2>1. disk \in File /\ (disk.usage.login = 0 => disk.usage = NoUsage)
    BY <1>1 DEF IInv, Plain
  <2>2. disk.usage.at \in Nat
    BY <2>1 DEF File, Time
  <2>3. CASE Wiped
    BY <1>1, <2>1, <2>3 DEF Wiped, Empty, NoUsage
  <2>4. CASE ~Wiped
    <3>1. ~\E w \in Window : Restart(w)
      BY <1>1, RestartKeeps
    <3>2. PICK w \in Window, l \in Plain, clear \in Clearing, choosing \in BOOLEAN :
            disk' = published(w, l, clear, choosing)
      BY <1>1, <2>4, <3>1, WriteOf
    <3>3. l.usage.at \in Nat
      BY DEF Plain, File, Time
    <3>4. disk'.usage = mergeEntry(base[w].usage, l.usage, disk.usage, NoUsage,
                          disk.usage.login = l.usage.login /\ disk.usage.at > l.usage.at)
      BY <3>2, PublishedFields DEF Merged
    <3>5. CASE disk'.usage = NoUsage
      BY <1>1, <2>1, <3>5 DEF NoUsage
    <3>6. CASE disk'.usage # NoUsage
      BY <1>1, <2>2, <3>3, <3>4, <3>6 DEF mergeEntry
    <3> QED
      BY <3>5, <3>6
  <2> QED
    BY <2>3, <2>4
<1>2. IInv /\ [Next]_vars => [UsageForwardStep]_vars
  BY <1>1 DEF UsageForwardStep
<1> QED
  BY <1>2, AlwaysPlain, PTL DEF Spec, UsageForward

\* CondemnedStands: a condemnation leaves the file only by a window that knew of it.
THEOREM CondemnedStays == ASSUME WindowAssumption PROVE Spec => CondemnedStands
<1>1. ASSUME IInv, Next, disk.invalid # 0, disk'.invalid = 0, ~Wiped
      PROVE  putAway("invalid")
  <2>1. ~\E w \in Window : Restart(w)
    BY <1>1, RestartKeeps
  <2>2. PICK w \in Window, l \in Plain, clear \in Clearing, choosing \in BOOLEAN :
          /\ disk' = published(w, l, clear, choosing)
          /\ \/ local' = [local EXCEPT ![w] = disk']
             \/ local' = [local EXCEPT ![w] = Empty]
    BY <1>1, <2>1, WriteOf
  <2>3. disk'.invalid = mergeEntry(base[w].invalid, l.invalid, disk.invalid, 0, FALSE)
    BY <2>2, PublishedFields DEF Merged
  <2>4. base[w].invalid = disk.invalid
    BY <1>1, <2>3 DEF mergeEntry
  <2>5. local'[w].invalid = 0
    BY <1>1, <2>2 DEF Empty, IInv, TypeOK
  <2> QED
    BY <1>1, <2>4, <2>5 DEF putAway
<1>2. IInv /\ [Next]_vars => [CondemnedStandsStep]_vars
  BY <1>1 DEF CondemnedStandsStep
<1> QED
  BY <1>2, AlwaysPlain, PTL DEF Spec, CondemnedStands

\* BestForward: the last successful model does not go back in time.
THEOREM BestAdvances == ASSUME WindowAssumption PROVE Spec => BestForward
<1>1. ASSUME IInv, Next, disk'.best < disk.best
      PROVE  Wiped
  <2>1. disk.best \in Nat
    BY <1>1 DEF IInv, Plain, File, Time
  <2>2. ~\E w \in Window : Restart(w)
    BY <1>1, <2>1, RestartKeeps
  <2>3. SUFFICES ASSUME ~Wiped PROVE FALSE
    OBVIOUS
  <2>4. PICK w \in Window, l \in Plain, clear \in Clearing, choosing \in BOOLEAN :
          disk' = published(w, l, clear, choosing)
    BY <1>1, <2>1, <2>2, <2>3, WriteOf
  <2>5. disk'.best = (IF disk.best > l.best THEN disk.best ELSE l.best)
    BY <2>4, PublishedFields DEF Merged
  <2>6. l.best \in Nat
    BY DEF Plain, File, Time
  <2> QED
    BY <1>1, <2>1, <2>5, <2>6
<1>2. IInv /\ [Next]_vars => [BestForwardStep]_vars
  BY <1>1 DEF BestForwardStep
<1> QED
  BY <1>2, AlwaysPlain, PTL DEF Spec, BestForward

\* OnlyOwnerUnmarks: the marker of a window's parked work survives every write of
\* the other windows.
THEOREM MarkerStays == ASSUME WindowAssumption PROVE Spec => OnlyOwnerUnmarks
<1>1. ASSUME IInv, Next, NEW v \in Window, disk.marker = v, disk'.marker # v, ~Wiped,
             disk'.marker # "gone"
      PROVE  ~parked'[v] /\ local'[v].marker = "none"
  <2>1. ~\E w \in Window : Restart(w)
    BY <1>1, RestartKeeps
  <2>2. PICK w \in Window, l \in Plain, clear \in Clearing, choosing \in BOOLEAN :
          /\ Careful(w, l, clear, choosing)
          /\ disk' = published(w, l, clear, choosing)
          /\ \/ local' = [local EXCEPT ![w] = disk']
             \/ local' = [local EXCEPT ![w] = Empty]
    BY <1>1, <2>1, WriteOf
  <2>3. disk'.marker = mergeMarker(w, clear, l.marker, disk.marker)
    BY <2>2, PublishedFields
  <2>4. v = w /\ l.marker = "none" /\ clear # "no"
    BY <1>1, <2>2, <2>3, MarkerOf DEF Careful
  <2>5. disk'.marker = "none"
    BY <1>1, <2>2, <2>3, <2>4, MarkerOf DEF Careful
  <2> QED
    BY <1>1, <2>2, <2>4, <2>5 DEF Careful, Empty, IInv, TypeOK
<1>2. IInv /\ [Next]_vars => [OnlyOwnerUnmarksStep]_vars
  BY <1>1 DEF OnlyOwnerUnmarksStep
<1> QED
  BY <1>2, AlwaysPlain, PTL DEF Spec, OnlyOwnerUnmarks

\* MarkerNotRevived: a marker its owner has cleared does not come back from the
\* memory of another window.
THEOREM MarkerGone == ASSUME WindowAssumption PROVE Spec => MarkerNotRevived
<1>1. ASSUME IInv, Next, NEW v \in Window, disk.marker # v, disk'.marker = v
      PROVE  local'[v] = disk' /\ base'[v] = disk'
  <2>1. ~Wiped
    BY <1>1 DEF Wiped, Empty, WindowAssumption
  <2>2. ~\E w \in Window : Restart(w)
    BY <1>1, RestartKeeps DEF WindowAssumption
  <2>3. PICK w \in Window, l \in Plain, clear \in Clearing, choosing \in BOOLEAN :
          /\ Careful(w, l, clear, choosing)
          /\ disk' = published(w, l, clear, choosing)
          /\ base' = [base EXCEPT ![w] = disk']
          /\ \/ local' = [local EXCEPT ![w] = disk']
             \/ local' = [local EXCEPT ![w] = Empty] /\ l.marker = "none"
    BY <1>1, <2>1, <2>2, WriteOf
  <2>4. disk'.marker = mergeMarker(w, clear, l.marker, disk.marker)
    BY <2>3, PublishedFields
  <2>5. v = w /\ l.marker = w
    BY <1>1, <2>3, <2>4, MarkerOf DEF Careful, WindowAssumption
  <2> QED
    BY <1>1, <2>3, <2>5 DEF IInv, TypeOK, WindowAssumption
<1>2. IInv /\ [Next]_vars => [MarkerNotRevivedStep]_vars
  BY <1>1 DEF MarkerNotRevivedStep
<1> QED
  BY <1>2, AlwaysPlain, PTL DEF Spec, MarkerNotRevived

\* ChoiceByUser: no telemetry of another window, and no child, changes the model the
\* user chose.
THEOREM ChoiceStays == ASSUME WindowAssumption PROVE Spec => ChoiceByUser
<1>1. ASSUME IInv, Next, disk'.choice # disk.choice, ~Wiped
      PROVE  \E w \in Window \ Child : base'[w].choice = disk'.choice /\ local'[w] = disk'
  <2>1. ~\E w \in Window : Restart(w)
    BY <1>1, RestartKeeps
  <2>2. PICK w \in Window, l \in Plain, clear \in Clearing, choosing \in BOOLEAN :
          /\ Careful(w, l, clear, choosing)
          /\ disk' = published(w, l, clear, choosing)
          /\ base' = [base EXCEPT ![w] = disk']
          /\ local' = [local EXCEPT ![w] = disk'] \/ ~choosing
    BY <1>1, <2>1, WriteOf
  <2>3. disk'.choice = IF choosing THEN l.choice ELSE disk.choice
    BY <2>2, PublishedFields
  <2>4. choosing
    BY <1>1, <2>3
  <2> QED
    BY <1>1, <2>2, <2>4 DEF Careful, IInv, TypeOK
<1>2. IInv /\ [Next]_vars => [ChoiceByUserStep]_vars
  BY <1>1 DEF ChoiceByUserStep
<1> QED
  BY <1>2, AlwaysPlain, PTL DEF Spec, ChoiceByUser

-----------------------------------------------------------------------------
(* The configuration file, the other file the windows share: what follows is *)
(* about ConfigTransaction, for every number of windows, accounts, models    *)
(* and edits made without the lock.                                          *)

CONSTANTS Scope, Model, Target, Loose, Edits

VARIABLES configDisk, lock, config, pc, command, plan, configOutdated, notice, edits

C == INSTANCE ConfigTransaction WITH disk <- configDisk, outdated <- configOutdated

-----------------------------------------------------------------------------
(* The inductive invariant.                                                 *)

\* The values of a file, and a file that says in one way only what it lacks.
Values == {v \in [C!Field -> UNION {C!Value(f) : f \in C!Field}] : \A f \in C!Field : v[f] \in C!Value(f)}
Canonical == {d \in [good : BOOLEAN, has : SUBSET C!Field, val : Values] :
                \A f \in C!Field \ d.has : d.val[f] = C!Unset(f)}

\* A window between taking the lock and giving it back.
Inside(w) == pc[w] \in {"locked", "planned", "renamed"}

Typed ==
  /\ configDisk \in Canonical /\ plan \in [Window -> Canonical]
  /\ lock \in Window \cup {C!None, C!Dead}
  /\ config \in [Window -> Values]
  /\ pc \in [Window -> {"idle", "waiting", "locked", "planned", "renamed"}]
  /\ command \in [Window -> C!Change \cup {C!NoCommand}]
  /\ \A w \in Window : pc[w] # "idle" => command[w] \in C!Change
  /\ configOutdated \subseteq Window
  /\ notice \in [Window -> [saved : BOOLEAN, claimed : BOOLEAN]]
  /\ edits \in 0..Edits

\* Nobody else is inside who has not been overtaken, and what it plans is made
\* from the file as it is.
Exclusive ==
  \A w \in Window \ configOutdated :
    /\ Inside(w) => lock = w
    /\ pc[w] = "planned" => configDisk.good /\ plan[w] = C!Patch(w, configDisk)

ConfigIInv == Typed /\ Exclusive

-----------------------------------------------------------------------------
(* The values of the fields.                                                *)

LEMMA Fields ==
  ASSUME C!ConfigAssumption
  PROVE  /\ C!Field = {"pinnedModels", "excluded"} \cup Loose
         /\ \A f \in Loose : f # "pinnedModels" /\ f # "excluded" /\ f \in C!Field /\ C!Value(f) = C!Choice
                             /\ C!Unset(f) = "default"
         /\ C!Value("pinnedModels") = C!Pins /\ C!Value("excluded") = SUBSET Target
         /\ C!Unset("excluded") = {} /\ C!Unset("pinnedModels") = [s \in Scope |-> C!None]
<1>1. \A f \in Loose : f # "pinnedModels" /\ f # "excluded"
  BY DEF C!ConfigAssumption, C!LooseField
<1> QED
  BY <1>1 DEF C!Field, C!Value, C!Unset

LEMMA UnsetTyped ==
  ASSUME C!ConfigAssumption, NEW f \in C!Field
  PROVE  C!Unset(f) \in C!Value(f)
<1>1. CASE f = "pinnedModels"
  BY <1>1, Fields DEF C!Pins
<1>2. CASE f = "excluded"
  BY <1>2, Fields
<1>3. CASE f \in Loose
  BY <1>3, Fields DEF C!Choice
<1> QED
  BY <1>1, <1>2, <1>3, Fields

LEMMA ValuesKept ==
  ASSUME NEW v \in Values, NEW f \in C!Field, NEW x \in C!Value(f)
  PROVE  [v EXCEPT ![f] = x] \in Values
<1> DEFINE All == UNION {C!Value(g) : g \in C!Field}
<1>1. v \in [C!Field -> All] /\ x \in All
  BY DEF Values
<1>2. [v EXCEPT ![f] = x] \in [C!Field -> All]
  BY <1>1, Zenon
<1>3. \A g \in C!Field : [v EXCEPT ![f] = x][g] \in C!Value(g)
  BY <1>1 DEF Values
<1> QED
  BY <1>2, <1>3 DEF Values

\* What File makes is canonical.
LEMMA FileCanonical ==
  ASSUME C!ConfigAssumption, NEW good \in BOOLEAN, NEW has \in SUBSET C!Field, NEW val,
         \A f \in has : val[f] \in C!Value(f)
  PROVE  C!File(good, has, val) \in Canonical
<1> DEFINE v == [f \in C!Field |-> IF f \in has THEN val[f] ELSE C!Unset(f)]
<1>1. \A f \in C!Field : v[f] \in C!Value(f)
  BY UnsetTyped
<1>2. v \in Values
  BY <1>1 DEF Values
<1>3. \A f \in C!Field \ has : v[f] = C!Unset(f)
  OBVIOUS
<1> HIDE DEF v
<1> QED
  BY <1>2, <1>3 DEF C!File, Canonical, v

LEMMA DefaultFiles ==
  ASSUME C!ConfigAssumption
  PROVE  /\ C!Defaults \in Values /\ C!Empty \in Canonical /\ C!Spoilt \in Canonical
         /\ C!File(TRUE, C!Field, C!Defaults) \in Canonical
<1>1. \A f \in C!Field : C!Defaults[f] \in C!Value(f)
  BY UnsetTyped DEF C!Defaults
<1>2. C!Defaults \in Values
  BY <1>1 DEF Values, C!Defaults
<1> QED
  BY <1>1, <1>2, FileCanonical DEF C!Empty, C!Spoilt

\* What a window reads is complete.
LEMMA LoadTyped ==
  ASSUME C!ConfigAssumption, NEW raw \in Canonical
  PROVE  C!LoadConfig(raw) \in Values
<1>1. \A f \in C!Field : (IF f \in raw.has THEN raw.val[f] ELSE C!Unset(f)) \in C!Value(f)
  BY UnsetTyped DEF Canonical, Values
<1> QED
  BY <1>1 DEF C!LoadConfig, C!NormalizeConfig, Values

LEMMA CommandTyped ==
  ASSUME C!ConfigAssumption, NEW c \in C!Change
  PROVE  c.field \in C!Field
  BY Fields DEF C!Change

LEMMA NewValueTyped ==
  ASSUME C!ConfigAssumption, NEW c \in C!Change, NEW old \in C!Value(c.field)
  PROVE  C!NewValue(c, old) \in C!Value(c.field)
<1>1. CASE c \in [field : {"pinnedModels"}, scope : Scope, to : Model \cup {C!None}]
  <2>1. c.field = "pinnedModels" /\ old \in C!Pins /\ c.to \in Model \cup {C!None}
    BY <1>1, Fields
  <2>2. [old EXCEPT ![c.scope] = c.to] \in C!Pins
    BY <2>1, Zenon DEF C!Pins
  <2> QED
    BY <2>1, <2>2, Fields DEF C!NewValue
<1>2. CASE c \in [field : {"excluded"}, scope : Target, to : {"in", "out"}]
  <2>1. c.field = "excluded" /\ old \in SUBSET Target /\ c.scope \in Target
    BY <1>2, Fields
  <2>2. C!NewValue(c, old) = IF c.to = "out" THEN old \cup {c.scope} ELSE old \ {c.scope}
    BY <2>1 DEF C!NewValue
  <2> QED
    BY <2>1, <2>2, Fields
<1>3. CASE c \in [field : Loose, scope : {C!None}, to : C!Choice]
  <2>1. c.field \in Loose /\ c.to \in C!Choice
    BY <1>3
  <2>2. C!NewValue(c, old) = c.to
    BY <2>1, Fields DEF C!NewValue
  <2> QED
    BY <2>1, <2>2, Fields
<1> QED
  BY <1>1, <1>2, <1>3 DEF C!Change

LEMMA PatchTyped ==
  ASSUME C!ConfigAssumption, NEW w \in Window, command[w] \in C!Change, NEW raw \in Canonical
  PROVE  /\ C!Patch(w, raw) \in Canonical /\ C!Patch(w, raw).good
         /\ C!Patch(w, raw).has = raw.has \cup {command[w].field}
         /\ \A f \in C!Field : C!Patch(w, raw).val[f] =
              IF f = command[w].field THEN C!NewValue(command[w], raw.val[f]) ELSE raw.val[f]
<1> DEFINE f == command[w].field
           n == C!NewValue(command[w], raw.val[f])
           val == [raw.val EXCEPT ![f] = n]
           has == raw.has \cup {f}
<1>1. f \in C!Field /\ raw.val \in Values /\ raw.has \in SUBSET C!Field
  BY CommandTyped DEF Canonical
<1>2. n \in C!Value(f)
  <2>1. raw.val[f] \in C!Value(f)
    BY <1>1 DEF Values
  <2> QED
    BY <2>1, NewValueTyped
<1> HIDE DEF n
<1>3. val \in Values
  BY <1>1, <1>2, ValuesKept
<1>4. val[f] = n /\ \A g \in C!Field \ {f} : val[g] = raw.val[g]
  BY <1>1 DEF Values
<1>5. C!Patch(w, raw) = C!File(TRUE, has, val)
  BY DEF C!Patch, n
<1>6. \A g \in has : val[g] \in C!Value(g)
  BY <1>1, <1>3 DEF Values
<1> HIDE DEF val
<1>7. \A g \in C!Field \ has : raw.val[g] = C!Unset(g)
  BY DEF Canonical
<1>8. \A g \in C!Field : C!Patch(w, raw).val[g] = IF g \in has THEN val[g] ELSE C!Unset(g)
  BY <1>5 DEF C!File
<1>9. C!Patch(w, raw) \in Canonical /\ C!Patch(w, raw).good /\ C!Patch(w, raw).has = has
  <2>1. has \in SUBSET C!Field
    BY <1>1
  <2>2. C!Patch(w, raw).good = TRUE /\ C!Patch(w, raw).has = has
    BY <1>5 DEF C!File
  <2> QED
    BY <1>5, <1>6, <2>1, <2>2, FileCanonical
<1>10. ASSUME NEW g \in C!Field
       PROVE  C!Patch(w, raw).val[g] = IF g = f THEN C!NewValue(command[w], raw.val[g]) ELSE raw.val[g]
  <2>1. CASE g = f
    BY <1>4, <1>8, <2>1 DEF n
  <2>2. CASE g # f
    BY <1>4, <1>7, <1>8, <2>2
  <2> QED
    BY <2>1, <2>2
<1> QED
  BY <1>9, <1>10

-----------------------------------------------------------------------------
(* Types.                                                                   *)

LEMMA InitInv ==
  ASSUME C!ConfigAssumption, C!Init
  PROVE  ConfigIInv
<1>1. /\ configDisk \in Canonical /\ \A w \in Window : config[w] = C!LoadConfig(configDisk)
      /\ config = [w \in Window |-> C!LoadConfig(configDisk)] /\ plan = [w \in Window |-> C!Empty]
  BY DefaultFiles DEF C!Init
<1>2. config \in [Window -> Values] /\ plan \in [Window -> Canonical]
  BY <1>1, LoadTyped, DefaultFiles
<1>3. edits \in 0 .. Edits
  BY DEF C!Init, C!ConfigAssumption
<1> QED
  BY <1>1, <1>2, <1>3 DEF C!Init, ConfigIInv, Typed, Exclusive, Inside, C!Quiet

\* What the end of a command leaves.
LEMMA FinishTyped ==
  ASSUME C!ConfigAssumption, Typed, NEW w \in Window, NEW saved \in BOOLEAN, C!Finish(w, saved)
  PROVE  /\ pc' \in [Window -> {"idle", "waiting", "locked", "planned", "renamed"}]
         /\ command' \in [Window -> C!Change \cup {C!NoCommand}]
         /\ \A v \in Window : pc'[v] # "idle" => command'[v] \in C!Change
         /\ plan' \in [Window -> Canonical] /\ configOutdated' \subseteq Window
         /\ notice' \in [Window -> [saved : BOOLEAN, claimed : BOOLEAN]]
<1>1. plan' \in [Window -> Canonical]
  <2>1. plan \in [Window -> Canonical] /\ plan' = [plan EXCEPT ![w] = C!Empty]
    BY DEF Typed, C!Finish
  <2> QED
    BY <2>1, DefaultFiles, Zenon
<1>2. configOutdated' \subseteq Window
  BY DEF C!Finish, C!Passes, Typed
<1>3. notice' \in [Window -> [saved : BOOLEAN, claimed : BOOLEAN]]
  <2>1. C!Claims(command[w], saved) \in BOOLEAN
    BY DEF C!Claims
  <2>2. [saved |-> saved, claimed |-> C!Claims(command[w], saved)] \in [saved : BOOLEAN, claimed : BOOLEAN]
    BY <2>1
  <2>3. /\ notice \in [Window -> [saved : BOOLEAN, claimed : BOOLEAN]]
        /\ notice' = [notice EXCEPT ![w] = [saved |-> saved, claimed |-> C!Claims(command[w], saved)]]
    BY DEF Typed, C!Finish
  <2> QED
    BY <2>2, <2>3, Zenon
<1>4. /\ command \in [Window -> C!Change \cup {C!NoCommand}] /\ command' = [command EXCEPT ![w] = C!NoCommand]
      /\ pc \in [Window -> {"idle", "waiting", "locked", "planned", "renamed"}]
      /\ pc' = [pc EXCEPT ![w] = "idle"]
  BY DEF Typed, C!Finish
<1>5. command' \in [Window -> C!Change \cup {C!NoCommand}]
  BY <1>4, Zenon
<1>6. pc' \in [Window -> {"idle", "waiting", "locked", "planned", "renamed"}]
  BY <1>4
<1>7. \A v \in Window : pc'[v] # "idle" => command'[v] \in C!Change
  BY <1>4 DEF Typed
<1> QED
  BY <1>1, <1>2, <1>3, <1>5, <1>6, <1>7

\* A window takes its command to the next stage, or takes no part.
LEMMA StageTyped ==
  ASSUME Typed, NEW w \in Window, pc[w] # "idle" \/ command'[w] \in C!Change,
         NEW s \in {"idle", "waiting", "locked", "planned", "renamed"},
         pc' = [pc EXCEPT ![w] = s],
         command' = command \/ \E c \in C!Change : command' = [command EXCEPT ![w] = c]
  PROVE  /\ pc' \in [Window -> {"idle", "waiting", "locked", "planned", "renamed"}]
         /\ command' \in [Window -> C!Change \cup {C!NoCommand}]
         /\ \A v \in Window : pc'[v] # "idle" => command'[v] \in C!Change
<1>1. /\ pc \in [Window -> {"idle", "waiting", "locked", "planned", "renamed"}]
      /\ command \in [Window -> C!Change \cup {C!NoCommand}]
      /\ \A v \in Window : pc[v] # "idle" => command[v] \in C!Change
  BY DEF Typed
<1>2. CASE command' = command
  BY <1>1, <1>2
<1>3. ASSUME NEW c \in C!Change, command' = [command EXCEPT ![w] = c]
      PROVE  /\ command' \in [Window -> C!Change \cup {C!NoCommand}]
             /\ \A v \in Window : pc'[v] # "idle" => command'[v] \in C!Change
  <2>1. command' \in [Window -> C!Change \cup {C!NoCommand}]
    BY <1>1, <1>3, Zenon
  <2> QED
    BY <1>1, <1>3, <2>1
<1> QED
  BY <1>1, <1>2, <1>3

LEMMA MemoryTyped ==
  ASSUME Typed, NEW w \in Window, NEW v \in Values, config' = [config EXCEPT ![w] = v]
  PROVE  config' \in [Window -> Values]
<1>1. config \in [Window -> Values]
  BY DEF Typed
<1> QED
  BY <1>1, Zenon

LEMMA NextTyped ==
  ASSUME C!ConfigAssumption, ConfigIInv, C!Next
  PROVE  Typed'
<1>1. /\ configDisk \in Canonical /\ plan \in [Window -> Canonical]
      /\ lock \in Window \cup {C!None, C!Dead} /\ configOutdated \subseteq Window
      /\ config \in [Window -> Values] /\ Typed
  BY DEF ConfigIInv, Typed
<1>2. ASSUME NEW w \in Window, C!Begin(w)
      PROVE  Typed'
  <2>1. PICK c \in C!Change :
          /\ command' = [command EXCEPT ![w] = c] /\ config' = [config EXCEPT ![w] = C!Ahead(w, c)]
          /\ pc' = [pc EXCEPT ![w] = "waiting"] /\ notice' = [notice EXCEPT ![w] = C!Quiet]
          /\ UNCHANGED <<configDisk, lock, plan, configOutdated, edits>>
    BY <1>2 DEF C!Begin
  <2>2. C!Ahead(w, c) \in Values
    <3>1. CASE c.field \in Loose
      <4>1. c.to \in C!Choice
        BY <3>1, Fields DEF C!Change
      <4>2. c.field \in C!Field /\ c.to \in C!Value(c.field) /\ config[w] \in Values
        BY <1>1, <3>1, <4>1, Fields
      <4> QED
        BY <3>1, <4>2, ValuesKept DEF C!Ahead
    <3>2. CASE c.field \notin Loose
      BY <1>1, <3>2 DEF C!Ahead
    <3> QED
      BY <3>1, <3>2
  <2>3. config' \in [Window -> Values]
    BY <1>1, <2>1, <2>2, MemoryTyped
  <2>4. notice' \in [Window -> [saved : BOOLEAN, claimed : BOOLEAN]]
    <3>1. C!Quiet \in [saved : BOOLEAN, claimed : BOOLEAN] /\ notice \in [Window -> [saved : BOOLEAN, claimed : BOOLEAN]]
      BY <1>1 DEF C!Quiet, Typed
    <3> QED
      BY <2>1, <3>1, Zenon
  <2>5. command'[w] \in C!Change
    BY <1>1, <2>1 DEF Typed
  <2>6. \E d \in C!Change : command' = [command EXCEPT ![w] = d]
    BY <2>1
  <2> QED
    BY <1>1, <2>1, <2>3, <2>4, <2>5, <2>6, StageTyped DEF Typed
<1>3. ASSUME NEW w \in Window, C!Acquire(w) \/ C!Read(w) \/ C!Rename(w)
      PROVE  Typed'
  <2>1. pc[w] # "idle" /\ command' = command
        /\ \E s \in {"locked", "planned", "renamed"} : pc' = [pc EXCEPT ![w] = s]
    BY <1>3 DEF C!Acquire, C!Read, C!Rename
  <2>2. plan' \in [Window -> Canonical]
    <3>1. CASE C!Read(w)
      <4>1. C!Patch(w, configDisk) \in Canonical
        BY <1>1, <2>1, PatchTyped DEF Typed
      <4>2. plan' = [plan EXCEPT ![w] = C!Patch(w, configDisk)]
        BY <3>1 DEF C!Read
      <4> QED
        BY <1>1, <4>1, <4>2, Zenon
    <3>2. CASE C!Acquire(w) \/ C!Rename(w)
      BY <1>1, <3>2 DEF C!Acquire, C!Rename
    <3> QED
      BY <1>3, <3>1, <3>2
  <2>3. configDisk' \in Canonical
    BY <1>1, <1>3 DEF C!Acquire, C!Read, C!Rename
  <2>4. lock' \in Window \cup {C!None, C!Dead} /\ configOutdated' \subseteq Window
    BY <1>1, <1>3 DEF C!Acquire, C!Read, C!Rename, C!Passes
  <2>5. UNCHANGED <<config, notice, edits>>
    BY <1>3 DEF C!Acquire, C!Read, C!Rename
  <2> QED
    BY <1>1, <2>1, <2>2, <2>3, <2>4, <2>5, StageTyped DEF Typed
<1>4. ASSUME NEW w \in Window, C!GiveUp(w) \/ C!Fail(w)
      PROVE  Typed'
  <2>1. C!Finish(w, FALSE) /\ UNCHANGED <<configDisk, config, edits>> /\ lock' \in {lock, C!None}
    BY <1>4 DEF C!GiveUp, C!Fail, C!Unlock
  <2> QED
    BY <1>1, <2>1, FinishTyped DEF Typed
<1>5. ASSUME NEW w \in Window, C!Release(w)
      PROVE  Typed'
  <2>1. C!Finish(w, TRUE) /\ UNCHANGED <<configDisk, edits>> /\ lock' = C!None
        /\ config' = [config EXCEPT ![w] = C!Adopt(w)] /\ pc[w] # "idle"
    BY <1>5 DEF C!Release, C!Unlock
  <2>2. C!Adopt(w) \in Values
    <3>1. CASE command[w].field \in Loose
      BY <1>1, <3>1 DEF C!Adopt
    <3>2. CASE command[w].field \notin Loose
      <4>1. command[w].field \in C!Field
        BY <1>1, <2>1, CommandTyped DEF Typed
      <4>2. plan[w].val[command[w].field] \in C!Value(command[w].field) /\ config[w] \in Values
        BY <1>1, <4>1 DEF Canonical, Values
      <4> QED
        BY <3>2, <4>1, <4>2, ValuesKept DEF C!Adopt
    <3> QED
      BY <3>1, <3>2
  <2>3. config' \in [Window -> Values]
    BY <1>1, <2>1, <2>2, MemoryTyped
  <2> QED
    BY <1>1, <2>1, <2>3, FinishTyped DEF Typed
<1>6. ASSUME NEW w \in Window, C!Reload(w) \/ C!Crash(w)
      PROVE  Typed'
  <2>1. /\ config' = [config EXCEPT ![w] = C!LoadConfig(configDisk)] /\ notice' = [notice EXCEPT ![w] = C!Quiet]
        /\ configDisk' = configDisk /\ edits' \in {edits, edits + 1} /\ (edits' # edits => edits < Edits)
        /\ lock' \in {lock, C!Dead} /\ configOutdated' \subseteq configOutdated
        /\ plan' = plan \/ plan' = [plan EXCEPT ![w] = C!Empty]
        /\ \/ pc' = pc /\ command' = command
           \/ pc' = [pc EXCEPT ![w] = "idle"] /\ command' = [command EXCEPT ![w] = C!NoCommand]
    BY <1>6 DEF C!Reload, C!Crash
  <2>2. config' \in [Window -> Values]
    BY <1>1, <2>1, LoadTyped, MemoryTyped
  <2>3. notice' \in [Window -> [saved : BOOLEAN, claimed : BOOLEAN]]
    <3>1. C!Quiet \in [saved : BOOLEAN, claimed : BOOLEAN] /\ notice \in [Window -> [saved : BOOLEAN, claimed : BOOLEAN]]
      BY <1>1 DEF C!Quiet, Typed
    <3> QED
      BY <2>1, <3>1, Zenon
  <2>4. plan' \in [Window -> Canonical]
    BY <1>1, <2>1, DefaultFiles, Zenon
  <2>5. edits' \in 0 .. Edits
    <3>1. edits \in 0 .. Edits
      BY <1>1 DEF Typed
    <3> QED
      BY <2>1, <3>1 DEF C!ConfigAssumption
  <2>6. /\ pc' \in [Window -> {"idle", "waiting", "locked", "planned", "renamed"}]
        /\ command' \in [Window -> C!Change \cup {C!NoCommand}]
        /\ \A v \in Window : pc'[v] # "idle" => command'[v] \in C!Change
    <3>1. /\ pc \in [Window -> {"idle", "waiting", "locked", "planned", "renamed"}]
          /\ command \in [Window -> C!Change \cup {C!NoCommand}]
          /\ \A v \in Window : pc[v] # "idle" => command[v] \in C!Change
      BY <1>1 DEF Typed
    <3>2. CASE pc' = pc /\ command' = command
      BY <3>1, <3>2
    <3>3. CASE pc' = [pc EXCEPT ![w] = "idle"] /\ command' = [command EXCEPT ![w] = C!NoCommand]
      <4>1. command' \in [Window -> C!Change \cup {C!NoCommand}]
        BY <3>1, <3>3, Zenon
      <4> QED
        BY <3>1, <3>3, <4>1
    <3> QED
      BY <2>1, <3>2, <3>3
  <2> QED
    BY <1>1, <2>1, <2>2, <2>3, <2>4, <2>5, <2>6 DEF Typed
<1>7. ASSUME NEW w \in Window, C!Stall(w)
      PROVE  Typed'
  <2>1. edits' = edits + 1 /\ edits < Edits /\ lock' = C!Dead /\ configOutdated' = configOutdated \cup {w} \cup C!Reading
        /\ UNCHANGED <<configDisk, config, pc, command, plan, notice>>
    BY <1>7 DEF C!Stall
  <2>2. edits \in 0 .. Edits
    BY <1>1 DEF Typed
  <2>3. edits' \in 0 .. Edits
    BY <2>1, <2>2 DEF C!ConfigAssumption
  <2> QED
    BY <1>1, <2>1, <2>3 DEF Typed, C!Reading
<1>8. CASE C!Edit
  <2>1. edits' = edits + 1 /\ edits < Edits /\ configOutdated' = configOutdated \cup C!Reading
        /\ UNCHANGED <<lock, config, pc, command, plan, notice>>
    BY <1>8 DEF C!Edit
  <2>2. edits \in 0 .. Edits
    BY <1>1 DEF Typed
  <2>3. edits' \in 0 .. Edits
    BY <2>1, <2>2 DEF C!ConfigAssumption
  <2>4. configDisk.has \in SUBSET C!Field /\ configDisk.val \in Values
    BY <1>1 DEF Canonical
  <2>5. ASSUME NEW f \in C!Field, NEW v \in C!Value(f)
        PROVE  C!File(TRUE, configDisk.has \cup {f}, [configDisk.val EXCEPT ![f] = v]) \in Canonical
    <3>1. [configDisk.val EXCEPT ![f] = v] \in Values
      BY <2>4, ValuesKept
    <3>2. \A g \in configDisk.has \cup {f} : [configDisk.val EXCEPT ![f] = v][g] \in C!Value(g)
      BY <2>4, <3>1 DEF Values
    <3>3. configDisk.has \cup {f} \in SUBSET C!Field
      BY <2>4
    <3> QED
      BY <3>2, <3>3, FileCanonical
  <2>6. ASSUME NEW f \in C!Field
        PROVE  C!File(TRUE, configDisk.has \ {f}, configDisk.val) \in Canonical
    <3>1. \A g \in configDisk.has \ {f} : configDisk.val[g] \in C!Value(g)
      BY <2>4 DEF Values
    <3>2. configDisk.has \ {f} \in SUBSET C!Field
      BY <2>4
    <3> QED
      BY <3>1, <3>2, FileCanonical
  <2>7. configDisk' \in Canonical
    BY <1>8, <2>5, <2>6, DefaultFiles, Zenon DEF C!Edit
  <2> QED
    BY <1>1, <2>1, <2>3, <2>7 DEF Typed, C!Reading
<1>9. CASE C!Evict
  BY <1>1, <1>9 DEF C!Evict, Typed
<1> QED
  BY <1>2, <1>3, <1>4, <1>5, <1>6, <1>7, <1>8, <1>9 DEF C!Next, C!Step

-----------------------------------------------------------------------------
(* Who is inside, and what it plans.                                        *)

\* A step that leaves a window where it is, with its command and its plan, does
\* not take its lock and not change the file it has read, leaves it what it knows.
LEMMA Rests ==
  ASSUME ConfigIInv, NEW v \in Window, v \notin configOutdated, v \notin configOutdated',
         pc'[v] = pc[v], command'[v] = command[v], plan'[v] = plan[v],
         Inside(v) => lock' = lock, pc[v] = "planned" => configDisk' = configDisk
  PROVE  /\ Inside(v)' => lock' = v
         /\ pc'[v] = "planned" => configDisk'.good /\ plan'[v] = C!Patch(v, configDisk)'
<1>1. Inside(v)' => lock' = v
  BY DEF ConfigIInv, Exclusive, Inside
<1>2. ASSUME pc'[v] = "planned" PROVE configDisk'.good /\ plan'[v] = C!Patch(v, configDisk)'
  <2>1. configDisk.good /\ plan[v] = C!Patch(v, configDisk) /\ configDisk' = configDisk
    BY <1>2 DEF ConfigIInv, Exclusive
  <2>2. C!Patch(v, configDisk)' = C!Patch(v, configDisk)
    BY <2>1 DEF C!Patch, C!File, C!NewValue
  <2> QED
    BY <2>1, <2>2
<1> QED
  BY <1>1, <1>2

LEMMA NextExclusive ==
  ASSUME C!ConfigAssumption, ConfigIInv, C!Next
  PROVE  Exclusive'
<1> DEFINE Good(v) == /\ Inside(v)' => lock' = v
                      /\ pc'[v] = "planned" => configDisk'.good /\ plan'[v] = C!Patch(v, configDisk)'
<1> SUFFICES ASSUME NEW v \in Window, v \notin configOutdated' PROVE Good(v)
  BY DEF Exclusive
<1>1. /\ pc \in [Window -> {"idle", "waiting", "locked", "planned", "renamed"}]
      /\ command \in [Window -> C!Change \cup {C!NoCommand}] /\ plan \in [Window -> Canonical]
      /\ v # C!None /\ v # C!Dead
  BY DEF ConfigIInv, Typed, C!ConfigAssumption
<1>2. Inside(v) /\ v \notin configOutdated => lock = v
  BY DEF ConfigIInv, Exclusive
<1>3. ASSUME NEW w \in Window, C!Begin(w) PROVE Good(v)
  <2>1. /\ pc' = [pc EXCEPT ![w] = "waiting"] /\ UNCHANGED <<configDisk, lock, plan, configOutdated>>
        /\ \E c \in C!Change : command' = [command EXCEPT ![w] = c]
    BY <1>3 DEF C!Begin
  <2>2. CASE v = w
    BY <1>1, <2>1, <2>2 DEF Inside
  <2>3. CASE v # w
    BY <1>1, <2>1, <2>3, Rests
  <2> QED
    BY <2>2, <2>3
<1>4. ASSUME NEW w \in Window, C!Acquire(w) PROVE Good(v)
  <2>1. /\ pc' = [pc EXCEPT ![w] = "locked"] /\ lock = C!None /\ lock' = w
        /\ UNCHANGED <<configDisk, command, plan, configOutdated>>
    BY <1>4 DEF C!Acquire
  <2>2. CASE v = w
    BY <1>1, <2>1, <2>2 DEF Inside
  <2>3. CASE v # w
    BY <1>1, <1>2, <2>1, <2>3, Rests
  <2> QED
    BY <2>2, <2>3
<1>5. ASSUME NEW w \in Window, C!Read(w) PROVE Good(v)
  <2>1. /\ pc' = [pc EXCEPT ![w] = "planned"] /\ plan' = [plan EXCEPT ![w] = C!Patch(w, configDisk)]
        /\ pc[w] = "locked" /\ configDisk.good /\ UNCHANGED <<configDisk, lock, command, configOutdated>>
    BY <1>5 DEF C!Read, C!Readable
  <2>2. CASE v = w
    <3>1. C!Patch(v, configDisk)' = C!Patch(v, configDisk)
      BY <2>1 DEF C!Patch, C!File, C!NewValue
    <3> QED
      BY <1>1, <1>2, <2>1, <2>2, <3>1 DEF Inside
  <2>3. CASE v # w
    BY <1>1, <2>1, <2>3, Rests
  <2> QED
    BY <2>2, <2>3
<1>6. ASSUME NEW w \in Window, C!Rename(w) PROVE Good(v)
  <2>1. /\ pc' = [pc EXCEPT ![w] = "renamed"] /\ pc[w] = "planned" /\ configOutdated' = C!Passes(w, configOutdated)
        /\ UNCHANGED <<lock, command, plan>>
    BY <1>6 DEF C!Rename
  <2>2. v \notin configOutdated /\ (Inside(v) /\ v # w => w \notin configOutdated)
    BY <2>1 DEF C!Passes, Inside
  <2>3. CASE v = w
    BY <1>1, <1>2, <2>1, <2>2, <2>3 DEF Inside
  <2>4. CASE v # w
    <3>1. ~Inside(v)
      BY <1>2, <2>1, <2>2, <2>4 DEF ConfigIInv, Exclusive, Inside
    <3> QED
      BY <1>1, <2>1, <2>2, <2>4, <3>1, Rests DEF Inside
  <2> QED
    BY <2>3, <2>4
<1>7. ASSUME NEW w \in Window, C!GiveUp(w) \/ C!Fail(w) \/ C!Release(w) PROVE Good(v)
  <2>1. /\ pc' = [pc EXCEPT ![w] = "idle"] /\ command' = [command EXCEPT ![w] = C!NoCommand]
        /\ plan' = [plan EXCEPT ![w] = C!Empty] /\ configOutdated' = C!Passes(w, configOutdated) \ {w} /\ configDisk' = configDisk
        /\ lock' = lock \/ Inside(w)
    BY <1>7 DEF C!GiveUp, C!Fail, C!Release, C!Finish, Inside
  <2>2. CASE v = w
    BY <1>1, <2>1, <2>2 DEF Inside
  <2>3. CASE v # w
    <3>1. v \notin configOutdated /\ (Inside(v) => w \notin configOutdated)
      BY <2>1, <2>3 DEF C!Passes, Inside
    <3>2. Inside(v) => ~Inside(w)
      BY <1>2, <2>3, <3>1 DEF ConfigIInv, Exclusive
    <3> QED
      BY <1>1, <2>1, <2>3, <3>1, <3>2, Rests
  <2> QED
    BY <2>2, <2>3
<1>8. ASSUME NEW w \in Window, C!Reload(w) PROVE Good(v)
  <2>1. UNCHANGED <<configDisk, lock, pc, command, plan, configOutdated>>
    BY <1>8 DEF C!Reload
  <2> QED
    BY <2>1, Rests
<1>9. ASSUME NEW w \in Window, C!Crash(w) PROVE Good(v)
  <2>1. /\ pc' = [pc EXCEPT ![w] = "idle"] /\ command' = [command EXCEPT ![w] = C!NoCommand]
        /\ plan' = [plan EXCEPT ![w] = C!Empty] /\ configOutdated' = configOutdated \ {w} /\ configDisk' = configDisk
        /\ lock' = IF lock = w THEN C!Dead ELSE lock
    BY <1>9 DEF C!Crash
  <2>2. CASE v = w
    BY <1>1, <2>1, <2>2 DEF Inside
  <2>3. CASE v # w
    BY <1>1, <1>2, <2>1, <2>3, Rests
  <2> QED
    BY <2>2, <2>3
<1>10. ASSUME NEW w \in Window, C!Stall(w) PROVE Good(v)
  <2>1. /\ lock = w /\ configOutdated' = configOutdated \cup {w} \cup C!Reading
        /\ UNCHANGED <<configDisk, pc, command, plan>>
    BY <1>10 DEF C!Stall
  <2> QED
    BY <1>1, <1>2, <2>1, Rests
<1>11. CASE C!Edit
  <2>1. configOutdated' = configOutdated \cup C!Reading /\ UNCHANGED <<lock, pc, command, plan>>
    BY <1>11 DEF C!Edit
  <2>2. v \notin configOutdated /\ pc[v] # "planned"
    BY <2>1 DEF C!Reading
  <2> QED
    BY <2>1, <2>2, Rests
<1>12. CASE C!Evict
  <2>1. lock = C!Dead /\ UNCHANGED <<configDisk, pc, command, plan, configOutdated>>
    BY <1>12 DEF C!Evict
  <2> QED
    BY <1>1, <1>2, <2>1, Rests
<1> QED
  BY <1>3, <1>4, <1>5, <1>6, <1>7, <1>8, <1>9, <1>10, <1>11, <1>12 DEF C!Next, C!Step

\* In every reachable state a window that nobody has overtaken is alone inside, and
\* has planned its change of the very file it will replace (mutateConfigFile).
THEOREM AlwaysExclusive == ASSUME C!ConfigAssumption PROVE C!Spec => []ConfigIInv
<1>1. ConfigIInv /\ [C!Next]_(C!vars) => ConfigIInv'
  <2>1. ASSUME ConfigIInv, UNCHANGED C!vars PROVE ConfigIInv'
    BY <2>1 DEF C!vars, ConfigIInv, Typed, Exclusive, Inside, C!Patch, C!File, C!NewValue
  <2> QED
    BY <2>1, NextTyped, NextExclusive DEF ConfigIInv
<1> QED
  BY InitInv, <1>1, PTL DEF C!Spec

\* No field leaves its values, in the file, in a plan or in a memory, whatever the
\* user's editor leaves out.
THEOREM ConfigTypeCorrect == ASSUME C!ConfigAssumption PROVE C!Spec => []C!TypeOK
<1>1. ConfigIInv => C!TypeOK
  BY DEF ConfigIInv, Typed, C!TypeOK, Canonical, Values
<1> QED
  BY <1>1, AlwaysExclusive, PTL

-----------------------------------------------------------------------------
(* What a command leaves alone.                                             *)

\* A window that nobody has overtaken replaces the file by its change of it.
LEMMA RenamePatches ==
  ASSUME ConfigIInv, NEW w \in Window \ configOutdated, C!Rename(w)
  PROVE  configDisk \in Canonical /\ command[w] \in C!Change /\ configDisk.good /\ configDisk' = C!Patch(w, configDisk)
BY DEF ConfigIInv, Typed, Exclusive, C!Rename

\* mutateConfigFile loses no other field, whoever saved it and whoever wrote it by
\* hand, between windows that neither stall nor are overtaken by an editor.
THEOREM OthersKept == ASSUME C!ConfigAssumption PROVE C!Spec => C!KeepsOthers
<1>1. ConfigIInv /\ [C!Next]_(C!vars) => [C!KeepsOthersStep]_(C!vars)
  <2> SUFFICES ASSUME ConfigIInv, NEW w \in Window \ configOutdated, C!Rename(w), NEW f \in C!Field \ {command[w].field}
               PROVE  ~C!Differs(f)
    BY DEF C!KeepsOthersStep
  <2>1. configDisk \in Canonical /\ command[w] \in C!Change /\ configDisk' = C!Patch(w, configDisk)
    BY RenamePatches
  <2>2. configDisk'.has = configDisk.has \cup {command[w].field} /\ configDisk'.val[f] = configDisk.val[f]
    BY <2>1, PatchTyped
  <2> QED
    BY <2>2 DEF C!Differs
<1> QED
  BY <1>1, AlwaysExclusive, PTL DEF C!Spec, C!KeepsOthers

\* Nor another entry of the same field: the pins of the other scopes, the exclusions
\* of the other accounts.
THEOREM SiblingsKept == ASSUME C!ConfigAssumption PROVE C!Spec => C!KeepsSiblings
<1>1. ConfigIInv /\ [C!Next]_(C!vars) => [C!KeepsSiblingsStep]_(C!vars)
  <2> SUFFICES ASSUME ConfigIInv, NEW w \in Window \ configOutdated, C!Rename(w)
               PROVE  LET c == command[w]  old == configDisk.val[c.field]  new == configDisk'.val[c.field] IN
                      /\ c.field = "pinnedModels" => \A s \in Scope \ {c.scope} : new[s] = old[s]
                      /\ c.field = "excluded" => new \ {c.scope} = old \ {c.scope}
    BY DEF C!KeepsSiblingsStep
  <2> DEFINE c == command[w]
             old == configDisk.val[c.field]
  <2>1. configDisk \in Canonical /\ c \in C!Change /\ configDisk' = C!Patch(w, configDisk)
    BY RenamePatches
  <2>2. c.field \in C!Field /\ configDisk'.val[c.field] = C!NewValue(c, old)
    BY <2>1, PatchTyped, CommandTyped
  <2>3. old \in C!Value(c.field)
    BY <2>1, <2>2 DEF Canonical, Values
  <2>4. ASSUME c.field = "pinnedModels" PROVE \A s \in Scope \ {c.scope} : C!NewValue(c, old)[s] = old[s]
    <3>1. old \in C!Pins
      BY <2>3, <2>4, Fields
    <3>2. C!NewValue(c, old) = [old EXCEPT ![c.scope] = c.to]
      BY <2>4 DEF C!NewValue
    <3> QED
      BY <3>1, <3>2 DEF C!Pins
  <2>5. ASSUME c.field = "excluded" PROVE C!NewValue(c, old) \ {c.scope} = old \ {c.scope}
    <3>1. C!NewValue(c, old) = IF c.to = "out" THEN old \cup {c.scope} ELSE old \ {c.scope}
      BY <2>5 DEF C!NewValue
    <3> QED
      BY <3>1
  <2> QED
    BY <2>2, <2>4, <2>5
<1> QED
  BY <1>1, AlwaysExclusive, PTL DEF C!Spec, C!KeepsSiblings

\* A file that is no configuration is refused under the lock and never replaced.
THEOREM BrokenLeft == ASSUME C!ConfigAssumption PROVE C!Spec => C!BrokenIsLeft
<1>1. ConfigIInv /\ [C!Next]_(C!vars) => [C!BrokenIsLeftStep]_(C!vars)
  BY RenamePatches DEF C!BrokenIsLeftStep
<1> QED
  BY <1>1, AlwaysExclusive, PTL DEF C!Spec, C!BrokenIsLeft

-----------------------------------------------------------------------------
(* What a window remembers.                                                 *)

\* A step changes one field of the memory of one window at most, unless it reads the
\* file anew: a loose field when its command begins, a strict one when it is saved.
LEMMA MemorySteps ==
  ASSUME C!ConfigAssumption, ConfigIInv, C!Next, NEW w \in Window, NEW f \in C!Field, config'[w][f] # config[w][f]
  PROVE  \/ C!Reload(w) \/ C!Crash(w)
         \/ C!Begin(w) /\ f \in Loose /\ command'[w].field = f
         \/ C!Release(w) /\ f \notin Loose /\ config'[w][f] = plan[w].val[f]
<1>1. /\ config \in [Window -> Values] /\ config[w] \in [C!Field -> UNION {C!Value(g) : g \in C!Field}]
      /\ command \in [Window -> C!Change \cup {C!NoCommand}]
  BY DEF ConfigIInv, Typed, Values
<1>2. ASSUME NEW v \in Window, C!Begin(v) PROVE v = w /\ f \in Loose /\ command'[w].field = f
  <2>1. PICK c \in C!Change : command' = [command EXCEPT ![v] = c] /\ config' = [config EXCEPT ![v] = C!Ahead(v, c)]
    BY <1>2 DEF C!Begin
  <2>2. v = w
    BY <1>1, <2>1
  <2>3. config'[w] = C!Ahead(w, c) /\ command'[w] = c
    BY <1>1, <2>1, <2>2
  <2>4. c.field \in Loose /\ c.field = f
    BY <1>1, <2>3 DEF C!Ahead
  <2> QED
    BY <2>2, <2>3, <2>4
<1>3. ASSUME NEW v \in Window, C!Release(v) PROVE v = w /\ f \notin Loose /\ config'[w][f] = plan[w].val[f]
  <2>1. config' = [config EXCEPT ![v] = C!Adopt(v)]
    BY <1>3 DEF C!Release
  <2>2. v = w
    BY <1>1, <2>1
  <2>3. config'[w] = C!Adopt(w)
    BY <1>1, <2>1, <2>2
  <2>4. command[w].field \notin Loose /\ command[w].field = f
    BY <1>1, <2>3 DEF C!Adopt
  <2> QED
    BY <1>1, <2>2, <2>3, <2>4 DEF C!Adopt
<1>4. ASSUME NEW v \in Window, C!Reload(v) \/ C!Crash(v) PROVE v = w
  BY <1>1, <1>4 DEF C!Reload, C!Crash
<1>5. ASSUME NEW v \in Window, C!Acquire(v) \/ C!GiveUp(v) \/ C!Read(v) \/ C!Fail(v) \/ C!Rename(v) \/ C!Stall(v)
      PROVE  FALSE
  BY <1>5 DEF C!Acquire, C!GiveUp, C!Read, C!Fail, C!Rename, C!Stall
<1>6. ~C!Edit /\ ~C!Evict
  BY DEF C!Edit, C!Evict
<1> QED
  BY <1>2, <1>3, <1>4, <1>5, <1>6 DEF C!Next, C!Step

\* saveStrictConfig: a pin or an exclusion enters the memory from what was saved, and
\* from nowhere else but the file itself.
THEOREM SavedBeforeForce == ASSUME C!ConfigAssumption PROVE C!Spec => C!SavedFirst
<1>1. ConfigIInv /\ [C!Next]_(C!vars) => [C!SavedFirstStep]_(C!vars)
  <2>1. ASSUME ConfigIInv, C!Next, NEW w \in Window, NEW f \in {"pinnedModels", "excluded"},
               config'[w][f] # config[w][f]
        PROVE  C!Reload(w) \/ C!Crash(w) \/ (C!Release(w) /\ config'[w][f] = plan[w].val[f])
    <3>1. f \in C!Field /\ f \notin Loose
      BY Fields
    <3> QED
      BY <2>1, <3>1, MemorySteps
  <2> QED
    BY <2>1 DEF C!SavedFirstStep, C!vars
<1> QED
  BY <1>1, AlwaysExclusive, PTL DEF C!Spec, C!SavedFirst

\* A loose setting stays what the window's last command made it, saved or not.
THEOREM SessionKept == ASSUME C!ConfigAssumption PROVE C!Spec => C!StaysForSession
<1>1. ConfigIInv /\ [C!Next]_(C!vars) => [C!StaysForSessionStep]_(C!vars)
  <2>1. ASSUME ConfigIInv, C!Next, NEW w \in Window, NEW f \in Loose, config'[w][f] # config[w][f]
        PROVE  C!Reload(w) \/ C!Crash(w) \/ (C!Begin(w) /\ command'[w].field = f)
    <3>1. f \in C!Field
      BY Fields
    <3> QED
      BY <2>1, <3>1, MemorySteps
  <2> QED
    BY <2>1 DEF C!StaysForSessionStep, C!vars
<1> QED
  BY <1>1, AlwaysExclusive, PTL DEF C!Spec, C!StaysForSession
=============================================================================

-------------------------- MODULE ConfigTransaction --------------------------
(***************************************************************************)
(* The configuration file, shared by the windows of a machine, and the     *)
(* commands that write it.  Every writer goes through mutateConfigFile: a   *)
(* lock that is tried for a quarter of a second, a fresh reading, a change  *)
(* of the command's own field, a temporary file and a rename.  Two fields   *)
(* are strict (a pin, an exclusion: the memory follows what was saved), the *)
(* others are loose (the memory changes first, a failure is ignored).       *)
(*                                                                         *)
(* The transaction is synchronous: within a window nothing comes between    *)
(* its steps, other processes do.  Abstractions: one field stands for the   *)
(* two lists of exclusions and one for the settings that normalizeConfig    *)
(* reads in the same way (a value or, when it is absent, the default); the  *)
(* question whether the session is idle only refuses commands.              *)
(***************************************************************************)
EXTENDS Naturals, FiniteSets

CONSTANTS
  Window,      \* the windows of the machine
  Scope,       \* groups of accounts that can be pinned
  Model,       \* models they can be pinned to
  Target,      \* accounts that can be excluded
  Loose,       \* the loose fields in use, of LooseField
  Edits        \* bound on the edits made without the lock, and on crashes

None    == "none"
Dead    == "dead"            \* the lock of a process that is gone
LooseField == {"providerPriority", "onlyActive", "fallbacks"}

ConfigAssumption ==
  /\ Window \cap {None, Dead} = {}
  /\ Loose \subseteq LooseField
  /\ Edits \in Nat

VARIABLES
  disk,        \* the file: whether it is a JSON object, the fields it has, and their values
  lock,        \* the window that holds the lock, Dead, or None
  config,      \* config of each window
  pc,          \* the stage of the window's transaction
  command,     \* what it changes: a field and its change
  plan,        \* `next` of the transaction
  outdated,    \* history: windows whose reading an unlocked writer, or a stall, has overtaken
  notice,      \* the notice of the window's last command, with the truth about it
  edits        \* edits and crashes so far

vars == <<disk, lock, config, pc, command, plan, outdated, notice, edits>>

Field == {"pinnedModels", "excluded"} \cup Loose
Pins == [Scope -> Model \cup {None}]
Choice == {"default", "chosen"}
Value(f) == CASE f = "pinnedModels" -> Pins
              [] f = "excluded" -> SUBSET Target
              [] OTHER -> Choice
Unset(f) == CASE f = "pinnedModels" -> [s \in Scope |-> None]
              [] f = "excluded" -> {}
              [] OTHER -> "default"

\* A command: the field, its new value or, for a pin, the scope and the model.
Change == [field : {"pinnedModels"}, scope : Scope, to : Model \cup {None}]
            \cup [field : {"excluded"}, scope : Target, to : {"in", "out"}]
            \cup [field : Loose, scope : {None}, to : Choice]

TypeOK ==
  /\ disk.good \in BOOLEAN /\ disk.has \subseteq Field
  /\ \A f \in Field : disk.val[f] \in Value(f)
  /\ lock \in Window \cup {None, Dead}
  /\ \A w \in Window, f \in Field : config[w][f] \in Value(f)
  /\ pc \in [Window -> {"idle", "waiting", "locked", "planned", "renamed"}]
  /\ \A w \in Window : pc[w] # "idle" => command[w] \in Change
  /\ outdated \subseteq Window
  /\ notice \in [Window -> [saved : BOOLEAN, claimed : BOOLEAN]]
  /\ edits \in 0..Edits

\* A file; what it does not have is kept at its default here, for one way to write it.
File(good, has, val) ==
  [good |-> good, has |-> has, val |-> [f \in Field |-> IF f \in has THEN val[f] ELSE Unset(f)]]
Defaults == [f \in Field |-> Unset(f)]
Spoilt == File(FALSE, {}, Defaults)
Empty  == File(TRUE, {}, Defaults)

\* normalizeConfig, loadConfig: what is absent has its default, a spoilt file has only defaults.
NormalizeConfig(raw) == [f \in Field |-> IF f \in raw.has THEN raw.val[f] ELSE Unset(f)]
LoadConfig(raw) == NormalizeConfig(raw)

NoCommand == [field |-> None, scope |-> None, to |-> None]
Quiet == [saved |-> FALSE, claimed |-> FALSE]

Init ==
  /\ disk = File(TRUE, Field, Defaults)
  /\ lock = None
  /\ config = [w \in Window |-> LoadConfig(disk)]
  /\ pc = [w \in Window |-> "idle"]
  /\ command = [w \in Window |-> NoCommand]
  /\ plan = [w \in Window |-> Empty]
  /\ outdated = {}
  /\ notice = [w \in Window |-> Quiet]
  /\ edits = 0

------------------------------------------------------------------------------
(* The commands *)

\* Mutant of Ahead: the memory of a strict field changes before it is saved.
AheadAlways(w, c) ==
  IF c.field = "pinnedModels"
  THEN [config[w] EXCEPT !.pinnedModels[c.scope] = c.to]
  ELSE IF c.field \in Loose THEN [config[w] EXCEPT ![c.field] = c.to] ELSE config[w]
\* What the memory of the window is before the transaction: a loose field is set at once.
Ahead(w, c) == IF c.field \in Loose THEN [config[w] EXCEPT ![c.field] = c.to] ELSE config[w]

\* pin, unpin, exclude, include, priority, only-active, clear.
Begin(w) == \E c \in Change :
  /\ pc[w] = "idle"
  /\ c.field = "fallbacks" => c.to = "default"
  /\ command' = [command EXCEPT ![w] = c]
  /\ config' = [config EXCEPT ![w] = Ahead(w, c)]
  /\ pc' = [pc EXCEPT ![w] = "waiting"]
  /\ notice' = [notice EXCEPT ![w] = Quiet]
  /\ UNCHANGED <<disk, lock, plan, outdated, edits>>

\* Mutant of Acquire: the lock is taken for advice.
AcquireAnyway(w) ==
  /\ pc[w] = "waiting"
  /\ lock' = w
  /\ pc' = [pc EXCEPT ![w] = "locked"]
  /\ UNCHANGED <<disk, config, command, plan, outdated, notice, edits>>
Acquire(w) ==
  /\ pc[w] = "waiting"
  /\ lock = None
  /\ lock' = w
  /\ pc' = [pc EXCEPT ![w] = "locked"]
  /\ UNCHANGED <<disk, config, command, plan, outdated, notice, edits>>

\* `only-active on` says "preference saved" whatever became of the file.
Claims(c, saved) == saved \/ (c.field = "onlyActive" /\ c.to = "chosen")

\* A window that was overtaken disturbs those that are at work under the lock.
Passes(w, set) ==
  IF w \in outdated THEN set \cup {v \in Window \ {w} : pc[v] \in {"locked", "planned", "renamed"}} ELSE set

\* The end of a command; the caller says whether the file was written and what is in it.
Finish(w, saved) ==
  /\ pc' = [pc EXCEPT ![w] = "idle"]
  /\ command' = [command EXCEPT ![w] = NoCommand]
  /\ plan' = [plan EXCEPT ![w] = Empty]
  /\ outdated' = Passes(w, outdated) \ {w}
  /\ notice' = [notice EXCEPT ![w] = [saved |-> saved, claimed |-> Claims(command[w], saved)]]

\* The lock is still held by another when the quarter of a second is over.
GiveUp(w) ==
  /\ pc[w] = "waiting"
  /\ lock # None
  /\ Finish(w, FALSE)
  /\ UNCHANGED <<disk, lock, config, edits>>

\* The new value of the command's field, from the one in the file.
NewValue(c, old) ==
  CASE c.field = "pinnedModels" -> [old EXCEPT ![c.scope] = c.to]
    [] c.field = "excluded" -> IF c.to = "out" THEN old \cup {c.scope} ELSE old \ {c.scope}
    [] OTHER -> c.to

\* Mutant of Patch: the window writes its whole configuration.
PatchWhole(w, raw) ==
  File(TRUE, Field, [config[w] EXCEPT ![command[w].field] = NewValue(command[w], raw.val[command[w].field])])
\* Mutant of Patch: the new value is made from the window's memory.
PatchOwn(w, raw) ==
  LET f == command[w].field IN
  File(TRUE, raw.has \cup {f}, [raw.val EXCEPT ![f] = NewValue(command[w], config[w][f])])
\* { ...disk, ...patch(disk) }: the field of the command, the rest as it is in the file.
Patch(w, raw) ==
  LET f == command[w].field IN
  File(TRUE, raw.has \cup {f}, [raw.val EXCEPT ![f] = NewValue(command[w], @)])

\* Mutant of Readable: a file that cannot be read counts as an empty one.
ReadableAll(raw) == raw.good \in BOOLEAN
Readable(raw) == raw.good

\* Read under the lock, and write the temporary file.
Read(w) ==
  /\ pc[w] = "locked"
  /\ Readable(disk)
  /\ plan' = [plan EXCEPT ![w] = Patch(w, disk)]
  /\ pc' = [pc EXCEPT ![w] = "planned"]
  /\ UNCHANGED <<disk, lock, config, command, outdated, notice, edits>>

\* The lock directory is removed, whoever made it.
Unlock == lock' = None

\* The file is no configuration, or the temporary file cannot be written.
Fail(w) ==
  /\ \/ pc[w] = "locked" /\ ~Readable(disk)
     \/ pc[w] = "planned"
  /\ Finish(w, FALSE)
  /\ Unlock
  /\ UNCHANGED <<disk, config, edits>>

Rename(w) ==
  /\ pc[w] = "planned"
  /\ disk' = plan[w]
  /\ pc' = [pc EXCEPT ![w] = "renamed"]
  /\ outdated' = Passes(w, outdated)
  /\ UNCHANGED <<lock, config, command, plan, notice, edits>>

\* Mutant of Adopt: everything that was saved is taken into memory.
AdoptWhole(w) == NormalizeConfig(plan[w])
\* Mutant of Adopt: the change is taken for the value it makes.
AdoptChange(w) ==
  IF command[w].field \in Loose THEN config[w]
  ELSE [config[w] EXCEPT ![command[w].field] = command[w].to]
\* A strict command takes its own field from what it saved.
Adopt(w) ==
  IF command[w].field \in Loose THEN config[w]
  ELSE [config[w] EXCEPT ![command[w].field] = plan[w].val[command[w].field]]

Release(w) ==
  /\ pc[w] = "renamed"
  /\ config' = [config EXCEPT ![w] = Adopt(w)]
  /\ Finish(w, TRUE)
  /\ Unlock
  /\ UNCHANGED <<disk, edits>>

\* `reload`
Reload(w) ==
  /\ pc[w] = "idle"
  /\ config' = [config EXCEPT ![w] = LoadConfig(disk)]
  /\ notice' = [notice EXCEPT ![w] = Quiet]
  /\ UNCHANGED <<disk, lock, pc, command, plan, outdated, edits>>

------------------------------------------------------------------------------
(* The machine *)

Reading == {w \in Window : pc[w] = "planned"}

\* The user's editor takes no lock: it sets or deletes a field, spoils the file or mends it.
Edit ==
  /\ edits < Edits
  /\ \/ \E f \in Field : \E v \in Value(f) : disk' = File(TRUE, disk.has \cup {f}, [disk.val EXCEPT ![f] = v])
     \/ \E f \in Field : disk' = File(TRUE, disk.has \ {f}, disk.val)
     \/ disk' \in {Spoilt, Empty}
  /\ disk' # disk
  /\ outdated' = outdated \cup Reading
  /\ edits' = edits + 1
  /\ UNCHANGED <<lock, config, pc, command, plan, notice>>

\* A process dies at any step; the window that takes its place reads the file.
Crash(w) ==
  /\ edits < Edits
  /\ pc[w] # "idle"
  /\ lock' = IF lock = w THEN Dead ELSE lock
  /\ config' = [config EXCEPT ![w] = LoadConfig(disk)]
  /\ pc' = [pc EXCEPT ![w] = "idle"]
  /\ command' = [command EXCEPT ![w] = NoCommand]
  /\ plan' = [plan EXCEPT ![w] = Empty]
  /\ outdated' = outdated \ {w}
  /\ notice' = [notice EXCEPT ![w] = Quiet]
  /\ edits' = edits + 1
  /\ UNCHANGED disk

\* A holder stalls past the stale age and loses the lock to the next that asks for it.
Stall(w) ==
  /\ edits < Edits
  /\ lock = w
  /\ pc[w] \in {"locked", "planned"}
  /\ lock' = Dead
  /\ outdated' = outdated \cup {w} \cup Reading
  /\ edits' = edits + 1
  /\ UNCHANGED <<disk, config, pc, command, plan, notice>>

\* Mutant of Evict: the lock of a process that is gone is waited for.
EvictNever == lock = Dead /\ FALSE /\ UNCHANGED vars
\* A stale lock directory is removed by the next process that wants it.
Evict ==
  /\ lock = Dead
  /\ lock' = None
  /\ UNCHANGED <<disk, config, pc, command, plan, outdated, notice, edits>>

Step(w) == Acquire(w) \/ GiveUp(w) \/ Read(w) \/ Fail(w) \/ Rename(w) \/ Release(w)
Next ==
  \/ \E w \in Window : Begin(w) \/ Step(w) \/ Reload(w) \/ Crash(w) \/ Stall(w)
  \/ Edit
  \/ Evict

Spec == Init /\ [][Next]_vars
\* The transaction is synchronous code; a stale lock is found by whoever asks for it.
Fairness == (\A w \in Window : WF_vars(Step(w))) /\ WF_vars(Evict)
FairSpec == Spec /\ Fairness

------------------------------------------------------------------------------
(* Properties *)

Differs(f) == (f \in disk.has) # (f \in disk'.has) \/ disk.val[f] # disk'.val[f]

\* A command changes its own field and no other: what other windows saved, what the user
\* wrote by hand and what nobody ever set all stay as they are (mutateConfigFile), unless
\* a writer without the lock came between, or the holder had stalled.
KeepsOthersStep ==
  \A w \in Window \ outdated : Rename(w) =>
    \A f \in Field \ {command[w].field} : ~Differs(f)
KeepsOthers == [][KeepsOthersStep]_vars

\* Nor is a change to the same field lost: a pin keeps the other scopes, an exclusion
\* the other accounts.
KeepsSiblingsStep ==
  \A w \in Window \ outdated : Rename(w) =>
  LET c == command[w]  old == disk.val[c.field]  new == disk'.val[c.field] IN
  /\ c.field = "pinnedModels" => \A s \in Scope \ {c.scope} : new[s] = old[s]
  /\ c.field = "excluded" => new \ {c.scope} = old \ {c.scope}
KeepsSiblings == [][KeepsSiblingsStep]_vars

\* A configuration the user has spoilt is left for him to mend; no command replaces it.
BrokenIsLeftStep ==
  \A w \in Window \ outdated : Rename(w) => disk.good
BrokenIsLeft == [][BrokenIsLeftStep]_vars

\* A pin or an exclusion in memory is one that was saved: a window's memory of them changes
\* only with its own saved command, a reload or a restart.
SavedFirstStep ==
  \A w \in Window, f \in {"pinnedModels", "excluded"} :
  config'[w][f] # config[w][f] =>
  \/ Reload(w) \/ Crash(w)
  \/ Release(w) /\ config'[w][f] = plan[w].val[f]
SavedFirst == [][SavedFirstStep]_vars

\* What a loose command set stays in force in its window, saved or not, until the user sets
\* it again or reloads: no other command of the window takes it back.
StaysForSessionStep ==
  \A w \in Window, f \in Loose :
  config'[w][f] # config[w][f] =>
  \/ Reload(w) \/ Crash(w)
  \/ Begin(w) /\ command'[w].field = f
StaysForSession == [][StaysForSessionStep]_vars

\* The lock of a dead process does not keep the commands from the file for ever.
LockIsFreed == (lock # None) ~> (lock = None)

=============================================================================

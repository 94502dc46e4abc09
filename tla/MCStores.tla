------------------------------ MODULE MCStores ------------------------------
(***************************************************************************)
(* The two files the windows of a machine share: the state file they       *)
(* merge, and the configuration they change by transactions.               *)
(***************************************************************************)
EXTENDS StateFile, Naturals, Sequences, TLC

CONSTANTS
  Scenarios, w1, w2, s1, s2, m1, t1

VARIABLES
  scenario,  \* the instance this behaviour is one of, of Scenarios
  configDisk, lock, config, pc, command, plan, configOutdated, notice, edits  \* ConfigTransaction

fileVars == vars
configVars == <<configDisk, lock, config, pc, command, plan, configOutdated,
    notice, edits>>
allVars == <<scenario, fileVars, configVars>>

\* Windows are interchangeable, and so are the groups of accounts.
Symmetry == Permutations({w1, w2}) \cup Permutations({s1, s2})

Cooldown == INSTANCE StateFile WITH
  Window <- {w1, w2}, Child <- {}, MaxTime <- 3, MaxLogin <- 1,
  MaxChoice <- 1, Exercised <- {"cooldown"}
Usage == INSTANCE StateFile WITH
  Window <- {w1, w2}, Child <- {}, MaxTime <- 2, MaxLogin <- 2,
  MaxChoice <- 1, Exercised <- {"usage"}
Login == INSTANCE StateFile WITH
  Window <- {w1, w2}, Child <- {}, MaxTime <- 0, MaxLogin <- 3,
  MaxChoice <- 1, Exercised <- {"login"}
Session == INSTANCE StateFile WITH
  Window <- {"window", "child"}, Child <- {"child"}, MaxTime <- 0,
  MaxLogin <- 1, MaxChoice <- 1, Exercised <- {"marker", "choice"}
Prefs == INSTANCE StateFile WITH
  Window <- {w1, w2}, Child <- {}, MaxTime <- 2, MaxLogin <- 1,
  MaxChoice <- 2, Exercised <- {"choice", "best"}
Strict == INSTANCE ConfigTransaction WITH
  Window <- {w1, w2}, Scope <- {s1, s2}, Model <- {m1}, Target <- {t1},
  Loose <- {}, Edits <- 1, disk <- configDisk, outdated <- configOutdated
Loosely == INSTANCE ConfigTransaction WITH
  Window <- {w1, w2}, Scope <- {s1}, Model <- {m1}, Target <- {},
  Loose <- {"providerPriority"}, Edits <- 1, disk <- configDisk,
  outdated <- configOutdated

ASSUME
  /\ WindowAssumption
  /\ Cooldown!WindowAssumption
  /\ Usage!WindowAssumption
  /\ Login!WindowAssumption
  /\ Session!WindowAssumption
  /\ Prefs!WindowAssumption
  /\ Strict!ConfigAssumption
  /\ Loosely!ConfigAssumption

\* A behaviour moves one component; the others rest in an initial state.
Rest(moving) ==
  /\ IF moving = "file" THEN TRUE ELSE Init /\ disk.marker = "none"
  /\ IF moving = "config" THEN TRUE ELSE Strict!Init

Stays(moving) ==
  /\ IF moving = "file" THEN TRUE ELSE UNCHANGED fileVars
  /\ IF moving = "config" THEN TRUE ELSE UNCHANGED configVars

SuiteInit ==
  /\ scenario \in Scenarios
  /\ \/ scenario = "refusal" /\ Init /\ Rest("file")
     \/ scenario = "cooldown" /\ Cooldown!Init /\ Rest("file")
     \/ scenario = "usage" /\ Usage!Init /\ Rest("file")
     \/ scenario = "login" /\ Login!Init /\ Rest("file")
     \/ scenario = "session" /\ Session!Init /\ Rest("file")
     \/ scenario = "prefs" /\ Prefs!Init /\ Rest("file")
     \/ scenario = "strict" /\ Strict!Init /\ Rest("config")
     \/ scenario = "loose" /\ Loosely!Init /\ Rest("config")

SuiteNext ==
  /\ scenario' = scenario
  /\ \/ scenario = "refusal" /\ Next /\ Stays("file")
     \/ scenario = "cooldown" /\ Cooldown!Next /\ Stays("file")
     \/ scenario = "usage" /\ Usage!Next /\ Stays("file")
     \/ scenario = "login" /\ Login!Next /\ Stays("file")
     \/ scenario = "session" /\ Session!Next /\ Stays("file")
     \/ scenario = "prefs" /\ Prefs!Next /\ Stays("file")
     \/ scenario = "strict" /\ Strict!Next /\ Stays("config")
     \/ scenario = "loose" /\ Loosely!Next /\ Stays("config")

SuiteSpec == SuiteInit /\ [][SuiteNext]_allVars

-----------------------------------------------------------------------------
\* What one window wrote is not undone by the older memory of another:
\* readings, verdicts and the last good model move forward, a marker is
\* removed by its owner and revived by nobody, and a choice is changed by
\* choosing.
RecordsForward ==
  /\ [](/\ (scenario = "refusal" => TypeOK)
       /\ (scenario = "session" => Session!TypeOK))
  /\ [][/\ (scenario = "usage" => Usage!UsageForwardStep)
        /\ (scenario = "login" => Login!CondemnedStandsStep)
        /\ (scenario = "session" => Session!OnlyOwnerUnmarksStep)
        /\ (scenario = "session" => Session!MarkerNotRevivedStep)
        /\ (scenario = "prefs" => Prefs!ChoiceByUserStep)
        /\ (scenario = "prefs" => Prefs!BestForwardStep)]_allVars

\* A command changes the field it is about and keeps the rest as the file has
\* it, siblings included; it leaves a broken file alone, is saved before it is
\* in force, and what was set for a session stays for it.
SettingsKept ==
  /\ [](/\ (scenario = "strict" => Strict!TypeOK))
  /\ [][/\ (scenario = "strict" => Strict!KeepsOthersStep)
        /\ (scenario = "loose" => Loosely!KeepsOthersStep)
        /\ (scenario = "strict" => Strict!KeepsSiblingsStep)
        /\ (scenario = "strict" => Strict!BrokenIsLeftStep)
        /\ (scenario = "strict" => Strict!SavedFirstStep)
        /\ (scenario = "loose" => Loosely!StaysForSessionStep)]_allVars
=============================================================================

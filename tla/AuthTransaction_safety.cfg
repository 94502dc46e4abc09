\* Two activities, three issued tokens, three lock directories.
SPECIFICATION Spec
CONSTANTS
  Process = {p1, p2}
  MaxToken = 4
  MaxLock = 3
  NoEntry = NoEntry
  Placeholder = Placeholder
  OldPlaceholder = OldPlaceholder
\* The bounds on tokens and locks end a behaviour; an idle store may rest.
CHECK_DEADLOCK FALSE
SYMMETRY Interchangeable
INVARIANTS
  TypeOK
  PlaceholderBacked
  LoginSurvives
  NoFalseTerminal
PROPERTIES
  LoginNeverOlder
  RemovedStaysRemoved
  WritesByOwnerOnly
  FreshLockKept

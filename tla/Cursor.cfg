SPECIFICATION SuiteSpec
CONSTANTS
  Scenarios = {"turns", "partial", "late", "aborted", "others", "calls", "call", "stream", "cuts", "catalogs", "slots", "google", "framing", "account", "quota"}
  MaxReq = 3
  MaxExec = 1
  Partial = FALSE
  Moves = {FALSE}
  ExitWindow = FALSE
  LateFrames = FALSE
  StatusPiped = TRUE
  Faults = {"death"}
  MaxCompact = 0
  MaxEnds = 0
  MaxForeign = 0
PROPERTIES CatalogsOwn OneTurn  CallsExact CallsEnd StreamsWhole
CHECK_DEADLOCK FALSE

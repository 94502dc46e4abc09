SPECIFICATION SuiteSpec
CONSTANTS
  Scenarios = {"family", "ring", "bands", "logins", "manual", "thinking", "native", "spare", "lists", "kept", "own", "evidence"}
  Accounts = {"a", "b"}
  None = "none"
  Requests = {"q"}
  Refreshes = {"f"}
  Kinds = {"network"}
  LoginAccounts = {"b"}
  MaxTokens = 1
  MaxVersion = 1
  MaxClock = 1
INVARIANTS EvidenceOwn
PROPERTIES RouteHolds  
CHECK_DEADLOCK FALSE

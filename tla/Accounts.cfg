SPECIFICATION SuiteSpec
CONSTANTS
  Scenarios = {"one", "shared", "oauth", "key", "shapes", "ages", "logins", "process", "disabled", "machine", "request"}
  Slot = {"anthropic", "chatgpt"}
  Family <- TwoFamilies
  Builtin = {"anthropic"}
  MaxVersion = 1
  MaxRequests = 1
INVARIANTS RightSecretLeaves
PROPERTIES FenceRespected LeaseRespected BenchedForCause  OneListenerServes
CHECK_DEADLOCK FALSE

SPECIFICATION SuiteSpec
CONSTANTS
  Scenarios = {"refusal", "cooldown", "usage", "login", "session", "prefs", "strict", "loose"}
  w1 = w1
  w2 = w2
  s1 = s1
  s2 = s2
  m1 = m1
  t1 = t1
  Window = {w1, w2}
  Child = {}
  MaxTime = 2
  MaxLogin = 1
  MaxChoice = 1
  Exercised = {"refusal", "cooldown"}
PROPERTIES RefusalStands CooldownStands RecordsForward SettingsKept
SYMMETRY Symmetry
CHECK_DEADLOCK FALSE

\* Custom actions, a local test and configuration changes, and their progress.
SPECIFICATION FairSpec
CONSTANTS
  c1 = c1  c2 = c2  l1 = l1  a1 = a1  a2 = a2  p1 = p1  p2 = p2  home = home
  Conns = {c1}
  Tests = {l1}
  Task <- MCTask
  Detached = Detached
  Requests <- MCCustom
  Configs <- MCConfigs
  NoRequest = NoRequest
  NoConfig = NoConfig
  Lifetime = 2
  MaxSkew = 1
  MaxIds = 2
  U64Max = 9
  MaxNow = 0
  MaxSetBacks = 0
  ActionIds = {a1, a2}
  Phrases = {p1, p2}
  Reserved = {}
  NoPhrase = NoPhrase
  LocalHosts = {home}
  Loopback = home
  MaxActions = 2
  MaxVoiceActions = 2
  MaxRevision = 5
  MaxLength = 3
INVARIANTS
  DispatchMatchesConfig
  OneJobPerPermit
  ArgumentsKept
PROPERTIES
  ReplaceServed
  Answered

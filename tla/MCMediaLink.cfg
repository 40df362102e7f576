\* Two commands, clocks that differ and move, and a lossy link.
SPECIFICATION LinkFairSpec
CONSTANTS
  c1 = c1  c2 = c2  a1 = a1  p1 = p1  home = home
  Conns = {c1, c2}
  Tests = {}
  Task <- MCTask
  Detached = Detached
  Requests <- MCCommands
  Intents <- MCCommands
  Configs <- MCConfigs
  NoRequest = NoRequest
  NoIntent = NoIntent
  NoAnswer = NoAnswer
  NotSet = NotSet
  Offsets <- MCOffsets
  NoConfig = NoConfig
  Lifetime = 2
  CommandLifetime = 2
  FutureSkew = 1
  MaxSkew = 1
  MaxIds = 2
  U64Max = 9
  MaxNow = 2
  MaxSetBacks = 0
  ActionIds = {a1}
  Phrases = {p1}
  Reserved = {}
  NoPhrase = NoPhrase
  LocalHosts = {home}
  Loopback = home
  MaxActions = 1
  MaxVoiceActions = 1
  MaxRevision = 2
INVARIANTS
  LinkInv
  ReportTrue
PROPERTY
  Reported

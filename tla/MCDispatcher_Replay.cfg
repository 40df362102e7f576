\* Duplicate deliveries of media requests to two connections.
SPECIFICATION Spec
CONSTANTS
  c1 = c1  c2 = c2  l1 = l1  a1 = a1  a2 = a2  p1 = p1  p2 = p2  home = home
  Conns = {c1, c2}
  Tests = {}
  Task <- MCTask
  Detached = Detached
  Requests <- MCMedia
  Configs <- MCNoVoice
  NoRequest = NoRequest
  NoConfig = NoConfig
  Lifetime = 2
  MaxSkew = 1
  MaxIds = 2
  U64Max = 9
  MaxNow = 3
  MaxSetBacks = 1
  ActionIds = {a1}
  Phrases = {p1, p2}
  Reserved = {}
  NoPhrase = NoPhrase
  LocalHosts = {home}
  Loopback = home
  MaxActions = 2
  MaxVoiceActions = 2
  MaxRevision = 5
  MaxLength = 3
SYMMETRY Symmetry
INVARIANT
  RememberedThroughWindow
PROPERTY
  NoReplayInWindow

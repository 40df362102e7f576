\* Voice tables, credentials, addresses, the listener and crashes.
SPECIFICATION Spec
CONSTANTS
  a1 = a1  p1 = p1  p2 = p2  home = home  lan = lan
  ActionIds = {a1}
  Phrases = {p1, p2}
  Reserved = {}
  NoPhrase = NoPhrase
  LocalHosts = {home, lan}
  Loopback = home
  MaxActions = 1
  MaxVoiceActions = 1
  MaxRevision = 2
  ActionLists <- MCLists
  NoFile = NoFile
  NoListener = NoListener
  MaxGen = 2
SYMMETRY Symmetry
VIEW View
INVARIANTS
  RuntimeInv
  RevisionNamesTable
  AcksDurable
PROPERTY
  TokenKept

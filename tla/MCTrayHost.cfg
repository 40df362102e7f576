\* Clicks, launches and two background processes.
SPECIFICATION FairSpec
CONSTANTS
  NoChild = NoChild
  MaxSpawns = 2
  MaxAsks = 4
  MaxLives = 2
CHECK_DEADLOCK FALSE
INVARIANTS HostInv
PROPERTIES OpenHonoured EndsOrderly

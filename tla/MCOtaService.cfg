\* The window, the transfer, and the LED shared with two other services.
CONSTANTS
  QueueLength = 2
  Debounce = 1
  Hold = 2
  Window = 2
  TransferTime = 2
  Users = {"voice", "feedback"}
SPECIFICATION FairSpec
INVARIANTS OtaInv InstalledInTime LedTruthful
PROPERTIES HoldOpens WindowCloses

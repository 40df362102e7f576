\* Sessions, syncs, failures and power losses.
SPECIFICATION Spec
CONSTANTS
  a1 = a1  a2 = a2
  Actions = {a1, a2}
  Snapshots <- MCTwo
  Blank = Blank
  Off = Off
  NoUpdate = NoUpdate
  QueueLength = 2
INVARIANTS
  VoiceInv
  HeardAsMeant
  UpdateKept

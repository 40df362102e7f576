\* Confirmations, the wake poll and the retained state; an uptime that wraps.
SPECIFICATION Spec
CONSTANTS
  k1 = k1  k2 = k2
  ConfirmTokens = {k1, k2}
  EmptyToken = EmptyToken
  Ttls = {0, 1, 3}
  MaxTtl = 2
  WakeTimeout = 3
  WakeRetry = 1
  Wrap = 6
  StartMs = 1
SYMMETRY Symmetry
INVARIANTS
  MqttInv
  RetainedCurrent
PROPERTIES
  Confirmed

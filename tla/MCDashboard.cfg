\* Two dashboards, one of them followed, a clock and a fault.
SPECIFICATION DashboardSpec
CONSTANTS
  k1 = k1  k2 = k2  k3 = k3
  Tokens = {k1, k2}
  NoToken = NoToken
  Ttl = 1
  MaxUptime = 1
  MaxCmds = 3
  MaxInbox = 2
  MaxFaults = 1
SYMMETRY Symmetry
VIEW View
INVARIANTS
  PageInv
  CancelHolds
PROPERTY
  SuccessTrue

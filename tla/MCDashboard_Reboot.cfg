\* A reboot asked for over connections that stay up.
SPECIFICATION DashboardFair
CONSTANTS
  k1 = k1  k2 = k2  k3 = k3
  Tokens = {k1}
  NoToken = NoToken
  Ttl = 1
  MaxUptime = 1
  MaxCmds = 1
  MaxInbox = 2
  MaxFaults = 0
CHECK_DEADLOCK FALSE
PROPERTIES
  RebootHappens

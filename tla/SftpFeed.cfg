SPECIFICATION FeedSpec
CONSTANTS
  Usernames = {"u", "v"}
  FeedCustomers = {"k1", "k2"}
  Addrs = {"lo", "out"}
  Loopback = "lo"
  Conns = {"c1"}
  Ports = {1}
  FailLimit = 1
  MaxIps = 1
  Saved <- MCSaved
  Forms <- MCForms
  MaxAccount = 2
  MaxEdits = 2
  MaxFaults = 1
INVARIANTS FeedTypeOK PassEndsStaleSessions ClosedFeedKeepsLateOnly
PROPERTIES SessionsSettle ListenerSettles FirewallSettles

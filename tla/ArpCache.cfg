\* Two destinations, one of which replies only, and requests from the other, from a host
\* that has taken our address and from one that probes: three addresses compete for two
\* entries.
CONSTANTS
  a = a
  b = b
  Own = Own
  Null = Null
  Hosts <- TwoHosts
  Destinations <- TwoHosts
  Announcers <- Others
  Num_Entries = 2
  Max_Retries = 2
SPECIFICATION FairSpec
INVARIANTS NoUpdateMissed FilledIsTrue CalmSubnet
PROPERTY Resolved
CHECK_DEADLOCK FALSE

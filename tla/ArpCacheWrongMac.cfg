\* A full cache: an entry is overwritten between the lookup and the use of it.
CONSTANTS
  a = a
  b = b
  Own = Own
  Null = Null
  Hosts <- TwoHosts
  Destinations <- TwoHosts
  Announcers <- Others
  Num_Entries = 2
  Max_Retries = 2
SPECIFICATION Spec
INVARIANT FrameToDestination
CHECK_DEADLOCK FALSE

\* A frame that the MAC reports as bad stops the program.
CONSTANTS
  icmp = icmp
  udp = udp
  Net_Max_Rx_Packets = 3
  AppTasks <- OneTask
  FrameErrors <- AnyFrame
SPECIFICATION Spec
INVARIANT EnqueueAssertion
CHECK_DEADLOCK FALSE

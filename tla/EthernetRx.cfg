\* Three descriptors, two tasks above layer 2, good and bad frames.
CONSTANTS
  icmp = icmp
  udp = udp
  Net_Max_Rx_Packets = 3
  AppTasks <- TwoTasks
  FrameErrors <- AnyFrame
SPECIFICATION FairSpec
INVARIANTS TypeOK RingIsWindow FlagsTellPlace ReceiverNeverStarves ReceptionNeverForgotten
PROPERTY FrameLeavesRing
CHECK_DEADLOCK FALSE

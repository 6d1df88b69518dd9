\* The receiver task, the ICMPv4 task and a UDP task send; three packets.
CONSTANTS
  receiver = receiver
  icmp = icmp
  udp = udp
  Net_Max_Tx_Packets = 3
  Tasks <- ThreeTasks
SPECIFICATION FairSpec
INVARIANTS RingIsWindow FlagsTellPlace OnePacketAtATime TransmissionNeverForgotten
PROPERTY TransmittedComesBack
CHECK_DEADLOCK FALSE

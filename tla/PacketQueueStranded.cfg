\* A packet that arrives behind another leaves one signal for the two.
CONSTANTS
  p1 = p1
  p2 = p2
  p3 = p3
  isr = isr
  task = task
  c1 = c1
  c2 = c2
  Null = Null
  Packets <- TwoPackets
  Producers <- TwoProducers
  Consumers <- OneConsumer
  TimeoutChoices <- Untimed
SPECIFICATION FairSpec
PROPERTY WaitsOnlyWhileEmpty
CHECK_DEADLOCK FALSE

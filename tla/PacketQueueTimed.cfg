\* One consumer whose calls may have a timeout, as a UDP end point has.
CONSTANTS
  p1 = p1
  p2 = p2
  p3 = p3
  isr = isr
  task = task
  c1 = c1
  c2 = c2
  Null = Null
  Packets <- ThreePackets
  Producers <- TwoProducers
  Consumers <- OneConsumer
  TimeoutChoices <- AnyCall
SPECIFICATION FairSpec
INVARIANT ArmedWhileWaiting
PROPERTY TimedDequeueReturns
CHECK_DEADLOCK FALSE

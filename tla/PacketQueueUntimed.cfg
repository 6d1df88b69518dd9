\* Calls without timeout, as the receiver task, the ICMPv4 task and the Tx pool
\* make them; two consumers, as the free list of the Tx pool has.
CONSTANTS
  p1 = p1
  p2 = p2
  p3 = p3
  isr = isr
  task = task
  c1 = c1
  c2 = c2
  Null = Null
  Packets <- ThreePackets
  Producers <- TwoProducers
  Consumers <- TwoConsumers
  TimeoutChoices <- Untimed
SPECIFICATION Spec
INVARIANTS ListIsContents DequeuePost
PROPERTY ImplementsFifo
CHECK_DEADLOCK FALSE

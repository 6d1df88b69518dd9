\* Three slots, two byte values, two readers and two writers.
CONSTANTS
  r1 = r1
  r2 = r2
  isr = isr
  task = task
  Max_Num_Elements = 3
  Elements <- Bytes
  Readers <- TwoReaders
  Writers <- TwoWriters
SPECIFICATION FairSpec
INVARIANTS DataIsContents SlotsAccounted SignalsBacked NeverAllAsleep
PROPERTIES ImplementsFifo WriterGetsSlot
CHECK_DEADLOCK FALSE

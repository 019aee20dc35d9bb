CONSTANTS
  small = small
  urgent = urgent
  large = large
  Packets <- MCPackets
  Urgent <- MCUrgent
  Size <- MCSize
  MaxBytes = 3
  EntryOverhead = 1
  InlineLimit = 2
  MaxBatch = 2
  MaxSeq = 6
SPECIFICATION Spec
INVARIANTS EntriesBounded Accounting TypeOK
PROPERTIES KeysNeverReused IsAtomicFifo

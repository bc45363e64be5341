\* The threshold exceeds the capacity argument, so Cap = 3 is the raised one.
CONSTANTS
  Capacity = 2
  Threshold = 3
  ReadChunk = 2
  StagingSize = 2
  MaxRead = 2
  MaxSource = 5
SPECIFICATION LiveSpec
INVARIANTS TypeOK CapacityRespected InOrder HonestEnd CallbackContract
PROPERTIES ImplementsReadAhead DropTerminates ReadReturns

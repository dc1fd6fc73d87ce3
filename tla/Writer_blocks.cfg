SPECIFICATION FairWriterSpec
CONSTANTS
  Block = 3
  MaxAppend = 5
  MaxStream = 12
INVARIANTS
  WriterTypeOK
  FileIsPrefix
  NothingLost
  WholeBlocks
  WriterInv
PROPERTIES
  FileOnlyGrows
  CallsEnd
CHECK_DEADLOCK FALSE

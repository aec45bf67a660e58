\* The training pipeline: two calls of one content and one without a hash, with a channel of
\* one, batches of two, pages of one row and one fault.
CONSTANTS
  r1 = r1
  r2 = r2
  r3 = r3
  text = text
  Call = {r1, r2, r3}
  Content = {text}
  NoHash = NoHash
  ContentOf <- MCContentOf
  BufferCap = 1
  BatchSize = 2
  Threshold = 2
  ExportBatch = 1
  DeleteBatch = 1
  MaxFaults = 1
SPECIFICATION FairSpec
INVARIANTS
  DeletedIsArchived
  RecordedOnce
  ShutdownFlushes
PROPERTIES
  AcceptedIsSettled

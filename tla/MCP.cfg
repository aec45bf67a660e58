\* One service: a client and two calls of SyncTools, a channel
\* of one, two connections, one message of the service and one fault.
CONSTANTS
  c1 = c1
  s1 = s1
  s2 = s2
  Client = {c1}
  Syncer = {s1, s2}
  Init1 = Init1
  Note = Note
  NoOne = NoOne
  None = None
  IdOf <- MCIdOf
  ChanCap = 1
  MaxConn = 2
  MaxNotes = 1
  MaxFaults = 1
SPECIFICATION FairSpec
INVARIANTS
  AnswersAreOwn
  AnswerIsSomewhere
  UsesGreeted
PROPERTIES
  NoConnectionReplaced
  UnansweredIsDropped
\* A request that has ended is not repeated, and an upstream call may never return.
CHECK_DEADLOCK FALSE

CONSTANTS
  MaxSegs = 3
  MaxGen = 2
  JournalCap = 3
  GapCap = 1
  QueueCap = 1
SPECIFICATION Spec
INVARIANTS
  TypeOK
  UnreadIsJournaled
  ReceiverBoundedByJournal
  FinalOffsetAgrees
PROPERTY
  ImplementsOrderedDelivery
CHECK_DEADLOCK FALSE

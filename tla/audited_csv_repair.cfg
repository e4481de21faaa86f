\* One retry is enough for an event of an earlier attempt to survive to the end.
SPECIFICATION AuditSpec
CONSTANTS
  MaxRetries = 1
  RecursionLimits = {16}
  Delimiters <- MCDelimiters
  Encodings <- MCEncodings
  RowRepairs <- MCRowRepairs
  Sources <- MCSources
  Proposals <- MCProposals
  None = None
  Ill = Ill
  Previous = Previous
INVARIANTS
  AuditTypeOK
  AnswerIsOnRecord
  RecordedSuccessIsReal
  EventsHappened
  HealthyLeavesNoTrace
  OpenRunIsOnRecord
PROPERTIES
  AuditSettles
\* A finished invocation stops.
CHECK_DEADLOCK FALSE

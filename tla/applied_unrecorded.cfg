\* Abort at the prompt of the second attempt, after the first was applied.
SPECIFICATION AuditSpec
CONSTANTS
  MaxRetries = 1
  RecursionLimits = {16}
  Delimiters <- MCDelimiters
  Encodings <- MCEncodings
  RowRepairs <- MCRowRepairs
  Sources <- MCSources
  Proposals <- MCProposals
  None = None
  Ill = Ill
  Previous = Previous
INVARIANT AppliedIsOnRecord
CHECK_DEADLOCK FALSE

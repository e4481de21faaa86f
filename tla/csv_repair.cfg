\* max_retries as production leaves it (DEFAULT_MAX_RETRIES); a superstep budget
\* that ends in the middle of the second attempt, and exactly the one that the
\* longest run needs.
SPECIFICATION FairSpec
CONSTANTS
  MaxRetries = 2
  RecursionLimits = {15, 22}
  Delimiters <- MCDelimiters
  Encodings <- MCEncodings
  RowRepairs <- MCRowRepairs
  Sources <- MCSources
  Proposals <- MCProposals
  None = None
  Ill = Ill
  Previous = Previous
INVARIANTS
  TypeOK
  WritesApproved
  SuccessIsVerified
  EvidenceDecides
  RightExecutor
  NeverOutOfSteps
PROPERTIES
  RejectionIsFinal
  Termination
  ImplementsGate
\* A finished invocation stops.
CHECK_DEADLOCK FALSE

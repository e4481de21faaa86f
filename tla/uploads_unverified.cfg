\* A repair that was rejected or not verified in the end may be uploaded.
SPECIFICATION ProcessSpec
CONSTANTS
  MaxRetries = 1
  RecursionLimits = {14}
  Delimiters <- MCDelimiters
  Encodings <- MCEncodings
  RowRepairs <- MCRowRepairs
  Sources <- MCSources
  Proposals <- MCProposals
  None = None
  Ill = Ill
  Previous = Previous
INVARIANTS
  UploadsOnlySuccesses
CHECK_DEADLOCK FALSE

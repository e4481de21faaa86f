SPECIFICATION ProcessSpec
CONSTANTS
  MaxRetries = 1
  RecursionLimits = {14}
  Delimiters <- MCDelimiters
  Encodings <- MCEncodings
  RowRepairs <- MCRowRepairs
  Sources <- MCSources
  Proposals <- MCProposals
  None = None
  Ill = Ill
  Previous = Previous
INVARIANTS
  ProcessTypeOK
  UploadsAreApprovedAndRecorded
  DamagedSourceStaysHome
  JobHasItsBlob
  ExitCodeHasGrounds
PROPERTIES
  CommandEnds
\* A command that has exited stops.
CHECK_DEADLOCK FALSE

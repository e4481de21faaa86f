\* Row repairs the LLM made up reach the human where the detector has none.
SPECIFICATION Spec
CONSTANTS
  MaxRetries = 0
  RecursionLimits = {10}
  Delimiters <- MCDelimiters
  Encodings <- MCEncodings
  RowRepairs <- MCRowRepairs
  Sources <- MCSources
  Proposals <- MCProposals
  None = None
  Ill = Ill
  Previous = Previous
INVARIANTS
  RowsComeFromDetector
CHECK_DEADLOCK FALSE

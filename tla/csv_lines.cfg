SPECIFICATION Spec
CONSTANTS
  Delimiters <- MCDelimiters
  Sniffable <- MCSniffable
  Encodings <- MCEncodings
  RowRepairs <- MCRowRepairs
  Invisible = Invisible
  Quoted = Quoted
  None = None
  MaxPreamble = 2
  Confusable <- MCConfusable
  Fallback = "cp1252"
  Sources <- MCSources
  Guesses <- MCGuesses
  FixedLines <- MCFixedLines
  OtherOutputs <- MCOtherOutputs
INVARIANTS
  TypeOK
  ReportConsistent
  MixedHasEvidence
  EvidenceStillDecides
  EvidenceRepairs
  RowsSurvive
  VerifiedIsHealthy
\* The attempt ends.
CHECK_DEADLOCK FALSE

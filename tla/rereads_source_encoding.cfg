SPECIFICATION Spec
CONSTANTS
  Delimiters <- MCDelimiters
  Sniffable <- MCSniffable
  Encodings <- MCEncodings
  RowRepairs <- MCRowRepairs
  Invisible = Invisible
  Quoted = Quoted
  None = None
  MaxPreamble = 2
  Confusable <- MCConfusable
  Fallback = "cp1252"
  Sources <- MCUtf16Sources
  Guesses <- MCGuesses
  FixedLines <- MCFixedLines
  OtherOutputs <- MCOtherOutputs
INVARIANT EvidenceRepairVerifies
\* The attempt ends.
CHECK_DEADLOCK FALSE

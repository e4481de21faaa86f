\* A cast that was never written is verified against the source.
SPECIFICATION Spec
CONSTANTS
  Names <- MCNames
  Similarity <- MCSimilarity
  Baselines <- MCBaselines
  Files <- MCFiles
  MaxInvocations = 1
  None = None
INVARIANTS
  SuccessMeansWritten
CHECK_DEADLOCK FALSE

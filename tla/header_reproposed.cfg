\* A rejected header assignment is proposed again.
SPECIFICATION Spec
CONSTANTS
  Names <- MCNames
  Similarity <- MCSimilarity
  Baselines <- MCBaselines
  Files <- MCFiles
  MaxInvocations = 2
  None = None
INVARIANTS
  NeverProposedAgain
CHECK_DEADLOCK FALSE

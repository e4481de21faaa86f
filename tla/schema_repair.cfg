\* Two invocations of one episode: what the first one's human refused matters
\* in the second.
SPECIFICATION Spec
CONSTANTS
  Names <- MCNames
  Similarity <- MCSimilarity
  Baselines <- MCBaselines
  Files <- MCFiles
  MaxInvocations = 2
  None = None
INVARIANTS
  TypeOK
  WritesApproved
  OperationsDisjoint
  SuccessRestoresColumns
  SuccessHoldsOnDisk
  RefusedOnce
  HistoryTellsTruth
  MirrorFollows
PROPERTIES
  InvocationsEnd
\* An episode may be left alone after any invocation.
CHECK_DEADLOCK FALSE

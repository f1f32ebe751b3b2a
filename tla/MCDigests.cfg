\* The two canonical algorithms, the empty message and abc.
CONSTANTS
  Side = 8
  PerfectCube <- MCPerfectCube
  Messages <- MCTwoWords
  Parameters <- MCCanonical
  Altered <- MCAltered
  Observers <- MCSilent
SPECIFICATION Spec
INVARIANTS
  KnownAnswers

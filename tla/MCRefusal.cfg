\* A configuration that validation accepts and absorption refuses.
CONSTANTS
  Side = 8
  PerfectCube <- MCPerfectCube
  Messages <- MCEmpty
  Parameters <- MCRefusals
  Altered <- MCAltered
  Observers <- MCSilent
SPECIFICATION Spec
INVARIANTS
  ValidatedRuns

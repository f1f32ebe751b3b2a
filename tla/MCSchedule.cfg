\* Reduced presets and odd parameter records, the empty message and two of two bytes.
CONSTANTS
  Side = 8
  PerfectCube <- MCPerfectCube
  Messages <- MCMessages
  Parameters <- MCReduced
  Altered <- MCAltered
  Observers <- MCObservers
SPECIFICATION FairSpec
INVARIANTS
  TypeOK
  SymbolSchedule
  ReservationExact
  TraceReplays
  CheckpointSchedule
  OrbitCoverage
  SystematicChannel
  ResearchAgrees
PROPERTIES
  WalkSpec
  Termination
  FinalizationBlind

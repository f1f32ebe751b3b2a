SPECIFICATION Spec
CONSTANTS
  s1 = s1
  s2 = s2
  s3 = s3
  States <- MCStates
  Jobs <- MCJobs
  ForwardOf <- MCForwardOf
  DigestBitsOf <- MCDigestBitsOf
  ForwardBitsOf <- MCForwardBitsOf
  ReturnSymbol <- MCReturnSymbol
  CubeDistance <- MCCubeDistance
  StateDistance <- MCStateDistance
INVARIANTS
  CountsExact
  LshExact
  StaysDivergent
  SeparationExact
  MergesExact
  ProbeExact
  FirstChain

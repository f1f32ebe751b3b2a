SPECIFICATION FairSpec
CONSTANTS
  s1 = s1
  s2 = s2
  d1 = d1
  d2 = d2
  d3 = d3
  AllPrefixes = 2
  LastSymbol = 2
  States <- MCStates
  Hashes <- MCHashes
  KnownBases <- MCKnownBases
  Requests <- MCRequests
  OptionSets <- MCOptionSets
  ByteBits = {0, 1}
  DigestBytes = 2
  StateBytes = 2
  Digest <- MCDigest
  FoldbackFrom <- MCFoldbackFrom
  FoldbackState <- MCFoldbackState
  Fingerprint <- MCFingerprint
  DigestOf <- MCDigestOf
INVARIANTS
  PassedOverInVain
  SharedForward
  BeamFull
  BestOfAll
  FamilyShared
  ReportExact
PROPERTY Ends

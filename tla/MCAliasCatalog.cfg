SPECIFICATION FairSpec
CONSTANTS
  s1 = s1
  s2 = s2
  s3 = s3
  AllPrefixes = 3
  LastSymbol = 3
  States <- MCStates
  Hashes <- MCHashes
  KnownBases <- MCKnownBases
  Requests <- MCRequests
  Fingerprint <- MCFingerprint
  Hardware = 2
  MaxThreads = 3
INVARIANT EachItemOnce
INVARIANT AllDoneWhenOver
INVARIANT NoneLostOrRepeated
PROPERTY ImplementsEnumeration
PROPERTY Ends

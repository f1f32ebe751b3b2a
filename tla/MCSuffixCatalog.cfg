\* Two prefixes, three symbols, up to three threads.
SPECIFICATION Spec
CONSTANTS
  s1 = s1
  s2 = s2
  s3 = s3
  AllPrefixes = 2
  LastSymbol = 2
  Hardware = 2
  MaxThreads = 3
  States <- MCStates
  Hashes <- MCHashes
  KnownBases <- MCKnownBases
  Requests <- MCRequests
  Fingerprint <- MCFingerprint
INVARIANTS
  TotalExact

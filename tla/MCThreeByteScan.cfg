\* Three symbols, fingerprints of two binary digits, two threads by default.
SPECIFICATION Spec
CONSTANTS
  Radix = 3
  Delta = 1
  DigitBase = 2
  Passes = 2
  Hardware = 2
  MaxThreads = 3
  Hashes <- MCHashes
  Fingerprint <- MCFingerprint
  OptionRecords <- MCOptions
INVARIANTS
  SlotsFilled
  Sorted
  SummaryExact

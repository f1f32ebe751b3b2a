\* Sizes up to 2: the third byte is refused.
CONSTANTS
  h1 = h1
  h2 = h2
  t1 = t1
  t2 = t2
  Objects <- MCObjects
  AlgorithmOf <- MCAlgorithmOf
  Threads <- MCThreads
  Chunks <- MCChunks
  MaxSize = 2
  Compute <- MCCompute
SPECIFICATION HasherSpec
PROPERTY
  ImplementsOracle

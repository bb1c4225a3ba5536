SPECIFICATION Spec
CONSTANTS
  HighWater = 3
  MaxBuffer = 4
  MaxWindow = 2
  Overlap = 1
  Rate = 1
  MinNew = 2
  MinBuffer = 2
  Chunks <- MCChunks
  Ends <- MCEnds
  MaxConfigs = 2
  MaxChunks = 3
  MaxCommits = 2
INVARIANT ModelIsGivenBack

SPECIFICATION Spec
CONSTANTS
  HighWater = 320000
  MaxBuffer = 480000
  MaxWindow = 160000
  Overlap = 32000
  Rate = 160
  Chunks <- MCChunks
  Ends <- MCEnds
  Keeps <- MCKeeps
  MaxFed = 620000
CHECK_DEADLOCK FALSE
INVARIANTS
  TypeOK
  NoAudioCommittedTwice
  FullWindowMovesOn
PROPERTY
  OnlyCommittedAudioLeaves

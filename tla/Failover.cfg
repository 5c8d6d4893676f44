SPECIFICATION LiveSpec
CONSTANTS
  n1 = n1
  n2 = n2
  n3 = n3
  w1 = w1
  w2 = w2
  NoNode = NoNode
  NoWrite = NoWrite
  Nodes <- ThreeNodes
  Writes <- TwoWrites
  Ahead = 1
  MaxFaults = 3
INVARIANTS
  UniqueIds
PROPERTIES
  EverywhereForever
  CatchesUp
\* the system rests when every write is answered and every log is copied
CHECK_DEADLOCK FALSE

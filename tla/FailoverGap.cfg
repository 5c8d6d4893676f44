SPECIFICATION Spec
CONSTANTS
  n1 = n1
  n2 = n2
  n3 = n3
  w1 = w1
  w2 = w2
  NoNode = NoNode
  NoWrite = NoWrite
  Nodes <- ThreeNodes
  Writes <- TwoWrites
  Ahead = 1
  MaxFaults = 2
INVARIANT GapIsLoss
CHECK_DEADLOCK FALSE

SPECIFICATION Spec
CONSTANTS
  t1 = t1
  k1 = k1
  k2 = k2
  k3 = k3
  x = x
  y = y
  f = f
  g = g
  None = None
  Tasks <- OneTask
  Titles <- TwoTitles
  Keys <- TwoKeys
  Clients <- ThreeClients
  MaxVersion = 3
SYMMETRY Symmetry
PROPERTIES
  ImplementsTaskTable
  NoResurrection
  VersionsCount

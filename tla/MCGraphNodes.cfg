CONSTANTS
  NodeIndex = {"actors"}
  LinkIndex = {"plays"}
  n1 = n1
  n2 = n2
  n3 = n3
  NodeId = {n1, n2, n3}
  LinkId = {1}
  short = short
  long = long
  Text = {short, long}
  TextLen <- MCTextLen
  MaxPage = 6
  MaxCount = 4
  MayMoveFirst = FALSE
SPECIFICATION Spec
INVARIANTS
  TypeOK
  CountsCover
  FileSound
  LinkDeathLosesNothing
PROPERTIES
  RefinesGraph
SYMMETRY NodeSymmetry

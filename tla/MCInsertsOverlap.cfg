CONSTANTS
  NodeIndex = {"actors"}
  LinkIndex = {}
  n1 = n1
  n2 = n2
  w1 = w1
  w2 = w2
  o1 = o1
  o2 = o2
  o3 = o3
  short = short
  long = long
  NodeId = {n1, n2}
  LinkId = {}
  Text = {short, long}
  TextLen <- MCTextLen
  MaxPage = 5
  MaxCount = 9
  MayMoveFirst = FALSE
  Writer = {w1, w2}
  Reader = {}
  Overlap = TRUE
  MayDie = FALSE
  Name = "actors"
  Start <- MCEmpty
SPECIFICATION SpecInserts
INVARIANTS
  AnsweredThere
CHECK_DEADLOCK FALSE

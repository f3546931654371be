CONSTANTS
  NodeIndex = {"actors", "movies"}
  LinkIndex = {"plays"}
  n1 = n1
  NodeId = {n1}
  LinkId = {1, 2}
  short = short
  long = long
  Text = {short, long}
  TextLen <- MCTextLen
  MaxPage = 6
  MaxCount = 4
  MayMoveFirst = FALSE
  NoFilter = NoFilter
  Gone = Gone
  Patterns <- MCPatterns
SPECIFICATION Spec
INVARIANTS
  SelectExact
  PagesOwned
  RefsNameLinks
  LinkSelectExact

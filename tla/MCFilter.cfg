CONSTANTS
  part = part
  whole = whole
  other = other
  Attr = {"born", "name"}
  Numeric = {"born"}
  Number = {1, 2, 3}
  Text = {part, whole, other}
  Contains <- MCContains
  NoFilter = NoFilter
  Filters <- MCFilters
SPECIFICATION Spec
INVARIANTS
  SelectedSatisfy
  LeftOutFail
CHECK_DEADLOCK FALSE

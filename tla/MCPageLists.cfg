CONSTANTS
  MaxPage = 6
  Kind = {"INDEX", "NODE"}
  small = small
  large = large
  Chunk = {large}
  Size <- MCSize
SPECIFICATION Spec
INVARIANTS
  FreeListExact
  ListsExact
  LinksMutual
  IndexListReachable
  PagesAccounted
  TruncationExact
  FewFreeAtRest
PROPERTIES
  ShrinkEnds

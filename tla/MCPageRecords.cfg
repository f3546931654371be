CONSTANTS
  MaxPage = 4
  Kind = {"INDEX", "NODE"}
  small = small
  large = large
  Chunk = {small, large}
  Size <- MCSize
SPECIFICATION Spec
INVARIANTS
  TypeOK
  SpaceExact
  SavedAtRest
PROPERTIES
  RefinesRecordLists
  ShrinkAgrees

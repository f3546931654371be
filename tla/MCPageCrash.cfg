CONSTANTS
  MaxPage = 4
  Kind = {"INDEX", "NODE"}
  r1 = r1
  r2 = r2
  r3 = r3
  r4 = r4
  Chunk = {r1, r2, r3, r4}
  Size <- MCSize
  MaxKills = 2
SPECIFICATION Spec
INVARIANTS
  Kept
  FreePagesFree
  LeaksBounded
  PlansAgree
SYMMETRY RecordSymmetry
CHECK_DEADLOCK FALSE

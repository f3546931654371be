CONSTANTS
  c1 = c1
  c2 = c2
  Client = {c1, c2}
  Listener = listener
  FdLimit = 2
  AnswerUnits = {1, 3}
  BufUnits = 2
  MaxSent <- MCMaxSent
SPECIFICATION Spec
INVARIANTS
  TypeOK
  InStep
  NoMutualWait
  RanInOrder
PROPERTIES
  WaitingEnds
  ChildrenEnd
CHECK_DEADLOCK FALSE

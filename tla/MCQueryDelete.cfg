CONSTANTS
  db = db
  longdb = longdb
  actors = actors
  plays = plays
  born = born
  title = title
  longest = longest
  d1 = d1
  d2 = d2
  FileName = {db, longdb}
  Name = {actors, plays, born, title, longest}
  NameLen <- MCNameLen
  Datum = {d1, d2}
  Null = Null
  Undefined = Undefined
  Queries <- MCQueries
SPECIFICATION Spec
INVARIANTS
  DeleteObeys
CHECK_DEADLOCK FALSE

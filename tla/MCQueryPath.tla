---------------------------- MODULE MCQueryPath -----------------------------
(* Instances of QueryPath for TLC: each production of the grammar, in files *)
(* and indexes with short names and with names that fill their fields.      *)
EXTENDS QueryPath

CONSTANTS db, longdb, actors, plays, born, title, longest, d1, d2

MCNameLen == [n \in FileName \cup Name |->
                IF n \in {longdb, longest} THEN 16 ELSE 6]

Value(t, d) == [type |-> t, val |-> d]
Cond(n, c, d) == [name |-> n, cmp |-> c, val |-> Value("INT", d)]
Attrs == <<[name |-> born, type |-> "INT"], [name |-> title, type |-> "STRING"]>>

MCFilters ==
  {Null, Cond(born, "GT", d1)}
    \cup {[op |-> op, left |-> Cond(born, "GT", d1), right |-> Cond(title, "EQ", d2)] :
            op \in {"AND", "OR"}}

MCLevels ==
  LET level == [name : {actors, plays}, filter : MCFilters]
  IN  [{1} -> level] \cup [1 .. 2 -> level]
        \cup {<<[name |-> actors, filter |-> f], [name |-> actors, filter |-> Null],
                [name |-> actors, filter |-> f]>> : f \in MCFilters}

ShortQueries(file) ==
  [ask : {"insert node index"}, file : {file}, name : {actors, plays, longest},
   attrs : {SubSeq(Attrs, 1, 1), Attrs, Attrs \o Attrs}]
  \cup [ask : {"insert link index"}, file : {file}, name : {actors, plays, longest}]
  \cup [ask : {"insert node"}, file : {file}, name : {actors, longest}, id : {Null, 7},
        values : {<<Value("INT", d1)>>, <<Value("INT", d1), Value("STRING", d2)>>,
                  <<Value("INT", d1), Value("STRING", d2), Value("BOOL", d1)>>}]
  \cup [ask : {"insert link"}, file : {file}, name : {plays},
        link : [from_type : {1}, from : {2}, to_type : {3}, to : {4}]]
  \cup [ask : {"select indexes"}, file : {file}]
  \cup [ask : {"select"}, file : {file}, levels : MCLevels]
  \cup [ask : {"update"}, file : {file}, name : {actors},
        set : [node_id : {7}, attr_name : {born, title}, new_value : {Value("INT", d2)}]]
  \cup [ask : {"delete node", "delete link"}, file : {file}, name : {actors}, id : {7}]
  \cup [ask : {"delete index"}, file : {file}, name : {actors}]

MCQueries ==
  ShortQueries(db)
    \cup [ask : {"insert link index"}, file : {longdb}, name : {plays}]
    \cup [ask : {"select"}, file : {longdb}, levels : {<<[name |-> plays, filter |-> Null]>>}]
=============================================================================

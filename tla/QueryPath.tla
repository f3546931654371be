----------------------------- MODULE QueryPath ------------------------------
(***************************************************************************)
(* The way of a query from the grammar to the function of schema.c that    *)
(* runs it: the parser's actions build a tree (parser.y, ast.c), the       *)
(* client copies it into messages (converter.c), the server turns these    *)
(* into a query_t (query_constructor.c) and exec calls (query.c).          *)
(*                                                                         *)
(* A query is what the user means, a record of the parts that a production *)
(* of the grammar has.  Names are abstract, with a length: they travel in  *)
(* fields of 16 bytes.  Of the data base only the index records are kept;  *)
(* what the calls do to nodes and links is in GraphStore and GraphQuery.   *)
(***************************************************************************)
EXTENDS Integers, Sequences, SequencesExt

CONSTANTS
  FileName,   \* names of data bases
  Name,       \* names of indexes and attributes
  NameLen,    \* the lengths of all of them
  Datum,      \* values of attributes
  Null,       \* the null pointer
  Undefined,  \* a pointer that was never assigned: whatever the memory held
  Queries     \* bound: the queries that the runs ask

NAME_FIELD == 16
ASSUME NameAssumption == NameLen \in [FileName \cup Name -> Nat \ {0}]
\* The parser rejects longer names, though not longer names of files.
ASSUME LengthAssumption == \A n \in Name : NameLen[n] <= NAME_FIELD

VARIABLES
  query,    \* what the user has typed
  tree,     \* the client's ast
  message,  \* the Ast the server unpacks
  q,        \* its query_t
  call,     \* the call that exec makes
  indexes,  \* the index records, [file, name, kind, attrs]
  pc

vars == <<query, tree, message, q, call, indexes, pc>>

-----------------------------------------------------------------------------
(* ast.c: the nodes of the tree.                                           *)

NewNode(type, left, right, v_type, value) ==
  [type |-> type, left |-> left, right |-> right, v_type |-> v_type, value |-> value]

NewFilenameNode(file, body) == NewNode("FILENAME_N", body, Null, "NAME", file)
NewInsertNode(index, target, body) ==
  NewNode("INSERT_N", index, body, "INSERT_TARGET", target)
NewSelectNode(index, body) == NewNode("SELECT_N", index, body, "NONE", Null)
NewDeleteNode(index, body) == NewNode("DELETE_N", index, body, "NONE", Null)
NewUpdateNode(index, set) == NewNode("UPDATE_N", index, Null, "SET", set)
NewIndexNode(name, attrs) == NewNode("INDEX_N", attrs, Null, "NAME", name)
NewFilterNode(logic, inner) == NewNode("FILTER_N", logic, inner, "NONE", Null)
NewLogicalNode(l, r, op) == NewNode("LOGICAL_N", l, r, "LOGICAL_OP", op)
NewConditionalNode(name, cmp, val) == NewNode("CONDITIONAL_N", name, val, "CMP", cmp)
NewNameNode(name) == NewNode("NAME_N", Null, Null, "NAME", name)
NewLinkNode(link) == NewNode("LINK_N", Null, Null, "LINK", link)
NewValNode(attr) == NewNode("VAL_N", Null, Null, "ATTR", attr)
NewNodeNode(values, id) ==
  IF id = Null THEN NewNode("NODE_N", values, Null, "NONE", Null)
  ELSE NewNode("NODE_N", values, Null, "CNT", id)

\* new_attr_node copies a name without its end: the memory behind may go on.
NewAttrNode(attr, tail) ==
  NewNode("ATTR_DESC_N", Null, Null, "ATTR_DESC", attr @@ [tail |-> tail])

ListInit(val) == NewNode("LIST_N", val, Null, "CNT", 1)
AddToList(val, list) == NewNode("LIST_N", val, list, "CNT", list.value + 1)

\* Mistake: the list is built as if the grammar recursed on the left.
ListOfReversed(vals) == FoldLeft(LAMBDA list, v : AddToList(v, list), ListInit(vals[1]), Tail(vals))

\* attr_list and element_list recurse on the right.
ListOf(vals) == FoldRight(AddToList, Front(vals), ListInit(Last(vals)))

(* parser.y: the actions of the productions.                               *)

Element(attr) == NewValNode(attr)

Operation(f) ==
  LET compare(c) == NewConditionalNode(NewNameNode(c.name), c.cmp, Element(c.val))
  IN  IF "op" \notin DOMAIN f THEN compare(f)
      ELSE NewLogicalNode(compare(f.left), compare(f.right), f.op)

\* Mistake: an inner level comes without the filter beside it.
SelectBodyInnerOnly(levels) ==
  LET body[k \in DOMAIN levels] ==
        LET index == NewIndexNode(levels[k].name, Null)
            filter == IF levels[k].filter = Null THEN Null ELSE Operation(levels[k].filter)
        IN  NewSelectNode(index,
              IF k < Len(levels) THEN NewFilterNode(Null, body[k + 1])
              ELSE IF filter = Null THEN Null
              ELSE NewFilterNode(filter, Null))
  IN  body[1]

\* select_body: each level with its filter, its inner level, both or neither.
SelectBody(levels) ==
  LET body[k \in DOMAIN levels] ==
        LET index == NewIndexNode(levels[k].name, Null)
            filter == IF levels[k].filter = Null THEN Null ELSE Operation(levels[k].filter)
        IN  NewSelectNode(index,
              IF k = Len(levels) /\ filter = Null THEN Null
              ELSE NewFilterNode(filter, IF k < Len(levels) THEN body[k + 1] ELSE Null))
  IN  body[1]

InsertBody(u, tail) ==
  CASE u.ask = "insert node index" ->
         NewInsertNode(NewIndexNode(u.name, ListOf([i \in DOMAIN u.attrs |-> NewAttrNode(u.attrs[i], tail)])),
                       "I_INDEX", Null)
    [] u.ask = "insert link index" -> NewInsertNode(NewIndexNode(u.name, Null), "I_INDEX", Null)
    [] u.ask = "insert node" ->
         NewInsertNode(NewIndexNode(u.name, Null), "I_NODE",
                       NewNodeNode(ListOf([i \in DOMAIN u.values |-> Element(u.values[i])]), u.id))
    [] u.ask = "insert link" ->
         NewInsertNode(NewIndexNode(u.name, Null), "I_LINK", NewLinkNode(u.link))

\* delete_body makes the same of a node and of a link.
DeleteBody(u) ==
  NewDeleteNode(NewIndexNode(u.name, Null),
                IF u.ask = "delete index" THEN Null
                ELSE NewValNode([type |-> "INT", val |-> u.id]))

Tree(u, tail) ==
  NewFilenameNode(u.file,
    CASE u.ask \in {"insert node index", "insert link index", "insert node", "insert link"} ->
           InsertBody(u, tail)
      [] u.ask = "select indexes" -> NewSelectNode(Null, Null)
      [] u.ask = "select" -> SelectBody(u.levels)
      [] u.ask = "update" -> NewUpdateNode(NewIndexNode(u.name, Null), u.set)
      [] u.ask \in {"delete node", "delete link", "delete index"} -> DeleteBody(u))

-----------------------------------------------------------------------------
(* converter.c.                                                            *)

\* node_types has no entry for ATTR_DESC_N, which leaves a 0 there.
NodeType(type) == IF type = "ATTR_DESC_N" THEN "FILENAME_N" ELSE type

\* A message has a field for each type of value, and one of them is set.
Field(v_type) ==
  CASE v_type = "NAME" -> "name" [] v_type = "INSERT_TARGET" -> "target"
    [] v_type = "SET" -> "set"   [] v_type = "ATTR" -> "attr"
    [] v_type = "CMP" -> "cmp"   [] v_type = "LOGICAL_OP" -> "l_op"
    [] v_type = "LINK" -> "link" [] v_type = "CNT" -> "cnt"
    [] v_type = "ATTR_DESC" -> "attr_type" [] v_type = "NONE" -> "none"

RECURSIVE ConvertNode(_)
ConvertNode(node) ==
  IF node = Null THEN Null
  ELSE [left |-> ConvertNode(node.left), right |-> ConvertNode(node.right),
        type |-> NodeType(node.type), v_type |-> node.v_type,
        val |-> [f \in {Field(node.v_type)} |-> node.value]]

-----------------------------------------------------------------------------
(* query_constructor.c.                                                    *)

\* Names as strcmp and open see them.  A name that fills its field has no end
\* of its own: what comes next in memory is taken to belong to it.
\* index_t: the kind of the index follows, I_NODE = 0 or I_LINK = 1.
SeenIndex(ix) ==
  [name |-> ix.name, tail |-> NameLen[ix.name] >= NAME_FIELD /\ ix.kind = "I_LINK"]

\* query_t: the first 16 bytes of the file's name stay, and q_type follows.
\* ADD is 0 and ends the name; another type is one more character of it.
SeenFile(file, q_type) ==
  [name |-> file, cut |-> NameLen[file] > NAME_FIELD,
   tail |-> IF NameLen[file] < NAME_FIELD THEN "ADD" ELSE q_type]

\* get_first_index.
GetIndexNamed(file, name) ==
  LET hits == {ix \in indexes : ix.file = file /\ SeenIndex(ix) = [name |-> name, tail |-> FALSE]}
  IN  IF hits = {} THEN Null ELSE CHOOSE ix \in hits : TRUE

\* The elements of a list: as many as its first node says.
Elements(list, val(_)) ==
  LET from[k \in 1 .. list.val["cnt"]] == IF k = 1 THEN list ELSE from[k - 1].right
  IN  [k \in 1 .. list.val["cnt"] |-> val(from[k].left)]

ParseCond(c) ==
  [name |-> c.left.val["name"], cmp |-> c.val["cmp"], val |-> c.right.val["attr"]]

\* parse_log for two conditions (the rest: Filter).
ParseConds(c) ==
  IF c = Null THEN <<>>
  ELSE IF c.type = "LOGICAL_N" THEN <<ParseCond(c.right), ParseCond(c.left)>>
  ELSE <<ParseCond(c)>>

RECURSIVE ParseSel(_, _)
ParseSel(file, sel) ==
  IF sel = Null THEN <<>>
  ELSE LET level == [index |-> GetIndexNamed(file, sel.left.val["name"])]
       IN  IF sel.right = Null THEN <<[index |-> level.index, conds |-> <<>>]>>
           ELSE <<[index |-> level.index, conds |-> ParseConds(sel.right.left)]>>
                  \o ParseSel(file, sel.right.right)

NewIndex(file, name, attrs, kind) == [file |-> file, name |-> name, kind |-> kind, attrs |-> attrs]

\* norm_construct, one branch for each type of query.
ConstructSelect(file, ast) ==
  IF ast.left = Null
  THEN [q_type |-> "SELECT", target |-> "Q_INDEX", file |-> file, index |-> Null,
        body |-> Undefined]
  ELSE LET index == GetIndexNamed(file, ast.left.val["name"])
       IN  IF index.kind = "I_LINK"
           THEN [q_type |-> "SELECT", target |-> "Q_LINK", file |-> file, index |-> index,
                 body |-> Undefined]
           ELSE [q_type |-> "SELECT", target |-> "Q_NODE", file |-> file, index |-> index,
                 body |-> ParseSel(file, ast)]

ConstructInsert(file, ast) ==
  LET add == [q_type |-> "ADD", file |-> file]
      name == ast.left.val["name"]
  IN  IF ast.right = Null
      THEN add @@ [target |-> "Q_INDEX", body |-> Undefined,
                   index |-> IF ast.left.left = Null THEN NewIndex(file, name, <<>>, "I_LINK")
                             ELSE NewIndex(file, name,
                                           Elements(ast.left.left, LAMBDA a : a.val["attr_type"]),
                                           "I_NODE")]
      ELSE add @@ [index |-> GetIndexNamed(file, name)]
               @@ IF ast.val["target"] = "I_NODE"
                  THEN [target |-> "Q_NODE",
                        body |-> [id |-> IF ast.right.v_type = "CNT" THEN ast.right.val["cnt"]
                                         ELSE "clock",
                                  values |-> Elements(ast.right.left, LAMBDA a : a.val["attr"])]]
                  ELSE [target |-> "Q_LINK", body |-> ast.right.val["link"]]

ConstructUpdate(file, ast) ==
  [q_type |-> "SET", target |-> "Q_NODE", file |-> file,
   index |-> GetIndexNamed(file, ast.left.val["name"]), body |-> ast.val["set"]]

ConstructDelete(file, ast) ==
  [q_type |-> "DELETE", file |-> file, index |-> Undefined,
   target |-> IF ast.right = Null THEN "Q_INDEX" ELSE "Q_NODE",
   body |-> IF ast.right = Null THEN Undefined ELSE ast.right.val["attr"].val]

NormConstruct(ast) ==
  LET body == ast.left
      file(q_type) == SeenFile(ast.val["name"], q_type)
  IN  CASE body.type = "SELECT_N" -> ConstructSelect(file("SELECT"), body)
        [] body.type = "INSERT_N" -> ConstructInsert(file("ADD"), body)
        [] body.type = "UPDATE_N" -> ConstructUpdate(file("SET"), body)
        [] body.type = "DELETE_N" -> ConstructDelete(file("DELETE"), body)

\* exec.
Function(x) ==
  CASE x.q_type = "ADD" -> (CASE x.target = "Q_INDEX" -> "add_index"
                              [] x.target = "Q_NODE" -> "add_node"
                              [] x.target = "Q_LINK" -> "add_link")
    [] x.q_type = "SELECT" -> (CASE x.target = "Q_INDEX" -> "index_enumerate"
                                 [] x.target = "Q_NODE" -> "node_enumerate"
                                 [] x.target = "Q_LINK" -> "link_enumerate")
    [] x.q_type = "DELETE" -> (CASE x.target = "Q_INDEX" -> "delete_index_by_name"
                                 [] x.target = "Q_NODE" -> "delete_node_by_id"
                                 [] x.target = "Q_LINK" -> "delete_link_by_id")
    [] x.q_type = "SET" -> "set_node_attribute"

-----------------------------------------------------------------------------
Init ==
  /\ query = Null /\ tree = Null /\ message = Null /\ q = Null /\ call = Null
  /\ indexes = {}
  /\ pc = "prompt"

\* yyparse.
Parse ==
  /\ pc = "prompt"
  /\ \E u \in Queries, tail \in BOOLEAN : query' = u /\ tree' = Tree(u, tail)
  /\ pc' = "parsed"
  /\ UNCHANGED <<message, q, call, indexes>>

\* convert, and the message goes to the server.
Convert ==
  /\ pc = "parsed"
  /\ message' = ConvertNode(tree)
  /\ pc' = "sent"
  /\ UNCHANGED <<query, tree, q, call, indexes>>

SelectsNothing ==
  /\ message.left.type = "SELECT_N" /\ message.left.left # Null
  /\ GetIndexNamed(SeenFile(message.val["name"], "SELECT"),
                   message.left.left.val["name"]) = Null

Construct ==
  /\ pc = "sent"
  /\ ~ SelectsNothing
  /\ q' = NormConstruct(message)
  /\ pc' = "constructed"
  /\ UNCHANGED <<query, tree, message, call, indexes>>

\* norm_construct looks at the kind of the index it did not find.
ConstructDies ==
  /\ pc = "sent"
  /\ SelectsNothing
  /\ pc' = "dead"
  /\ UNCHANGED <<query, tree, message, q, call, indexes>>

\* Mistake: add_index does not look for an index of that name.
ExecTwice ==
  /\ pc = "constructed"
  /\ call' = [function |-> Function(q), file |-> q.file, index |-> q.index, body |-> q.body]
  /\ indexes' = IF Function(q) = "add_index" THEN indexes \cup {q.index} ELSE indexes
  /\ pc' = "called"
  /\ UNCHANGED <<query, tree, message, q>>

\* exec; add_index compares two fields of 16 bytes.
Exec ==
  /\ pc = "constructed"
  /\ call' = [function |-> Function(q), file |-> q.file, index |-> q.index, body |-> q.body]
  /\ indexes' =
       IF Function(q) = "add_index"
          /\ \A ix \in indexes : ix.file = q.file => SeenIndex(ix) # SeenIndex(q.index)
       THEN indexes \cup {q.index} ELSE indexes
  /\ pc' = "called"
  /\ UNCHANGED <<query, tree, message, q>>

\* The answer, and the next query.  The process does not survive a call with an
\* index that is not there, or with one that was never assigned; another
\* connection goes on.  (That the client keeps its tree is in Session.)
Prompt ==
  /\ pc \in {"called", "dead"}
  /\ pc' = "prompt"
  /\ query' = Null /\ message' = Null /\ q' = Null /\ call' = Null /\ tree' = Null
  /\ UNCHANGED indexes

Next == Parse \/ Convert \/ Construct \/ ConstructDies \/ Exec \/ Prompt

Spec == Init /\ [][Next]_vars

-----------------------------------------------------------------------------
(* What a query asks for, from the words of the query alone.               *)

AskedFile == [name |-> query.file, cut |-> FALSE, tail |-> "ADD"]
NamesIndex(ix, name) == ix \notin {Null, Undefined} /\ ix.name = name /\ ix.file = AskedFile

AsksFilter(conds, f) ==
  ToSet(conds) = IF f = Null THEN {} ELSE IF "op" \in DOMAIN f THEN {f.left, f.right} ELSE {f}

Deletes == query.ask \in {"delete node", "delete link", "delete index"}
LongFile == NameLen[query.file] >= NAME_FIELD

\* The call does what the query says: the function, the index, and every value,
\* name and id in its place, in lists of the length and the order they have;
\* names of attributes up to what may follow them.
Obeys ==
  LET Calls(f) == call.function = f /\ call.file = AskedFile
      On(f, name) == Calls(f) /\ (NamesIndex(call.index, name) \/ call.index = Null)
  IN  CASE query.ask = "insert node index" ->
             /\ Calls("add_index") /\ NamesIndex(call.index, query.name)
             /\ call.index.kind = "I_NODE"
             /\ [i \in DOMAIN call.index.attrs |->
                   [name |-> call.index.attrs[i].name, type |-> call.index.attrs[i].type]]
                  = query.attrs
        [] query.ask = "insert link index" ->
             /\ Calls("add_index") /\ NamesIndex(call.index, query.name)
             /\ call.index.kind = "I_LINK"
        [] query.ask = "insert node" ->
             /\ On("add_node", query.name)
             /\ call.body.values = query.values
             /\ call.body.id = IF query.id = Null THEN "clock" ELSE query.id
        [] query.ask = "insert link" -> On("add_link", query.name) /\ call.body = query.link
        [] query.ask = "select indexes" -> Calls("index_enumerate")
        [] query.ask = "select" ->
             LET name == query.levels[1].name
             IN  IF call.index.kind = "I_LINK" THEN On("link_enumerate", name)
                 ELSE /\ On("node_enumerate", name)
                      /\ Len(call.body) = Len(query.levels)
                      /\ \A k \in DOMAIN call.body :
                           /\ call.body[k].index # Null =>
                                NamesIndex(call.body[k].index, query.levels[k].name)
                           /\ AsksFilter(call.body[k].conds, query.levels[k].filter)
        [] query.ask = "update" -> On("set_node_attribute", query.name) /\ call.body = query.set
        [] query.ask = "delete node" ->
             On("delete_node_by_id", query.name) /\ call.body = query.id
        [] query.ask = "delete link" ->
             On("delete_link_by_id", query.name) /\ call.body = query.id
        [] query.ask = "delete index" -> On("delete_index_by_name", query.name)

\* Every query but DELETE comes down to the call it asks for, through a tree, a
\* message and a query_t.  Where the name of the file does not fit into its field
\* with an end, INSERT and SELECT go to different files, and nothing is claimed.
\* (parser.y, ast.c, converter.c, norm_construct, exec)
CallObeys == (pc = "called" /\ ~ Deletes /\ ~ LongFile) => Obeys

\* Contradicted: the grammar has DELETE for nodes, links and indexes, each in a
\* named index (parser.y:123-125).
DeleteObeys == (pc = "called" /\ Deletes /\ ~ LongFile) => Obeys

\* Whatever is inserted in whatever order, and of whichever kind, the index whose
\* insertion was answered is the one that its name leads to; but not a link index
\* whose name fills its field, though the parser lets it through (parser.y:139):
\* no query finds that one.  (add_index, get_first_index)
IndexesNamed ==
  \A ix \in indexes :
    GetIndexNamed(ix.file, ix.name) = ix
      <=> ~ (ix.kind = "I_LINK" /\ NameLen[ix.name] = NAME_FIELD)
=============================================================================

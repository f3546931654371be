------------------------------ MODULE Inserts -------------------------------
(***************************************************************************)
(* Insertions of nodes into one index by several server processes, and     *)
(* selections from it, taken apart into the reads and writes of the file   *)
(* that a query makes (query_constructor.c, query.c, schema.c, page.c).    *)
(*                                                                         *)
(* Every connection has a process of its own (server.c:71) and each query  *)
(* opens the file anew, without a lock: norm_construct reads the index     *)
(* record, exec reads page 0, and what they read is written back later.    *)
(* A step reads or writes one page; `file` is what is on disk, file.schema *)
(* being page 0.  A process may also be killed between any two steps.      *)
(***************************************************************************)
EXTENDS GraphStore

CONSTANTS
  Writer,    \* server processes that insert nodes
  Reader,    \* server processes that select them
  Overlap,   \* whether two insertions may be under way at a time
  MayDie,    \* whether a process may be killed while it works on a query
  Name,      \* the index
  Start      \* the files that the insertions may find

ASSUME SessionAssumption == IsFiniteSet(Writer) /\ Writer \cap Reader = {}
ASSUME OverlapAssumption == Overlap \in BOOLEAN /\ MayDie \in BOOLEAN
ASSUME IndexAssumption == Name \in NodeIndex

VARIABLES
  pc,        \* where the process is in its query, "idle" between queries
  index,     \* the index record norm_construct has read
  schema,    \* the schema init_db has read
  page,      \* a page held in memory, [num, page]; num 0 for none
  fresh,     \* the page get_free_page supplied, likewise
  node,      \* the node to insert
  answered,  \* ids for which "node successfully added" was answered
  next,      \* a reader: the page it reads next
  seen,      \* ... the ids it has found
  due,       \* ... the ids answered before it began
  early,     \* ... whether it read an index record ahead of the page it names
  begun,     \* the file when the insertion under way began
  torn       \* whether a process was killed with the file in such a state

Session == Writer \cup Reader
local == <<pc, index, schema, page, fresh, node>>
reading == <<next, seen, due, early>>
allVars == <<file, local, reading, answered, begun, torn>>

NewNodes == {[rec |-> "NODE", id |-> id, text |-> text, out |-> <<>>, in |-> <<>>] :
               id \in NodeId, text \in Text}
NoPageHeld == [num |-> 0, page |-> NoPage]

\* The record of the index as it is on disk, and the nodes found through it.
OnDisk == GetIndex(file, Name)
Found == {r.id : r \in Records(file, OnDisk.first)}

\* save_index has named a new first page that add_chunk is still to write.
FirstUnwritten == OnDisk.first # 0 /\ file.disk[OnDisk.first].type # "NODE"

-----------------------------------------------------------------------------
\* A list from page h to its end, of pages of one type, none of them twice.
ListAt(f, h, type) ==
  LET pages == PagesFrom(f.disk, h)
      last == Len(pages)
  IN  /\ pages \in Seq(Page) /\ last <= MaxPage /\ IsInjective(pages)
      /\ h = IF last = 0 THEN 0 ELSE pages[1]
      /\ \A i \in 1 .. last :
           /\ f.disk[pages[i]].type = type
           /\ f.disk[pages[i]].next = IF i = last THEN 0 ELSE pages[i + 1]

\* A file in which the queries before left the index, with nodes or without: what
\* GraphStore says of it, where it matters here.
Sound(f) ==
  LET first == GetIndex(f, Name).first
  IN  /\ f = [disk |-> f.disk, schema |-> f.schema]
      /\ f.disk \in [Page -> Header] /\ f.schema \in Schema
      /\ ListAt(f, f.schema.first_index, "INDEX")
      /\ \A r \in Indexes(f) : r.rec = "INDEX"
      /\ HasIndex(f, Name) /\ ListAt(f, first, "NODE")
      /\ \A r \in Records(f, first) : r.rec = "NODE"
      /\ \A a, b \in Slots(f, first) : At(f, a).id = At(f, b).id => a = b
      /\ ListAt(f, f.schema.free_page, "FREE")
      /\ Len(PagesFrom(f.disk, f.schema.free_page)) = f.schema.cnt_free
      /\ \A p \in Page :
           LET header == f.disk[p]
           IN  /\ header.type = "NONE" => header = NoPage
               /\ header.type # "NONE" => p <= f.schema.last_page_num
               /\ header.type = "FREE" =>
                    /\ header.chunks = <<>> /\ header.free_space = Capacity
                    /\ header.next # 0 => f.disk[header.next].type = "FREE"

ASSUME StartAssumption == \A f \in Start : Sound(f)

InitInserts ==
  /\ file \in Start
  /\ pc = [s \in Session |-> "idle"]
  /\ index = [s \in Session |-> NewIndex(Name)]
  /\ schema = [s \in Session |-> file.schema]
  /\ page = [w \in Writer |-> NoPageHeld]
  /\ fresh = [w \in Writer |-> NoPageHeld]
  /\ node = [w \in Writer |-> CHOOSE n \in NewNodes : TRUE]
  /\ answered = Found
  /\ next = [r \in Reader |-> 0]
  /\ seen = [r \in Reader |-> <<>>]
  /\ due = [r \in Reader |-> {}]
  /\ early = [r \in Reader |-> FALSE]
  /\ begun = file
  /\ torn = FALSE

-----------------------------------------------------------------------------
(* An insertion.                                                           *)

Goto(s, from, to) == pc[s] = from /\ pc' = [pc EXCEPT ![s] = to]

\* In a query.
Busy(s) == pc[s] \notin {"idle", "dead"}

\* norm_construct.  Bounds: a node is inserted once, and nothing is begun when
\* the file is full or a killed process has left it torn.
Construct(w) ==
  /\ Goto(w, "idle", "constructed")
  /\ ~ torn
  /\ Overlap \/ \A v \in Writer : ~ Busy(v)
  /\ Room(Cardinality(Writer))
  /\ \E n \in NewNodes \cap Record :
       /\ n.id \notin answered \cup {node[v].id : v \in {v \in Writer : Busy(v)}}
       /\ node' = [node EXCEPT ![w] = n]
  /\ index' = [index EXCEPT ![w] = OnDisk]
  /\ page' = [page EXCEPT ![w] = NoPageHeld]
  /\ fresh' = [fresh EXCEPT ![w] = NoPageHeld]
  /\ begun' = file
  /\ UNCHANGED <<file, schema, reading, answered, torn>>

\* exec: init_db.
Open(w) ==
  /\ Goto(w, "constructed", "opened")
  /\ schema' = [schema EXCEPT ![w] = file.schema]
  /\ UNCHANGED <<file, index, page, fresh, node, reading, answered, begun, torn>>

\* add_node looks whether the record fits into the first page of the list.
ReadFirst(w) ==
  LET first == index[w].first
  IN  /\ Goto(w, "opened",
              IF first # 0 /\ Fits(file.disk[first], node[w]) THEN "counting" ELSE "allocating")
      /\ first # 0 => file.disk[first].type # "NONE"
      /\ page' = [page EXCEPT
                    ![w] = IF first = 0 THEN NoPageHeld
                           ELSE [num |-> first, page |-> file.disk[first]]]
      /\ UNCHANGED <<file, index, schema, fresh, node, reading, answered, begun, torn>>

\* get_free_page: the page is read, and its successor on the free list is told.
TakePage(w) ==
  LET num == AllocNum(schema[w])
  IN  /\ Goto(w, "allocating", "saving")
      /\ num <= MaxPage
      /\ fresh' = [fresh EXCEPT
                     ![w] = [num |-> num,
                             page |-> [AllocPage(file.disk, schema[w])
                                         EXCEPT !.type = "NODE", !.prev = 0,
                                                !.next = page[w].num]]]
      /\ schema' = [schema EXCEPT ![w] = AllocSchema(file.disk, @)]
      /\ file' = [file EXCEPT !.disk = AllocDisk(@, schema[w])]
      /\ UNCHANGED <<index, page, node, reading, answered, begun, torn>>

\* Mistake: get_free_page does not save.
SavePage0Skipped(w) ==
  /\ Goto(w, "saving", IF page[w].num = 0 THEN "counting" ELSE "linking")
  /\ UNCHANGED <<file, index, schema, page, fresh, node, reading, answered, begun, torn>>

\* get_free_page ends with save.
SavePage0(w) ==
  /\ Goto(w, "saving", IF page[w].num = 0 THEN "counting" ELSE "linking")
  /\ file' = [file EXCEPT !.schema = schema[w]]
  /\ UNCHANGED <<index, schema, page, fresh, node, reading, answered, begun, torn>>

\* Mistake: the new page becomes the first one without the old one behind it.
LinkFirstUnlinked(w) ==
  /\ Goto(w, "linking", "counting")
  /\ fresh' = [fresh EXCEPT ![w].page.next = 0]
  /\ UNCHANGED <<file, index, schema, page, node, reading, answered, begun, torn>>

\* The header of the old first page, as it was read, goes back with its new
\* predecessor.  It says how many of the page's chunks count.
LinkFirst(w) ==
  LET held == page[w].page
      there == file.disk[page[w].num].chunks
  IN  /\ Goto(w, "linking", "counting")
      /\ file' = [file EXCEPT !.disk[page[w].num] =
                    [held EXCEPT !.prev = fresh[w].num,
                                 !.chunks = [i \in DOMAIN @ |->
                                               IF i \in DOMAIN there THEN there[i] ELSE @[i]]]]
      /\ UNCHANGED <<index, schema, page, fresh, node, reading, answered, begun, torn>>

Target(w) == IF fresh[w].num = 0 THEN page[w] ELSE fresh[w]

\* save_index.
CountNode(w) ==
  /\ Goto(w, "counting", "adding")
  /\ file' = SaveIndex(file, [index[w] EXCEPT !.first = Target(w).num, !.count = @ + 1])
  /\ UNCHANGED <<index, schema, page, fresh, node, reading, answered, begun, torn>>

\* Mistake: the header in memory counts a chunk too few.
AddChunkShort(w) ==
  /\ Goto(w, "adding", "idle")
  /\ file' = [file EXCEPT !.disk[Target(w).num] =
                [Target(w).page EXCEPT !.chunks = IF @ = <<>> THEN <<node[w]>> ELSE @]]
  /\ answered' = answered \cup {node[w].id}
  /\ UNCHANGED <<index, schema, page, fresh, node, reading, begun, torn>>

\* add_chunk, and the answer.
AddChunk(w) ==
  /\ Goto(w, "adding", "idle")
  /\ file' = Put(file, Target(w).num, Target(w).page, node[w])
  /\ answered' = answered \cup {node[w].id}
  /\ UNCHANGED <<index, schema, page, fresh, node, reading, begun, torn>>

-----------------------------------------------------------------------------
(* A selection.                                                            *)

\* parse_sel reads the index record.
Select(r) ==
  /\ Goto(r, "idle", "finding")
  /\ ~ torn
  /\ next' = [next EXCEPT ![r] = OnDisk.first]
  /\ seen' = [seen EXCEPT ![r] = <<>>]
  /\ due' = [due EXCEPT ![r] = answered]
  /\ early' = [early EXCEPT ![r] = FirstUnwritten]
  /\ UNCHANGED <<file, index, schema, page, fresh, node, answered, begun, torn>>

\* find reads one page.  Beyond the end of the file the header keeps what the
\* memory held, and what the search does from there on is undefined: here it
\* ends, or the process dies.
FindPage(r) ==
  LET p == next[r]
  IN  /\ pc[r] = "finding" /\ p # 0
      /\ seen' = [seen EXCEPT ![r] =
                    @ \o [i \in DOMAIN file.disk[p].chunks |-> file.disk[p].chunks[i].id]]
      /\ next' = [next EXCEPT ![r] = file.disk[p].next]
      /\ \/ UNCHANGED pc
         \/ file.disk[p].type = "NONE" /\ pc' = [pc EXCEPT ![r] = "dead"]
      /\ UNCHANGED <<file, index, schema, page, fresh, node, due, early, answered, begun, torn>>

AnswerSelect(r) ==
  /\ Goto(r, "finding", "found")
  /\ next[r] = 0
  /\ UNCHANGED <<file, index, schema, page, fresh, node, reading, answered, begun, torn>>

\* A killed selection is one that takes no further step.
Kill(w) ==
  /\ MayDie
  /\ Busy(w)
  /\ pc' = [pc EXCEPT ![w] = "dead"]
  /\ torn' = (torn \/ (pc[w] = "adding" /\ FirstUnwritten))
  /\ UNCHANGED <<file, index, schema, page, fresh, node, reading, answered, begun>>

Write(w) ==
  \/ Construct(w) \/ Open(w) \/ ReadFirst(w) \/ TakePage(w) \/ SavePage0(w)
  \/ LinkFirst(w) \/ CountNode(w) \/ AddChunk(w)

Read(r) == Select(r) \/ FindPage(r) \/ AnswerSelect(r)

NextInserts ==
  \/ \E w \in Writer : Write(w) \/ Kill(w)
  \/ \E r \in Reader : Read(r)

SpecInserts == InitInserts /\ [][NextInserts]_allVars

-----------------------------------------------------------------------------
\* A node whose insertion was answered stays to be found, as long as insertions
\* come one after the other: a process that is killed in one costs earlier
\* nodes nothing, except between save_index and add_chunk (schema.c:700-702).
AnsweredFound ==
  FirstUnwritten \/ answered \subseteq Found

\* Contradicted where insertions overlap: "node successfully added"
\* (schema.c:704) is not said of a node that is not there.
AnsweredThere ==
  (\A w \in Writer : pc[w] = "idle") => answered \subseteq Found

\* A selection that runs while nodes are inserted finds all nodes that were
\* answered before it began, each once, unless it read the index record in
\* that same window.
SelectionComplete ==
  \A r \in Reader :
    pc[r] = "found" => /\ early[r] \/ due[r] \subseteq ToSet(seen[r])
                       /\ IsInjective(seen[r])

\* Taken apart or as one step, an insertion is the same: from the end of one
\* query to the end of the next, the file makes the step InsertNode of
\* GraphStore, also in a file with pages that killed processes left behind.
committed == IF \E w \in Writer : Busy(w) THEN begun ELSE file

Whole == INSTANCE GraphStore WITH file <- committed

InsertsOneByOne ==
  [][\/ \E end \in End, text \in Text : Whole!InsertNode(end, text)
     \/ \E w \in Writer : pc[w] # "dead" /\ pc'[w] = "dead"]_committed
=============================================================================

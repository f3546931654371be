# Verification of the graph database

The program is a small graph database: a client parses queries, sends them over
a socket, and a server keeps indexes, nodes and links in one file of 4096-byte
pages. This directory holds TLA+ modules for the parts that keep state, TLC
runs over small instances of them, and proofs about the page store, insertions,
the sessions and the filter.

Run them with `tlc -config MCPageLists.cfg MCPageStore.tla` and so on, the
proofs with `tlapm PageStoreProofs.tla` and the other `*Proofs` modules.
`PROJECT.json` lists runs, mutations,
the lines each definition stands for, hazards and theorems.

## 1. Inventory of the system

| Component | Source | State | Operations |
|---|---|---|---|
| Page file | `server_dir/src/page.c` | the pages of the file; `schema_t` (first index page, free list, counters) | `get_free_page`, `free_page`, `add_chunk`, `delete_chunk`, `shrink`, `save` |
| Graph layer | `server_dir/src/schema.c` | index, node and link records in pages | `add_index`, `add_node`, `add_link`, `set_node_attribute`, `delete_*`, `*_enumerate` |
| Query dispatch | `server_dir/src/query.c` | none; opens and closes the file | `exec` |
| Query constructor | `server_dir/query_constructor.c` | none; reads index records | `norm_construct`, `parse_sel`, `parse_log` |
| Server | `server_dir/server.c` | one forked process per connection | accept, receive, answer |
| Client | `client_dir/client.c` | one query at a time | prompt, send, receive, print |
| Syntax tree, conversion, grammar, printer, wire format | rest of `client_dir`, `spec.proto` | the tree of one query | build, convert, print |

How they interact. The client builds a tree from one query, converts it to a
protobuf message and sends it; it then reads one answer. The server forks a
process per connection; this process reads a message, lets `norm_construct` turn
it into a `query_t` (which opens the file to read the index record the query
names), and lets `exec` run it (which opens the file again: `init_db` reads
`schema_t` from page 0 into memory). The graph layer calls the page file, and
both keep page numbers of each other: `schema_t.first_index` names the first
page of the index list, each index record names the first page of its list of
nodes or links, page headers link the pages of a list, and `schema_t.free_page`
heads the list of free pages. `save` writes `schema_t` back to page 0.

What is hard, and what makes each part correct:

* **Page file.** Allocation reuses free pages, freeing unlinks a page in the
  middle of a list, and `shrink` moves pages while it walks two lists that it
  changes. Correct if lists and free list are exact, links are mutual, counters
  and free space match the pages, the truncation cuts off no page in use, the
  saved schema is current when a query ends, and nobody who follows a list sees
  any of it.
* **Graph layer.** First page numbers and element counts are copies that must
  follow what the page file does; a node that grows may have to move; a link
  is written in three places (its own page and both nodes). Correct if every
  query changes the graph that queries find as it says, references lead to
  their links, and every page belongs to one index.
* **Processes.** Sessions share the file without a lock, may die between two
  writes, and exchange messages with a single `recv`. Correct if a query is
  atomic; the code does nothing to ensure this.
* **Query constructor and filter.** Pure translation, but of a tree by
  recursion over shared counters, with operators that it drops.

`PROJECT.json` lists each hazard at its line, with the properties that would be
violated if it went wrong, or are violated because it does. Some have none, with
the reason why.

## 2. Modules

```
PageFile              what a page holds, what each function of page.c writes
  PageStore           state machine: calls of page.c, shrink step by step
    PageStoreRefinement   PageStore implements RecordLists
      MCPageStore         instances for TLC
    PageFileProofs        lemmas about the operators of PageFile
    PageStoreProofs       inductive invariant of PageStore, theorems; what
                          following a list reaches
    PageContentProofs     lemmas about the content of a list
    PageRefinementProofs  PageStore implements RecordLists; shrink is Shrunk
  PageCrash           state machine: insertions and deletions write by write,
                      processes killed behind any write
    MCPageCrash           instance for TLC
  GraphStore          state machine: each query of schema.c that writes
    GraphStoreRefinement  GraphStore implements Graph
      MCGraphStore        instances for TLC
      GraphQuery          the queries that read, as operators on the file
        MCGraphQuery      instance for TLC
    Inserts           state machine: several processes insert and select,
                      access by access; INSTANCE GraphStore for the whole query
      MCInserts           instances for TLC
    GraphStoreProofs  lemmas about the operators of GraphStore
      InsertsProofs       inductive invariant of Inserts, theorems
Filter                state machine: a SELECT's filter, parsed and applied
  MCFilter            instance for TLC
  FilterProofs        inductive invariant and theorems
QueryPath             state machine: grammar, tree, message, query_t, call
  MCQueryPath         instance for TLC
Session               state machine: clients, listener, children, sockets
  MCSession           instance for TLC
  SessionProofs       inductive invariant and theorems
RecordLists           abstract: a collection of lists of records
Graph                 abstract: indexes, nodes with references, links
```

**PageFile** is a library of operators from the file and the schema before a
call to those after it, named after what the functions of `page.c` do:
`AllocNum/AllocPage/AllocDisk/AllocSchema` are `get_free_page`, `FreedDisk` and
`FreedSchema` are `free_page`, `WithChunk` and `WithoutChunk` are `add_chunk` and
`delete_chunk`, `Moved..` is one relocation of `shrink` and `Truncated..` its
end, `Shrunk` the whole of it. A record is an element of `Chunk` with a size in
bytes, so free space is counted as in the code. `page_header_t.this_page` is the
page's position and has no field. `SizeAssumption` says that a record fits into
an empty page: `add_chunk` does not check it.

**PageStore** has the file (`disk`), the schema in memory (`schema`) and in page
0 (`saved`), and the two local variables of `shrink` with a `pc`. Callers add
(`AddToHead`, `AddInNewHead`), rewrite (`Replace`) and delete records
(`DeleteOne`, `DeleteLast`); each is one step including the saves and the header
writes of the code. If `DeleteLast` makes `shrink` due, its loops follow with
one step per iteration. `Reopen` is the start of another query.

**RecordLists** is what callers rely on: a bag of lists of records, each step
adding, changing or removing one record. `PageStoreRefinement` maps each list of
pages to the sequence of its records; every step of `shrink` maps to a stutter.

**GraphStore** takes each query that `exec` dispatches as one step. An operator
per function (`AddNode`, `AddLinkToNode`, `AddLink`, `DeleteNodeById`, ...) takes
the file to the file, in the order of the calls in the code: `AddLink` holds the
page of the link while both nodes are rewritten or moved, then saves the index,
then writes the page. Records carry what the code reads back: count and first
page of an index, text and references of a node, both ends of a link. One index
name stands for name and type id; a node has one string attribute, whose length
decides whether it still fits. The saved schema is not a variable of its own:
`SavedAtRest`, proved for PageStore, says page 0 has it whenever a query ends.
`Find` is `find` with its search page by page; `Slots` is the set of positions it
passes. A `Record` fits into an empty page (`MaxSize`), which the code does not
look at: a step that would write a larger one is cut off (`RecordsFit`).

**Graph** is what a client expects: indexes, nodes with references, links.

**GraphQuery** has `check_pattern` with `node_enumerate` and `link_enumerate` as
operators on the file. The tree that the server answers is taken as its rows,
the ways from the root to a leaf; a null dereference is the mark `Gone` in a
row. The reference is `Walks`: the sequences of nodes and links of the graph that
fit the levels, defined on the sets of nodes and links and not on pages. A walk
may take a link again, also straight back, because `check_pattern` does not know
which link it came by. That is more than what the `MATCH` clauses beside two
queries of `example.graphql` ask for (see section 3). Recursion over the levels is
a recursive function of the level.

**Filter** is `parse_sel` with `parse_log` and `parse_cond`, and the loop of
`check_node` over the conditions, one step each, for one node after another. The
nodes are plain attribute values here, without a file; INT, DOUBLE and BOOL
attributes, which `check_node` treats alike, are the `Numeric` ones. Operators
within operators, and `not`, make `parse_log` write or read through a pointer it
does not have: the step `ParseDies`, after which nothing is said.

In **GraphStore** a query that cannot go on for want of a node is not enabled,
but for `add_link`: it rewrites the one node before it looks for the other, and
`LinkDeath` is the file as it leaves it when it dies.

**PageCrash** works a query out as a *plan*, the sequence of the files after each
of its writes (`TakePage`, `FreePlan`, `ShrinkPlan`, ...), and takes one step for
the query: to the last file, or, if the process is killed, to any earlier one.
A write marked as *in between* leaves a file that is not fit to be left:
`add_node` between `save_index` and `add_chunk` when the page is new
(`schema.c:700-702`), `free_page` while only one neighbour is told, or at the
first page of the index list until page 0 is saved (`page.c:78-109`), and all of
`shrink`. A later query goes *astray* if it frees or moves a page whose
neighbour does not name it in return: a killed insertion leaves such a link to a
page that was never written and may be anything by then. The state `exposed`
says that one of these happened; the properties are about all other states.
Each mark is needed: with any one of them dropped, TLC finds a lost record or
a free list that runs through live pages.

**Inserts** takes `norm_construct` and `exec` of an INSERT apart into the reads
and writes of the file: `Construct` (the index record), `Open` (page 0),
`ReadFirst`, `TakePage`, `SavePage0`, `LinkFirst`, `CountNode` (`save_index`) and
`AddChunk`. Each process keeps its own copies of index record, schema and pages
from one step to the next, as the code does. A reader follows the list page by
page (`Select`, `FindPage`, `AnswerSelect`). `Kill` ends a writer in any of these
states; a reader that is killed just takes no further step. The file to begin with
is one of `Start`, any set of files that are `Sound`: page numbers and lists as the
invariants of PageStore and GraphStore leave them, the index there, no id twice.
A node to insert has an id that no other has. `InsertsOneByOne` says that from the end of one insertion to the end of
the next the file makes a step `InsertNode` of GraphStore.

**QueryPath** starts from what the user means, a record per production of the
grammar, and follows it through the tree (`New..`, `ListOf`, `SelectBody`: the
actions of `parser.y` and the constructors of `ast.c`), the message
(`ConvertNode`: `convert`), the `query_t` (`Construct..`: the branches of
`norm_construct`) to the call of `exec`. What a query asks for is stated from the
query alone (`Obeys`) and compared with the call. Names have a length, since they
travel in fields of 16 bytes without an end of their own: `SeenIndex` and
`SeenFile` are what `strcmp` and `open` make of them. The index records are the
only part of the data base here.

**Session** has the clients, the process that listens and the children. A
client is in `yyparse` (`Accepted`, `Rejected`), in `recv` (`ClientReceive`) or
gone; a child is in `recv` (`ChildReceive`) or works (`Answer`, `ChildDies`).
`queries` and `answers` are what is under way on each connection, taken off by
`recv` as far as the buffer goes. `fds` records which process holds a descriptor
of which connection: a child inherits all that the listener has. A connection
is closed only when nobody holds it.

## 3. Runs

| Run | Instance | Shows |
|---|---|---|
| `page_lists` | 6 pages, kinds INDEX and NODE, one record per page | lists, free list, truncation, threshold, `shrink` ends |
| `page_records` | 4 pages, records of 1500 and 3000 bytes | space accounting, saved schema, refinement of RecordLists, `Shrunk` = the steps of `shrink` |
| `page_crash` | 4 pages, 4 records in two lists, 2 killed queries | which kills the file survives for good, at a page each |
| `graph_nodes` | 6 pages, 3 nodes, 1 link, texts of 500 and 2012 bytes | refinement of Graph, file well-formed, counts cover, a link that dies half way loses nothing |
| `graph_select` | 6 pages, two indexes with a node each, 2 links; chains of one to three levels | SELECT of nodes and of links answers exactly the walks and links; references lead to links; each page has one index |
| `filter` | 2 attributes, 3 values each, all filters of at most two conditions, some nested ones | a selected node satisfies the filter, a node left out does not |
| `inserts` | 2 writers one after the other, 1 reader, kills; 4 nodes, long and short texts, files with and without a free page | answered nodes stay, a selection misses none but in one window, an insertion is one step |
| `query_path` | 2 file names, 5 names, short and of 16 characters; all forms of query in any order | the call is the one the query asks for; names lead to their indexes |
| `sessions` | 2 clients with 3 messages and 1, answers shorter and longer than the buffer, 2 descriptors | question and answer in step, no mutual wait, queries in order, who waits is answered or ended, children end |
| `first_page_moves` | as `graph_nodes`, first pages may move | expected violation: a node that was not deleted is lost |
| `inserts_overlap` | 2 writers at a time, an empty index | expected violation: an answered node is lost |
| `query_delete` | as `query_path` | expected violation: a call without an index |

Why the bounds are enough to be interesting. With one record per page, six pages
allow lists of several pages, free lists in any order, and a `shrink` that
passes free pages, skips free numbers above `last` and moves several pages, some
of them neighbours; three pages are the limit below which each freed page
triggers `shrink`, so at least four are needed for a free list that survives a
query. Records of two sizes let a page hold two, one or a mixture, so that
records share pages, are rewritten in place with the other size, and fail to
fit. Two nodes with long texts fill a page up to one reference: the second
reference, or a longer text, makes a node move; a link from a node to itself
does this in the middle of `add_link`. `MaxCount` bounds the counts, which
otherwise grow for ever. Symmetry of node ids and of records is sound: no
definition orders or names them, and these runs check no liveness. In
`graph_select` both nodes have the same id, so that only the index tells them
apart, two links give several ways between the same nodes, and a node can be
linked to itself; the deepest chain goes there and back, over one link or over
two. In `filter` three values suffice for every order of a node's value and two
bounds.

In `page_crash` four records are needed for a `shrink` that moves a page behind
another one of its list, and two kills for what the traces of one do to the
next: some of the losses that a mark prevents take both. In `inserts` three old
nodes with long texts give a list of three pages, so that a reader can be
before, at and behind the page that changes; deleting one gives the file with a
free page. In `sessions` three messages let two meet in one `recv` of the child
after an answer that was too long, and leave one to see the effect; the second
client is there to inherit descriptors and to lose its server. `MaxSent` bounds
the messages. In `query_path` lists have up to four elements and chains of SELECT up to
three levels; a name either fits its field or just fills it.

`SelectExact` counts: each walk gives one row, so a node with two links to the
same neighbour has it twice, and one that is linked to itself has itself twice,
along the link and against it. It follows links by the references that nodes
carry. This is not always the set of links: a node created again under the id
of a deleted one has none of its links, which are still found from their other
end. `filter` shows in which sense filters work: `SelectedSatisfy` needs `eq`,
`gt` and `lt`; `gt_eq`, `lt_eq` and `substr` restrict nothing, so with them only
`LeftOutFail` remains.

Fairness. `ShrinkEnds` assumes weak fairness of the steps of `shrink`: it is a
loop of one process that waits for nothing. `WaitingEnds` and `ChildrenEnd`
assume weak fairness of a client in `recv`, of a child, and of the listener at
`accept`, each a process that the system lets run as soon as there is something
to read; and that `accept` fails once no descriptor is left. Nothing is assumed
of the users: a line may never be typed. `WaitingEnds` leaves out connections
that are *stranded*, see below.

Expected violations, each a disagreement of the code with what it says:

1. `FirstPagesKept`: `shrink` corrects `schema->first_index` when it moves a page
   but not `first_page_num` in index records. After a delete that is answered
   "node successfully deleted", another index may name a page that has moved.
   The other runs of GraphStore exclude this with `MayMoveFirst = FALSE`, and
   PageCrash likewise: they show what holds as long as no deletion moves a
   first page.
2. `AnsweredThere`: two insertions at a time both answer "node successfully
   added"; one of the nodes is in no page that the index leads to.
3. `DeleteObeys`: the grammar deletes in a named index, `norm_construct` never
   hands the index on, and takes the deletion of a link for that of a node.

What else the program does not keep, and how the properties are worded for it:

* A SELECT goes back over the link it came by. The `MATCH` clauses of
  `example.graphql:8` and `:23`, as Cypher has them, use a link once in a pattern;
  the server's answer has all rows of theirs, and those of walks that take a link
  again. In the answer to the second query film 62 follows itself, there and back
  over Rick Yune's only link to it, 142795 (`out:191-235`). `SelectExact` takes the
  answer as the code gives it.
* `or` selects what `and` would: `parse_log` never reads the operator
  (`query_constructor.c:53-64`). `LeftOutFail` excepts `or`; `SelectedSatisfy`
  holds of it because who satisfies both conditions satisfies one.
* `gt_eq`, `lt_eq` and `substr` select every node (`schema.c:304-374`).
  `SelectedSatisfy` excepts them.
* Counts only ever exceed the number of elements: a node that moves because it
  grew is counted twice (`schema.c:757-758`). No index with elements is dropped,
  but some empty ones never can be (`CountsCover`).
* Deleting an index that has elements leaves it there and is answered "index
  successfully deleted" (`schema.c:658-664`).
* A SELECT that reads the index record between `save_index` and `add_chunk` of an
  insertion finds a first page that is not written, and may miss every node
  (`schema.c:700-702`). `SelectionComplete` and `AnsweredFound` except this window,
  and `Kept` a kill in it.
* A kill inside `shrink`, or a kill that leaves a link to a page that was never
  written, can cost records later (`page.c:210`, `page.c:84`). The properties of
  PageCrash are about files to which this has not happened (`exposed`), so they
  do not catch what goes wrong there.
* A client whose child has died waits until every child that was forked later
  has ended, as these hold its connection too, and for ever while the listener
  lives (`server.c:66-75`). The same holds when `fork` failed. `WaitingEnds`
  calls this stranded.
* After a line that the parser rejects the last query is sent, and run, again
  (`client.c:49-51`): `RanInOrder` allows repetitions.
* After an answer of more than 4086 bytes the client shows the rest of it as the
  answer to the next query (`client.c:53`): `InStep` is about the time before.
* A file name of 16 characters or more ends in whatever the type of the query
  is, so that INSERT and SELECT go to different files (`query_constructor.c:109`,
  `query.h:55-56`): `CallObeys` excepts such names. A link index whose name has 16
  characters is found by no query (`schema.c:551`, `index.h:14`): `IndexesNamed`
  says exactly these.

## 4. Proofs

TLC agreed to every invariant below on the instance of a run before it was
proved. A theorem holds for every value of the constants that satisfies the
assumptions of its module, which the runs evaluate.

**The page store** (`PageStoreProofs`; any number of pages, any records, any sizes
that satisfy `SizeAssumption`). All safety invariants of
the runs of PageStore are theorems: `TypeOK`, `SavedAtRest`, `LinksMutual`,
`PagesAccounted`, `TruncationExact`, `FewFreeAtRest`, `FreeListExact`,
`ListsExact`, `IndexListReachable`, `SpaceExact`.

None of these is inductive. A relocation by `shrink` rewrites three pages and is
right only if the moved page, its neighbours and the free page are distinct, so
lists must not run into themselves; the truncation is right only if `shrink` has
met every free page below `last`, so the rest of the free list must be known.
`IInv` therefore adds

* `Ordered`: some rank grows along every list, so that no list is a ring;
* `FreeChain`: some sequence lists the free pages still to be used, without
  repetition, as the headers link them;
* `EmptyFree`, `SpaceOK`: a free page is blank, a live one has records, and
  its free space is what they leave, stated without following the sequence
  (`Accounted`: some sequence of partial sums);
* `FirstIndexOK`, `OneIndexHead`: the schema names the one head of the index
  pages, also while pages move;
* `PhaseOK`: where `shrink` is between its calls.

Each step has a lemma that rebuilds the two witnesses; `CutFacts` derives the
truncation from the chain's end. The argument counts: live pages and `cnt_free`
add up to `last_page_num`, so when the chain is used up the live pages are the
first `CutAt(schema)` ones.

What the invariants that follow a list claim is then derived from `IInv`.
`PagesFromChain` (in `PageFileProofs`) says that `PagesFrom` returns any chain of
distinct pages that ends; `FreeChain` is such a chain for the free list. For the
others `ListFound` takes the highest rank that a list can still reach and builds
the chain from the end of the list, and `OnList` walks from any live page back to
a head. `OnOneList` has the uniqueness: two lists that share a page share the
page in front of it.

**The page store implements RecordLists** (`PageContentProofs`,
`PageRefinementProofs`; under the same assumptions): `RefinesRecordLists`. Every
step of PageStore is one of RecordLists, or leaves the lists as they are: whatever
is allocated, freed, reused, moved or cut off, who follows the lists finds every
record that was added and not deleted, once and in its order.

The lists of a state are a bag that `ListBag` folds over the heads;
`ListBagGathers` shows that the order of the fold does not matter. What following
one list finds is a fold over its pages; `TotalUnique` and `TotalFound` give it a
description that does not compute (`Total`: some sequence of partial results). On
that rest the facts about one list: its records depend only on the records of its
pages in order (`ContentKept`), a page whose records change changes the list where
it stands (`ContentDiffers`), and a page without records can be left out
(`ContentShorter`). A page in front of a list (`PutInFront`), a page taken out of
one (`TakenFromList`) and a page moved (`RenamedList`) follow from these, the first
two by way of a file in which the page is there and has no records yet, or any more.

For a step one has to find the one list it touches. `OnePageChanged`,
`FrontInsertSeen`, `WithdrawLastSeen` and `ShrinkMoveUnseen` pair the heads before
the step with those after it; the head itself may be another page. By
`OneListChanged` the bag then loses one list and gains one. The others are found
unchanged (`Untouched`), because by `OnOneList` no page of theirs is written in a
field that a reader of the list looks at. No page of a list has no records
(`SpaceOK`), so the list of a single page ends exactly with its last record, as
`End` demands.

**`shrink` in steps and as one operator** (`PageFileProofs`, `PageRefinementProofs`):
`ShrinkAgrees`. `Outcome`, what the rounds that remain and the truncation make of
the state, is the same before and after every step of the loop, and the last step
reaches it. So GraphStore, whose deletions take all of `shrink` in one step, and the
comparison of PageCrash (`PlansAgree`) rest on the function that PageStore proves
right. A fold takes its last element last, the loop its first page first:
`RelocationsTraced` describes the fold by the states it goes through, and
`FirstRound` takes the first round off it. That skipping a free page above `last`
changes no round (`NextFreeAgrees`) needs the rest of the free list, `FreeChain`;
that no round changes anything once the free pages are used up is `NothingMoves`.

**Insertions** (`GraphStoreProofs`, `InsertsProofs`; any number of writers and
readers, any nodes and texts, any sound files to begin with, writers killed
anywhere): `AnsweredFound`, `SelectionComplete` and `InsertsOneByOne`, under the
hypothesis `Overlap = FALSE`: without it the run `inserts_overlap` shows a node that
is lost.
Assumptions: `StartAssumption` (the file is `Sound`), `SessionAssumption`,
`IndexAssumption`, `BoundAssumption`.

None is inductive: that an answered node is found after `AddChunk` depends on
what the writer read six steps before. `IInv` says

* `NodesThere`: the list of the nodes is a chain of distinct node pages that ends,
  no id is on it twice, and its ids are those answered (`Good`, with what the
  index list and the free list need to be followed). From `save_index` to
  `add_chunk`, and for good if the writer is killed there, the index names a page
  that is not written; the list is then the one from the file `begun`, and the page
  named is a free one or one beyond the end (`Unwritten`, `HeadIn`);
* `Writing`: what the one writer holds in memory is what the file has. The header
  that `LinkFirst` writes back is the page as it is, the page that
  `get_free_page` supplied is on no list (`Taken`), and at `AddChunk` the record
  fits where it goes;
* `OneAtATime`: at most one writer is busy, none once the file is torn;
* `Finding`: where a selection stands. It is at some page of the list, with what is
  due on the pages from there on and nothing found twice, or at the end, or, if it
  read the index in that window, at the page that was not written. An insertion
  that goes on beside it puts a page in front of the list, which a selection under
  way never gets to, or adds to a page that it may or may not have passed.

Each access has a lemma (`TakePageKeeps`, `LinkFirstKeeps`, ...), built on what the
operators of GraphStore do to such a list (`PutFirst`, `PutFresh`, `AllocGood`,
`SaveIndexGood`). `Find` looks for the first match, so what `GetIndex` returns after
a write is a question of its own: `IndexSlotFirst` and `IndexedAlike` say that it
depends only on the names in the index pages, in order, and `SaveIndexFacts` that
rewriting a record by its own name changes no other one.

For `InsertsOneByOne`, which is the refinement of GraphStore step by step, `SInv`
adds `Done`: at each access, what part of `AddNode` on the file `begun` the file and
the copies in memory are, and that GraphStore could insert the node there. The
operators of `Whole`, an instance of GraphStore for the file between insertions, are
not known to be those of GraphStore until their definitions are compared (`WholeReads`,
`WholeWrites`).

**The server and its clients** (`SessionProofs`; any set of clients, any lengths
of answers, any limit on descriptors): `TypeOK`, `InStep`, `NoMutualWait`,
`RanInOrder`. The invariant is about one client and its child, since nobody else
touches their sockets (`Frame`). It says where the one message of a client can
be: typed and under way, taken by the child, in the answer (`OneUnderWay`, as
long as no answer was too long); that what has run, what the child holds and what
it has not read are three stretches of one order (`InOrder`); that a client that
waits is waited upon by somebody (`Awaited`); and bounds on all numbers, without
which the sums in the other parts have no types (`Counted`, `Begun`).

**The filter** (`FilterProofs`; any attributes, values, comparisons and trees):
`SelectedSatisfy` and `LeftOutFail`. The invariant is that of the loop of
`check_node`: `flag` tells whether the conditions passed so far hold, and the
conditions are the operands of the tree (`ConditionalsFacts`).

**Operators** (`PageFileProofs`): what each header write and each function of
`page.c` does to the fields of every page; how the space of a page follows its
records; what `PagesFrom`, the sum of sizes and the rounds of `shrink` come to,
which recursive functions compute. Those are inductions, on how far they got; `NatMin` (a set of
numbers has a least one) stands in for the induction theorems of the library,
which take an operator as a parameter. A recursive function is a CHOOSE, so
`WalkExists` and `FoldExists` first show that such a function exists. tlapm has
no functions of two arguments, which is why `walk` in `PagesFrom` is curried.

**Only model-checked.** `ShrinkEnds`, `WaitingEnds`, `ChildrenEnd`: liveness.
The invariants of GraphStore and its refinement of Graph, and those of GraphQuery:
deletions run all of `shrink` in one step. `ShrinkAgrees` says that the step is the
loop, but `IInv` speaks of the variables of PageStore, and what it says of each step
would have to be stated again for the files in the middle of a query. The invariants of PageCrash: a plan is such a fold too, and the invariant would have to
be that of every file in between. QueryPath: RECURSIVE operators for the recursion
of `convert` and `parse_sel` over a tree keep it out of the prover's reach.


## 5. Not modelled, and why

* `index_enumerate`, which lists the index records.
* Deletions, updates and compactions that overlap with other queries: already
  two insertions lose nodes, and nothing remains to be claimed.
* A page that is written in part when its process is killed, and failing reads
  and writes. The order of writes is the order of the calls.
* What happens after undefined behaviour: a read behind the end of the file, an
  index pointer that was never assigned, an operator within an operator. The
  models stop there, or say nothing from there on.
* Records larger than a page, 32-bit wrap-around of `free_space` and of page
  offsets, ids given twice: assumed away, listed as hazards.
* Memory and descriptors within one process: `delete_node_by_id` allocates the
  size of a pointer for a `Response` (`schema.c:618`), `new_attr_node` copies a
  name without its end (`ast.c:222`), a SELECT of links leaves the file open
  (`query_constructor.c:125-128`).
* What `check_node` makes of a compared value that has not the type of its
  attribute: `parse_cond` stores it by its own type, `check_node` reads it by that
  of the attribute, and nothing compares the two (`query_constructor.c:28-49`,
  `schema.c:304-374`). Filter assumes that they agree (`IsCond`, in
  `FilterAssumption`), and so do its runs and theorems.
* What `encode_node` makes of an INSERT whose values do not fit the attributes
  of the index: nothing compares them (`query_constructor.c:180`).
* Tokens of the lexer, `not`, packing of messages, the printer: sequential code
  without state that outlives a query. `spec.proto` only declares messages.

## 6. Plan

1. *Done*: PageFile, PageStore, RecordLists, their refinement; GraphStore,
   Graph, their refinement; GraphQuery and Filter; Session, Inserts, QueryPath
   and PageCrash. Theorems about PageStore, Session, Filter and Inserts;
   PageStore implements RecordLists, and `Shrunk` is its `shrink`.
2. `FileSound` and the other invariants of GraphStore: the steps of PageStore as
   facts about any two files, in the way of `RelocationsTraced`.

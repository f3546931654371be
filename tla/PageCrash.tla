----------------------------- MODULE PageCrash ------------------------------
(***************************************************************************)
(* The page file as a process that is killed leaves it: a query that takes *)
(* or frees a page makes a sequence of writes to the file, and may end     *)
(* behind any of them.  The next query starts from page 0 and the index    *)
(* record as it finds them.                                                *)
(*                                                                         *)
(* Two lists stand for all: that of the index records, whose first page    *)
(* the schema names, and one of nodes, whose first page an index record    *)
(* names that is not among those that come and go here.  A page holds one  *)
(* record.  What is written reaches the file in order, one page or header  *)
(* at a time: a page that is written in part is left out.                  *)
(***************************************************************************)
EXTENDS PageFile, FiniteSets

CONSTANTS MaxKills   \* bound: queries that are killed

ASSUME OnePerPageAssumption == \A c \in Chunk : Size[c] > Capacity \div 2
ASSUME KillAssumption == MaxKills \in Nat

VARIABLES
  file,    \* [disk, schema (page 0), first (in the index record), len]
  kept,    \* the records of each list whose insertion was answered and whose
           \* deletion was not begun
  kills,   \* how many queries were killed
  exposed  \* one was killed in between, or went astray

vars == <<file, kept, kills, exposed>>

List == {"INDEX", "NODE"}

\* `find` from the first page of a list, as the schema in the file has it.
FirstOf(f, list) == IF list = "INDEX" THEN f.schema.first_index ELSE f.first
PagesOf(f, list) == PagesFrom(f.disk, FirstOf(f, list))
Reached(f) == UNION {ToSet(PagesOf(f, list)) : list \in List}
RecordsOf(f, list) == UNION {ToSet(f.disk[p].chunks) : p \in ToSet(PagesOf(f, list))}

-----------------------------------------------------------------------------
(* A plan is a query as far as it is worked out: the file after its writes, *)
(* the schema in memory, and for each write the file it leaves and whether  *)
(* that is a file in between, not fit to be left.  astray: it followed a    *)
(* link that is not returned, to a page that an earlier kill left unwritten *)
(* and that may now be behind the end of the file, or belong to another     *)
(* list.  stale: shrink moved the first page of the nodes.                  *)

Plan(f) == [file |-> f, mem |-> f.schema, writes |-> <<>>, free_num |-> 0,
            astray |-> FALSE, stale |-> FALSE]

\* The neighbours that a page names also name it.
Returned(d, num) ==
  /\ d[num].next # 0 => d[d[num].next].prev = num
  /\ d[num].prev # 0 => d[d[num].prev].next = num

Write(s, f, between) ==
  [s EXCEPT !.file = f, !.writes = Append(@, [file |-> f, between |-> between])]

\* The file grows up to a page that is written behind its end, and what it
\* skips reads as zeros.
WritePage(s, num, page, between) ==
  Write(s, [s.file EXCEPT !.disk[num] = page, !.len = IF num > @ THEN num ELSE @],
        between)

Save(s) == Write(s, [s.file EXCEPT !.schema = s.mem], FALSE)
WriteFirst(s, num, between) == Write(s, [s.file EXCEPT !.first = num], between)

\* read_header and write_header of a neighbour.
TellNext(s, num, v, between) ==
  IF num = 0 THEN s ELSE Write(s, [s.file EXCEPT !.disk = SetPrev(@, num, v)], between)
TellPrev(s, num, v, between) ==
  IF num = 0 THEN s ELSE Write(s, [s.file EXCEPT !.disk = SetNext(@, num, v)], between)

\* get_free_page.
TakePage(s) ==
  LET d == s.file.disk
      told == IF s.mem.free_page = 0 THEN s ELSE TellNext(s, d[s.mem.free_page].next, 0, FALSE)
  IN  Save([told EXCEPT !.mem = AllocSchema(d, s.mem)])

\* The last writes of add_node and of add_index, with the record in page num:
\* the index record names a new page before it is there, the schema after.
AddNode(s, num, page) ==
  WritePage(WriteFirst(s, num, num # s.file.first), num, page, FALSE)

\* Mistake: the schema names the new page before it is there.
AddIndexSavedFirst(s, num, page) ==
  WritePage(Save([s EXCEPT !.mem.first_index = num]), num, page, FALSE)

AddIndex(s, num, page) ==
  Save([WritePage(s, num, page, FALSE) EXCEPT !.mem.first_index = num])

Add(list, s, num, page) ==
  IF list = "NODE" THEN AddNode(s, num, page) ELSE AddIndex(s, num, page)

\* add_node, add_index.  The first page has room where a deletion was killed.
AddPlan(f, list, c) ==
  LET first == FirstOf(f, list)
      n == AllocNum(f.schema)
      page == [AllocPage(f.disk, f.schema) EXCEPT !.type = list, !.next = first, !.prev = 0]
  IN  IF first # 0 /\ Fits(f.disk[first], c)
      THEN Add(list, Plan(f), first, WithChunk(f.disk[first], c))
      ELSE Add(list, TellNext(TakePage(Plan(f)), first, n, FALSE), n, WithChunk(page, c))

\* Mistake: the page in front of the moved one keeps the old number.
RelocateBehindPrev(s, from) ==
  LET d == s.file.disk
      below == SelectSeq(PagesFrom(d, s.free_num), LAMBDA p : p <= from)
  IN  IF from > s.file.len \/ d[from].type = "FREE" \/ below = <<>> THEN s
      ELSE WritePage(TellNext([s EXCEPT !.free_num = d[Head(below)].next,
                                        !.mem = MovedSchema(d, @, from, Head(below)),
                                        !.stale = @ \/ from = s.file.first],
                              d[from].next, Head(below), TRUE),
                     Head(below), d[from], TRUE)

\* One relocation of shrink.  A page behind the end of the file reads as free.
Relocate(s, from) ==
  LET d == s.file.disk
      below == SelectSeq(PagesFrom(d, s.free_num), LAMBDA p : p <= from)
  IN  IF s.free_num = 0 \/ from > s.file.len \/ d[from].type = "FREE" THEN s
      ELSE IF below = <<>> THEN [s EXCEPT !.free_num = 0]
      ELSE LET to == Head(below)
               begun == [s EXCEPT !.free_num = d[to].next,
                                  !.mem = MovedSchema(d, @, from, to),
                                  !.astray = @ \/ ~ Returned(d, from),
                                  !.stale = @ \/ from = s.file.first]
           IN  WritePage(TellPrev(TellNext(begun, d[from].next, to, TRUE),
                                  d[from].prev, to, TRUE),
                         to, d[from], TRUE)

\* shrink.  All of it is in between: page 0 lists as free what it fills.
ShrinkPlan(s) ==
  LET last == s.mem.last_page_num
      moved == FoldLeft(Relocate, [s EXCEPT !.free_num = s.mem.free_page],
                        [k \in 1 .. last |-> last + 1 - k])
      cut == Write(moved, [moved.file EXCEPT !.disk = TruncatedDisk(@, moved.mem),
                                             !.len = CutAt(moved.mem)], TRUE)
  IN  Save([cut EXCEPT !.mem = TruncatedSchema(@)])

\* Mistake: page 0 is saved before the page is off its list.
FreePlanSavedFirst(s, num) ==
  LET header == s.file.disk[num]
      saved == Save([s EXCEPT !.mem = FreedSchema(s.file.disk, @, num)])
      unlinked == TellPrev(TellNext(saved, header.next, header.prev, FALSE),
                           header.prev, header.next, FALSE)
  IN  WritePage(unlinked, num, FreeHeader(s.mem.free_page), FALSE)

\* free_page.  In between: the next page names the one in front, which does
\* not name it yet; or page num is the first of the index records, which page
\* 0 names until it is saved.
FreePlan(s, num) ==
  LET header == s.file.disk[num]
      named == num = s.mem.first_index
      unlinked == TellPrev(TellNext(s, header.next, header.prev, named \/ header.prev # 0),
                           header.prev, header.next, named)
      freed == WritePage(unlinked, num, FreeHeader(s.mem.free_page), named)
      told == TellNext(freed, s.mem.free_page, num, named)
      saved == Save([told EXCEPT !.mem = FreedSchema(s.file.disk, s.mem, num),
                                 !.astray = @ \/ ~ Returned(s.file.disk, num)])
  IN  IF ShrinkDue(saved.mem) THEN ShrinkPlan(saved) ELSE saved

\* delete_node_by_id, delete_index_by_name: delete_chunk of the record in page
\* num, whose only one it is.  An index names the next page first.
DeletePlan(f, list, num) ==
  LET s == IF list = "INDEX" THEN Plan(f)
           ELSE WriteFirst(Plan(f), IF num = f.first THEN f.disk[num].next ELSE f.first, FALSE)
  IN  FreePlan(WritePage(s, num, WithoutChunk(f.disk[num], 1), FALSE), num)

-----------------------------------------------------------------------------
Init ==
  /\ file = [disk |-> [p \in Page |-> NoPage], first |-> 0, len |-> 0,
             schema |-> [first_index |-> 0, free_page |-> 0, cnt_free |-> 0, last_page_num |-> 0]]
  /\ kept = [list \in List |-> {}]
  /\ kills = 0
  /\ exposed = FALSE

\* A query from its first write to its last.  Nothing is said of a file in
\* which one went astray.
Completes(plan) ==
  /\ file' = plan.file
  /\ exposed' = (exposed \/ plan.astray)
  /\ UNCHANGED kills

\* A query that is killed behind one of its writes.
IsKilled(plan) ==
  /\ kills < MaxKills
  /\ kills' = kills + 1
  /\ \E i \in 1 .. Len(plan.writes) - 1 :
       /\ file' = plan.writes[i].file
       /\ exposed' = (exposed \/ plan.astray \/ plan.writes[i].between)

Insert(list, c) ==
  /\ ~ exposed /\ AllocNum(file.schema) <= MaxPage
  /\ \A l \in List : c \notin RecordsOf(file, l)
  /\ LET plan == AddPlan(file, list, c)
     IN  \/ Completes(plan) /\ kept' = [kept EXCEPT ![list] = @ \cup {c}]
         \/ IsKilled(plan) /\ UNCHANGED kept

\* Bound: as in GraphStore, not where shrink would move the first page of the
\* nodes, which no index record learns of.
Delete(list, num) ==
  /\ ~ exposed /\ num \in ToSet(PagesOf(file, list)) /\ Len(file.disk[num].chunks) = 1
  /\ LET plan == DeletePlan(file, list, num)
     IN  ~ plan.stale /\ (Completes(plan) \/ IsKilled(plan))
  /\ kept' = [kept EXCEPT ![list] = @ \ ToSet(file.disk[num].chunks)]

Next ==
  \E list \in List : \/ \E c \in Chunk : Insert(list, c)
                     \/ \E num \in Page : Delete(list, num)

Spec == Init /\ [][Next]_vars

-----------------------------------------------------------------------------
\* Kills that are not in between: anywhere in get_free_page and add_index; in
\* add_node but between saving the index and writing the new page; behind the
\* emptied page, the saved index or the FREE header of a deletion.

\* They lose no record, at once or later: `find` reaches every record whose
\* insertion was answered and whose deletion was not begun, through further
\* queries, kills and compactions of a file with what the kills left in it, as
\* long as none goes astray.
Kept ==
  ~ exposed => \A list \in List : kept[list] \subseteq RecordsOf(file, list)

\* They leave a free list of pages that are free, as many as page 0 counts, so
\* that get_free_page never hands out a page with records and shrink never
\* writes over one.
FreePagesFree ==
  ~ exposed =>
    LET free == PagesFrom(file.disk, file.schema.free_page)
    IN  /\ ToSet(free) \cap Reached(file) = {}
        /\ \A p \in ToSet(free) : file.disk[p].type = "FREE"
        /\ Len(free) = file.schema.cnt_free

\* And each costs one page at most: last_page_num exceeds the pages on a list
\* and the free ones by one per killed query.  No function looks for them.
LeaksBounded ==
  ~ exposed =>
    file.schema.last_page_num <= Cardinality(Reached(file)) + file.schema.cnt_free + kills

\* Where nothing was killed the writes of a deletion, shrink included, add up
\* to what PageFile says of free_page and shrink.
PlansAgree ==
  kills = 0 =>
    \A list \in List : \A num \in ToSet(PagesOf(file, list)) :
      LET d == [file.disk EXCEPT ![num] = WithoutChunk(@, 1)]
          freed == [disk |-> FreedDisk(d, file.schema, num),
                    schema |-> FreedSchema(d, file.schema, num)]
          plan == DeletePlan(file, list, num)
      IN  [disk |-> plan.file.disk, schema |-> plan.file.schema] =
            IF ShrinkDue(freed.schema) THEN Shrunk(freed.disk, freed.schema) ELSE freed
=============================================================================

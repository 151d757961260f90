-------------------------------- MODULE Tasks --------------------------------
(***************************************************************************)
(* The tasks of app/api: the tasks table, the requests of TaskService that *)
(* change it, and a client that lists it page by page.                     *)
(*                                                                         *)
(* A request reads through the reader pool, decides, and then saves the    *)
(* whole task through the writer pool, with nothing that ties the two      *)
(* together.  The reader pool may lead to a read replica, which has the    *)
(* commits of the writer in their order, some of them late.                *)
(*                                                                         *)
(* Ids are random: two are never equal, and their order means nothing.     *)
(* updated_at is left out: nothing reads it back.  The title and the       *)
(* priority of a request are valid.                                        *)
(*                                                                         *)
(* Each operator Bad... is a form that the definition it stands before     *)
(* could have by mistake; it shows that the properties can fail.           *)
(***************************************************************************)
EXTENDS Naturals, Sequences, FiniteSets, Functions

CONSTANTS
  Id,        \* ids, in the order of their text
  Title,
  Priority,
  Worker,    \* requests being served at one time
  Asked,     \* the page size that the listing client asks for ...
  MaxLimit,  \* ... the largest that it gets ...
  MaxOffset, \* ... and the largest offset that is answered
  MaxLag,    \* bound: commits the replica may be behind; 0 for a single pool
  MaxTime    \* bound of the clock

ASSUME TasksAssumption ==
  /\ Id \subseteq Nat \ {0} /\ IsFiniteSet(Id)
  /\ Asked \in Nat \ {0} /\ MaxLimit \in Nat \ {0} /\ MaxOffset \in Nat
  /\ MaxLag \in Nat /\ MaxTime \in Nat

VARIABLES
  now,      \* the clock
  tables,   \* versions of the table: the replica's first, the primary's last
  req,      \* what each worker is doing
  walk,     \* what the listing client has read
  was       \* history: <<id, status>> of every row ever stored

vars == <<now, tables, req, walk, was>>

-----------------------------------------------------------------------------
(* The table. *)

Status == {"todo", "doing", "done"}

Row == [title : Title, status : Status, priority : Priority, created : Nat]

Rows == tables[Len(tables)]

Shown == tables[1]

HasTitle(table, title) == \E i \in DOMAIN table : table[i].title = title

\* The writer commits a new version; the replica is at most MaxLag behind.
Commit(table) ==
  LET all == Append(tables, table)
  IN  tables' = IF Len(all) > MaxLag + 1 THEN Tail(all) ELSE all

\* Fault: rows of the same time come in any order.
BadBefore(table, i, j) == table[i].created < table[j].created

\* ORDER BY created_at, id
Before(table, i, j) ==
  \/ table[i].created < table[j].created
  \/ table[i].created = table[j].created /\ i < j

\* The orders in which the query may return the rows of the table.
Orders(table) ==
  {s \in [1 .. Cardinality(DOMAIN table) -> DOMAIN table] :
     \A m, n \in DOMAIN s :
       m < n => s[m] # s[n] /\ ~ Before(table, s[n], s[m])}

-----------------------------------------------------------------------------
(* The requests. *)

NoRow == [title |-> "", status |-> "", priority |-> "", created |-> 0]

Idle == [step |-> "idle", op |-> "", id |-> 0, row |-> NoRow]

Request == [step : {"idle", "save"},
            op   : {"", "create", "move", "priority"},
            id   : Id \cup {0},
            row  : Row \cup {NoRow}]   \* the task to be saved

At(w, step) == req[w].step = step

Become(w, r) == req' = [req EXCEPT ![w] = r]

\* Fault: a task may be completed that was never started.
BadCanTransitionTo(from, to) == from # to /\ from # "done"

CanTransitionTo(from, to) ==
  <<from, to>> \in {<<"todo", "doing">>, <<"doing", "done">>}

Init ==
  /\ now = 0
  /\ tables = << [i \in {} |-> NoRow] >>
  /\ req = [w \in Worker |-> Idle]
  /\ walk = [step |-> "idle", offset |-> 0, total |-> 0, page |-> <<>>,
             seen |-> <<>>, first |-> {}]
  /\ was = {}

\* Create: no task with the title is seen, and New makes one.
Create(w, i, title, priority) ==
  /\ At(w, "idle")
  /\ ~ HasTitle(Shown, title)
  /\ i \notin DOMAIN Rows \cup {req[v].id : v \in Worker}
  /\ Become(w, [step |-> "save", op |-> "create", id |-> i,
                row |-> [title |-> title, status |-> "todo",
                         priority |-> priority, created |-> now]])
  /\ UNCHANGED <<now, tables, walk, was>>

\* Start and Complete.
Move(w, i, to) ==
  /\ At(w, "idle")
  /\ i \in DOMAIN Shown
  /\ CanTransitionTo(Shown[i].status, to)
  /\ Become(w, [step |-> "save", op |-> "move", id |-> i,
                row |-> [Shown[i] EXCEPT !.status = to]])
  /\ UNCHANGED <<now, tables, walk, was>>

ChangePriority(w, i, priority) ==
  /\ At(w, "idle")
  /\ i \in DOMAIN Shown
  /\ Become(w, [step |-> "save", op |-> "priority", id |-> i,
                row |-> [Shown[i] EXCEPT !.priority = priority]])
  /\ UNCHANGED <<now, tables, walk, was>>

\* Fault: nothing but the check of Create keeps the titles apart.
BadTitleTaken(w) == FALSE

\* UNIQUE (title)
TitleTaken(w) ==
  \E i \in DOMAIN Rows \ {req[w].id} : Rows[i].title = req[w].row.title

\* Fault: the columns are left empty.
BadSave(w) ==
  /\ At(w, "save")
  /\ ~ TitleTaken(w)
  /\ Commit([k \in DOMAIN Rows \cup {req[w].id} |->
              IF k = req[w].id THEN NoRow ELSE Rows[k]])
  /\ was' = was \cup {<<req[w].id, req[w].row.status>>}
  /\ Become(w, Idle)
  /\ UNCHANGED <<now, walk>>

\* Save: INSERT ... ON CONFLICT (id) DO UPDATE, which keeps created_at.
Save(w) ==
  LET i   == req[w].id
      row == IF i \in DOMAIN Rows
             THEN [req[w].row EXCEPT !.created = Rows[i].created]
             ELSE req[w].row
  IN
  /\ At(w, "save")
  /\ ~ TitleTaken(w)
  /\ Commit([k \in DOMAIN Rows \cup {i} |-> IF k = i THEN row ELSE Rows[k]])
  /\ was' = was \cup {<<i, row.status>>}
  /\ Become(w, Idle)
  /\ UNCHANGED <<now, walk>>

\* Save refuses a title that is taken; or the request fails before its Save.
GiveUp(w) ==
  /\ At(w, "save")
  /\ Become(w, Idle)
  /\ UNCHANGED <<now, tables, walk, was>>

-----------------------------------------------------------------------------
(* A client that reads the list from its first page to its last. *)

\* What the client has read.
Walk == [step   : {"idle", "count", "page", "page_shown", "refused"},
         offset : Nat, total : Nat,
         page   : Seq(Id),      \* the items of the last answer
         seen   : Seq(Id),      \* the items of all answers
         first  : SUBSET Id]    \* the tasks there were at first

Min2(a, b) == IF a <= b THEN a ELSE b

\* NewPage cuts the limit down; the answer says to what.
Limit == Min2(Asked, MaxLimit)

\* The list is opened at its first page, or by a link that is too far off.
BeginWalk(offset) ==
  /\ walk.step \in {"idle", "page_shown", "refused"}
  /\ walk' = [step |-> "count", offset |-> offset, total |-> 0, page |-> <<>>,
              seen |-> <<>>, first |-> DOMAIN Shown]
  /\ UNCHANGED <<now, tables, req, was>>

\* NewPage refuses an offset beyond MaxOffset, be it the next page's.
RefusePage ==
  /\ walk.step = "count"
  /\ walk.offset > MaxOffset
  /\ walk' = [walk EXCEPT !.step = "refused"]
  /\ UNCHANGED <<now, tables, req, was>>

\* Fault: the count goes to the writer pool.
BadCountTasks ==
  /\ walk.step = "count"
  /\ walk.offset <= MaxOffset
  /\ walk' = [walk EXCEPT !.step = "page", !.total = Cardinality(DOMAIN Rows)]
  /\ UNCHANGED <<now, tables, req, was>>

\* ListPage counts ...
CountTasks ==
  /\ walk.step = "count"
  /\ walk.offset <= MaxOffset
  /\ walk' = [walk EXCEPT !.step = "page", !.total = Cardinality(DOMAIN Shown)]
  /\ UNCHANGED <<now, tables, req, was>>

\* ... and then reads the page.
ListTasksPage(order) ==
  LET page == SubSeq(order, walk.offset + 1, Min2(walk.offset + Limit, Len(order)))
  IN
  /\ walk.step = "page"
  /\ walk' = [walk EXCEPT !.step = "page_shown", !.page = page,
                          !.seen = @ \o page]
  /\ UNCHANGED <<now, tables, req, was>>

HasNextPage == walk.offset + Limit < walk.total

NextPage ==
  /\ walk.step = "page_shown"
  /\ HasNextPage
  /\ walk' = [walk EXCEPT !.step = "count", !.offset = @ + Limit, !.page = <<>>]
  /\ UNCHANGED <<now, tables, req, was>>

-----------------------------------------------------------------------------
\* The replica applies the next commit.
Replay ==
  /\ Len(tables) > 1
  /\ tables' = Tail(tables)
  /\ UNCHANGED <<now, req, walk, was>>

Tick ==
  /\ now < MaxTime
  /\ now' = now + 1
  /\ UNCHANGED <<tables, req, walk, was>>

Next ==
  \/ \E w \in Worker :
       \/ \E i \in Id, title \in Title, priority \in Priority :
            Create(w, i, title, priority)
       \/ \E i \in Id, to \in {"doing", "done"} : Move(w, i, to)
       \/ \E i \in Id, priority \in Priority : ChangePriority(w, i, priority)
       \/ Save(w)
       \/ GiveUp(w)
  \/ \E offset \in {0, MaxOffset + 1} : BeginWalk(offset)
  \/ RefusePage
  \/ CountTasks
  \/ \E order \in Orders(Shown) : ListTasksPage(order)
  \/ NextPage
  \/ Replay
  \/ Tick

Spec == Init /\ [][Next]_vars

-----------------------------------------------------------------------------
(* Properties. *)

TypeOK ==
  /\ now \in Nat
  /\ tables # <<>>
  /\ \A n \in DOMAIN tables :
       DOMAIN tables[n] \subseteq Id /\ \A i \in DOMAIN tables[n] : tables[n][i] \in Row
  /\ req \in [Worker -> Request]
  /\ walk \in Walk
  /\ was \subseteq Id \X Status

\* No two tasks have one title, on the primary or as any reader sees it,
\* although the check of Create and its Save are apart and the check may read
\* an old version.
TitlesUnique ==
  \A n \in DOMAIN tables : \A i, j \in DOMAIN tables[n] :
    tables[n][i].title = tables[n][j].title => i = j

\* A task that is done has been doing, and one that is doing has been todo,
\* whatever old version a request started from.
NoStatusSkipped ==
  /\ \A i \in Id : <<i, "done">> \in was => <<i, "doing">> \in was
  /\ \A i \in Id : <<i, "doing">> \in was => <<i, "todo">> \in was

\* Nothing that a reader can see goes away: a later version of the table has
\* every task of an earlier one, with its title and its created_at, so a page
\* is never shorter than the total of its answer says.
PageHoldsTotal ==
  walk.step = "page_shown" =>
    Len(walk.page) >= Min2(Limit, IF walk.total > walk.offset
                                  THEN walk.total - walk.offset ELSE 0)

\* When no task appears meanwhile, the pages show every task exactly once,
\* also those of one created_at ("ties on created_at are broken by id so page
\* boundaries never duplicate or skip a row").
PagesPartition ==
  walk.step = "page_shown" /\ ~ HasNextPage /\ DOMAIN Shown = walk.first =>
    IsInjective(walk.seen) /\ Range(walk.seen) = walk.first

-----------------------------------------------------------------------------
(* A claim of the comments that the code does not keep. *)

\* service/task_service.go on ChangePriority: "It never touches status".
PriorityKeepsStatus ==
  [][\A w \in Worker :
       Save(w) /\ req[w].op = "priority" =>
         Rows'[req[w].id].status = Rows[req[w].id].status]_vars

=============================================================================

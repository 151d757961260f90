----------------------------- MODULE TasksProofs -----------------------------
(***************************************************************************)
(* Proofs about Tasks.  The argument: every version of the table, also the *)
(* old ones that readers still see, satisfies what the primary does, since *)
(* versions are only added by Save; and a request that is about to save a  *)
(* status has read its predecessor in some version.  The client that lists *)
(* the tasks has an invariant of its own, LInv.                            *)
(***************************************************************************)
EXTENDS Tasks, TLAPS, SequenceTheorems, FiniteSetTheorems

-----------------------------------------------------------------------------
(* The inductive invariant. *)

Versions == {tables[n] : n \in DOMAIN tables}

TablesAreVersions == tables \in Seq(Versions) /\ tables # <<>>

\* What a version of the table satisfies.
RowsTyped(v) == DOMAIN v \subseteq Id /\ \A i \in DOMAIN v : v[i] \in Row

TitlesApart(v) ==
  \A i, j \in DOMAIN v : v[i].title = v[j].title => i = j

StatusesWere(v) == \A i \in DOMAIN v : <<i, v[i].status>> \in was

VersionsTyped == \A v \in Versions : RowsTyped(v)

VersionsUnique == \A v \in Versions : TitlesApart(v)

VersionsWere == \A v \in Versions : StatusesWere(v)

\* What is about to be saved is a task whose status has its predecessors.
SaveTyped ==
  \A w \in Worker : At(w, "save") => req[w].id \in Id /\ req[w].row \in Row

Justified(i, status) ==
  /\ status = "doing" => <<i, "todo">> \in was
  /\ status = "done" => <<i, "doing">> \in was

SaveJustified ==
  \A w \in Worker : At(w, "save") => Justified(req[w].id, req[w].row.status)

RestTyped ==
  /\ now \in Nat
  /\ req \in [Worker -> Request]
  /\ walk \in Walk
  /\ was \subseteq Id \X Status

IInv ==
  /\ TablesAreVersions
  /\ VersionsTyped
  /\ VersionsUnique
  /\ VersionsWere
  /\ RestTyped
  /\ SaveTyped
  /\ SaveJustified
  /\ NoStatusSkipped

-----------------------------------------------------------------------------
(* Lemmas about the versions. *)

\* What readers see, and what the primary has, are versions.
LEMMA ReadVersions ==
  ASSUME TablesAreVersions
  PROVE  Shown \in Versions /\ Rows \in Versions
<1>1. Len(tables) \in Nat \ {0} /\ DOMAIN tables = 1 .. Len(tables)
  BY EmptySeq, LenProperties DEF TablesAreVersions
<1>2. 1 \in DOMAIN tables /\ Len(tables) \in DOMAIN tables
  BY <1>1
<1> QED
  BY <1>2 DEF Shown, Rows, Versions

\* A sequence is a sequence over its own elements.
LEMMA OwnElements ==
  ASSUME NEW S, NEW s \in Seq(S)
  PROVE  s \in Seq({s[n] : n \in DOMAIN s})
<1>1. DOMAIN s = 1 .. Len(s) /\ Len(s) \in Nat /\ s \in [1 .. Len(s) -> S]
  BY LenProperties
<1>2. s \in [1 .. Len(s) -> {s[n] : n \in DOMAIN s}]
  BY <1>1
<1> QED
  BY <1>1, <1>2, SeqDef

\* Dropping the oldest version of a longer sequence adds none.
LEMMA TailVersions ==
  ASSUME NEW S, NEW s \in Seq(S), Len(s) > 1
  PROVE  /\ Tail(s) \in Seq(S) /\ Tail(s) # <<>>
         /\ \A n \in DOMAIN Tail(s) : \E m \in DOMAIN s : Tail(s)[n] = s[m]
<1>1. Len(s) \in Nat /\ DOMAIN s = 1 .. Len(s)
  BY LenProperties
<1>2. s # <<>>
  BY <1>1, EmptySeq
<1>3. /\ Tail(s) \in Seq(S) /\ Len(Tail(s)) = Len(s) - 1
      /\ \A i \in 1 .. Len(Tail(s)) : Tail(s)[i] = s[i + 1]
  BY <1>2, HeadTailProperties
<1>4. DOMAIN Tail(s) = 1 .. Len(s) - 1
  BY <1>3, LenProperties
<1>5. Tail(s) # <<>>
  <2>1. Len(<<>>) = 0
    BY EmptySeq
  <2>2. Len(Tail(s)) # 0
    BY <1>1, <1>3
  <2> QED
    BY <2>1, <2>2
<1>6. \A n \in DOMAIN Tail(s) : n + 1 \in DOMAIN s /\ Tail(s)[n] = s[n + 1]
  BY <1>1, <1>3, <1>4
<1> QED
  BY <1>3, <1>5, <1>6

\* Commit(table) adds one version, and the replica may lose its oldest.
LEMMA CommitVersions ==
  ASSUME TablesAreVersions, NEW table, Commit(table)
  PROVE  TablesAreVersions' /\ Versions' \subseteq Versions \cup {table}
<1> DEFINE S   == Versions \cup {table}
           all == Append(tables, table)
<1>1. tables \in Seq(S)
  <2>1. tables \in [1 .. Len(tables) -> Versions] /\ Len(tables) \in Nat
    BY LenProperties DEF TablesAreVersions
  <2>2. tables \in [1 .. Len(tables) -> S]
    BY <2>1
  <2> QED
    BY <2>1, <2>2, SeqDef
<1>2. Len(tables) \in Nat \ {0} /\ DOMAIN tables = 1 .. Len(tables)
  BY EmptySeq, LenProperties DEF TablesAreVersions
<1>3. all \in Seq(S) /\ all # <<>> /\ Len(all) = Len(tables) + 1
  BY <1>1, AppendProperties
<1>4. tables' \in Seq(S) /\ tables' # <<>>
  <2> HIDE DEF S, all
  <2>1. Len(all) > 1
    BY <1>2, <1>3
  <2>2. Tail(all) \in Seq(S) /\ Tail(all) # <<>>
    BY <1>3, <2>1, TailVersions
  <2>3. tables' = Tail(all) \/ tables' = all
    BY DEF Commit, all
  <2> QED
    BY <1>3, <2>2, <2>3
<1>5. Versions' \subseteq S
  <2>1. \A n \in DOMAIN tables' : tables'[n] \in S
    BY <1>4, ElementOfSeq, LenProperties
  <2> QED
    BY <2>1 DEF Versions
<1>6. tables' \in Seq(Versions')
  BY <1>4, OwnElements DEF Versions
<1> QED
  BY <1>4, <1>5, <1>6 DEF TablesAreVersions

LEMMA ReplayVersions ==
  ASSUME TablesAreVersions, Replay
  PROVE  TablesAreVersions' /\ Versions' \subseteq Versions
<1>1. tables \in Seq(Versions) /\ Len(tables) > 1 /\ tables' = Tail(tables)
  BY DEF TablesAreVersions, Replay
<1>2. /\ tables' \in Seq(Versions) /\ tables' # <<>>
      /\ \A n \in DOMAIN tables' : \E m \in DOMAIN tables : tables'[n] = tables[m]
  BY <1>1, TailVersions
<1>3. tables' \in Seq(Versions')
  BY <1>2, OwnElements DEF Versions
<1> QED
  BY <1>2, <1>3 DEF TablesAreVersions, Versions

\* A step that leaves the table and the history alone leaves the versions
\* and their properties alone.
LEMMA TablesUnchanged ==
  ASSUME IInv, UNCHANGED <<tables, was>>
  PROVE  /\ TablesAreVersions' /\ VersionsTyped' /\ VersionsUnique'
         /\ VersionsWere' /\ NoStatusSkipped'
BY DEF IInv, TablesAreVersions, VersionsTyped, VersionsUnique, VersionsWere,
       NoStatusSkipped, Versions, RowsTyped, TitlesApart, StatusesWere

\* Likewise the requests.
LEMMA RequestsUnchanged ==
  ASSUME IInv, UNCHANGED <<req, was>>
  PROVE  SaveTyped' /\ SaveJustified'
BY DEF IInv, SaveTyped, SaveJustified, Justified, At

-----------------------------------------------------------------------------
(* The invariant is inductive. *)

LEMMA InitInvariant == Init => IInv
<1> SUFFICES ASSUME Init PROVE IInv
  OBVIOUS
<1> DEFINE empty == [i \in {} |-> NoRow]
<1>1. tables = <<empty>> /\ DOMAIN tables = {1} /\ tables[1] = empty
  BY DEF Init
<1>2. Versions = {empty}
  BY <1>1 DEF Versions
<1>3. TablesAreVersions
  BY <1>1, <1>2 DEF TablesAreVersions
<1>4. VersionsTyped /\ VersionsUnique /\ VersionsWere
  BY <1>2 DEF VersionsTyped, VersionsUnique, VersionsWere, RowsTyped,
              TitlesApart, StatusesWere
<1>5. RestTyped
  <2>1. <<>> \in Seq(Id)
    OBVIOUS
  <2> QED
    BY <2>1 DEF Init, RestTyped, Request, Idle, Status, Walk
<1>6. SaveTyped /\ SaveJustified /\ NoStatusSkipped
  BY DEF Init, SaveTyped, SaveJustified, NoStatusSkipped, At, Idle
<1> QED
  BY <1>3, <1>4, <1>5, <1>6 DEF IInv

\* A request that decides to save a task that follows from what was stored.
LEMMA DecideInvariant ==
  ASSUME IInv, NEW w \in Worker, NEW r \in Request,
         r.step = "save", r.id \in Id, r.row \in Row,
         Justified(r.id, r.row.status),
         Become(w, r), UNCHANGED <<now, tables, walk, was>>
  PROVE  IInv'
<1>1. RestTyped'
  BY DEF IInv, RestTyped, Become
<1>2. \A v \in Worker : req'[v] = IF v = w THEN r ELSE req[v]
  BY DEF IInv, RestTyped, Become
<1>3. SaveTyped' /\ SaveJustified'
  BY <1>2 DEF IInv, SaveTyped, SaveJustified, Justified, At
<1> QED
  BY <1>1, <1>3, TablesUnchanged DEF IInv

LEMMA CreateInvariant ==
  ASSUME IInv, NEW w \in Worker, NEW i \in Id, NEW title \in Title,
         NEW priority \in Priority, Create(w, i, title, priority)
  PROVE  IInv'
<1> DEFINE row == [title |-> title, status |-> "todo", priority |-> priority,
                   created |-> now]
           r   == [step |-> "save", op |-> "create", id |-> i, row |-> row]
<1>1. row \in Row
  BY DEF Row, Status, IInv, RestTyped
<1>2. r \in Request /\ r.step = "save" /\ r.id = i /\ r.row = row
  BY <1>1 DEF Request
<1>3. Justified(i, row.status)
  BY DEF Justified
<1>4. Become(w, r) /\ UNCHANGED <<now, tables, walk, was>>
  BY DEF Create
<1> HIDE DEF row, r
<1> QED
  BY <1>1, <1>2, <1>3, <1>4, DecideInvariant

\* The row of a task as a reader sees it.
LEMMA ShownRow ==
  ASSUME IInv, NEW i \in DOMAIN Shown
  PROVE  /\ i \in Id /\ Shown[i] \in Row
         /\ <<i, Shown[i].status>> \in was
         /\ Justified(i, Shown[i].status)
<1>1. Shown \in Versions
  BY ReadVersions DEF IInv
<1>2. i \in Id /\ Shown[i] \in Row /\ <<i, Shown[i].status>> \in was
  BY <1>1 DEF IInv, VersionsTyped, RowsTyped, VersionsWere, StatusesWere
<1> QED
  BY <1>2 DEF IInv, NoStatusSkipped, Justified

LEMMA MoveInvariant ==
  ASSUME IInv, NEW w \in Worker, NEW i \in Id, NEW to \in {"doing", "done"},
         Move(w, i, to)
  PROVE  IInv'
<1> DEFINE row == [Shown[i] EXCEPT !.status = to]
           r   == [step |-> "save", op |-> "move", id |-> i, row |-> row]
<1>1. i \in DOMAIN Shown /\ CanTransitionTo(Shown[i].status, to)
  BY DEF Move
<1>2. row \in Row /\ row.status = to
  BY <1>1, ShownRow DEF Row, Status
<1>3. r \in Request /\ r.step = "save" /\ r.id = i /\ r.row = row
  BY <1>2 DEF Request
<1>4. Justified(i, row.status)
  BY <1>1, <1>2, ShownRow DEF Justified, CanTransitionTo
<1>5. Become(w, r) /\ UNCHANGED <<now, tables, walk, was>>
  BY DEF Move
<1> HIDE DEF row, r
<1> QED
  BY <1>2, <1>3, <1>4, <1>5, DecideInvariant

LEMMA ChangePriorityInvariant ==
  ASSUME IInv, NEW w \in Worker, NEW i \in Id, NEW priority \in Priority,
         ChangePriority(w, i, priority)
  PROVE  IInv'
<1> DEFINE row == [Shown[i] EXCEPT !.priority = priority]
           r   == [step |-> "save", op |-> "priority", id |-> i, row |-> row]
<1>1. i \in DOMAIN Shown
  BY DEF ChangePriority
<1>2. row \in Row /\ row.status = Shown[i].status
  BY <1>1, ShownRow DEF Row
<1>3. r \in Request /\ r.step = "save" /\ r.id = i /\ r.row = row
  BY <1>2 DEF Request
<1>4. Justified(i, row.status)
  BY <1>1, <1>2, ShownRow
<1>5. Become(w, r) /\ UNCHANGED <<now, tables, walk, was>>
  BY DEF ChangePriority
<1> HIDE DEF row, r
<1> QED
  BY <1>2, <1>3, <1>4, <1>5, DecideInvariant

\* Save adds one version, in which the title is still unique: TitleTaken
\* looks at the version before, not at what the request had read.
LEMMA SaveInvariant ==
  ASSUME IInv, NEW w \in Worker, Save(w)
  PROVE  IInv'
<1> DEFINE i     == req[w].id
           row   == IF i \in DOMAIN Rows
                    THEN [req[w].row EXCEPT !.created = Rows[i].created]
                    ELSE req[w].row
           table == [k \in DOMAIN Rows \cup {i} |-> IF k = i THEN row ELSE Rows[k]]
<1>1. /\ At(w, "save") /\ ~ TitleTaken(w) /\ Commit(table)
      /\ was' = was \cup {<<i, row.status>>}
      /\ Become(w, Idle) /\ UNCHANGED <<now, walk>>
  BY DEF Save
<1>2. Rows \in Versions
  BY ReadVersions DEF IInv
<1>3. RowsTyped(Rows) /\ TitlesApart(Rows) /\ StatusesWere(Rows)
  BY <1>2 DEF IInv, VersionsTyped, VersionsUnique, VersionsWere
<1>4. i \in Id /\ req[w].row \in Row /\ Justified(i, req[w].row.status)
  BY <1>1 DEF IInv, SaveTyped, SaveJustified
<1>5. /\ row \in Row /\ row.title = req[w].row.title
      /\ row.status = req[w].row.status
  BY <1>3, <1>4 DEF Row, RowsTyped
<1>6. /\ DOMAIN table = DOMAIN Rows \cup {i} /\ table[i] = row
      /\ \A k \in DOMAIN Rows \ {i} : table[k] = Rows[k]
  OBVIOUS
<1>7. \A k \in DOMAIN Rows \ {i} : Rows[k].title # row.title
  BY <1>1, <1>5 DEF TitleTaken
<1>8. TablesAreVersions' /\ Versions' \subseteq Versions \cup {table}
  BY <1>1, CommitVersions DEF IInv
<1> HIDE DEF i, row, table
<1>9. RowsTyped(table) /\ TitlesApart(table)
  BY <1>3, <1>4, <1>5, <1>6, <1>7 DEF RowsTyped, TitlesApart
<1>10. VersionsTyped' /\ VersionsUnique'
  BY <1>8, <1>9 DEF IInv, VersionsTyped, VersionsUnique, RowsTyped, TitlesApart
<1>11. VersionsWere'
  <2>1. \A k \in DOMAIN table : <<k, table[k].status>> \in was'
    BY <1>1, <1>3, <1>6 DEF StatusesWere
  <2> QED
    BY <1>1, <1>8, <2>1 DEF IInv, VersionsWere, StatusesWere
<1>12. RestTyped'
  <2>1. row.status \in Status
    BY <1>5 DEF Row
  <2>2. Idle \in Request
    BY DEF Idle, Request
  <2>3. req' \in [Worker -> Request]
    BY <1>1, <2>2 DEF IInv, RestTyped, Become
  <2>4. was' \subseteq Id \X Status
    BY <1>1, <1>4, <2>1 DEF IInv, RestTyped
  <2> QED
    BY <1>1, <2>3, <2>4 DEF IInv, RestTyped
<1>13. \A v \in Worker : At(v, "save")' => At(v, "save") /\ req'[v] = req[v]
  BY <1>1 DEF IInv, RestTyped, Become, At, Idle
<1>14. SaveTyped' /\ SaveJustified'
  BY <1>1, <1>13 DEF IInv, SaveTyped, SaveJustified, Justified, At
<1>15. NoStatusSkipped'
  BY <1>1, <1>4, <1>5 DEF IInv, NoStatusSkipped, Justified
<1> QED
  BY <1>8, <1>10, <1>11, <1>12, <1>14, <1>15 DEF IInv

LEMMA GiveUpInvariant ==
  ASSUME IInv, NEW w \in Worker, GiveUp(w)
  PROVE  IInv'
<1>1. Become(w, Idle) /\ UNCHANGED <<now, tables, walk, was>>
  BY DEF GiveUp
<1>2. Idle \in Request
  BY DEF Idle, Request
<1>3. RestTyped'
  BY <1>1, <1>2 DEF IInv, RestTyped, Become
<1>4. \A v \in Worker : At(v, "save")' => At(v, "save") /\ req'[v] = req[v]
  BY <1>1 DEF IInv, RestTyped, Become, At, Idle
<1>5. SaveTyped' /\ SaveJustified'
  BY <1>1, <1>4 DEF IInv, SaveTyped, SaveJustified, Justified, At
<1> QED
  BY <1>1, <1>3, <1>5, TablesUnchanged DEF IInv

\* A step of the listing client, given that what it has read stays typed.
LEMMA WalkInvariant ==
  ASSUME IInv, UNCHANGED <<now, tables, req, was>>,
         walk' \in Walk
  PROVE  IInv'
<1>1. RestTyped'
  BY DEF IInv, RestTyped
<1> QED
  BY <1>1, TablesUnchanged, RequestsUnchanged DEF IInv

LEMMA LimitType == Limit \in Nat
  BY TasksAssumption DEF Limit, Min2

LEMMA ShownFinite ==
  ASSUME IInv
  PROVE  DOMAIN Shown \subseteq Id /\ Cardinality(DOMAIN Shown) \in Nat
<1>1. Shown \in Versions
  BY ReadVersions DEF IInv
<1>2. DOMAIN Shown \subseteq Id
  BY <1>1 DEF IInv, VersionsTyped, RowsTyped
<1> QED
  BY <1>2, FS_Subset, FS_CardinalityType, TasksAssumption

LEMMA PageInvariant ==
  ASSUME IInv, NEW order \in Orders(Shown), ListTasksPage(order)
  PROVE  IInv'
<1> DEFINE last == Min2(walk.offset + Limit, Len(order))
           page == SubSeq(order, walk.offset + 1, last)
<1>1. order \in Seq(Id)
  <2>1. order \in [1 .. Cardinality(DOMAIN Shown) -> DOMAIN Shown]
    BY DEF Orders
  <2>2. order \in [1 .. Cardinality(DOMAIN Shown) -> Id]
    BY <2>1, ShownFinite
  <2> QED
    BY <2>2, ShownFinite, SeqDef
<1>2. Len(order) \in Nat /\ \A n \in 1 .. Len(order) : order[n] \in Id
  BY <1>1, LenProperties, ElementOfSeq
<1>3. walk.offset \in Nat /\ Limit \in Nat
  BY LimitType DEF IInv, RestTyped, Walk
<1>4. last \in Int /\ last <= Len(order)
  BY <1>2, <1>3 DEF Min2
<1> HIDE DEF last
<1>5. \A n \in walk.offset + 1 .. last : order[n] \in Id
  BY <1>2, <1>3, <1>4
<1>6. page \in Seq(Id)
  BY <1>3, <1>4, <1>5, SubSeqProperties
<1>7. walk' = [walk EXCEPT !.step = "page_shown", !.page = page,
                           !.seen = walk.seen \o page]
  BY DEF ListTasksPage, last
<1>8. walk.seen \o page \in Seq(Id)
  BY <1>6, ConcatProperties DEF IInv, RestTyped, Walk
<1> HIDE DEF page
<1>9. walk' \in Walk
  BY <1>6, <1>7, <1>8 DEF IInv, RestTyped, Walk
<1>10. UNCHANGED <<now, tables, req, was>>
  BY DEF ListTasksPage
<1> QED
  BY <1>9, <1>10, WalkInvariant

LEMMA NextInvariant == IInv /\ [Next]_vars => IInv'
<1> SUFFICES ASSUME IInv, [Next]_vars PROVE IInv'
  OBVIOUS
<1>1. CASE \E w \in Worker, i \in Id, title \in Title, priority \in Priority :
             Create(w, i, title, priority)
  BY <1>1, CreateInvariant
<1>2. CASE \E w \in Worker, i \in Id, to \in {"doing", "done"} : Move(w, i, to)
  BY <1>2, MoveInvariant
<1>3. CASE \E w \in Worker, i \in Id, priority \in Priority :
             ChangePriority(w, i, priority)
  BY <1>3, ChangePriorityInvariant
<1>4. CASE \E w \in Worker : Save(w) \/ GiveUp(w)
  BY <1>4, SaveInvariant, GiveUpInvariant
<1>5. CASE \E offset \in {0, MaxOffset + 1} : BeginWalk(offset)
  <2> PICK offset \in {0, MaxOffset + 1} : BeginWalk(offset)
    BY <1>5
  <2>1. <<>> \in Seq(Id) /\ offset \in Nat
    BY TasksAssumption
  <2>2. walk' \in Walk
    BY <2>1, ShownFinite DEF BeginWalk, Walk
  <2>3. UNCHANGED <<now, tables, req, was>>
    BY DEF BeginWalk
  <2> QED
    BY <2>2, <2>3, WalkInvariant
<1>6. CASE CountTasks
  <2>1. walk' \in Walk
    BY <1>6, ShownFinite DEF IInv, RestTyped, CountTasks, Walk
  <2>2. UNCHANGED <<now, tables, req, was>>
    BY <1>6 DEF CountTasks
  <2> QED
    BY <2>1, <2>2, WalkInvariant
<1>7. CASE \E order \in Orders(Shown) : ListTasksPage(order)
  BY <1>7, PageInvariant
<1>8. CASE NextPage
  <2>1. <<>> \in Seq(Id) /\ walk \in Walk
    BY DEF IInv, RestTyped
  <2>2. walk.offset + Limit \in Nat
    <3>1. walk.offset \in Nat
      BY <2>1 DEF Walk
    <3>2. Limit \in Nat
      BY LimitType
    <3> QED
      BY <3>1, <3>2
  <2>3. walk' \in Walk
    BY <1>8, <2>1, <2>2 DEF NextPage, Walk
  <2>4. UNCHANGED <<now, tables, req, was>>
    BY <1>8 DEF NextPage
  <2> QED
    BY <2>3, <2>4, WalkInvariant
<1>12. CASE RefusePage
  <2>1. walk' \in Walk
    BY <1>12 DEF IInv, RestTyped, RefusePage, Walk
  <2>2. UNCHANGED <<now, tables, req, was>>
    BY <1>12 DEF RefusePage
  <2> QED
    BY <2>1, <2>2, WalkInvariant
<1>9. CASE Replay
  <2>1. TablesAreVersions' /\ Versions' \subseteq Versions
    BY <1>9, ReplayVersions DEF IInv
  <2>2. UNCHANGED <<now, req, walk, was>>
    BY <1>9 DEF Replay
  <2>3. VersionsTyped' /\ VersionsUnique' /\ VersionsWere' /\ NoStatusSkipped'
    BY <2>1, <2>2 DEF IInv, VersionsTyped, VersionsUnique, VersionsWere,
       NoStatusSkipped, RowsTyped, TitlesApart, StatusesWere
  <2> QED
    BY <2>1, <2>2, <2>3, RequestsUnchanged DEF IInv, RestTyped
<1>10. CASE Tick
  BY <1>10, TablesUnchanged, RequestsUnchanged DEF IInv, RestTyped, Tick
<1>11. CASE UNCHANGED vars
  BY <1>11, TablesUnchanged, RequestsUnchanged DEF IInv, RestTyped, vars
<1> QED
  BY <1>1, <1>2, <1>3, <1>4, <1>5, <1>6, <1>7, <1>8, <1>9, <1>10, <1>11, <1>12 DEF Next

\* The inductive invariant holds in every reachable state of the table, of its
\* replica and of the requests of TaskService.
THEOREM Invariance == Spec => []IInv
<1>1. Init => IInv
  BY InitInvariant
<1>2. IInv /\ [Next]_vars => IInv'
  BY NextInvariant
<1> QED
  BY <1>1, <1>2, PTL DEF Spec

-----------------------------------------------------------------------------
(* The order of a page: ORDER BY created_at, id puts a table in one order  *)
(* only.  An order is a bijection, and the place of a task in it is the    *)
(* number of tasks before it.                                              *)

BeforeTask(table, i) == {j \in DOMAIN table : Before(table, j, i)}

\* Before is a strict total order of the tasks of a table.
LEMMA BeforeOrders ==
  ASSUME NEW table, RowsTyped(table)
  PROVE  /\ \A i \in DOMAIN table : ~ Before(table, i, i)
         /\ \A i, j \in DOMAIN table : i # j => Before(table, i, j) \/ Before(table, j, i)
         /\ \A i, j, k \in DOMAIN table :
              Before(table, i, j) /\ Before(table, j, k) => Before(table, i, k)
<1>1. \A i \in DOMAIN table : i \in Nat /\ table[i].created \in Nat
  BY TasksAssumption DEF RowsTyped, Row
<1> QED
  BY <1>1 DEF Before

LEMMA OrderBijection ==
  ASSUME NEW table, RowsTyped(table), NEW s \in Orders(table)
  PROVE  /\ Cardinality(DOMAIN table) \in Nat
         /\ s \in Seq(DOMAIN table) /\ Len(s) = Cardinality(DOMAIN table)
         /\ \A m, n \in 1 .. Len(s) : m < n => s[m] # s[n] /\ Before(table, s[m], s[n])
         /\ \A m, n \in 1 .. Len(s) : s[m] = s[n] => m = n
         /\ \A i \in DOMAIN table : \E m \in 1 .. Len(s) : s[m] = i
<1> DEFINE D == DOMAIN table
           c == Cardinality(D)
<1>1. IsFiniteSet(D) /\ c \in Nat
  BY FS_Subset, FS_CardinalityType, TasksAssumption DEF RowsTyped
<1>2. s \in [1 .. c -> D] /\ \A m, n \in 1 .. c : m < n => s[m] # s[n] /\ ~ Before(table, s[n], s[m])
  BY DEF Orders
<1>3. s \in Seq(D) /\ Len(s) = c
  <2> HIDE DEF D, c
  <2>1. s \in Seq(D)
    BY <1>1, <1>2, SeqDef
  <2> QED
    BY <1>1, <1>2, <2>1, LenProperties
<1>4. \A m, n \in 1 .. c : m < n => s[m] # s[n] /\ Before(table, s[m], s[n])
  BY <1>2, BeforeOrders
<1>5. \A m, n \in 1 .. c : s[m] = s[n] => m = n
  <2> HIDE DEF D, c
  <2> QED
    BY <1>1, <1>2
<1>6. \A i \in D : \E m \in 1 .. c : s[m] = i
  <2>1. s \in Injection(1 .. c, D)
    BY <1>2, <1>5 DEF Injection, IsInjective
  <2>2. Cardinality(1 .. c) = c
    <3> HIDE DEF c
    <3> QED
      BY <1>1, FS_Interval
  <2>3. s \in Surjection(1 .. c, D)
    BY <1>1, <2>1, <2>2, FS_Injection
  <2> QED
    BY <2>3 DEF Surjection
<1> QED
  BY <1>1, <1>3, <1>4, <1>5, <1>6

LEMMA PlaceInOrder ==
  ASSUME NEW table, RowsTyped(table), NEW s \in Orders(table), NEW m \in 1 .. Len(s)
  PROVE  IsFiniteSet(BeforeTask(table, s[m])) /\ Cardinality(BeforeTask(table, s[m])) = m - 1
<1> DEFINE f == [n \in 1 .. m - 1 |-> s[n]]
           T == BeforeTask(table, s[m])
<1>1. /\ s \in Seq(DOMAIN table) /\ Len(s) \in Nat
      /\ \A k, n \in 1 .. Len(s) : k < n => s[k] # s[n] /\ Before(table, s[k], s[n])
      /\ \A k, n \in 1 .. Len(s) : s[k] = s[n] => k = n
      /\ \A i \in DOMAIN table : \E k \in 1 .. Len(s) : s[k] = i
  BY OrderBijection
<1>2. m \in 1 .. Len(s) /\ m - 1 \in Nat /\ 1 .. m - 1 \subseteq 1 .. Len(s)
  BY <1>1
<1>3. \A k \in 1 .. Len(s) : s[k] \in DOMAIN table
  BY <1>1, ElementOfSeq
<1>4. \A k \in 1 .. m - 1 : s[k] \in T
  <2> SUFFICES ASSUME NEW k \in 1 .. m - 1 PROVE s[k] \in T
    OBVIOUS
  <2>1. k \in 1 .. Len(s) /\ k < m
    BY <1>1, <1>2
  <2>2. Before(table, s[k], s[m]) /\ s[k] \in DOMAIN table
    BY <1>1, <1>2, <1>3, <2>1
  <2> QED
    BY <2>2 DEF BeforeTask
<1>5. \A i \in T : \E k \in 1 .. m - 1 : s[k] = i
  <2> SUFFICES ASSUME NEW i \in DOMAIN table, Before(table, i, s[m])
               PROVE  \E k \in 1 .. m - 1 : s[k] = i
    BY DEF BeforeTask
  <2>1. PICK k \in 1 .. Len(s) : s[k] = i
    BY <1>1
  <2>2. ~ (m < k)
    <3>1. ASSUME m < k PROVE FALSE
      <4>1. Before(table, s[m], s[k])
        BY <1>1, <1>2, <3>1
      <4> QED
        BY <1>3, <2>1, <4>1, BeforeOrders
    <3> QED
      BY <3>1
  <2>3. k # m
    BY <1>3, <2>1, BeforeOrders
  <2>4. k \in 1 .. m - 1
    <3> HIDE DEF T, f
    <3> QED
      BY <1>1, <1>2, <2>2, <2>3
  <2> QED
    BY <2>1, <2>4
<1>6. f \in Bijection(1 .. m - 1, T)
  BY <1>1, <1>2, <1>4, <1>5 DEF Bijection, Injection, Surjection, IsInjective
<1>7. ExistsBijection(1 .. m - 1, T) /\ IsFiniteSet(1 .. m - 1)
  BY <1>2, <1>6, FS_Interval DEF ExistsBijection
<1> HIDE DEF T
<1> QED
  BY <1>2, <1>7, FS_CountingElements, FS_Bijection DEF T

\* ties on created_at are broken by id
LEMMA OneOrder ==
  ASSUME NEW table, RowsTyped(table), NEW s \in Orders(table), NEW t \in Orders(table)
  PROVE  s = t
<1>1. /\ s \in Seq(DOMAIN table) /\ t \in Seq(DOMAIN table)
      /\ Len(s) = Len(t) /\ Len(s) \in Nat
  BY OrderBijection
<1>2. \A k \in 1 .. Len(s) : s[k] \in DOMAIN table /\ t[k] \in DOMAIN table
  BY <1>1, ElementOfSeq
<1>3. ASSUME NEW a \in DOMAIN table, NEW b \in DOMAIN table, Before(table, a, b),
             IsFiniteSet(BeforeTask(table, a)), IsFiniteSet(BeforeTask(table, b)),
             NEW k \in Nat,
             Cardinality(BeforeTask(table, a)) = k, Cardinality(BeforeTask(table, b)) = k
      PROVE  FALSE
  <2> DEFINE A == BeforeTask(table, a)
             B == BeforeTask(table, b)
  <2>1. A \cup {a} \subseteq B /\ a \notin A
    BY <1>3, BeforeOrders DEF BeforeTask
  <2> HIDE DEF A, B
  <2>2. Cardinality(A \cup {a}) = k + 1
    BY <1>3, <2>1, FS_AddElement DEF A
  <2>3. Cardinality(A \cup {a}) <= k
    BY <1>3, <2>1, FS_Subset DEF B
  <2> QED
    BY <2>2, <2>3
<1>4. ASSUME NEW k \in 1 .. Len(s) PROVE s[k] = t[k]
  <2>1. k - 1 \in Nat /\ k \in 1 .. Len(t)
    BY <1>1
  <2>2. /\ IsFiniteSet(BeforeTask(table, s[k])) /\ Cardinality(BeforeTask(table, s[k])) = k - 1
        /\ IsFiniteSet(BeforeTask(table, t[k])) /\ Cardinality(BeforeTask(table, t[k])) = k - 1
    BY <2>1, PlaceInOrder
  <2>3. ~ Before(table, s[k], t[k]) /\ ~ Before(table, t[k], s[k])
    BY <1>2, <1>3, <2>1, <2>2
  <2> QED
    BY <1>2, <2>3, BeforeOrders
<1> QED
  BY <1>1, <1>4, SeqEqual

-----------------------------------------------------------------------------
(* The list.  A later version of the table keeps every task of an earlier  *)
(* one and its created_at; so as long as it has no other tasks its order   *)
(* is the same, and what the client has read is a beginning of that order. *)

Keeps(v, u) ==
  /\ DOMAIN v \subseteq DOMAIN u
  /\ \A i \in DOMAIN v : u[i].created = v[i].created

Growing(s) == \A m, n \in DOMAIN s : m <= n => Keeps(s[m], s[n])

\* What the walk w has read when readers see the table t.
FirstKept(w, t) ==
  w.step \in {"count", "page", "page_shown"} => w.first \subseteq DOMAIN t

TotalBetween(w, t) ==
  w.step \in {"page", "page_shown"} =>
    /\ w.offset <= MaxOffset
    /\ Cardinality(w.first) <= w.total
    /\ w.total <= Cardinality(DOMAIN t)

ReadTo(w, order, n) == w.seen = SubSeq(order, 1, Min2(n, Len(order)))

SeenBefore(w, t) ==
  w.step \in {"count", "page"} /\ w.offset <= MaxOffset /\ DOMAIN t = w.first =>
    \A order \in Orders(t) : ReadTo(w, order, w.offset)

SeenWith(w, t) ==
  w.step = "page_shown" /\ DOMAIN t = w.first =>
    \E order \in Orders(t) : ReadTo(w, order, w.offset + Limit)

PageFull(w) ==
  w.step = "page_shown" =>
    Len(w.page) >= Min2(Limit, IF w.total > w.offset THEN w.total - w.offset ELSE 0)

Listed(w, t) ==
  /\ FirstKept(w, t)
  /\ TotalBetween(w, t)
  /\ SeenBefore(w, t)
  /\ SeenWith(w, t)
  /\ PageFull(w)

LInv == Growing(tables) /\ Listed(walk, Shown)

LEMMA KeepsOrder ==
  /\ \A v : Keeps(v, v)
  /\ \A v, u, t : Keeps(v, u) /\ Keeps(u, t) => Keeps(v, t)
BY DEF Keeps

LEMMA GrowingTail ==
  ASSUME NEW S, NEW s \in Seq(S), Len(s) > 1, Growing(s)
  PROVE  Growing(Tail(s)) /\ Keeps(s[1], Tail(s)[1])
<1>1. Len(s) \in Nat /\ DOMAIN s = 1 .. Len(s)
  BY LenProperties
<1>2. s # <<>>
  BY <1>1, EmptySeq
<1>3. /\ Tail(s) \in Seq(S) /\ Len(Tail(s)) = Len(s) - 1
      /\ \A i \in 1 .. Len(Tail(s)) : Tail(s)[i] = s[i + 1]
  BY <1>2, HeadTailProperties
<1>4. DOMAIN Tail(s) = 1 .. Len(s) - 1
  BY <1>3, LenProperties
<1>5. \A n \in DOMAIN Tail(s) : n \in Nat /\ n + 1 \in DOMAIN s /\ Tail(s)[n] = s[n + 1]
  BY <1>1, <1>3, <1>4
<1>6. \A m, n \in DOMAIN Tail(s) : m <= n => m + 1 <= n + 1
  BY <1>5
<1>7. 1 \in DOMAIN s /\ 2 \in DOMAIN s /\ Tail(s)[1] = s[2]
  BY <1>1, <1>4, <1>5
<1> QED
  BY <1>5, <1>6, <1>7 DEF Growing

LEMMA GrowingAppend ==
  ASSUME NEW S, NEW s \in Seq(S), s # <<>>, Growing(s),
         NEW table \in S, Keeps(s[Len(s)], table)
  PROVE  Growing(Append(s, table)) /\ Append(s, table)[1] = s[1]
<1> DEFINE all == Append(s, table)
<1>1. Len(s) \in Nat \ {0} /\ DOMAIN s = 1 .. Len(s)
  BY EmptySeq, LenProperties
<1>2. /\ DOMAIN all = 1 .. Len(s) + 1
      /\ \A n \in 1 .. Len(s) : all[n] = s[n]
      /\ all[Len(s) + 1] = table
  BY AppendProperties, LenProperties
<1> HIDE DEF all
<1>3. ASSUME NEW m \in DOMAIN all, NEW n \in DOMAIN all, m <= n
      PROVE  Keeps(all[m], all[n])
  <2>1. CASE n \in 1 .. Len(s)
    <3>1. m \in 1 .. Len(s)
      BY <1>1, <1>2, <1>3, <2>1
    <3> QED
      BY <1>1, <1>2, <1>3, <2>1, <3>1 DEF Growing
  <2>2. CASE m \in 1 .. Len(s) /\ n = Len(s) + 1
    <3>1. Len(s) \in DOMAIN s /\ m <= Len(s)
      BY <1>1, <2>2
    <3>2. Keeps(s[m], s[Len(s)])
      BY <1>1, <2>2, <3>1 DEF Growing
    <3> QED
      BY <1>2, <2>2, <3>2, KeepsOrder
  <2>3. CASE m = n
    BY <2>3, KeepsOrder
  <2> QED
    BY <1>1, <1>2, <1>3, <2>1, <2>2, <2>3
<1> QED
  BY <1>1, <1>2, <1>3 DEF Growing, all

\* Save keeps the created_at of a task that is there.
LEMMA SaveGrows ==
  ASSUME IInv, Growing(tables), NEW w \in Worker, Save(w)
  PROVE  Growing(tables') /\ Keeps(Shown, Shown')
<1> DEFINE i     == req[w].id
           row   == IF i \in DOMAIN Rows
                    THEN [req[w].row EXCEPT !.created = Rows[i].created]
                    ELSE req[w].row
           table == [k \in DOMAIN Rows \cup {i} |-> IF k = i THEN row ELSE Rows[k]]
           all   == Append(tables, table)
           S     == Versions \cup {table}
<1>1. At(w, "save") /\ Commit(table)
  BY DEF Save
<1>2. req[w].row \in Row
  BY <1>1 DEF IInv, SaveTyped
<1>3. i \in DOMAIN Rows => row.created = Rows[i].created
  BY <1>2 DEF Row
<1>4. Keeps(Rows, table)
  <2> HIDE DEF row
  <2> QED
    BY <1>3 DEF Keeps
<1> HIDE DEF table
<1>5. tables \in Seq(S) /\ tables # <<>> /\ Len(tables) \in Nat \ {0}
  <2>1. tables \in [1 .. Len(tables) -> Versions] /\ Len(tables) \in Nat \ {0}
    BY EmptySeq, LenProperties DEF IInv, TablesAreVersions
  <2>2. tables \in [1 .. Len(tables) -> S]
    BY <2>1
  <2> QED
    BY <2>1, <2>2, SeqDef DEF IInv, TablesAreVersions
<1>6. Growing(all) /\ all[1] = tables[1]
  BY <1>4, <1>5, GrowingAppend DEF Rows
<1>7. all \in Seq(S) /\ Len(all) > 1
  BY <1>5, AppendProperties
<1> HIDE DEF all, S
<1>8. Growing(Tail(all)) /\ Keeps(all[1], Tail(all)[1])
  BY <1>6, <1>7, GrowingTail
<1>9. tables' = Tail(all) \/ tables' = all
  BY <1>1 DEF Commit, all
<1> QED
  BY <1>6, <1>8, <1>9, KeepsOrder DEF Shown

LEMMA TablesGrow ==
  ASSUME IInv, Growing(tables), [Next]_vars
  PROVE  Growing(tables') /\ Keeps(Shown, Shown')
<1>1. CASE UNCHANGED tables
  BY <1>1, KeepsOrder DEF Shown
<1>2. CASE \E w \in Worker : Save(w)
  BY <1>2, SaveGrows
<1>3. CASE Replay
  <2>1. tables \in Seq(Versions) /\ Len(tables) > 1 /\ tables' = Tail(tables)
    BY <1>3 DEF IInv, TablesAreVersions, Replay
  <2> QED
    BY <2>1, GrowingTail DEF Shown
<1>4. UNCHANGED tables \/ (\E w \in Worker : Save(w)) \/ Replay
  BY DEF Next, vars, Create, Move, ChangePriority, GiveUp, BeginWalk, RefusePage,
         CountTasks, ListTasksPage, NextPage, Tick
<1> QED
  BY <1>1, <1>2, <1>3, <1>4

LEMMA SameOrders ==
  ASSUME NEW v, NEW u, Keeps(v, u), DOMAIN v = DOMAIN u
  PROVE  Orders(v) = Orders(u)
<1>1. \A i, j \in DOMAIN v : Before(v, i, j) <=> Before(u, i, j)
  BY DEF Keeps, Before
<1>2. ASSUME NEW s \in [1 .. Cardinality(DOMAIN v) -> DOMAIN v],
             NEW m \in DOMAIN s, NEW n \in DOMAIN s
      PROVE  Before(v, s[n], s[m]) <=> Before(u, s[n], s[m])
  BY <1>1
<1> QED
  BY <1>2 DEF Orders

\* A later version of the table does not disturb what the client has read.
LEMMA ListedLater ==
  ASSUME NEW w, NEW t, NEW u, Keeps(t, u), RowsTyped(u),
         w \in Walk, Listed(w, t)
  PROVE  Listed(w, u)
<1>1. DOMAIN t \subseteq DOMAIN u
  BY DEF Keeps
<1>2. /\ Cardinality(DOMAIN t) \in Nat /\ Cardinality(DOMAIN u) \in Nat
      /\ Cardinality(DOMAIN t) <= Cardinality(DOMAIN u)
  BY <1>1, FS_Subset, FS_CardinalityType, TasksAssumption DEF RowsTyped
<1>3. FirstKept(w, u)
  BY <1>1 DEF Listed, FirstKept
<1>4. TotalBetween(w, u)
  <2> SUFFICES ASSUME w.step \in {"page", "page_shown"}
               PROVE  w.total <= Cardinality(DOMAIN u)
    BY DEF Listed, TotalBetween
  <2>1. w.total <= Cardinality(DOMAIN t) /\ w.total \in Nat
    BY DEF Listed, TotalBetween, Walk
  <2> QED
    BY <1>2, <2>1
<1>5. ASSUME w.step \in {"count", "page", "page_shown"}, DOMAIN u = w.first
      PROVE  DOMAIN t = w.first /\ Orders(t) = Orders(u)
  <2>1. DOMAIN t = DOMAIN u
    BY <1>1, <1>5 DEF Listed, FirstKept
  <2> QED
    BY <1>5, <2>1, SameOrders
<1>6. SeenBefore(w, u)
  BY <1>5 DEF Listed, SeenBefore
<1>7. SeenWith(w, u)
  BY <1>5 DEF Listed, SeenWith
<1> QED
  BY <1>3, <1>4, <1>6, <1>7 DEF Listed

LEMMA BeginListed ==
  ASSUME IInv, NEW offset \in {0, MaxOffset + 1}, BeginWalk(offset)
  PROVE  Listed(walk', Shown)
<1>1. /\ walk'.step = "count" /\ walk'.offset = offset
      /\ walk'.seen = <<>> /\ walk'.first = DOMAIN Shown
  BY DEF BeginWalk
<1>2. offset <= MaxOffset => offset = 0
  BY TasksAssumption
<1>3. SeenBefore(walk', Shown)
  <2> SUFFICES ASSUME offset = 0, NEW order \in Orders(Shown)
               PROVE  ReadTo(walk', order, 0)
    BY <1>1, <1>2 DEF SeenBefore
  <2>1. RowsTyped(Shown)
    BY ReadVersions DEF IInv, VersionsTyped
  <2>2. Len(order) \in Nat
    BY <2>1, OrderBijection
  <2>3. Min2(0, Len(order)) = 0
    BY <2>2 DEF Min2
  <2>4. SubSeq(order, 1, 0) = <<>>
    BY SubSeqEmpty
  <2> QED
    BY <1>1, <2>3, <2>4 DEF ReadTo
<1> QED
  BY <1>1, <1>3 DEF Listed, FirstKept, TotalBetween, SeenWith, PageFull

LEMMA CountListed ==
  ASSUME IInv, Listed(walk, Shown), CountTasks
  PROVE  Listed(walk', Shown)
<1>1. /\ walk.step = "count" /\ walk.offset <= MaxOffset
      /\ walk' = [walk EXCEPT !.step = "page", !.total = Cardinality(DOMAIN Shown)]
  BY DEF CountTasks
<1>2. /\ walk'.step = "page" /\ walk'.total = Cardinality(DOMAIN Shown)
      /\ walk'.offset = walk.offset /\ walk'.seen = walk.seen
      /\ walk'.first = walk.first
  BY <1>1 DEF IInv, RestTyped, Walk
<1>3. walk.first \subseteq DOMAIN Shown
  BY <1>1 DEF Listed, FirstKept
<1>4. Cardinality(walk.first) <= Cardinality(DOMAIN Shown) /\ Cardinality(DOMAIN Shown) \in Nat
  BY <1>3, ShownFinite, FS_Subset, TasksAssumption
<1>5. TotalBetween(walk', Shown)
  BY <1>1, <1>2, <1>4 DEF TotalBetween
<1>6. SeenBefore(walk', Shown)
  BY <1>1, <1>2 DEF Listed, SeenBefore, ReadTo
<1> QED
  BY <1>2, <1>3, <1>5, <1>6 DEF Listed, FirstKept, SeenWith, PageFull

\* A page continues what was read before it, and has what the total promises.
LEMMA PageListed ==
  ASSUME IInv, Listed(walk, Shown), NEW order \in Orders(Shown), ListTasksPage(order)
  PROVE  Listed(walk', Shown)
<1> DEFINE k    == walk.offset
           n    == Len(order)
           last == Min2(k + Limit, n)
           page == SubSeq(order, k + 1, last)
<1>1. /\ order \in Seq(DOMAIN Shown) /\ n = Cardinality(DOMAIN Shown) /\ n \in Nat
  BY ReadVersions, OrderBijection DEF IInv, VersionsTyped
<1>2. k \in Nat /\ Limit \in Nat /\ walk.total \in Nat
  BY LimitType DEF IInv, RestTyped, Walk
<1>3. walk.step = "page" /\ walk' = [walk EXCEPT !.step = "page_shown", !.page = page,
                                                 !.seen = walk.seen \o page]
  BY DEF ListTasksPage
<1>4. /\ walk'.step = "page_shown" /\ walk'.page = page
      /\ walk'.offset = k /\ walk'.total = walk.total /\ walk'.first = walk.first
      /\ walk'.seen = walk.seen \o page
  BY <1>3 DEF IInv, RestTyped, Walk
<1>5. walk.first \subseteq DOMAIN Shown
  BY <1>3 DEF Listed, FirstKept
<1>6. k <= MaxOffset /\ Cardinality(walk.first) <= walk.total /\ walk.total <= n
  BY <1>1, <1>3 DEF Listed, TotalBetween
<1>7. DOMAIN Shown = walk.first => walk.seen = SubSeq(order, 1, Min2(k, n))
  BY <1>3, <1>6 DEF Listed, SeenBefore, ReadTo
<1> HIDE DEF page
<1>8. SubSeq(order, 1, Min2(k, n)) \o page = SubSeq(order, 1, last)
  <2> HIDE DEF k, n
  <2>1. CASE k <= n
    <3>1. Min2(k, n) = k /\ last \in k .. n
      BY <1>1, <1>2, <2>1 DEF Min2
    <3>2. 1 \in 1 .. n + 1 /\ k \in 1 - 1 .. n
      BY <1>1, <1>2, <2>1
    <3> HIDE DEF last
    <3> QED
      BY <1>1, <3>1, <3>2, ConcatAdjacentSubSeq DEF page, n
  <2>2. CASE n < k
    <3>1. Min2(k, n) = n /\ last = n
      BY <1>1, <1>2, <2>2 DEF Min2
    <3>2. page = <<>>
      BY <1>1, <1>2, <2>2, <3>1, SubSeqEmpty DEF page
    <3>3. SubSeq(order, 1, n) = order
      BY <1>1, SubSeqFull DEF n
    <3> QED
      BY <1>1, <3>1, <3>2, <3>3, ConcatEmptySeq
  <2>3. k <= n \/ n < k
    BY <1>1, <1>2
  <2> QED
    BY <2>1, <2>2, <2>3
<1>9. SeenWith(walk', Shown)
  BY <1>4, <1>7, <1>8 DEF SeenWith, ReadTo
<1>10. PageFull(walk')
  <2> DEFINE total == walk.total
             lim == Limit
             d == IF total > k THEN total - k ELSE 0
  <2>1. total \in Nat /\ lim \in Nat
    BY <1>2
  <2>2. last \in Int /\ \A j \in k + 1 .. last : order[j] \in DOMAIN Shown
    <3> HIDE DEF k, n
    <3>1. last \in Int /\ last <= n
      BY <1>1, <1>2 DEF Min2
    <3>2. \A j \in 1 .. n : order[j] \in DOMAIN Shown
      BY <1>1, ElementOfSeq DEF n
    <3> HIDE DEF last
    <3> QED
      BY <1>1, <1>2, <3>1, <3>2
  <2>3. Len(page) = IF k + 1 <= last THEN last - (k + 1) + 1 ELSE 0
    <3> HIDE DEF last, k
    <3> QED
      BY <1>2, <2>2, SubSeqProperties DEF page
  <2>4. total <= n
    BY <1>6
  <2>5. last = Min2(k + lim, n)
    OBVIOUS
  <2> HIDE DEF last, k, n, total, lim
  <2>6. Len(page) >= Min2(lim, d)
    BY <1>1, <1>2, <2>1, <2>3, <2>4, <2>5 DEF Min2
  <2> QED
    BY <1>4, <2>6 DEF PageFull, total, lim, k
<1>11. TotalBetween(walk', Shown)
  BY <1>1, <1>4, <1>6 DEF TotalBetween
<1> QED
  BY <1>4, <1>5, <1>9, <1>10, <1>11 DEF Listed, FirstKept, SeenBefore

LEMMA NextPageListed ==
  ASSUME IInv, Listed(walk, Shown), NextPage
  PROVE  Listed(walk', Shown)
<1>1. walk.step = "page_shown" /\ walk' = [walk EXCEPT !.step = "count", !.offset = @ + Limit, !.page = <<>>]
  BY DEF NextPage
<1>2. /\ walk'.step = "count" /\ walk'.offset = walk.offset + Limit
      /\ walk'.first = walk.first /\ walk'.seen = walk.seen
  BY <1>1 DEF IInv, RestTyped, Walk
<1>3. SeenBefore(walk', Shown)
  <2> SUFFICES ASSUME DOMAIN Shown = walk.first, NEW order \in Orders(Shown)
               PROVE  ReadTo(walk', order, walk'.offset)
    BY <1>2 DEF SeenBefore
  <2>1. PICK o \in Orders(Shown) : ReadTo(walk, o, walk.offset + Limit)
    BY <1>1 DEF Listed, SeenWith
  <2>2. o = order
    BY ReadVersions, OneOrder DEF IInv, VersionsTyped
  <2> QED
    BY <1>2, <2>1, <2>2 DEF ReadTo
<1>4. FirstKept(walk', Shown)
  BY <1>1, <1>2 DEF Listed, FirstKept
<1> QED
  BY <1>2, <1>3, <1>4 DEF Listed, TotalBetween, SeenWith, PageFull

LEMMA RefuseListed ==
  ASSUME IInv, RefusePage
  PROVE  Listed(walk', Shown)
<1>1. walk'.step = "refused"
  BY DEF IInv, RestTyped, Walk, RefusePage
<1> QED
  BY <1>1 DEF Listed, FirstKept, TotalBetween, SeenBefore, SeenWith, PageFull

LEMMA ListInit == Init => LInv
<1> SUFFICES ASSUME Init PROVE LInv
  OBVIOUS
<1>1. walk.step = "idle"
  BY DEF Init
<1>2. Listed(walk, Shown)
  BY <1>1 DEF Listed, FirstKept, TotalBetween, SeenBefore, SeenWith, PageFull
<1>3. Growing(tables)
  BY KeepsOrder DEF Init, Growing
<1> QED
  BY <1>2, <1>3 DEF LInv

LEMMA ListNext == IInv /\ IInv' /\ LInv /\ [Next]_vars => LInv'
<1> SUFFICES ASSUME IInv, IInv', LInv, [Next]_vars PROVE LInv'
  OBVIOUS
<1>1. Growing(tables') /\ Keeps(Shown, Shown')
  BY TablesGrow DEF LInv
<1>2. Listed(walk, Shown)
  BY DEF LInv
<1>3. CASE UNCHANGED walk
  <2>1. RowsTyped(Shown')
    <3>1. (Shown \in Versions)'
      BY ReadVersions, PTL DEF IInv
    <3> QED
      BY <3>1 DEF IInv, VersionsTyped, RowsTyped
  <2>2. walk \in Walk
    BY DEF IInv, RestTyped
  <2>3. Listed(walk, Shown')
    BY <1>1, <1>2, <2>1, <2>2, ListedLater
  <2> QED
    BY <1>1, <1>3, <2>3 DEF LInv
<1>4. CASE Listed(walk', Shown) /\ UNCHANGED tables
  <2>1. Shown' = Shown
    BY <1>4 DEF Shown
  <2> QED
    BY <1>1, <1>4, <2>1 DEF LInv
<1>5. UNCHANGED walk \/ (Listed(walk', Shown) /\ UNCHANGED tables)
  <2>1. CASE \E offset \in {0, MaxOffset + 1} : BeginWalk(offset)
    BY <2>1, BeginListed DEF BeginWalk
  <2>2. CASE RefusePage
    BY <2>2, RefuseListed DEF RefusePage
  <2>3. CASE CountTasks
    BY <1>2, <2>3, CountListed DEF CountTasks
  <2>4. CASE \E order \in Orders(Shown) : ListTasksPage(order)
    BY <1>2, <2>4, PageListed DEF ListTasksPage
  <2>5. CASE NextPage
    BY <1>2, <2>5, NextPageListed DEF NextPage
  <2> QED
    BY <2>1, <2>2, <2>3, <2>4, <2>5 DEF Next, vars, Create, Move, ChangePriority,
       Save, GiveUp, Replay, Tick
<1> QED
  BY <1>3, <1>4, <1>5

\* The invariant of the listing client holds in every reachable state, while
\* requests save tasks and the replica applies their commits between its reads.
THEOREM ListInvariance == Spec => []LInv
<1>1. Init => LInv
  BY ListInit
<1>2. IInv /\ IInv' /\ LInv /\ [Next]_vars => LInv'
  BY ListNext
<1> QED
  BY <1>1, <1>2, Invariance, PTL DEF Spec

-----------------------------------------------------------------------------
(* The properties. *)

\* Every variable of the model of TaskService and its table keeps its type.
THEOREM TypeCorrect == Spec => []TypeOK
<1>1. IInv => TypeOK
  BY DEF IInv, TypeOK, RestTyped, TablesAreVersions, VersionsTyped, Versions,
         RowsTyped
<1> QED
  BY <1>1, Invariance, PTL

\* Two tasks never share a title, for any number of concurrent Create
\* requests and any lag of the reader pool: the UNIQUE constraint decides.
THEOREM UniqueTitles == Spec => []TitlesUnique
<1>1. IInv => TitlesUnique
  BY DEF IInv, TitlesUnique, VersionsUnique, Versions, TitlesApart
<1> QED
  BY <1>1, Invariance, PTL

\* No task gets to a status of Start or Complete without its predecessor, for
\* any number of concurrent requests and any lag of the reader pool.
THEOREM StatusOrder == Spec => []NoStatusSkipped
<1>1. IInv => NoStatusSkipped
  BY DEF IInv
<1> QED
  BY <1>1, Invariance, PTL

\* A page that the API answers is never shorter than the total of the same
\* answer says, although the total and the page are two reads of a table that
\* other requests change and that a replica is late with.
THEOREM PagesHoldTotal == Spec => []PageHoldsTotal
<1>1. LInv => PageHoldsTotal
  BY DEF LInv, Listed, PageFull, PageHoldsTotal
<1> QED
  BY <1>1, ListInvariance, PTL

\* A client that turns the pages of the task list to the last one has every
\* task exactly once, also those of one created_at, when none is created
\* meanwhile: for any number of tasks, any page size and any lag.
THEOREM PagesShowAll == Spec => []PagesPartition
<1>1. IInv /\ LInv => PagesPartition
  <2> SUFFICES ASSUME IInv, LInv, walk.step = "page_shown", ~ HasNextPage,
                      DOMAIN Shown = walk.first
               PROVE  IsInjective(walk.seen) /\ Range(walk.seen) = walk.first
    BY DEF PagesPartition
  <2>1. PICK order \in Orders(Shown) : ReadTo(walk, order, walk.offset + Limit)
    BY DEF LInv, Listed, SeenWith
  <2> DEFINE n == Len(order)
  <2>2. /\ order \in Seq(DOMAIN Shown) /\ n = Cardinality(DOMAIN Shown) /\ n \in Nat
        /\ \A k, m \in 1 .. n : order[k] = order[m] => k = m
        /\ \A i \in DOMAIN Shown : \E m \in 1 .. n : order[m] = i
    BY ReadVersions, OrderBijection DEF IInv, VersionsTyped
  <2>3. walk.total = n
    <3>1. n <= walk.total /\ walk.total <= n /\ walk.total \in Nat
      BY <2>2 DEF LInv, Listed, TotalBetween, IInv, RestTyped, Walk
    <3> QED
      BY <2>2, <3>1
  <2>4. Min2(walk.offset + Limit, n) = n
    <3>1. walk.offset \in Nat /\ Limit \in Nat
      BY LimitType DEF IInv, RestTyped, Walk
    <3> QED
      BY <2>2, <2>3, <3>1 DEF HasNextPage, Min2
  <2>5. walk.seen = order
    BY <2>1, <2>2, <2>4, SubSeqFull DEF ReadTo
  <2>6. DOMAIN order = 1 .. n /\ \A m \in 1 .. n : order[m] \in DOMAIN Shown
    BY <2>2, LenProperties, ElementOfSeq
  <2> HIDE DEF n
  <2> QED
    BY <2>2, <2>5, <2>6 DEF IsInjective, Range
<1> QED
  BY <1>1, Invariance, ListInvariance, PTL

=============================================================================

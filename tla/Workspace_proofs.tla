-------------------------- MODULE Workspace_proofs --------------------------
(***************************************************************************)
(* Proofs about Workspace for any boards, columns, tasks and requests.     *)
(***************************************************************************)
EXTENDS Workspace, TLAPS

-----------------------------------------------------------------------------
(* Types                                                                   *)

BoardRows == [stamp : Nat, live : BOOLEAN]
ColumnRows ==
    [board : Boards \cup {None}, position : Int, stamp : Nat, live : BOOLEAN]
TaskRows ==
    [board : Boards \cup {None}, column : Columns \cup {None},
     status : Statuses, stamp : Nat, live : BOOLEAN]

Edits ==
    [field : {"status"}, value : Statuses]
    \cup [field : {"column"}, value : Columns \cup {None}]
    \cup [field : {"none"}, value : {None}]

EditRequests ==
    [stage : {"task", "save-task"}, id : Tasks, row : TaskRows, edit : Edits,
     seen : Nat]

RowTypes ==
    /\ clock \in Nat \ {0}
    /\ boards \in [Boards -> BoardRows]
    /\ columns \in [Columns -> ColumnRows]
    /\ tasks \in [Tasks -> TaskRows] /\ intended \in [Tasks -> TaskRows]
    /\ \A t \in Tasks : tasks[t].stamp <= clock
    /\ \A b \in Boards : boards[b].live => boards[b].stamp > 0
    /\ \A c \in Columns : columns[c].live => columns[c].stamp > 0
    /\ \A t \in Tasks : tasks[t].live => tasks[t].stamp > 0

(* The instant of a request.                                               *)
Instant(n, now) == n \in Nat /\ 0 < n /\ n <= now

(* What a request holds of a board, of columns and of a task, given the    *)
(* tables and the time: rows that exist, or will only by its insertion.    *)
BoardRequest(q, bs, now) ==
    q.stage \in {"board", "delete-board"} =>
        q.id \in Boards /\ Instant(q.stamp, now) /\ bs[q.id].stamp > 0

ColumnRequest(q, cs, now) ==
    /\ q.stage = "create-column" =>
         /\ q.id \in Columns /\ q.row \in ColumnRows /\ q.row.stamp > 0
         /\ cs[q.id].stamp = 0 /\ ~cs[q.id].live
         /\ q.row.board \in Boards
    /\ q.stage \in {"column", "move"} => q.id \in Columns /\ cs[q.id].stamp > 0
    /\ q.stage = "column" => q.position \in Int /\ Instant(q.stamp, now)
    /\ q.stage = "move" => q.new \in Int /\ q.old \in Int
    /\ q.stage = "moving" =>
         /\ Instant(q.stamp, now)
         /\ \A c \in Columns : c \in DOMAIN q.positions =>
              q.positions[c] \in Int /\ cs[c].stamp > 0

(* A task as an edit saves it, if nobody has written it since it was read. *)
EditOf(q, ts) == [Edited(ts[q.id], q.edit) EXCEPT !.stamp = q.row.stamp]

TaskRequest(q, ts, now) ==
    /\ q.stage = "create-task" =>
         /\ q.id \in Tasks /\ q.row \in TaskRows /\ Instant(q.row.stamp, now)
         /\ ts[q.id].stamp = 0 /\ ~ts[q.id].live
    /\ q.stage \in {"task", "save-task"} =>
         q \in EditRequests /\ q.row.board = ts[q.id].board
    /\ q.stage = "task" /\ q.seen = ts[q.id].stamp => q.row = ts[q.id]
    /\ q.stage = "save-task" =>
         /\ q.seen < q.row.stamp /\ q.row.stamp <= now
         /\ q.seen = ts[q.id].stamp => q.row = EditOf(q, ts)
    /\ q.stage = "delete-task" =>
         q.id \in Tasks /\ Instant(q.stamp, now) /\ q.seen < q.stamp
    /\ q.stage \in {"task", "save-task", "delete-task"} =>
         /\ 0 < q.seen /\ q.seen \in Nat /\ q.seen <= ts[q.id].stamp
         /\ q.seen = ts[q.id].stamp => ts[q.id].live

RequestOK(q, bs, cs, ts, now) ==
    BoardRequest(q, bs, now) /\ ColumnRequest(q, cs, now)
                             /\ TaskRequest(q, ts, now)

(* Two requests insert different rows.                                     *)
Distinct ==
    \A r, o \in Requests :
        r # o /\ req[r].stage = req[o].stage
              /\ req[r].stage \in {"create-column", "create-task"} =>
            req[r].id # req[o].id

Types ==
    /\ RowTypes
    /\ DOMAIN req = Requests
    /\ \A r \in Requests : RequestOK(req[r], boards, columns, tasks, clock)
    /\ Distinct

LEMMA IdleOK ==
    \A bs, cs, ts, now : RequestOK(Idle, bs, cs, ts, now)
  BY DEF RequestOK, BoardRequest, ColumnRequest, TaskRequest, Idle

LEMMA NewRows ==
    ASSUME NEW now \in Nat, NEW b \in Boards \cup {None}, NEW p \in Int,
           NEW c \in Columns \cup {None}
    PROVE  /\ NewBoard(now) \in BoardRows /\ NewBoard(now).stamp = now
           /\ NewColumn(b, p, now) \in ColumnRows
           /\ NewColumn(b, p, now).stamp = now
           /\ NewTask(b, c, now) \in TaskRows /\ NewTask(b, c, now).stamp = now
           /\ NewTask(b, c, now).live
  BY DEF NewBoard, NewColumn, NewTask, BoardRows, ColumnRows, TaskRows,
         Statuses

LEMMA NoRows ==
    /\ NoBoardRow \in BoardRows /\ NoColumnRow \in ColumnRows
    /\ NoTaskRow \in TaskRows
    /\ NoBoardRow.stamp = 0 /\ NoColumnRow.stamp = 0 /\ NoTaskRow.stamp = 0
    /\ NoColumnRow.board = None /\ NoTaskRow.board = None
    /\ ~NoBoardRow.live /\ ~NoColumnRow.live /\ ~NoTaskRow.live
  BY DEF NoBoardRow, NoColumnRow, NoTaskRow, BoardRows, ColumnRows, TaskRows,
         Statuses

LEMMA InitTypes == Init => Types
  <1> SUFFICES ASSUME Init PROVE Types
    OBVIOUS
  <1>1. /\ clock = 1 /\ intended = tasks
        /\ \A r \in Requests : req[r] = Idle
        /\ DOMAIN req = Requests
    BY DEF Init
  <1>2. /\ boards \in [Boards -> BoardRows]
        /\ columns \in [Columns -> ColumnRows]
        /\ tasks \in [Tasks -> TaskRows]
        /\ \A t \in Tasks : tasks[t].stamp <= 1
        /\ \A b \in Boards : boards[b].live => boards[b].stamp > 0
        /\ \A c \in Columns : columns[c].live => columns[c].stamp > 0
        /\ \A t \in Tasks : tasks[t].live => tasks[t].stamp > 0
    <2>1. CASE Nothing
      BY <2>1, NoRows DEF Nothing
    <2>2. ASSUME NEW b \in Boards, Bootstrapped(b)
          PROVE  <1>2
      <3>1. /\ boards \in [Boards -> BoardRows]
            /\ \A x \in Boards : boards[x].live => boards[x].stamp > 0
        BY <2>2, NoRows, NewRows DEF Bootstrapped, NoBoardRow
      <3>2. /\ columns \in [Columns -> ColumnRows]
            /\ \A c \in Columns : columns[c].live => columns[c].stamp > 0
        <4>1. \A c \in Columns : c - 1 \in Int
          BY RowsAssumption
        <4>2. \A c \in Columns : /\ NewColumn(b, c - 1, 1) \in ColumnRows
                                  /\ NewColumn(b, c - 1, 1).stamp = 1
          BY <4>1 DEF NewColumn, ColumnRows
        <4>3. QED
          BY <2>2, <4>2, NoRows DEF Bootstrapped
      <3>3. /\ tasks \in [Tasks -> TaskRows]
            /\ \A t \in Tasks : tasks[t].stamp = 1
        <4> DEFINE c == IF Defaults > 0 THEN 1 ELSE None
        <4>1. c \in Columns \cup {None}
          BY RowsAssumption
        <4>2. NewTask(b, c, 1) \in TaskRows /\ NewTask(b, c, 1).stamp = 1
          BY <4>1 DEF NewTask, TaskRows, Statuses
        <4> HIDE DEF c
        <4>3. tasks = [t \in Tasks |-> NewTask(b, c, 1)]
          BY <2>2 DEF Bootstrapped, c
        <4>4. QED
          BY <4>2, <4>3
      <3>4. QED
        BY <3>1, <3>2, <3>3
    <2>3. QED
      BY <2>1, <2>2 DEF Init
  <1>3. RowTypes
    BY <1>1, <1>2 DEF RowTypes
  <1>4. Distinct
    BY <1>1 DEF Distinct, Idle
  <1>5. QED
    BY <1>1, <1>3, <1>4, IdleOK DEF Types

(* A step writes rows that exist with younger stamps, and leaves alone     *)
(* those that other requests are about to insert.                          *)
RowsForward ==
    /\ clock <= clock'
    /\ \A b \in Boards : boards[b].stamp > 0 => boards'[b].stamp > 0
    /\ \A c \in Columns : columns[c].stamp > 0 => columns'[c].stamp > 0
    /\ \A t \in Tasks : tasks[t].stamp > 0 /\ tasks'[t] # tasks[t] =>
         /\ tasks[t].stamp < tasks'[t].stamp
         /\ tasks'[t].board = tasks[t].board

Untouched(q) ==
    /\ q.stage = "create-column" => columns'[q.id] = columns[q.id]
    /\ q.stage = "create-task" => tasks'[q.id] = tasks[q.id]

RequestNext(q) == RequestOK(q, boards', columns', tasks', clock')

LEMMA RequestKept ==
    ASSUME NEW q, RowTypes, RowTypes', RowsForward, Untouched(q),
           RequestOK(q, boards, columns, tasks, clock)
    PROVE  RequestNext(q)
  <1>1. BoardRequest(q, boards', clock')
    BY DEF RequestOK, BoardRequest, RowsForward, RowTypes, Instant
  <1>2. ColumnRequest(q, columns', clock')
    BY DEF RequestOK, ColumnRequest, RowsForward, RowTypes, Untouched, Instant
  <1>3. TaskRequest(q, tasks', clock')
    <2>1. TaskRequest(q, tasks, clock) /\ clock <= clock'
      BY DEF RequestOK, RowsForward
    <2>2. CASE q.stage = "create-task"
      BY <2>1, <2>2 DEF TaskRequest, Untouched, Instant, RowTypes
    <2>3. CASE q.stage \in {"task", "save-task", "delete-task"}
      <3>1. /\ q.id \in Tasks /\ 0 < q.seen /\ q.seen \in Nat
            /\ q.seen <= tasks[q.id].stamp
        BY <2>1, <2>3 DEF TaskRequest, EditRequests
      <3>2. tasks[q.id].stamp \in Nat /\ tasks'[q.id].stamp \in Nat
        BY <3>1 DEF RowTypes, TaskRows
      <3>3. \/ tasks'[q.id] = tasks[q.id]
            \/ /\ q.seen < tasks'[q.id].stamp
               /\ tasks'[q.id].board = tasks[q.id].board
        BY <3>1, <3>2 DEF RowsForward
      <3>4. CASE tasks'[q.id] = tasks[q.id]
        BY <2>1, <2>3, <3>1, <3>2, <3>4
           DEF TaskRequest, EditOf, Instant, RowTypes, EditRequests, TaskRows
      <3>5. CASE q.seen < tasks'[q.id].stamp
                 /\ tasks'[q.id].board = tasks[q.id].board
        BY <2>1, <2>3, <3>1, <3>2, <3>5
           DEF TaskRequest, Instant, RowTypes, EditRequests, TaskRows
      <3>6. QED
        BY <3>3, <3>4, <3>5
    <2>4. QED
      BY <2>2, <2>3 DEF TaskRequest
  <1>4. QED
    BY <1>1, <1>2, <1>3 DEF RequestOK, RequestNext

(* A step of one request ...                                               *)
LEMMA RequestStep ==
    ASSUME Types, RowTypes', RowsForward, NEW r \in Requests, NEW q,
           req' = [req EXCEPT ![r] = q], RequestNext(q),
           \A o \in Requests \ {r} :
             /\ Untouched(req[o])
             /\ q.stage \in {"create-column", "create-task"} =>
                  req[o].stage # q.stage \/ req[o].id # q.id
    PROVE  Types'
  <1>1. DOMAIN req' = Requests /\ req'[r] = q
    BY DEF Types
  <1>2. \A o \in Requests \ {r} : req'[o] = req[o]
    BY DEF Types
  <1>3. ASSUME NEW o \in Requests
        PROVE  RequestOK(req'[o], boards', columns', tasks', clock')
    <2>1. CASE o = r
      BY <1>1, <2>1 DEF RequestNext
    <2>2. CASE o # r
      BY <1>2, <2>2, RequestKept DEF Types, RequestNext
    <2>3. QED
      BY <2>1, <2>2
  <1>4. Distinct'
    BY <1>1, <1>2 DEF Types, Distinct
  <1>5. QED
    BY <1>1, <1>3, <1>4 DEF Types

(* ... and one of none.                                                    *)
LEMMA OtherStep ==
    ASSUME Types, RowTypes', RowsForward, req' = req,
           \A o \in Requests : Untouched(req[o])
    PROVE  Types'
  <1>1. ASSUME NEW o \in Requests
        PROVE  RequestOK(req'[o], boards', columns', tasks', clock')
    BY RequestKept DEF Types, RequestNext
  <1>2. QED
    BY <1>1 DEF Types, Distinct

LEMMA FinishStep ==
    ASSUME Types, RowTypes', RowsForward, NEW r \in Requests, Finish(r),
           \A o \in Requests \ {r} : Untouched(req[o])
    PROVE  Types'
  <1>1. RequestNext(Idle)
    BY IdleOK DEF RequestNext
  <1>2. QED
    BY <1>1, RequestStep DEF Finish, Idle

-----------------------------------------------------------------------------
(* No row goes back                                                        *)

Advances ==
    /\ \A b \in Boards : boards[b].stamp <= boards'[b].stamp
    /\ \A t \in Tasks : tasks[t].stamp <= tasks'[t].stamp
    /\ \A b \in Boards : boards'[b].live =>
         boards[b].live \/ boards[b].stamp = 0
    /\ \A c \in Columns : columns'[c].live =>
         columns[c].live \/ columns[c].stamp = 0
    /\ \A t \in Tasks : tasks'[t].live =>
         tasks[t].live \/ tasks[t].stamp = 0

(* A request that only reads, and holds q from then on.                    *)
LEMMA ReadStep ==
    ASSUME Types, UNCHANGED <<rows, intended>>, clock' \in {clock, clock + 1},
           NEW r \in Requests, NEW q, req' = [req EXCEPT ![r] = q],
           RequestNext(q),
           \A o \in Requests \ {r} :
             q.stage \in {"create-column", "create-task"} =>
                req[o].stage # q.stage \/ req[o].id # q.id
    PROVE  Types' /\ Advances
  <1>1. /\ RowTypes' /\ RowsForward
        /\ \A o \in Requests : Untouched(req[o])
    <2>1. RowTypes /\ clock' \in Nat \ {0} /\ clock <= clock'
      BY DEF Types, RowTypes
    <2>2. \A t \in Tasks : tasks[t].stamp <= clock'
      BY <2>1 DEF RowTypes, TaskRows
    <2>3. QED
      BY <2>1, <2>2 DEF rows, RowTypes, RowsForward, Untouched
  <1>2. Types'
    BY <1>1, RequestStep
  <1>3. Advances
    BY DEF rows, Advances, Types, RowTypes, BoardRows, TaskRows
  <1>4. QED
    BY <1>2, <1>3

(* A row that a deletion was to take: gone, or not older and spared.       *)
Taken(row, next, s) ==
    IF Updates(row, s) THEN next = [row EXCEPT !.live = FALSE, !.stamp = s]
    ELSE next = row

LEMMA GoneRow ==
    ASSUME NEW table, NEW x \in DOMAIN table, NEW s
    PROVE  Taken(table[x], Gone(table, s)[x], s)
  BY DEF Gone, Taken

(* Requests about a board.                                                 *)
LEMMA BoardSteps ==
    ASSUME Types, NEW r \in Requests, UpdateBoardName(r) \/ DeleteBoard(r)
    PROVE  Types' /\ Advances
  <1>0. /\ RowTypes /\ clock \in Nat /\ DOMAIN req = Requests
        /\ RequestOK(req[r], boards, columns, tasks, clock)
        /\ \A b \in Boards : boards[b] \in BoardRows /\ boards[b].stamp \in Nat
        /\ \A t \in Tasks : tasks[t] \in TaskRows /\ tasks[t].stamp \in Nat
    BY DEF Types, RowTypes, BoardRows, TaskRows
  <1>1. ASSUME NEW b \in Boards, NEW stage \in {"board", "delete-board"},
               AuthorizedBoard(b), Tick, UNCHANGED <<rows, intended>>,
               req' = [req EXCEPT ![r] =
                         [stage |-> stage, id |-> b, stamp |-> clock']]
        PROVE  Types' /\ Advances
    <2> DEFINE q == [stage |-> stage, id |-> b, stamp |-> clock']
    <2>1. boards[b].stamp > 0 /\ boards' = boards /\ clock' = clock + 1
      BY <1>0, <1>1 DEF AuthorizedBoard, RowTypes, rows, Tick
    <2>2. RequestNext(q)
      BY <1>0, <2>1 DEF RequestNext, RequestOK, BoardRequest, ColumnRequest,
                        TaskRequest, Instant
    <2>3. q.stage \notin {"create-column", "create-task"}
      OBVIOUS
    <2> HIDE DEF q
    <2>4. req' = [req EXCEPT ![r] = q]
      BY <1>1 DEF q
    <2>5. QED
      BY <1>1, <2>1, <2>2, <2>3, <2>4, ReadStep
  <1>2. CASE CommitUpdateBoard(r)
    <2> DEFINE q == req[r]
    <2>1. /\ q.stage = "board" /\ Finish(r)
          /\ boards' = [boards EXCEPT ![q.id].stamp =
                          IF Updates(boards[q.id], q.stamp) THEN q.stamp
                          ELSE @]
          /\ UNCHANGED <<columns, tasks, intended, clock>>
      BY <1>2 DEF CommitUpdateBoard, historyVars
    <2>2. q.id \in Boards /\ Instant(q.stamp, clock)
      BY <1>0, <2>1 DEF RequestOK, BoardRequest
    <2>3. /\ boards' \in [Boards -> BoardRows]
          /\ \A b \in Boards : /\ boards[b].stamp <= boards'[b].stamp
                               /\ boards'[b].live = boards[b].live
      BY <1>0, <2>1, <2>2 DEF RowTypes, Updates, Instant, BoardRows
    <2>4. \A b \in Boards : boards'[b].stamp \in Nat
      BY <2>3 DEF BoardRows
    <2>5. RowTypes' /\ RowsForward /\ Advances
      BY <1>0, <2>1, <2>3, <2>4 DEF RowTypes, RowsForward, Advances
    <2>6. QED
      BY <2>1, <2>5, FinishStep DEF Untouched
  <1>3. CASE CommitDeleteBoard(r)
    <2> DEFINE b == req[r].id
               s == req[r].stamp
    <2>1. /\ req[r].stage = "delete-board" /\ Finish(r) /\ clock' = clock
          /\ boards' = [boards EXCEPT ![b] = Gone(boards, s)[b]]
          /\ \/ UNCHANGED <<columns, tasks, intended>>
             \/ /\ Cascade(b, s)
                /\ intended' = [t \in Tasks |->
                     IF tasks[t].board = b
                     THEN [intended[t] EXCEPT !.live = FALSE]
                     ELSE intended[t]]
      BY <1>3 DEF CommitDeleteBoard
    <2>2. b \in Boards /\ Instant(s, clock)
      BY <1>0, <2>1 DEF RequestOK, BoardRequest
    <2> HIDE DEF b, s
    <2>3. /\ boards' \in [Boards -> BoardRows]
          /\ \A x \in Boards : /\ boards[x].stamp <= boards'[x].stamp
                               /\ boards'[x].live => boards[x].live
                               /\ boards'[x].stamp \in Nat
      <3>1. /\ boards \in [Boards -> BoardRows] /\ b \in DOMAIN boards
            /\ s \in Nat
        BY <1>0, <2>2 DEF RowTypes, Instant
      <3>2. Taken(boards[b], Gone(boards, s)[b], s)
        BY <3>1, GoneRow
      <3> DEFINE row == Gone(boards, s)[b]
      <3>3. row = boards[b] \/
              /\ Updates(boards[b], s)
              /\ row = [boards[b] EXCEPT !.live = FALSE, !.stamp = s]
        BY <3>2 DEF Taken
      <3> HIDE DEF row
      <3>4. /\ row \in BoardRows
            /\ \/ row = boards[b]
               \/ /\ boards[b].stamp < s /\ row.stamp = s
                  /\ row.live = FALSE
        BY <1>0, <2>2, <3>1, <3>3 DEF Updates, BoardRows
      <3>5. boards' = [boards EXCEPT ![b] = row]
        BY <2>1 DEF row
      <3>6. QED
        BY <1>0, <2>2, <3>1, <3>4, <3>5
    <2>4. /\ columns' \in [Columns -> ColumnRows]
          /\ \A c \in Columns : /\ columns[c].stamp <= columns'[c].stamp
                                /\ columns'[c].live => columns[c].live
                                /\ columns'[c].stamp \in Nat
                                /\ columns[c].stamp \in Nat
                                /\ \/ columns'[c] = columns[c]
                                   \/ columns[c].live
      <3>1. columns \in [Columns -> ColumnRows] /\ s \in Nat
        BY <1>0, <2>2 DEF RowTypes, Instant
      <3>2. \A c \in Columns : columns[c] \in ColumnRows
        BY <3>1
      <3>3. CASE columns' = columns
        BY <3>1, <3>2, <3>3 DEF ColumnRows
      <3>4. CASE Cascade(b, s)
        <4>1. \A c \in Columns : Taken(columns[c], Gone(columns, s)[c], s)
          BY <3>1, GoneRow
        <4> DEFINE gone(c) == IF columns[c].board = b THEN Gone(columns, s)[c]
                              ELSE columns[c]
        <4>2. \A c \in Columns :
                gone(c) = columns[c] \/
                  /\ Updates(columns[c], s)
                  /\ gone(c) = [columns[c] EXCEPT !.live = FALSE, !.stamp = s]
          BY <4>1 DEF Taken
        <4>3. columns' = [c \in Columns |-> gone(c)]
          BY <3>4 DEF Cascade
        <4> HIDE DEF gone
        <4>4. \A c \in Columns :
                /\ gone(c) \in ColumnRows
                /\ \/ gone(c) = columns[c]
                   \/ /\ columns[c].live /\ gone(c).live = FALSE
                      /\ columns[c].stamp < s /\ gone(c).stamp = s
          BY <3>1, <3>2, <4>2 DEF Updates, ColumnRows
        <4>5. \A c \in Columns : columns[c].stamp \in Nat
          BY <3>2 DEF ColumnRows
        <4>6. QED
          BY <3>1, <4>3, <4>4, <4>5
      <3>5. QED
        BY <2>1, <3>3, <3>4
    <2>5. /\ tasks' \in [Tasks -> TaskRows]
          /\ \A t \in Tasks :
               \/ tasks'[t] = tasks[t]
               \/ /\ tasks[t].live /\ tasks'[t].live = FALSE
                  /\ tasks[t].stamp < s /\ tasks'[t].stamp = s
                  /\ tasks'[t].board = tasks[t].board
      <3>1. tasks \in [Tasks -> TaskRows] /\ s \in Nat
        BY <1>0, <2>2 DEF RowTypes, Instant
      <3>2. CASE tasks' = tasks
        BY <3>1, <3>2
      <3>3. CASE Cascade(b, s)
        <4>1. \A t \in Tasks : Taken(tasks[t], Gone(tasks, s)[t], s)
          BY <3>1, GoneRow
        <4> DEFINE gone(t) == IF tasks[t].board = b THEN Gone(tasks, s)[t]
                              ELSE tasks[t]
        <4>2. \A t \in Tasks :
                gone(t) = tasks[t] \/
                  /\ Updates(tasks[t], s)
                  /\ gone(t) = [tasks[t] EXCEPT !.live = FALSE, !.stamp = s]
          BY <4>1 DEF Taken
        <4>3. tasks' = [t \in Tasks |-> gone(t)]
          BY <3>3 DEF Cascade
        <4> HIDE DEF gone
        <4>4. \A t \in Tasks :
                /\ gone(t) \in TaskRows
                /\ \/ gone(t) = tasks[t]
                   \/ /\ tasks[t].live /\ gone(t).live = FALSE
                      /\ tasks[t].stamp < s /\ gone(t).stamp = s
                      /\ gone(t).board = tasks[t].board
          BY <1>0, <3>1, <4>2 DEF Updates, TaskRows
        <4>5. QED
          BY <4>3, <4>4
      <3>4. QED
        BY <2>1, <3>2, <3>3
    <2>6. intended' \in [Tasks -> TaskRows]
      <3>1. \A t \in Tasks :
              /\ intended[t] \in TaskRows
              /\ [intended[t] EXCEPT !.live = FALSE] \in TaskRows
        BY <1>0 DEF RowTypes, TaskRows
      <3>2. QED
        BY <1>0, <2>1, <3>1 DEF RowTypes
    <2>7. RowTypes'
      BY <1>0, <2>1, <2>2, <2>3, <2>4, <2>5, <2>6 DEF RowTypes, Instant
    <2>8. RowsForward /\ Advances
      BY <1>0, <2>1, <2>2, <2>3, <2>4, <2>5
         DEF RowTypes, RowsForward, Advances, Instant
    <2>9. ASSUME NEW o \in Requests PROVE Untouched(req[o])
      <3>1. RequestOK(req[o], boards, columns, tasks, clock)
        BY DEF Types
      <3>2. QED
        BY <2>4, <2>5, <3>1
           DEF Untouched, RequestOK, ColumnRequest, TaskRequest
    <2>10. QED
      BY <2>1, <2>7, <2>8, <2>9, FinishStep
  <1>4. QED
    BY <1>1, <1>2, <1>3
       DEF UpdateBoardName, DeleteBoard, BeginUpdateBoard, BeginDeleteBoard,
           historyVars

(* A column as a step leaves it: still that column, not brought back, and  *)
(* neither its board nor its existence lost.                               *)
ColumnGoesOn(row, next) ==
    /\ next \in ColumnRows
    /\ row.stamp > 0 => next.stamp > 0
    /\ next.live => row.live \/ row.stamp = 0
    /\ next.live => next.stamp > 0

(* A step that writes columns only, of which no request waits to insert.   *)
LEMMA ColumnStep ==
    ASSUME Types, UNCHANGED <<boards, tasks, intended>>,
           clock' \in {clock, clock + 1},
           columns' = [c \in Columns |-> columns'[c]],
           \A c \in Columns : ColumnGoesOn(columns[c], columns'[c])
    PROVE  RowTypes' /\ RowsForward /\ Advances
  <1>1. /\ RowTypes /\ clock' \in Nat \ {0} /\ clock <= clock'
        /\ \A b \in Boards : boards[b].stamp \in Nat
        /\ \A t \in Tasks : tasks[t].stamp \in Nat
    BY DEF Types, RowTypes, BoardRows, TaskRows
  <1>2. columns' \in [Columns -> ColumnRows]
    BY DEF ColumnGoesOn
  <1>3. RowTypes'
    BY <1>1, <1>2 DEF RowTypes, ColumnGoesOn
  <1>4. RowsForward
    BY <1>1 DEF RowsForward, ColumnGoesOn
  <1>5. Advances
    BY <1>1 DEF Advances, ColumnGoesOn
  <1>6. QED
    BY <1>3, <1>4, <1>5

LEMMA CreateColumnSteps ==
    ASSUME Types, NEW r \in Requests, CreateColumn(r)
    PROVE  Types' /\ Advances
  <1> USE DEF rows, historyVars
  <1>0. /\ RowTypes /\ clock \in Nat /\ DOMAIN req = Requests
        /\ RequestOK(req[r], boards, columns, tasks, clock)
        /\ columns \in [Columns -> ColumnRows]
        /\ \A c \in Columns : columns[c] \in ColumnRows
    BY DEF Types, RowTypes
  <1>1. ASSUME NEW c \in Columns, NEW b \in Boards, NEW p \in Positions,
               BeginCreateColumn(r, c, b, p)
        PROVE  Types' /\ Advances
    <2> DEFINE q == [stage |-> "create-column", id |-> c,
                     row |-> NewColumn(b, p, clock')]
    <2>1. /\ columns[c] = NoColumnRow /\ clock' = clock + 1
          /\ UNCHANGED <<rows, intended>>
          /\ \A o \in Requests : req[o].stage = "create-column" =>
               req[o].id # c
          /\ req' = [req EXCEPT ![r] = q]
      BY <1>1 DEF BeginCreateColumn, Tick
    <2>2. p \in Int
      BY WorkspaceBounds DEF Positions
    <2>3. /\ NewColumn(b, p, clock') \in ColumnRows
          /\ NewColumn(b, p, clock').stamp = clock + 1
          /\ NewColumn(b, p, clock').board = b
      BY <1>0, <2>1, <2>2 DEF NewColumn, ColumnRows
    <2>4. RequestNext(q)
      BY <1>0, <2>1, <2>3, NoRows
         DEF RequestNext, RequestOK, BoardRequest, ColumnRequest, TaskRequest
    <2>5. q.stage = "create-column" /\ q.id = c
      OBVIOUS
    <2> HIDE DEF q
    <2>6. QED
      BY <2>1, <2>4, <2>5, ReadStep
  <1>2. CASE CommitCreateColumn(r)
    <2> DEFINE c == req[r].id
               row == req[r].row
    <2>1. /\ req[r].stage = "create-column" /\ Finish(r)
          /\ columns' = [columns EXCEPT ![c] = row]
          /\ UNCHANGED <<boards, tasks, intended, clock>>
      BY <1>2 DEF CommitCreateColumn
    <2>2. /\ c \in Columns /\ row \in ColumnRows /\ row.stamp > 0
          /\ columns[c].stamp = 0
      BY <1>0, <2>1 DEF RequestOK, ColumnRequest
    <2> HIDE DEF row
    <2>3. \A x \in Columns : ColumnGoesOn(columns[x], columns'[x])
      BY <1>0, <2>1, <2>2 DEF ColumnGoesOn, RowTypes
    <2>4. RowTypes' /\ RowsForward /\ Advances
      <3>1. columns' = [x \in Columns |-> columns'[x]]
        BY <1>0, <2>1
      <3>2. QED
        BY <2>1, <2>3, <3>1, ColumnStep
    <2>5. \A o \in Requests \ {r} : Untouched(req[o])
      BY <1>0, <2>1 DEF Types, Distinct, Untouched
    <2>6. QED
      BY <2>1, <2>4, <2>5, FinishStep
  <1>3. QED
    BY <1>1, <1>2 DEF CreateColumn

(* Requests that write columns that exist.                                 *)
LEMMA ExistingUntouched ==
    ASSUME Types, tasks' = tasks,
           \A c \in Columns : columns[c].stamp = 0 => columns'[c] = columns[c]
    PROVE  \A o \in Requests : Untouched(req[o])
  <1> SUFFICES ASSUME NEW o \in Requests PROVE Untouched(req[o])
    OBVIOUS
  <1>1. RequestOK(req[o], boards, columns, tasks, clock)
    BY DEF Types
  <1>2. QED
    BY <1>1 DEF RequestOK, ColumnRequest, Untouched

LEMMA UpdateColumnSteps ==
    ASSUME Types, NEW r \in Requests, UpdateColumn(r)
    PROVE  Types' /\ Advances
  <1> USE DEF rows, historyVars
  <1>0. /\ RowTypes /\ clock \in Nat /\ DOMAIN req = Requests
        /\ RequestOK(req[r], boards, columns, tasks, clock)
        /\ columns \in [Columns -> ColumnRows]
        /\ \A c \in Columns : columns[c] \in ColumnRows
    BY DEF Types, RowTypes
  <1>1. ASSUME NEW c \in Columns, BeginUpdateColumn(r, c)
        PROVE  Types' /\ Advances
    <2> DEFINE q == [stage |-> "column", id |-> c,
                     position |-> columns[c].position, stamp |-> clock']
    <2>1. /\ Authorized(c) /\ clock' = clock + 1 /\ UNCHANGED <<rows, intended>>
          /\ req' = [req EXCEPT ![r] = q]
      BY <1>1 DEF BeginUpdateColumn, Tick
    <2>2. columns[c].stamp > 0 /\ columns[c].position \in Int
      BY <1>0, <2>1 DEF Authorized, RowTypes, ColumnRows
    <2>3. RequestNext(q)
      BY <1>0, <2>1, <2>2
         DEF RequestNext, RequestOK, BoardRequest, ColumnRequest, TaskRequest,
             Instant
    <2>4. q.stage = "column"
      OBVIOUS
    <2> HIDE DEF q
    <2>5. QED
      BY <2>1, <2>3, <2>4, ReadStep
  <1>2. CASE CommitUpdateColumn(r)
    <2> DEFINE q == req[r]
    <2>1. /\ q.stage = "column" /\ Finish(r)
          /\ columns' = [columns EXCEPT ![q.id].position = q.position,
                                        ![q.id].stamp = q.stamp]
          /\ UNCHANGED <<boards, tasks, intended, clock>>
      BY <1>2 DEF CommitUpdateColumn
    <2>2. /\ q.id \in Columns /\ columns[q.id].stamp > 0
          /\ q.position \in Int /\ q.stamp \in Nat /\ q.stamp > 0
      BY <1>0, <2>1 DEF RequestOK, ColumnRequest, Instant
    <2> DEFINE next == [columns[q.id] EXCEPT !.position = q.position,
                                             !.stamp = q.stamp]
    <2>3. ColumnGoesOn(columns[q.id], next)
      BY <1>0, <2>2 DEF ColumnGoesOn, ColumnRows
    <2>4. columns' = [columns EXCEPT ![q.id] = next]
      BY <1>0, <2>1, <2>2
    <2> HIDE DEF next
    <2>5. \A c \in Columns : ColumnGoesOn(columns[c], columns[c])
      BY <1>0 DEF ColumnGoesOn, RowTypes
    <2>6. \A c \in Columns : ColumnGoesOn(columns[c], columns'[c])
      BY <1>0, <2>3, <2>4, <2>5
    <2>7. RowTypes' /\ RowsForward /\ Advances
      <3>1. columns' = [x \in Columns |-> columns'[x]]
        BY <1>0, <2>4
      <3>2. QED
        BY <2>1, <2>6, <3>1, ColumnStep
    <2>8. \A o \in Requests : Untouched(req[o])
      BY <1>0, <2>1, <2>2, <2>4, ExistingUntouched
    <2>9. QED
      BY <2>1, <2>7, <2>8, FinishStep
  <1>3. QED
    BY <1>1, <1>2 DEF UpdateColumn

LEMMA ShiftedPositions ==
    ASSUME NEW S, NEW list \in [S -> Int], NEW old, NEW new
    PROVE  LET f == Shifted(list, old, new) IN
             DOMAIN f \subseteq S /\ \A c \in DOMAIN f : f[c] \in Int
  BY DEF Shifted

LEMMA MoveColumnSteps ==
    ASSUME Types, NEW r \in Requests, MoveColumn(r)
    PROVE  Types' /\ Advances
  <1> USE DEF rows, historyVars
  <1>0. /\ RowTypes /\ clock \in Nat /\ DOMAIN req = Requests
        /\ RequestOK(req[r], boards, columns, tasks, clock)
        /\ columns \in [Columns -> ColumnRows]
        /\ \A c \in Columns : columns[c] \in ColumnRows
    BY DEF Types, RowTypes
  <1>1. ASSUME NEW c \in Columns, NEW p \in Positions, BeginMoveColumn(r, c, p)
        PROVE  Types' /\ Advances
    <2> DEFINE q == [stage |-> "move", id |-> c, old |-> columns[c].position,
                     new |-> p, board |-> columns[c].board]
    <2>1. /\ Authorized(c) /\ UNCHANGED <<rows, intended, clock>>
          /\ req' = [req EXCEPT ![r] = q]
      BY <1>1 DEF BeginMoveColumn
    <2>2. columns[c].stamp > 0 /\ columns[c].position \in Int /\ p \in Int
      BY <1>0, <2>1, WorkspaceBounds
         DEF Authorized, RowTypes, ColumnRows, Positions
    <2>3. RequestNext(q)
      BY <1>0, <2>1, <2>2
         DEF RequestNext, RequestOK, BoardRequest, ColumnRequest, TaskRequest
    <2>4. q.stage = "move"
      OBVIOUS
    <2> HIDE DEF q
    <2>5. QED
      BY <2>1, <2>3, <2>4, ReadStep
  <1>2. CASE ListColumns(r)
    <2> DEFINE q == req[r]
               list == Listed(q.board)
               others == [c \in DOMAIN list \ {q.id} |-> list[c]]
               moved == Shifted(others, q.old, q.new)
               positions == [c \in DOMAIN moved \cup {q.id} |->
                               IF c = q.id THEN q.new ELSE moved[c]]
               current == q.id \in DOMAIN list /\ list[q.id] = q.old
               next == [stage |-> "moving", id |-> q.id, new |-> q.new,
                        board |-> q.board, list |-> list,
                        current |-> current, positions |-> positions,
                        stamp |-> clock']
    <2>1. /\ q.stage = "move" /\ clock' = clock + 1
          /\ UNCHANGED <<rows, intended>>
          /\ req' = [req EXCEPT ![r] = next]
      BY <1>2, Zenon DEF ListColumns, Tick
    <2>2. q.id \in Columns /\ columns[q.id].stamp > 0 /\ q.new \in Int
      BY <1>0, <2>1 DEF RequestOK, ColumnRequest
    <2>3. /\ list \in [DOMAIN list -> Int] /\ DOMAIN list \subseteq Columns
          /\ \A c \in DOMAIN list : columns[c].stamp > 0
      BY <1>0 DEF Listed, RowTypes, ColumnRows
    <2> HIDE DEF list
    <2>4. others \in [DOMAIN list \ {q.id} -> Int]
      BY <2>3
    <2> HIDE DEF others
    <2>5. /\ DOMAIN moved \subseteq DOMAIN list
          /\ \A c \in DOMAIN moved : moved[c] \in Int
      BY <2>4, ShiftedPositions
    <2> HIDE DEF moved
    <2>6. \A c \in DOMAIN positions :
            positions[c] \in Int /\ columns[c].stamp > 0
      BY <2>2, <2>3, <2>5
    <2> HIDE DEF positions, current
    <2>7. RequestNext(next)
      BY <1>0, <2>1, <2>6
         DEF RequestNext, RequestOK, BoardRequest, ColumnRequest, TaskRequest,
             Instant
    <2>8. next.stage = "moving"
      OBVIOUS
    <2> HIDE DEF next
    <2>9. QED
      BY <2>1, <2>7, <2>8, ReadStep
  <1>3. CASE CommitMoveColumn(r)
    <2> DEFINE q == req[r]
               next(c) == IF c \in DOMAIN q.positions
                          THEN [columns[c] EXCEPT !.position = q.positions[c],
                                                  !.stamp = q.stamp]
                          ELSE columns[c]
    <2>1. /\ q.stage = "moving" /\ Finish(r)
          /\ columns' = [c \in Columns |-> next(c)]
          /\ UNCHANGED <<boards, tasks, intended, clock>>
      BY <1>3 DEF CommitMoveColumn
    <2>2. /\ q.stamp \in Nat /\ q.stamp > 0
          /\ \A c \in Columns : c \in DOMAIN q.positions =>
               q.positions[c] \in Int /\ columns[c].stamp > 0
      BY <1>0, <2>1 DEF RequestOK, ColumnRequest, Instant
    <2>3. ASSUME NEW c \in Columns
          PROVE  /\ ColumnGoesOn(columns[c], next(c))
                 /\ columns[c].stamp = 0 => next(c) = columns[c]
      <3>1. CASE c \in DOMAIN q.positions
        <4>1. /\ q.positions[c] \in Int /\ columns[c].stamp > 0
              /\ columns[c] \in ColumnRows
          BY <1>0, <2>2, <3>1
        <4>2. next(c) = [columns[c] EXCEPT !.position = q.positions[c],
                                           !.stamp = q.stamp]
          BY <3>1
        <4>3. /\ next(c) \in ColumnRows /\ next(c).stamp = q.stamp
              /\ next(c).live = columns[c].live
          BY <2>2, <4>1, <4>2 DEF ColumnRows
        <4>4. columns[c].stamp # 0
          BY <4>1
        <4>5. QED
          BY <2>2, <4>3, <4>4 DEF ColumnGoesOn
      <3>2. CASE c \notin DOMAIN q.positions
        BY <1>0, <3>2 DEF ColumnGoesOn, RowTypes
      <3>3. QED
        BY <3>1, <3>2
    <2> HIDE DEF next
    <2>4. RowTypes' /\ RowsForward /\ Advances
      BY <2>1, <2>3, ColumnStep
    <2>5. \A o \in Requests : Untouched(req[o])
      BY <2>1, <2>3, ExistingUntouched
    <2>6. QED
      BY <2>1, <2>4, <2>5, FinishStep
  <1>4. QED
    BY <1>1, <1>2, <1>3 DEF MoveColumn

LEMMA DeleteColumnStep ==
    ASSUME Types, NEW c \in Columns, DeleteColumn(c)
    PROVE  Types' /\ Advances
  <1>0. /\ RowTypes /\ clock \in Nat
        /\ columns \in [Columns -> ColumnRows]
        /\ \A x \in Columns : columns[x] \in ColumnRows
    BY DEF Types, RowTypes
  <1> DEFINE next == [columns[c] EXCEPT !.live = FALSE, !.stamp = clock']
  <1>1. /\ Authorized(c) /\ clock' = clock + 1 /\ req' = req
        /\ UNCHANGED <<boards, tasks, intended>>
        /\ columns' = [columns EXCEPT ![c].live = FALSE, ![c].stamp = clock']
    BY DEF DeleteColumn, Tick, historyVars
  <1>2. columns' = [columns EXCEPT ![c] = next]
    BY <1>0, <1>1
  <1>3. columns[c].stamp > 0
    BY <1>0, <1>1 DEF Authorized, RowTypes
  <1>4. ColumnGoesOn(columns[c], next)
    <2>1. columns[c] \in ColumnRows /\ clock' \in Nat /\ clock' > 0
      BY <1>0, <1>1
    <2>2. /\ next \in ColumnRows /\ next.live = FALSE
          /\ next.stamp = clock'
      BY <2>1 DEF ColumnRows
    <2>3. QED
      BY <2>1, <2>2 DEF ColumnGoesOn
  <1> HIDE DEF next
  <1>5. \A x \in Columns : ColumnGoesOn(columns[x], columns'[x])
    BY <1>0, <1>2, <1>4 DEF ColumnGoesOn, RowTypes
  <1>6. RowTypes' /\ RowsForward /\ Advances
    <2>1. columns' = [x \in Columns |-> columns'[x]]
      BY <1>0, <1>2
    <2>2. QED
      BY <1>1, <1>5, <2>1, ColumnStep
  <1>7. \A o \in Requests : Untouched(req[o])
    BY <1>0, <1>1, <1>2, <1>3, ExistingUntouched
  <1>8. QED
    BY <1>1, <1>6, <1>7, OtherStep

(* A task as a step leaves it: as it was, or younger, of the same board,   *)
(* and not brought back.                                                   *)
TaskGoesOn(row, next) ==
    next = row \/
      /\ next \in TaskRows /\ row.stamp < next.stamp /\ next.stamp <= clock
      /\ row.stamp = 0 \/ (row.live /\ next.board = row.board)

(* A step that writes one task and ends its request.                       *)
LEMMA TaskStep ==
    ASSUME Types, UNCHANGED <<boards, columns, clock>>,
           intended' \in [Tasks -> TaskRows],
           NEW r \in Requests, Finish(r), NEW t \in Tasks, NEW next,
           tasks' = [tasks EXCEPT ![t] = next], TaskGoesOn(tasks[t], next),
           \A o \in Requests \ {r} :
             req[o].stage = "create-task" /\ req[o].id = t =>
                next = tasks[t]
    PROVE  Types' /\ Advances
  <1>1. /\ RowTypes /\ clock \in Nat \ {0} /\ tasks \in [Tasks -> TaskRows]
        /\ \A x \in Tasks : tasks[x].stamp \in Nat
        /\ \A b \in Boards : boards[b].stamp \in Nat
    BY DEF Types, RowTypes, BoardRows, TaskRows
  <1>2. \A x \in Tasks : TaskGoesOn(tasks[x], tasks'[x])
    BY <1>1 DEF TaskGoesOn
  <1>3. /\ tasks' \in [Tasks -> TaskRows]
        /\ \A x \in Tasks : tasks'[x].stamp \in Nat
    BY <1>1 DEF TaskGoesOn, TaskRows
  <1>4. RowTypes'
    BY <1>1, <1>2, <1>3 DEF RowTypes, TaskGoesOn
  <1>5. RowsForward
    BY <1>1, <1>2 DEF RowsForward, TaskGoesOn
  <1>6. Advances
    BY <1>1, <1>2, <1>3 DEF Advances, TaskGoesOn
  <1>7. \A o \in Requests \ {r} : Untouched(req[o])
    <2> SUFFICES ASSUME NEW o \in Requests \ {r} PROVE Untouched(req[o])
      OBVIOUS
    <2>1. req[o].stage = "create-task" => req[o].id \in Tasks
      BY DEF Types, RequestOK, TaskRequest
    <2>2. QED
      BY <1>1, <2>1 DEF Untouched
  <1>8. QED
    BY <1>4, <1>5, <1>6, <1>7, FinishStep

LEMMA EditedTypes ==
    ASSUME NEW row \in TaskRows, NEW edit \in Edits
    PROVE  /\ Edited(row, edit) \in TaskRows
           /\ Edited(row, edit).board = row.board
           /\ Edited(row, edit).stamp = row.stamp
           /\ Edited(row, edit).live = row.live
  <1>1. CASE edit.field = "status"
    <2>1. edit.value \in Statuses
      BY <1>1 DEF Edits
    <2>2. Edited(row, edit) = [row EXCEPT !.status = edit.value]
      BY <1>1 DEF Edited
    <2>3. QED
      BY <2>1, <2>2 DEF TaskRows
  <1>2. CASE edit.field = "column"
    <2>1. edit.value \in Columns \cup {None}
      BY <1>2 DEF Edits
    <2>2. Edited(row, edit) = [row EXCEPT !.column = edit.value]
      BY <1>2 DEF Edited
    <2>3. QED
      BY <2>1, <2>2 DEF TaskRows
  <1>3. CASE edit.field = "none"
    BY <1>3 DEF Edited, TaskRows
  <1>4. QED
    BY <1>1, <1>2, <1>3 DEF Edits

(* What a task's edit leaves, of two rows that agree.                      *)
Agree(row, other) ==
    row.live = other.live /\
      (row.live => row.status = other.status /\ row.column = other.column)

LEMMA EditedAgree ==
    ASSUME NEW row \in TaskRows, NEW other \in TaskRows, NEW edit \in Edits,
           row.live, Agree(row, other)
    PROVE  Agree(Edited(row, edit), Edited(other, edit))
  <1>1. CASE edit.field = "status"
    <2>1. /\ Edited(row, edit) = [row EXCEPT !.status = edit.value]
          /\ Edited(other, edit) = [other EXCEPT !.status = edit.value]
      BY <1>1 DEF Edited
    <2>2. QED
      BY <2>1 DEF TaskRows, Agree
  <1>2. CASE edit.field = "column"
    <2>1. /\ Edited(row, edit) = [row EXCEPT !.column = edit.value]
          /\ Edited(other, edit) = [other EXCEPT !.column = edit.value]
      BY <1>2 DEF Edited
    <2>2. QED
      BY <2>1 DEF TaskRows, Agree
  <1>3. CASE edit.field = "none"
    BY <1>3 DEF Edited, Agree
  <1>4. QED
    BY <1>1, <1>2, <1>3 DEF Edits

Kept == \A t \in Tasks \ contested : Agree(tasks[t], intended[t])

LEMMA CreateTaskSteps ==
    ASSUME Types, NEW r \in Requests, CreateTask(r)
    PROVE  Types' /\ Advances /\ (Kept => Kept')
  <1> USE DEF rows, historyVars
  <1>0. /\ RowTypes /\ clock \in Nat /\ DOMAIN req = Requests
        /\ RequestOK(req[r], boards, columns, tasks, clock)
        /\ tasks \in [Tasks -> TaskRows] /\ intended \in [Tasks -> TaskRows]
    BY DEF Types, RowTypes
  <1>1. ASSUME NEW t \in Tasks, NEW b \in Boards \cup {None},
               NEW c \in Columns \cup {None}, BeginCreateTask(r, t, b, c)
        PROVE  Types' /\ Advances /\ (Kept => Kept')
    <2> DEFINE q == [stage |-> "create-task", id |-> t,
                     row |-> NewTask(b, c, clock')]
    <2>1. /\ tasks[t] = NoTaskRow /\ clock' = clock + 1
          /\ UNCHANGED <<rows, intended, contested>>
          /\ \A o \in Requests : req[o].stage = "create-task" => req[o].id # t
          /\ req' = [req EXCEPT ![r] = q]
      BY <1>1 DEF BeginCreateTask, Tick
    <2>2. /\ NewTask(b, c, clock') \in TaskRows
          /\ NewTask(b, c, clock').stamp = clock + 1
      BY <1>0, <2>1 DEF NewTask, TaskRows, Statuses
    <2>3. RequestNext(q)
      BY <1>0, <2>1, <2>2, NoRows
         DEF RequestNext, RequestOK, BoardRequest, ColumnRequest, TaskRequest,
             Instant
    <2>4. q.stage = "create-task" /\ q.id = t
      OBVIOUS
    <2> HIDE DEF q
    <2>5. Types' /\ Advances
      BY <2>1, <2>3, <2>4, ReadStep
    <2>6. QED
      BY <2>1, <2>5 DEF Kept
  <1>2. CASE CommitCreateTask(r)
    <2> DEFINE t == req[r].id
               row == req[r].row
    <2>1. /\ req[r].stage = "create-task" /\ Finish(r)
          /\ tasks' = [tasks EXCEPT ![t] = row]
          /\ intended' = [intended EXCEPT ![t] = row]
          /\ UNCHANGED <<boards, columns, clock, contested>>
      BY <1>2 DEF CommitCreateTask
    <2>2. /\ t \in Tasks /\ row \in TaskRows /\ Instant(row.stamp, clock)
          /\ tasks[t].stamp = 0
      BY <1>0, <2>1 DEF RequestOK, TaskRequest
    <2>3. \A o \in Requests \ {r} :
            req[o].stage = "create-task" /\ req[o].id = t => row = tasks[t]
      <3>1. \A o \in Requests : o # r /\ req[o].stage = "create-task" =>
              req[o].id # t
        BY <2>1 DEF Types, Distinct
      <3>2. QED
        BY <3>1
    <2> HIDE DEF t, row
    <2>4. TaskGoesOn(tasks[t], row)
      BY <2>2 DEF TaskGoesOn, Instant
    <2>5. intended' \in [Tasks -> TaskRows]
      BY <1>0, <2>1, <2>2
    <2>6. Types' /\ Advances
      BY <2>1, <2>2, <2>3, <2>4, <2>5, TaskStep
    <2>7. Kept => Kept'
      BY <1>0, <2>1, <2>2 DEF Kept, Agree
    <2>8. QED
      BY <2>6, <2>7
  <1>3. QED
    BY <1>1, <1>2 DEF CreateTask

LEMMA UpdateTaskSteps ==
    ASSUME Types, NEW r \in Requests, UpdateTask(r)
    PROVE  Types' /\ Advances /\ (Kept => Kept')
  <1> USE DEF rows, historyVars
  <1>0. /\ RowTypes /\ clock \in Nat /\ DOMAIN req = Requests
        /\ RequestOK(req[r], boards, columns, tasks, clock)
        /\ tasks \in [Tasks -> TaskRows] /\ intended \in [Tasks -> TaskRows]
        /\ \A t \in Tasks : tasks[t] \in TaskRows /\ tasks[t].stamp \in Nat
    BY DEF Types, RowTypes, TaskRows
  <1>1. ASSUME NEW t \in Tasks, NEW edit \in Edits, ReadTask(r, t, edit)
        PROVE  Types' /\ Advances /\ (Kept => Kept')
    <2> DEFINE q == [stage |-> "task", id |-> t, row |-> tasks[t],
                     edit |-> edit, seen |-> tasks[t].stamp]
    <2>1. /\ tasks[t].live /\ UNCHANGED <<rows, intended, contested, clock>>
          /\ req' = [req EXCEPT ![r] = q]
      BY <1>1 DEF ReadTask
    <2>2. q \in EditRequests
      BY <1>0 DEF EditRequests
    <2>3. RequestNext(q)
      BY <1>0, <2>1, <2>2
         DEF RequestNext, RequestOK, BoardRequest, ColumnRequest, TaskRequest,
             RowTypes
    <2>4. q.stage = "task"
      OBVIOUS
    <2> HIDE DEF q
    <2>5. Types' /\ Advances
      BY <2>1, <2>3, <2>4, ReadStep
    <2>6. QED
      BY <2>1, <2>5 DEF Kept
  <1>2. CASE TouchTask(r)
    <2> DEFINE q == req[r]
               edited == Edited(q.row, q.edit)
               row == [edited EXCEPT !.stamp = clock']
               next == [q EXCEPT !.stage = "save-task", !.row = row]
    <2>1. /\ q.stage = "task" /\ clock' = clock + 1
          /\ UNCHANGED <<rows, intended, contested>>
          /\ req' = [req EXCEPT ![r].stage = "save-task", ![r].row = row]
      BY <1>2 DEF TouchTask, Tick, Touched
    <2>2. /\ q \in EditRequests /\ q.row.board = tasks[q.id].board
          /\ 0 < q.seen /\ q.seen \in Nat /\ q.seen <= tasks[q.id].stamp
          /\ q.seen = tasks[q.id].stamp =>
               tasks[q.id].live /\ q.row = tasks[q.id]
      BY <1>0, <2>1 DEF RequestOK, TaskRequest
    <2>3. /\ q.id \in Tasks /\ q.edit \in Edits /\ q.row \in TaskRows
      BY <2>2 DEF EditRequests
    <2>4. /\ edited \in TaskRows /\ edited.board = q.row.board
      BY <2>3, EditedTypes
    <2>5. req' = [req EXCEPT ![r] = next]
      BY <1>0, <2>1
    <2>6. q.seen = tasks[q.id].stamp =>
            row = [Edited(tasks[q.id], q.edit) EXCEPT !.stamp = clock']
      BY <2>2
    <2> HIDE DEF edited
    <2>7. row \in TaskRows /\ row.board = q.row.board /\ row.stamp = clock'
      BY <1>0, <2>1, <2>4 DEF TaskRows
    <2> HIDE DEF row
    <2>8. /\ next \in EditRequests /\ next.stage = "save-task"
          /\ next.id = q.id /\ next.edit = q.edit /\ next.seen = q.seen
          /\ next.row = row
      BY <2>2, <2>7 DEF EditRequests
    <2> HIDE DEF next, q
    <2>9. tasks[q.id].stamp \in Nat /\ tasks[q.id].stamp <= clock
      BY <1>0, <2>3 DEF RowTypes
    <2>10. TaskRequest(next, tasks', clock')
      BY <1>0, <2>1, <2>2, <2>6, <2>7, <2>8, <2>9 DEF TaskRequest, EditOf
    <2>11. RequestNext(next)
      BY <2>8, <2>10 DEF RequestNext, RequestOK, BoardRequest, ColumnRequest
    <2>12. Types' /\ Advances
      BY <2>1, <2>5, <2>8, <2>11, ReadStep
    <2>13. QED
      BY <2>1, <2>12 DEF Kept
  <1>3. CASE RefuseTask(r)
    <2>1. /\ Finish(r) /\ UNCHANGED <<rows, intended, contested, clock>>
      BY <1>3 DEF RefuseTask
    <2>2. RequestNext(Idle) /\ Idle.stage = "idle"
      BY IdleOK DEF RequestNext, Idle
    <2>3. Types' /\ Advances
      BY <2>1, <2>2, ReadStep DEF Finish
    <2>4. QED
      BY <2>1, <2>3 DEF Kept
  <1>4. CASE CommitTask(r)
    <2> DEFINE q == req[r]
               t == q.id
               next == IF Updates(tasks[t], q.row.stamp) THEN q.row
                       ELSE tasks[t]
    <2>1. /\ q.stage = "save-task" /\ Finish(r)
          /\ tasks' = [tasks EXCEPT ![t] = next]
          /\ intended' = [intended EXCEPT ![t] = Edited(@, q.edit)]
          /\ tasks[t].stamp # q.seen => t \in contested'
          /\ contested \subseteq contested'
          /\ UNCHANGED <<boards, columns, clock>>
      BY <1>0, <1>4 DEF CommitTask
    <2>2. /\ q \in EditRequests /\ q.row.board = tasks[t].board
          /\ q.seen < q.row.stamp /\ q.row.stamp <= clock
          /\ q.seen = tasks[t].stamp => q.row = EditOf(q, tasks)
          /\ q.seen = tasks[t].stamp => tasks[t].live
      BY <1>0, <2>1 DEF RequestOK, TaskRequest
    <2>3. /\ t \in Tasks /\ q.edit \in Edits /\ q.row \in TaskRows
      BY <2>2 DEF EditRequests
    <2>4. TaskGoesOn(tasks[t], next)
      BY <1>0, <2>2, <2>3 DEF TaskGoesOn, Updates
    <2>5. intended' \in [Tasks -> TaskRows]
      BY <1>0, <2>1, <2>3, EditedTypes
    <2>6. \A o \in Requests \ {r} :
            req[o].stage = "create-task" /\ req[o].id = t => next = tasks[t]
      <3>1. \A o \in Requests :
              req[o].stage = "create-task" => ~tasks[req[o].id].live
        BY DEF Types, RequestOK, TaskRequest
      <3>2. QED
        BY <3>1 DEF Updates
    <2>7. q.seen = tasks[t].stamp =>
            next = [Edited(tasks[t], q.edit) EXCEPT !.stamp = q.row.stamp]
      BY <2>2 DEF Updates, EditOf
    <2> HIDE DEF next
    <2>8. Types' /\ Advances
      <3> HIDE DEF q, t
      <3>1. t \in Tasks /\ UNCHANGED <<boards, columns, clock>>
        BY <2>1, <2>3
      <3>2. QED
        BY <2>1, <2>4, <2>5, <2>6, <3>1, TaskStep
    <2>9. ASSUME Kept, NEW x \in Tasks \ contested'
          PROVE  Agree(tasks'[x], intended'[x])
      <3>1. Agree(tasks[x], intended[x])
        BY <2>1, <2>9 DEF Kept
      <3>2. CASE x # t
        BY <1>0, <2>1, <3>1, <3>2
      <3>3. CASE x = t
        <4>1. q.seen = tasks[t].stamp /\ tasks[t].live
          BY <2>1, <2>2, <2>9, <3>3
        <4>2. Agree(Edited(tasks[t], q.edit), Edited(intended[t], q.edit))
          BY <1>0, <2>3, <3>1, <3>3, <4>1, EditedAgree
        <4>3. Edited(tasks[t], q.edit) \in TaskRows
          BY <1>0, <2>3, EditedTypes
        <4> DEFINE edited == Edited(tasks[t], q.edit)
        <4>4. next = [edited EXCEPT !.stamp = q.row.stamp]
          BY <2>7, <4>1
        <4> HIDE DEF edited
        <4>5. /\ next.live = edited.live /\ next.status = edited.status
              /\ next.column = edited.column
          BY <4>3, <4>4 DEF edited, TaskRows
        <4>6. tasks'[t] = next /\ intended'[t] = Edited(intended[t], q.edit)
          BY <1>0, <2>1, <2>3
        <4>7. QED
          BY <3>3, <4>2, <4>5, <4>6 DEF Agree, edited
      <3>4. QED
        BY <3>2, <3>3
    <2>10. QED
      BY <2>8, <2>9 DEF Kept
  <1>5. QED
    <2>1. /\ \A status \in Statuses :
               [field |-> "status", value |-> status] \in Edits
          /\ \A c \in Columns \cup {None} :
               [field |-> "column", value |-> c] \in Edits
          /\ [field |-> "none", value |-> None] \in Edits
      BY DEF Edits
    <2>2. QED
      BY <1>1, <1>2, <1>3, <1>4, <2>1
         DEF UpdateTask, BeginUpdateTaskStatus, BeginMoveTask,
             BeginUpdateTaskDetails

LEMMA DeleteTaskSteps ==
    ASSUME Types, NEW r \in Requests, DeleteTask(r)
    PROVE  Types' /\ Advances /\ (Kept => Kept')
  <1> USE DEF rows, historyVars
  <1>0. /\ RowTypes /\ clock \in Nat /\ DOMAIN req = Requests
        /\ RequestOK(req[r], boards, columns, tasks, clock)
        /\ tasks \in [Tasks -> TaskRows] /\ intended \in [Tasks -> TaskRows]
        /\ \A t \in Tasks : tasks[t] \in TaskRows /\ tasks[t].stamp \in Nat
    BY DEF Types, RowTypes, TaskRows
  <1>1. ASSUME NEW t \in Tasks, BeginDeleteTask(r, t)
        PROVE  Types' /\ Advances /\ (Kept => Kept')
    <2> DEFINE q == [stage |-> "delete-task", id |-> t, stamp |-> clock',
                     seen |-> tasks[t].stamp]
    <2>1. /\ tasks[t].live /\ UNCHANGED <<rows, intended, contested>>
          /\ clock' = clock + 1 /\ req' = [req EXCEPT ![r] = q]
      BY <1>1 DEF BeginDeleteTask, Tick
    <2>2. 0 < tasks[t].stamp /\ tasks[t].stamp <= clock
      BY <1>0, <2>1 DEF RowTypes
    <2>3. RequestNext(q)
      BY <1>0, <2>1, <2>2
         DEF RequestNext, RequestOK, BoardRequest, ColumnRequest, TaskRequest,
             Instant
    <2>4. q.stage = "delete-task"
      OBVIOUS
    <2> HIDE DEF q
    <2>5. Types' /\ Advances
      BY <2>1, <2>3, <2>4, ReadStep
    <2>6. QED
      BY <2>1, <2>5 DEF Kept
  <1>2. CASE CommitDeleteTask(r)
    <2> DEFINE q == req[r]
               t == q.id
               next == Gone(tasks, q.stamp)[t]
    <2>1. /\ q.stage = "delete-task" /\ Finish(r)
          /\ tasks' = [tasks EXCEPT ![t] = next]
          /\ intended' = [intended EXCEPT ![t].live = FALSE]
          /\ tasks[t].stamp # q.seen => t \in contested'
          /\ contested \subseteq contested'
          /\ UNCHANGED <<boards, columns, clock>>
      BY <1>0, <1>2 DEF CommitDeleteTask
    <2>2. /\ t \in Tasks /\ Instant(q.stamp, clock) /\ q.seen < q.stamp
          /\ q.seen = tasks[t].stamp => tasks[t].live
      BY <1>0, <2>1 DEF RequestOK, TaskRequest
    <2>3. Taken(tasks[t], next, q.stamp)
      BY <1>0, <2>2, GoneRow
    <2> HIDE DEF next
    <2>4. \/ next = tasks[t] /\ ~Updates(tasks[t], q.stamp)
          \/ /\ Updates(tasks[t], q.stamp)
             /\ next = [tasks[t] EXCEPT !.live = FALSE, !.stamp = q.stamp]
      BY <2>3 DEF Taken
    <2>5. \/ next = tasks[t] /\ ~Updates(tasks[t], q.stamp)
          \/ /\ next \in TaskRows /\ next.live = FALSE
             /\ next.stamp = q.stamp /\ next.board = tasks[t].board
             /\ tasks[t].live /\ tasks[t].stamp < q.stamp
      BY <1>0, <2>2, <2>4 DEF TaskRows, Updates, Instant
    <2>6. TaskGoesOn(tasks[t], next)
      BY <2>2, <2>5 DEF TaskGoesOn, Instant
    <2>7. intended' \in [Tasks -> TaskRows] /\ intended'[t].live = FALSE
      <3> DEFINE row == [intended[t] EXCEPT !.live = FALSE]
      <3>1. row \in TaskRows /\ row.live = FALSE
        BY <1>0, <2>2 DEF TaskRows
      <3>2. intended' = [intended EXCEPT ![t] = row]
        BY <1>0, <2>1
      <3> HIDE DEF row
      <3>3. QED
        BY <1>0, <2>2, <3>1, <3>2
    <2>8. \A o \in Requests \ {r} :
            req[o].stage = "create-task" /\ req[o].id = t => next = tasks[t]
      <3>1. \A o \in Requests :
              req[o].stage = "create-task" => ~tasks[req[o].id].live
        BY DEF Types, RequestOK, TaskRequest
      <3>2. QED
        BY <2>5, <3>1
    <2>9. Types' /\ Advances
      <3> HIDE DEF q, t
      <3>1. t \in Tasks /\ UNCHANGED <<boards, columns, clock>>
        BY <2>1, <2>2
      <3>2. QED
        BY <2>1, <2>6, <2>7, <2>8, <3>1, TaskStep
    <2>10. ASSUME Kept, NEW x \in Tasks \ contested'
           PROVE  Agree(tasks'[x], intended'[x])
      <3>1. CASE x # t
        <4>1. Agree(tasks[x], intended[x])
          BY <2>1, <2>10 DEF Kept
        <4>2. QED
          BY <1>0, <2>1, <3>1, <4>1
      <3>2. CASE x = t
        <4>1. next.live = FALSE
          BY <2>1, <2>2, <2>5, <2>10, <3>2 DEF Updates
        <4>2. QED
          BY <1>0, <2>1, <2>2, <2>7, <3>2, <4>1 DEF Agree
      <3>3. QED
        BY <3>1, <3>2
    <2>11. QED
      BY <2>9, <2>10 DEF Kept
  <1>3. QED
    BY <1>1, <1>2 DEF DeleteTask

LEMMA CreateBoardStep ==
    ASSUME Types, NEW b \in Boards, CreateBoard(b)
    PROVE  Types' /\ Advances
  <1>0. /\ RowTypes /\ clock \in Nat /\ boards \in [Boards -> BoardRows]
        /\ \A x \in Boards : boards[x].stamp \in Nat
        /\ \A t \in Tasks : tasks[t].stamp \in Nat
    BY DEF Types, RowTypes, BoardRows, TaskRows
  <1> DEFINE row == NewBoard(clock')
  <1>1. /\ boards[b].stamp = 0 /\ clock' = clock + 1
        /\ boards' = [boards EXCEPT ![b] = row]
        /\ UNCHANGED <<columns, tasks, intended, req>>
    BY DEF CreateBoard, NoBoardRow, Tick, historyVars
  <1>2. row \in BoardRows /\ row.stamp = clock + 1
    BY <1>0, <1>1 DEF NewBoard, BoardRows
  <1> HIDE DEF row
  <1>3. RowTypes' /\ RowsForward /\ Advances
    BY <1>0, <1>1, <1>2 DEF RowTypes, RowsForward, Advances
  <1>4. \A o \in Requests : Untouched(req[o])
    BY <1>1 DEF Untouched
  <1>5. QED
    BY <1>1, <1>3, <1>4, OtherStep

LEMMA TypesKept ==
    ASSUME Types, [Next]_vars
    PROVE  Types' /\ (Advances \/ UNCHANGED vars)
  <1>1. ASSUME NEW b \in Boards, CreateBoard(b) PROVE Types' /\ Advances
    BY <1>1, CreateBoardStep
  <1>2. ASSUME NEW c \in Columns, DeleteColumn(c) PROVE Types' /\ Advances
    BY <1>2, DeleteColumnStep
  <1>3. ASSUME NEW r \in Requests, UpdateBoardName(r) \/ DeleteBoard(r)
        PROVE  Types' /\ Advances
    BY <1>3, BoardSteps
  <1>4. ASSUME NEW r \in Requests, CreateColumn(r) PROVE Types' /\ Advances
    BY <1>4, CreateColumnSteps
  <1>5. ASSUME NEW r \in Requests, UpdateColumn(r) PROVE Types' /\ Advances
    BY <1>5, UpdateColumnSteps
  <1>6. ASSUME NEW r \in Requests, MoveColumn(r) PROVE Types' /\ Advances
    BY <1>6, MoveColumnSteps
  <1>7. ASSUME NEW r \in Requests,
               CreateTask(r) \/ UpdateTask(r) \/ DeleteTask(r)
        PROVE  Types' /\ Advances
    BY <1>7, CreateTaskSteps, UpdateTaskSteps, DeleteTaskSteps
  <1>8. CASE UNCHANGED vars
    <2>1. UNCHANGED <<boards, columns, tasks, intended, req, clock>>
      BY <1>8 DEF vars, rows, historyVars
    <2>2. Types'
      BY <2>1 DEF Types, RowTypes, Distinct
    <2>3. QED
      BY <1>8, <2>2
  <1>9. QED
    BY <1>1, <1>2, <1>3, <1>4, <1>5, <1>6, <1>7, <1>8 DEF Next

(* The rows are rows, the requests hold rows that exist or that they alone *)
(* will insert, and no instant lies in the future.                         *)
THEOREM TypeCorrect == Spec => []Types
  <1>1. QED
    BY InitTypes, TypesKept, PTL DEF Spec

(* A row of boards or tasks never goes back to an older stamp, and no      *)
(* deleted row of any table returns, in either store, whatever requests    *)
(* run beside each other: an insertion is of a row nobody else can write,  *)
(* and every other write asks for an older, live row.                      *)
THEOREM RowsAdvance == Spec => RowsOnlyAdvance
  <1>1. Types /\ [Next]_vars => [Advances]_vars
    BY TypesKept
  <1>2. QED
    BY <1>1, TypeCorrect, PTL DEF Spec, RowsOnlyAdvance, Advances

-----------------------------------------------------------------------------
(* Answered edits last                                                     *)

(* Deleting a board deletes its tasks, but for those written since.        *)
LEMMA DeletedBoardKeeps ==
    ASSUME Types, Kept, NEW r \in Requests, CommitDeleteBoard(r)
    PROVE  Kept'
  <1> DEFINE b == req[r].id
             s == req[r].stamp
  <1>1. tasks \in [Tasks -> TaskRows] /\ intended \in [Tasks -> TaskRows]
    BY DEF Types, RowTypes
  <1>2. CASE ~Removes(b, s)
    BY <1>2 DEF CommitDeleteBoard, Kept
  <1>3. CASE Removes(b, s)
    <2>1. /\ tasks' = [t \in Tasks |-> IF tasks[t].board = b
                                       THEN Gone(tasks, s)[t] ELSE tasks[t]]
          /\ intended' = [t \in Tasks |-> IF tasks[t].board = b
                            THEN [intended[t] EXCEPT !.live = FALSE]
                            ELSE intended[t]]
          /\ contested' = contested \cup {t \in Tasks :
                            /\ tasks[t].board = b
                            /\ tasks[t].live /\ s <= tasks[t].stamp}
      BY <1>1, <1>3 DEF CommitDeleteBoard, Cascade
    <2>2. SUFFICES ASSUME NEW t \in Tasks \ contested'
                   PROVE  Agree(tasks'[t], intended'[t])
      BY DEF Kept
    <2>3. Agree(tasks[t], intended[t])
      BY <2>1 DEF Kept
    <2>4. CASE tasks[t].board # b
      BY <2>1, <2>3, <2>4
    <2>5. CASE tasks[t].board = b
      <3>1. tasks'[t] = Gone(tasks, s)[t]
        BY <2>1, <2>5
      <3>2. Taken(tasks[t], tasks'[t], s)
        BY <1>1, <3>1, GoneRow
      <3>3. tasks[t] \in TaskRows /\ intended[t] \in TaskRows
        BY <1>1
      <3>4. CASE Updates(tasks[t], s)
        <4>1. tasks'[t] = [tasks[t] EXCEPT !.live = FALSE, !.stamp = s]
          BY <3>2, <3>4 DEF Taken
        <4>2. tasks'[t].live = FALSE
          BY <3>3, <4>1 DEF TaskRows
        <4>3. intended'[t].live = FALSE
          BY <2>1, <2>5, <3>3 DEF TaskRows
        <4>4. QED
          BY <4>2, <4>3 DEF Agree
      <3>5. CASE ~Updates(tasks[t], s)
        <4>1. tasks'[t] = tasks[t]
          BY <3>2, <3>5 DEF Taken
        <4>2. RequestOK(req[r], boards, columns, tasks, clock)
          BY DEF Types
        <4>3. s \in Nat
          BY <4>2 DEF CommitDeleteBoard, RequestOK, BoardRequest, Instant
        <4>4. ~tasks[t].live
          BY <2>1, <2>5, <3>3, <3>5, <4>3 DEF Updates, TaskRows
        <4>5. intended'[t].live = FALSE
          BY <2>1, <2>5, <3>3 DEF TaskRows
        <4>6. QED
          BY <3>3, <4>1, <4>4, <4>5 DEF Agree, TaskRows
      <3>6. QED
        BY <3>4, <3>5
    <2>6. QED
      BY <2>4, <2>5
  <1>4. QED
    BY <1>2, <1>3

LEMMA EditsLast ==
    ASSUME Types, Kept, [Next]_vars
    PROVE  Kept'
  <1>1. CASE UNCHANGED <<tasks, intended, contested>>
    BY <1>1 DEF Kept
  <1> USE DEF rows, historyVars
  <1>2. ASSUME NEW b \in Boards, CreateBoard(b)
        PROVE  UNCHANGED <<tasks, intended, contested>>
    BY <1>2 DEF CreateBoard
  <1>3. ASSUME NEW c \in Columns, DeleteColumn(c)
        PROVE  UNCHANGED <<tasks, intended, contested>>
    BY <1>3 DEF DeleteColumn
  <1>4. ASSUME NEW r \in Requests, UpdateBoardName(r)
        PROVE  UNCHANGED <<tasks, intended, contested>>
    BY <1>4 DEF UpdateBoardName, BeginUpdateBoard, CommitUpdateBoard
  <1>5. ASSUME NEW r \in Requests, DeleteBoard(r), ~CommitDeleteBoard(r)
        PROVE  UNCHANGED <<tasks, intended, contested>>
    BY <1>5 DEF DeleteBoard, BeginDeleteBoard
  <1>6. ASSUME NEW r \in Requests, CreateColumn(r)
        PROVE  UNCHANGED <<tasks, intended, contested>>
    BY <1>6 DEF CreateColumn, BeginCreateColumn, CommitCreateColumn
  <1>7. ASSUME NEW r \in Requests, UpdateColumn(r)
        PROVE  UNCHANGED <<tasks, intended, contested>>
    BY <1>7 DEF UpdateColumn, BeginUpdateColumn, CommitUpdateColumn
  <1>8. ASSUME NEW r \in Requests, MoveColumn(r)
        PROVE  UNCHANGED <<tasks, intended, contested>>
    BY <1>8 DEF MoveColumn, BeginMoveColumn, ListColumns, CommitMoveColumn
  <1>9. ASSUME NEW r \in Requests,
               CreateTask(r) \/ UpdateTask(r) \/ DeleteTask(r)
        PROVE  Kept'
    BY <1>9, CreateTaskSteps, UpdateTaskSteps, DeleteTaskSteps
  <1>10. CASE UNCHANGED vars
    BY <1>10 DEF vars, Kept
  <1>11. QED
    BY <1>1, <1>2, <1>3, <1>4, <1>5, <1>6, <1>7, <1>8, <1>9, <1>10,
       DeletedBoardKeeps
       DEF Next

(* An answered edit of a task lasts: unless two edits of it overlapped,    *)
(* status, column and deletion are what the last answered requests say,    *)
(* for the guarded UPDATE answers 204 without writing only if somebody     *)
(* else has written the task since it was read.                            *)
THEOREM AnsweredEditsLast == Spec => []EditsKept
  <1>1. Init => Kept
    <2>1. Init => intended = tasks
      BY DEF Init
    <2>2. QED
      BY <2>1 DEF Kept, Agree
  <1>2. Types /\ Kept /\ [Next]_vars => Kept'
    BY EditsLast
  <1>3. Kept => EditsKept
    BY DEF Kept, Agree, EditsKept
  <1>4. QED
    BY <1>1, <1>2, <1>3, TypeCorrect, PTL DEF Spec

-----------------------------------------------------------------------------
(* Deleted boards take their rows                                          *)

(* What a step may do to rows whose boards are deleted: nothing, unless it *)
(* is recorded.                                                            *)
RowsStay ==
    /\ emptied' = emptied /\ store' = store /\ late \subseteq late'
    /\ \A b \in Boards : boards[b].stamp > 0 =>
         boards'[b].stamp > 0 /\ boards'[b].live = boards[b].live
    /\ \A c \in Columns : columns'[c].live =>
         \/ columns[c].live /\ columns'[c].board = columns[c].board
         \/ c \in late' \/ boards[columns'[c].board].live
    /\ \A t \in Tasks : tasks'[t].live =>
         \/ tasks[t].live /\ tasks'[t].board = tasks[t].board
         \/ t \in late' \/ tasks'[t].board = None
         \/ boards[tasks'[t].board].live

Emptied ==
    /\ BoardTakesItsRows
    /\ store \in {"sqlite", "postgres"}
    /\ emptied \subseteq {b \in Boards : boards[b].stamp > 0}

LEMMA EmptiedStays ==
    ASSUME Emptied, RowsStay
    PROVE  Emptied'
  <1>1. None \notin emptied
    BY RowsAssumption DEF Emptied
  <1>2. \A b \in emptied : boards'[b].live = boards[b].live
    BY DEF Emptied, RowsStay
  <1>3. QED
    BY <1>1, <1>2 DEF Emptied, RowsStay, BoardTakesItsRows

LEMMA BoardSpared ==
    ASSUME Types, Emptied, NEW r \in Requests, CommitDeleteBoard(r)
    PROVE  Emptied'
  <1> DEFINE b == req[r].id
             s == req[r].stamp
  <1>0. /\ RequestOK(req[r], boards, columns, tasks, clock)
        /\ columns \in [Columns -> ColumnRows] /\ tasks \in [Tasks -> TaskRows]
        /\ boards \in [Boards -> BoardRows]
        /\ \A c \in Columns : columns[c] \in ColumnRows
        /\ \A t \in Tasks : tasks[t] \in TaskRows
        /\ \A x \in Boards : boards[x] \in BoardRows
    BY DEF Types, RowTypes
  <1>1. b \in Boards /\ s \in Nat /\ s > 0 /\ boards[b].stamp > 0
    BY <1>0 DEF CommitDeleteBoard, RequestOK, BoardRequest, Instant
  <1>2. /\ Taken(boards[b], boards'[b], s)
        /\ \A x \in Boards \ {b} : boards'[x] = boards[x]
    <2>1. boards' = [boards EXCEPT ![b] = Gone(boards, s)[b]]
      BY DEF CommitDeleteBoard
    <2>2. QED
      BY <1>0, <1>1, <2>1, GoneRow
  <1>3. /\ boards'[b].stamp > 0
        /\ boards'[b].live => boards[b].live
        /\ Updates(boards[b], s) => boards'[b].live = FALSE
        /\ ~Updates(boards[b], s) => boards'[b] = boards[b]
    BY <1>0, <1>1, <1>2 DEF Taken, BoardRows
  <1>4. CASE ~Removes(b, s)
    <2>1. /\ UNCHANGED <<columns, tasks, emptied, late, store>>
          /\ ~Updates(boards[b], s)
      BY <1>4 DEF CommitDeleteBoard, Removes
    <2>2. QED
      BY <1>0, <1>2, <1>3, <2>1 DEF Emptied, BoardTakesItsRows
  <1>5. CASE Removes(b, s)
    <2>1. /\ emptied' = emptied \cup {b} /\ late \subseteq late'
          /\ store' = store /\ Cascade(b, s)
      BY <1>5 DEF CommitDeleteBoard
    <2>2. /\ \A c \in Columns : columns[c].board = b /\ columns[c].live
               /\ s <= columns[c].stamp => c \in late'
          /\ \A t \in Tasks : tasks[t].board = b /\ tasks[t].live
               /\ s <= tasks[t].stamp => t \in late'
      BY <1>0, <1>5 DEF CommitDeleteBoard
    <2>3. ASSUME NEW c \in Columns
          PROVE  /\ columns'[c].live =>
                      columns[c].live /\ columns'[c].board = columns[c].board
                 /\ columns'[c].live /\ columns'[c].board = b => c \in late'
      <3>1. columns[c].board = b => Taken(columns[c], columns'[c], s)
        BY <1>0, <2>1, GoneRow DEF Cascade
      <3>2. columns[c].board # b => columns'[c] = columns[c]
        BY <2>1 DEF Cascade
      <3>3. columns[c] \in ColumnRows
        BY <1>0
      <3>4. columns[c].board = b =>
              \/ columns'[c].live = FALSE /\ columns'[c].board = b
              \/ columns'[c] = columns[c] /\ ~Updates(columns[c], s)
        BY <3>1, <3>3 DEF Taken, ColumnRows
      <3>5. QED
        BY <1>1, <2>2, <3>2, <3>3, <3>4 DEF Updates, ColumnRows
    <2>4. ASSUME NEW t \in Tasks
          PROVE  /\ tasks'[t].live =>
                      tasks[t].live /\ tasks'[t].board = tasks[t].board
                 /\ tasks'[t].live /\ tasks'[t].board = b => t \in late'
      <3>1. tasks[t].board = b => Taken(tasks[t], tasks'[t], s)
        BY <1>0, <2>1, GoneRow DEF Cascade
      <3>2. tasks[t].board # b => tasks'[t] = tasks[t]
        BY <2>1 DEF Cascade
      <3>3. tasks[t] \in TaskRows
        BY <1>0
      <3>4. tasks[t].board = b =>
              \/ tasks'[t].live = FALSE /\ tasks'[t].board = b
              \/ tasks'[t] = tasks[t] /\ ~Updates(tasks[t], s)
        BY <3>1, <3>3 DEF Taken, TaskRows
      <3>5. QED
        BY <1>1, <2>2, <3>2, <3>3, <3>4 DEF Updates, TaskRows
    <2>5. boards'[b].live => store' = "sqlite"
      <3>1. store \in {"sqlite", "postgres"}
        BY DEF Emptied
      <3>2. QED
        BY <1>3, <1>5, <2>1, <3>1 DEF Removes
    <2>6. /\ emptied' \subseteq {x \in Boards : boards'[x].stamp > 0}
          /\ \A x \in emptied' : boards'[x].live => store' = "sqlite"
          /\ store' \in {"sqlite", "postgres"}
      <3>1. /\ \A x \in emptied : x \in Boards /\ boards[x].stamp > 0
            /\ \A x \in emptied : boards[x].live => store = "sqlite"
            /\ store \in {"sqlite", "postgres"}
        BY DEF Emptied, BoardTakesItsRows
      <3>2. \A x \in emptied' :
              /\ x \in Boards /\ (x = b \/ x \in emptied)
              /\ x # b => boards'[x] = boards[x]
        BY <1>1, <1>2, <2>1, <3>1
      <3> HIDE DEF b, s
      <3>3. ASSUME NEW x \in emptied'
            PROVE  /\ x \in Boards /\ boards'[x].stamp > 0
                   /\ boards'[x].live => store' = "sqlite"
        <4>1. CASE x = b
          BY <1>1, <1>3, <2>5, <4>1
        <4>2. CASE x # b
          <5>1. x \in Boards /\ x \in emptied /\ boards'[x] = boards[x]
            BY <3>2, <4>2
          <5>2. QED
            BY <2>1, <3>1, <5>1
        <4>3. QED
          BY <4>1, <4>2
      <3>4. QED
        BY <2>1, <3>1, <3>3
    <2>7. ASSUME NEW c \in Columns, columns'[c].live,
                 columns'[c].board \in emptied'
          PROVE  c \in late' \/ boards'[columns'[c].board].live
      BY <1>2, <2>1, <2>3, <2>7 DEF Emptied, BoardTakesItsRows
    <2>8. ASSUME NEW t \in Tasks, tasks'[t].live,
                 tasks'[t].board \in emptied'
          PROVE  t \in late' \/ boards'[tasks'[t].board].live
      BY <1>2, <2>1, <2>4, <2>8 DEF Emptied, BoardTakesItsRows
    <2> HIDE DEF b, s
    <2>9. QED
      BY <2>6, <2>7, <2>8 DEF Emptied, BoardTakesItsRows
  <1>6. QED
    BY <1>4, <1>5

LEMMA RowsStayed ==
    ASSUME Types, [Next]_vars, \A r \in Requests : ~CommitDeleteBoard(r)
    PROVE  RowsStay
  <1> USE DEF rows, historyVars
  <1>0. /\ columns \in [Columns -> ColumnRows] /\ tasks \in [Tasks -> TaskRows]
        /\ boards \in [Boards -> BoardRows]
        /\ \A c \in Columns : columns[c] \in ColumnRows
        /\ \A t \in Tasks : tasks[t] \in TaskRows
        /\ \A x \in Boards : boards[x] \in BoardRows
        /\ \A r \in Requests :
             RequestOK(req[r], boards, columns, tasks, clock)
    BY DEF Types, RowTypes
  <1>1. CASE UNCHANGED <<store, rows, emptied, late>>
    BY <1>0, <1>1 DEF RowsStay
  <1>2. ASSUME NEW b \in Boards, CreateBoard(b) PROVE RowsStay
    <2>1. boards[b].stamp = 0
      BY <1>2 DEF CreateBoard, NoBoardRow
    <2>2. QED
      BY <1>0, <1>2, <2>1 DEF CreateBoard, RowsStay
  <1>3. ASSUME NEW c \in Columns, DeleteColumn(c) PROVE RowsStay
    <2>1. /\ columns' = [columns EXCEPT ![c].live = FALSE, ![c].stamp = clock']
          /\ UNCHANGED <<store, boards, tasks, emptied, late>>
      BY <1>3 DEF DeleteColumn
    <2>2. columns'[c].live = FALSE
      BY <1>0, <2>1 DEF ColumnRows
    <2>3. \A d \in Columns \ {c} : columns'[d] = columns[d]
      BY <1>0, <2>1
    <2>4. QED
      BY <2>1, <2>2, <2>3 DEF RowsStay
  <1>4. ASSUME NEW r \in Requests, CommitUpdateBoard(r) PROVE RowsStay
    <2> DEFINE b == req[r].id
               n == IF Updates(boards[b], req[r].stamp) THEN req[r].stamp
                    ELSE boards[b].stamp
    <2>1. /\ boards' = [boards EXCEPT ![b].stamp = n]
          /\ UNCHANGED <<store, columns, tasks, emptied, late>>
      BY <1>0, <1>4 DEF CommitUpdateBoard
    <2>2. /\ b \in Boards /\ boards[b].stamp > 0 /\ boards[b] \in BoardRows
          /\ req[r].stamp \in Nat /\ req[r].stamp > 0
      BY <1>0, <1>4 DEF CommitUpdateBoard, RequestOK, BoardRequest, Instant
    <2>3. n > 0
      BY <2>2
    <2> HIDE DEF n
    <2>4. boards'[b].live = boards[b].live /\ boards'[b].stamp > 0
      BY <1>0, <2>1, <2>2, <2>3 DEF BoardRows
    <2>5. \A x \in Boards \ {b} : boards'[x] = boards[x]
      BY <1>0, <2>1
    <2>6. QED
      BY <2>1, <2>4, <2>5 DEF RowsStay
  <1>5. ASSUME NEW r \in Requests, CommitCreateColumn(r) PROVE RowsStay
    <2> DEFINE q == req[r]
    <2>1. /\ columns' = [columns EXCEPT ![q.id] = q.row]
          /\ UNCHANGED <<store, boards, tasks, emptied>>
          /\ late \subseteq late'
          /\ boards[q.row.board].live \/ q.id \in late'
      BY <1>5 DEF CommitCreateColumn
    <2>2. QED
      BY <1>0, <2>1 DEF RowsStay
  <1>6. ASSUME NEW r \in Requests, CommitUpdateColumn(r) PROVE RowsStay
    <2> DEFINE q == req[r]
    <2>1. /\ columns' = [columns EXCEPT ![q.id].position = q.position,
                                        ![q.id].stamp = q.stamp]
          /\ UNCHANGED <<store, boards, tasks, emptied, late>>
      BY <1>6 DEF CommitUpdateColumn
    <2>2. q.id \in Columns
      BY <1>0, <1>6 DEF CommitUpdateColumn, RequestOK, ColumnRequest
    <2>3. /\ columns'[q.id].live = columns[q.id].live
          /\ columns'[q.id].board = columns[q.id].board
      BY <1>0, <2>1, <2>2 DEF ColumnRows
    <2>4. \A d \in Columns \ {q.id} : columns'[d] = columns[d]
      BY <1>0, <2>1
    <2>5. QED
      BY <2>1, <2>3, <2>4 DEF RowsStay
  <1>7. ASSUME NEW r \in Requests, CommitMoveColumn(r) PROVE RowsStay
    <2>1. /\ \A c \in Columns : /\ columns'[c].live = columns[c].live
                                /\ columns'[c].board = columns[c].board
          /\ UNCHANGED <<store, boards, tasks, emptied, late>>
      BY <1>0, <1>7 DEF CommitMoveColumn, ColumnRows
    <2>2. QED
      BY <2>1 DEF RowsStay
  <1>8. ASSUME NEW r \in Requests, CommitCreateTask(r) PROVE RowsStay
    <2> DEFINE q == req[r]
    <2>1. /\ tasks' = [tasks EXCEPT ![q.id] = q.row]
          /\ UNCHANGED <<store, boards, columns, emptied>>
          /\ late \subseteq late'
          /\ q.row.board = None \/ boards[q.row.board].live \/ q.id \in late'
      BY <1>8 DEF CommitCreateTask
    <2>2. QED
      BY <1>0, <2>1 DEF RowsStay
  <1>9. ASSUME NEW r \in Requests, CommitTask(r) PROVE RowsStay
    <2> DEFINE q == req[r]
    <2>1. /\ \/ tasks' = tasks
             \/ tasks[q.id].live /\ tasks' = [tasks EXCEPT ![q.id] = q.row]
          /\ UNCHANGED <<store, boards, columns, emptied, late>>
      BY <1>9 DEF CommitTask, Updates
    <2>2. q.row.board = tasks[q.id].board
      BY <1>0, <1>9 DEF CommitTask, RequestOK, TaskRequest
    <2>3. QED
      BY <1>0, <2>1, <2>2 DEF RowsStay
  <1>10. ASSUME NEW r \in Requests, CommitDeleteTask(r) PROVE RowsStay
    <2> DEFINE q == req[r]
               next == Gone(tasks, q.stamp)[q.id]
    <2>1. /\ tasks' = [tasks EXCEPT ![q.id] = next]
          /\ UNCHANGED <<store, boards, columns, emptied, late>>
      BY <1>10 DEF CommitDeleteTask
    <2>2. q.id \in Tasks
      BY <1>0, <1>10 DEF CommitDeleteTask, RequestOK, TaskRequest
    <2>3. Taken(tasks[q.id], next, q.stamp)
      BY <1>0, <2>2, GoneRow
    <2> HIDE DEF next
    <2>4. next.live = FALSE \/ next = tasks[q.id]
      BY <1>0, <2>2, <2>3 DEF Taken, TaskRows
    <2>5. QED
      BY <1>0, <2>1, <2>2, <2>4 DEF RowsStay
  <1>11. ASSUME NEW r \in Requests,
                \/ \E b \in Boards :
                     BeginUpdateBoard(r, b) \/ BeginDeleteBoard(r, b)
                \/ \E c \in Columns, b \in Boards, p \in Positions :
                     BeginCreateColumn(r, c, b, p)
                \/ \E c \in Columns : BeginUpdateColumn(r, c)
                \/ \E c \in Columns, p \in Positions : BeginMoveColumn(r, c, p)
                \/ ListColumns(r)
                \/ \E t \in Tasks, b \in Boards \cup {None},
                      c \in Columns \cup {None} : BeginCreateTask(r, t, b, c)
                \/ \E t \in Tasks, status \in Statuses :
                     BeginUpdateTaskStatus(r, t, status)
                \/ \E t \in Tasks, c \in Columns \cup {None} :
                     BeginMoveTask(r, t, c)
                \/ \E t \in Tasks : BeginUpdateTaskDetails(r, t)
                \/ TouchTask(r) \/ RefuseTask(r)
                \/ \E t \in Tasks : BeginDeleteTask(r, t)
         PROVE  UNCHANGED <<store, rows, emptied, late>>
    BY <1>11
       DEF BeginUpdateBoard, BeginDeleteBoard, BeginCreateColumn,
           BeginUpdateColumn, BeginMoveColumn, ListColumns, BeginCreateTask,
           BeginUpdateTaskStatus, BeginMoveTask, BeginUpdateTaskDetails,
           ReadTask, TouchTask, RefuseTask, BeginDeleteTask
  <1>12. CASE UNCHANGED vars
    BY <1>1, <1>12 DEF vars
  <1> HIDE DEF rows, historyVars
  <1>13. QED
    BY <1>1, <1>2, <1>3, <1>4, <1>5, <1>6, <1>7, <1>8, <1>9, <1>10, <1>11,
       <1>12
       DEF Next, UpdateBoardName, DeleteBoard, CreateColumn, UpdateColumn,
           MoveColumn, CreateTask, UpdateTask, DeleteTask

(* Of a deleted board nothing is left but what was written while it was    *)
(* being deleted, in either store: every handler that inserts a row or     *)
(* writes one back either keeps its board and its deletion, or is one that *)
(* checked the board before it was deleted.                                *)
THEOREM DeletedBoardsAreEmpty == Spec => []BoardTakesItsRows
  <1>1. Init => Emptied
    BY RowsAssumption DEF Init, Emptied, BoardTakesItsRows
  <1>2. Types /\ Emptied /\ [Next]_vars => Emptied'
    BY BoardSpared, EmptiedStays, RowsStayed
  <1>3. Emptied => BoardTakesItsRows
    BY DEF Emptied
  <1>4. QED
    BY <1>1, <1>2, <1>3, TypeCorrect, PTL DEF Spec

-----------------------------------------------------------------------------
(* Columns stay in order                                                   *)

Between(x, old, new) == (old < x /\ x <= new) \/ (new <= x /\ x < old)

(* Where a move from old to new puts the column at x.                      *)
MovedTo(x, old, new) ==
    IF Between(x, old, new) THEN IF old < new THEN x - 1 ELSE x + 1 ELSE x

(* Making room keeps the others apart, in order, and off the new place.    *)
LEMMA RoomMade ==
    ASSUME NEW old \in Int, NEW new \in Int, NEW x \in Int, NEW y \in Int,
           x # old, y # old
    PROVE  /\ MovedTo(x, old, new) \in Int /\ MovedTo(x, old, new) # new
           /\ x # y => MovedTo(x, old, new) # MovedTo(y, old, new)
           /\ x < y <=> MovedTo(x, old, new) < MovedTo(y, old, new)
  <1>1. CASE old < new
    BY <1>1 DEF MovedTo, Between
  <1>2. CASE new <= old
    BY <1>2 DEF MovedTo, Between
  <1>3. QED
    BY <1>1, <1>2

(* The positions of a move whose column stood where it was read.           *)
Planned(q) ==
    /\ q.id \in DOMAIN q.list /\ q.id \in DOMAIN q.positions
    /\ q.positions[q.id] = q.new
    /\ \A c \in DOMAIN q.list \ {q.id} :
         LET x == q.list[c]
             old == q.list[q.id]
         IN  IF Between(x, old, q.new)
             THEN c \in DOMAIN q.positions
                    /\ q.positions[c] = MovedTo(x, old, q.new)
             ELSE c \notin DOMAIN q.positions

(* What a move holds: columns of one board, which stood apart.             *)
MoveOK(q, cs, hot) ==
    /\ q.stage \in {"move", "moving"} =>
         /\ q.id \in Columns /\ cs[q.id].stamp > 0 /\ q.new \in Int
         /\ q.board = cs[q.id].board
    /\ q.stage = "moving" =>
         /\ DOMAIN q.list \subseteq Columns
         /\ \A c \in DOMAIN q.list : q.list[c] \in Int
         /\ \A c \in DOMAIN q.list \cup DOMAIN q.positions :
              c \in Columns /\ cs[c].stamp > 0 /\ cs[c].board = q.board
         /\ q.board \in Boards \ hot =>
              \A c, d \in DOMAIN q.list : q.list[c] = q.list[d] => c = d
         /\ q.current => Planned(q)

Apart(cs, hot) ==
    \A c, d \in Columns :
        /\ c # d /\ cs[c].live /\ cs[d].live
        /\ cs[c].board = cs[d].board /\ cs[c].board \in Boards \ hot
        => cs[c].position # cs[d].position

Order ==
    /\ Apart(columns, raced)
    /\ \A r \in Requests : MoveOK(req[r], columns, raced)

LEMMA ApartIsInOrder == Apart(columns, raced) => ColumnsInOrder
  BY DEF Apart, ColumnsInOrder, Listed, IsInjective

(* What a step does to columns that exist.                                 *)
ColumnsStay ==
    /\ raced \subseteq raced'
    /\ \A c \in Columns : columns[c].stamp > 0 =>
         columns'[c].stamp > 0 /\ columns'[c].board = columns[c].board

LEMMA MoveOKStays ==
    ASSUME NEW q, MoveOK(q, columns, raced), ColumnsStay
    PROVE  MoveOK(q, columns', raced')
  BY DEF MoveOK, ColumnsStay

(* A step that moves no column and brings none back.                       *)
Shrinks ==
    /\ raced' = raced
    /\ \A c \in Columns : /\ columns'[c].live => columns[c].live
                          /\ columns'[c].board = columns[c].board
                          /\ columns'[c].position = columns[c].position
                          /\ columns[c].stamp > 0 => columns'[c].stamp > 0

LEMMA ShrinkKeeps ==
    ASSUME Shrinks, Apart(columns, raced)
    PROVE  Apart(columns', raced') /\ ColumnsStay
  BY DEF Shrinks, Apart, ColumnsStay

LEMMA OthersShrink ==
    ASSUME Types, [Next]_vars,
           \A r \in Requests : /\ ~CommitCreateColumn(r)
                               /\ ~CommitUpdateColumn(r)
                               /\ ~CommitMoveColumn(r)
    PROVE  Shrinks
  <1> USE DEF rows, historyVars
  <1>0. /\ columns \in [Columns -> ColumnRows]
        /\ \A c \in Columns : columns[c] \in ColumnRows
        /\ \A r \in Requests :
             RequestOK(req[r], boards, columns, tasks, clock)
        /\ clock \in Nat
    BY DEF Types, RowTypes
  <1>1. CASE UNCHANGED <<columns, raced>>
    BY <1>1 DEF Shrinks
  <1>2. ASSUME NEW b \in Boards, CreateBoard(b)
        PROVE  UNCHANGED <<columns, raced>>
    BY <1>2 DEF CreateBoard
  <1>3. ASSUME NEW c \in Columns, DeleteColumn(c) PROVE Shrinks
    <2>1. /\ columns' = [columns EXCEPT ![c].live = FALSE, ![c].stamp = clock']
          /\ clock' = clock + 1 /\ raced' = raced
      BY <1>3 DEF DeleteColumn, Tick
    <2>2. /\ columns'[c].live = FALSE /\ columns'[c].stamp > 0
          /\ columns'[c].board = columns[c].board
          /\ columns'[c].position = columns[c].position
      BY <1>0, <2>1 DEF ColumnRows
    <2>3. \A d \in Columns \ {c} : columns'[d] = columns[d]
      BY <1>0, <2>1
    <2>4. QED
      BY <2>1, <2>2, <2>3 DEF Shrinks
  <1>4. ASSUME NEW r \in Requests, UpdateBoardName(r)
        PROVE  UNCHANGED <<columns, raced>>
    BY <1>4 DEF UpdateBoardName, BeginUpdateBoard, CommitUpdateBoard
  <1>5. ASSUME NEW r \in Requests, CommitDeleteBoard(r) PROVE Shrinks
    <2> DEFINE b == req[r].id
               s == req[r].stamp
    <2>1. raced' = raced /\ (columns' = columns \/ Cascade(b, s))
      BY <1>5 DEF CommitDeleteBoard
    <2>2. s > 0
      BY <1>0, <1>5 DEF CommitDeleteBoard, RequestOK, BoardRequest, Instant
    <2> HIDE DEF b, s
    <2>3. CASE Cascade(b, s)
      <3>1. ASSUME NEW c \in Columns
            PROVE  columns'[c] = columns[c] \/ Taken(columns[c], columns'[c], s)
        BY <1>0, <2>3, GoneRow DEF Cascade
      <3>2. ASSUME NEW c \in Columns
            PROVE  /\ columns'[c].live => columns[c].live
                   /\ columns'[c].board = columns[c].board
                   /\ columns'[c].position = columns[c].position
                   /\ columns[c].stamp > 0 => columns'[c].stamp > 0
        BY <1>0, <2>2, <3>1 DEF Taken, ColumnRows
      <3>3. QED
        BY <2>1, <3>2 DEF Shrinks
    <2>4. QED
      BY <1>1, <2>1, <2>3
  <1>6. ASSUME NEW r \in Requests,
               \/ \E b \in Boards : BeginDeleteBoard(r, b)
               \/ \E c \in Columns, b \in Boards, p \in Positions :
                    BeginCreateColumn(r, c, b, p)
               \/ \E c \in Columns : BeginUpdateColumn(r, c)
               \/ \E c \in Columns, p \in Positions : BeginMoveColumn(r, c, p)
               \/ ListColumns(r)
        PROVE  UNCHANGED <<columns, raced>>
    BY <1>6 DEF BeginDeleteBoard, BeginCreateColumn, BeginUpdateColumn,
                BeginMoveColumn, ListColumns
  <1>7. ASSUME NEW r \in Requests, CreateTask(r) \/ DeleteTask(r)
        PROVE  UNCHANGED <<columns, raced>>
    BY <1>7 DEF CreateTask, BeginCreateTask, CommitCreateTask, DeleteTask,
                BeginDeleteTask, CommitDeleteTask
  <1>8. ASSUME NEW r \in Requests, UpdateTask(r)
        PROVE  UNCHANGED <<columns, raced>>
    BY <1>8 DEF UpdateTask, BeginUpdateTaskStatus, BeginMoveTask,
                BeginUpdateTaskDetails, ReadTask, TouchTask, RefuseTask,
                CommitTask
  <1>9. CASE UNCHANGED vars
    BY <1>1, <1>9 DEF vars
  <1> HIDE DEF rows, historyVars
  <1>10. QED
    BY <1>1, <1>2, <1>3, <1>4, <1>5, <1>6, <1>7, <1>8, <1>9
       DEF Next, DeleteBoard, CreateColumn, UpdateColumn, MoveColumn

(* Only its own steps make a request a move, or end it.                    *)
LEMMA MovesGoOn ==
    ASSUME Types, [Next]_vars, NEW o \in Requests
    PROVE  \/ req'[o] = req[o]
           \/ /\ req'[o].stage \notin {"move", "moving"}
              /\ req[o].stage # "moving" \/ CommitMoveColumn(o)
           \/ \E c \in Columns, p \in Positions : BeginMoveColumn(o, c, p)
           \/ ListColumns(o)
  <1> USE DEF rows, historyVars
  <1> DEFINE Goal(r) ==
        \/ r # o /\ req'[o] = req[o]
        \/ /\ req'[o].stage \notin {"move", "moving"}
           /\ req[o].stage # "moving" \/ CommitMoveColumn(o)
        \/ \E c \in Columns, p \in Positions : BeginMoveColumn(o, c, p)
        \/ ListColumns(o)
  <1>0. DOMAIN req = Requests
    BY DEF Types
  <1>1. CASE req' = req
    BY <1>1
  <1>2. ASSUME NEW r \in Requests, NEW q, req' = [req EXCEPT ![r] = q],
               q.stage \notin {"move", "moving"},
               req[r].stage # "moving" \/ CommitMoveColumn(r)
        PROVE  Goal(r)
    BY <1>0, <1>2
  <1>3. ASSUME NEW r \in Requests, Finish(r),
               req[r].stage # "moving" \/ CommitMoveColumn(r)
        PROVE  Goal(r)
    BY <1>2, <1>3 DEF Finish, Idle
  <1>4. ASSUME NEW r \in Requests, Begin(r)
        PROVE  req[r].stage # "moving"
    BY <1>4 DEF Begin, Idle
  <1>5. ASSUME NEW r \in Requests,
               \/ CommitUpdateBoard(r) \/ CommitDeleteBoard(r)
               \/ CommitCreateColumn(r) \/ CommitUpdateColumn(r)
               \/ CommitMoveColumn(r) \/ CommitCreateTask(r)
               \/ RefuseTask(r) \/ CommitTask(r) \/ CommitDeleteTask(r)
        PROVE  Goal(r)
    <2>1. Finish(r) /\ (req[r].stage # "moving" \/ CommitMoveColumn(r))
      BY <1>5 DEF CommitUpdateBoard, CommitDeleteBoard, CommitCreateColumn,
                  CommitUpdateColumn, CommitMoveColumn, CommitCreateTask,
                  RefuseTask, CommitTask, CommitDeleteTask
    <2> HIDE DEF Goal
    <2>2. QED
      BY <1>3, <2>1
  <1>6. ASSUME NEW r \in Requests, NEW b \in Boards,
               BeginUpdateBoard(r, b) \/ BeginDeleteBoard(r, b)
        PROVE  Goal(r)
    BY <1>0, <1>4, <1>6 DEF BeginUpdateBoard, BeginDeleteBoard
  <1>7. ASSUME NEW r \in Requests, NEW c \in Columns, NEW b \in Boards,
               NEW p \in Positions, BeginCreateColumn(r, c, b, p)
        PROVE  Goal(r)
    BY <1>0, <1>4, <1>7 DEF BeginCreateColumn
  <1>8. ASSUME NEW r \in Requests, NEW c \in Columns, BeginUpdateColumn(r, c)
        PROVE  Goal(r)
    BY <1>0, <1>4, <1>8 DEF BeginUpdateColumn
  <1>9. ASSUME NEW r \in Requests, ListColumns(r)
        PROVE  Goal(r)
    BY <1>0, <1>9 DEF ListColumns
  <1>10. ASSUME NEW r \in Requests, NEW c \in Columns, NEW p \in Positions,
                BeginMoveColumn(r, c, p)
         PROVE  Goal(r)
    BY <1>0, <1>10 DEF BeginMoveColumn
  <1>11. ASSUME NEW r \in Requests, NEW t \in Tasks,
                NEW b \in Boards \cup {None}, NEW c \in Columns \cup {None},
                BeginCreateTask(r, t, b, c)
         PROVE  Goal(r)
    BY <1>0, <1>4, <1>11 DEF BeginCreateTask
  <1>12. ASSUME NEW r \in Requests, NEW t \in Tasks, NEW edit,
                ReadTask(r, t, edit)
         PROVE  Goal(r)
    BY <1>0, <1>4, <1>12 DEF ReadTask
  <1>13. ASSUME NEW r \in Requests, NEW t \in Tasks, BeginDeleteTask(r, t)
         PROVE  Goal(r)
    BY <1>0, <1>4, <1>13 DEF BeginDeleteTask
  <1>14. ASSUME NEW r \in Requests, TouchTask(r)
         PROVE  Goal(r)
    <2>1. /\ req[r].stage = "task"
          /\ req' = [req EXCEPT ![r].stage = "save-task",
                                ![r].row = Touched(req[r], clock')]
      BY <1>14 DEF TouchTask
    <2>2. req[r] \in EditRequests
      BY <2>1 DEF Types, RequestOK, TaskRequest
    <2>3. req'[r].stage = "save-task"
      BY <1>0, <2>1, <2>2 DEF EditRequests
    <2>4. r # o => req'[o] = req[o]
      BY <1>0, <2>1
    <2>5. QED
      BY <2>1, <2>3, <2>4
  <1> HIDE DEF rows, historyVars, Goal
  <1>15. ASSUME NEW b \in Boards, CreateBoard(b) PROVE req' = req
    BY <1>15 DEF CreateBoard
  <1>16. ASSUME NEW c \in Columns, DeleteColumn(c) PROVE req' = req
    BY <1>16 DEF DeleteColumn
  <1>17. CASE UNCHANGED vars
    BY <1>1, <1>17 DEF vars
  <1>18. ASSUME NEW r \in Requests,
                \/ UpdateBoardName(r) \/ DeleteBoard(r)
                \/ CreateColumn(r) \/ UpdateColumn(r) \/ MoveColumn(r)
                \/ CreateTask(r) \/ UpdateTask(r) \/ DeleteTask(r)
         PROVE  Goal(r)
    BY <1>5, <1>6, <1>7, <1>8, <1>9, <1>10, <1>11, <1>12, <1>13, <1>14, <1>18
       DEF UpdateBoardName, DeleteBoard, CreateColumn, UpdateColumn,
           MoveColumn, CreateTask, UpdateTask, DeleteTask,
           BeginUpdateTaskStatus, BeginMoveTask, BeginUpdateTaskDetails
  <1>19. QED
    BY <1>1, <1>15, <1>16, <1>17, <1>18 DEF Next, Goal

(* What a move reads is what it will need.                                 *)
LEMMA MoveBegun ==
    ASSUME Types, NEW r \in Requests, NEW c \in Columns, NEW p \in Positions,
           BeginMoveColumn(r, c, p)
    PROVE  MoveOK(req'[r], columns, raced)
  <1>1. /\ columns[c].live /\ p \in Int /\ DOMAIN req = Requests
        /\ req' = [req EXCEPT ![r] =
                 [stage |-> "move", id |-> c, old |-> columns[c].position,
                  new |-> p, board |-> columns[c].board]]
    BY WorkspaceBounds DEF BeginMoveColumn, Authorized, Positions, Types
  <1>2. columns[c].stamp > 0
    BY <1>1 DEF Types, RowTypes
  <1>3. QED
    BY <1>1, <1>2 DEF MoveOK

LEMMA MoveListed ==
    ASSUME Types, Order, NEW r \in Requests, ListColumns(r)
    PROVE  MoveOK(req'[r], columns, raced)
  <1> DEFINE q == req[r]
             list == Listed(q.board)
             others == [c \in DOMAIN list \ {q.id} |-> list[c]]
             moved == Shifted(others, q.old, q.new)
             positions == [c \in DOMAIN moved \cup {q.id} |->
                             IF c = q.id THEN q.new ELSE moved[c]]
             current == q.id \in DOMAIN list /\ list[q.id] = q.old
             next == [stage |-> "moving", id |-> q.id, new |-> q.new,
                      board |-> q.board, list |-> list,
                      current |-> current, positions |-> positions,
                      stamp |-> clock']
  <1>1. req[r].stage = "move" /\ req' = [req EXCEPT ![r] = next]
    BY Zenon DEF ListColumns
  <1>2. /\ q.id \in Columns /\ columns[q.id].stamp > 0 /\ q.new \in Int
        /\ q.board = columns[q.id].board
    BY <1>1 DEF Order, MoveOK
  <1>3. q.old \in Int /\ DOMAIN req = Requests
    BY <1>1 DEF Types, RequestOK, ColumnRequest
  <1>4. /\ DOMAIN list \subseteq Columns
        /\ \A c \in DOMAIN list :
             /\ list[c] \in Int /\ list[c] = columns[c].position
             /\ columns[c].stamp > 0 /\ columns[c].live
             /\ columns[c].board = q.board
    BY DEF Listed, Types, RowTypes, ColumnRows
  <1>5. q.board \in Boards \ raced =>
          \A c, d \in DOMAIN list : list[c] = list[d] => c = d
    BY <1>4 DEF Order, Apart
  <1> HIDE DEF list
  <1>6. /\ DOMAIN others = DOMAIN list \ {q.id}
        /\ \A c \in DOMAIN others : others[c] = list[c]
    OBVIOUS
  <1> HIDE DEF others
  <1>7. /\ DOMAIN moved = {c \in DOMAIN others :
                             Between(others[c], q.old, q.new)}
        /\ \A c \in DOMAIN moved : moved[c] = MovedTo(others[c], q.old, q.new)
    BY DEF Shifted, Between, MovedTo
  <1> HIDE DEF moved
  <1>8. /\ DOMAIN positions = DOMAIN moved \cup {q.id}
        /\ positions[q.id] = q.new
        /\ \A c \in DOMAIN moved : c # q.id => positions[c] = moved[c]
    OBVIOUS
  <1> HIDE DEF positions
  <1>9. /\ next.stage = "moving" /\ next.id = q.id /\ next.new = q.new
         /\ next.board = q.board /\ next.list = list
         /\ next.current = current /\ next.positions = positions
    OBVIOUS
  <1> HIDE DEF next
  <1>10. current => Planned(next)
    BY <1>6, <1>7, <1>8, <1>9 DEF Planned
  <1>11. MoveOK(next, columns, raced)
    <2>1. \A c \in DOMAIN list \cup DOMAIN positions :
            c \in Columns /\ columns[c].stamp > 0 /\ columns[c].board = q.board
      <3>1. DOMAIN positions \subseteq DOMAIN list \cup {q.id}
        BY <1>6, <1>7, <1>8
      <3>2. QED
        BY <1>2, <1>4, <3>1
    <2> HIDE DEF q, current
    <2>2. QED
      BY <1>2, <1>4, <1>5, <1>9, <1>10, <2>1 DEF MoveOK
  <1>12. QED
    BY <1>1, <1>3, <1>11

(* A move of columns that are still what it has read.                      *)
LEMMA FreshMove ==
    ASSUME Types, Order, NEW r \in Requests, CommitMoveColumn(r),
           Fresh(req[r])
    PROVE  LET q == req[r] IN
           /\ q.id \in DOMAIN q.list
           /\ \A c \in Columns : columns[c].live /\ columns[c].board = q.board
                => /\ c \in DOMAIN q.list /\ columns[c].position = q.list[c]
                   /\ columns'[c].position =
                        IF c = q.id THEN q.new
                        ELSE MovedTo(q.list[c], q.list[q.id], q.new)
  <1> DEFINE q == req[r]
  <1>0. \A c \in Columns : columns[c] \in ColumnRows
    BY DEF Types, RowTypes
  <1>1. /\ q.stage = "moving"
        /\ columns' = [c \in Columns |->
                         IF c \in DOMAIN q.positions
                         THEN [columns[c] EXCEPT !.position = q.positions[c],
                                                 !.stamp = q.stamp]
                         ELSE columns[c]]
    BY DEF CommitMoveColumn
  <1>2. MoveOK(q, columns, raced) /\ Planned(q)
    BY <1>1 DEF Order, MoveOK, Fresh
  <1>3. \A c \in Columns : columns[c].live /\ columns[c].board = q.board
           => c \in DOMAIN q.list /\ columns[c].position = q.list[c]
    BY DEF Fresh, Listed
  <1> HIDE DEF q
  <1>4. ASSUME NEW c \in Columns, columns[c].live, columns[c].board = q.board
        PROVE  columns'[c].position =
                 IF c = q.id THEN q.new
                 ELSE MovedTo(q.list[c], q.list[q.id], q.new)
    <2>1. /\ c \in DOMAIN q.positions =>
               columns'[c].position = q.positions[c]
          /\ c \notin DOMAIN q.positions =>
               columns'[c].position = columns[c].position
      BY <1>0, <1>1 DEF ColumnRows
    <2>2. CASE c = q.id
      BY <1>2, <2>1, <2>2 DEF Planned
    <2>3. CASE c # q.id
      <3>1. c \in DOMAIN q.list /\ columns[c].position = q.list[c]
        BY <1>3, <1>4
      <3>2. CASE Between(q.list[c], q.list[q.id], q.new)
        BY <1>2, <2>1, <2>3, <3>1, <3>2 DEF Planned
      <3>3. CASE ~Between(q.list[c], q.list[q.id], q.new)
        BY <1>2, <2>1, <2>3, <3>1, <3>3 DEF Planned, MovedTo
      <3>4. QED
        BY <3>2, <3>3
    <2>4. QED
      BY <2>2, <2>3
  <1>5. QED
    BY <1>2, <1>3, <1>4 DEF Planned, q

(* What a move's write leaves alone.                                       *)
LEMMA MoveWrites ==
    ASSUME Types, Order, NEW r \in Requests, CommitMoveColumn(r)
    PROVE  LET q == req[r] IN
           /\ raced' = IF Fresh(q) THEN raced ELSE raced \cup {q.board}
           /\ \A c \in Columns :
                /\ columns'[c].live = columns[c].live
                /\ columns'[c].board = columns[c].board
                /\ columns[c].stamp > 0 => columns'[c].stamp > 0
                /\ columns[c].board # q.board =>
                     columns'[c].position = columns[c].position
  <1> DEFINE q == req[r]
  <1>0. \A c \in Columns : columns[c] \in ColumnRows
    BY DEF Types, RowTypes
  <1>1. /\ q.stage = "moving"
        /\ columns' = [c \in Columns |->
                         IF c \in DOMAIN q.positions
                         THEN [columns[c] EXCEPT !.position = q.positions[c],
                                                 !.stamp = q.stamp]
                         ELSE columns[c]]
        /\ raced' = IF Fresh(q) THEN raced ELSE raced \cup {q.board}
    BY DEF CommitMoveColumn
  <1>2. q.stamp > 0
    BY <1>1 DEF Types, RequestOK, ColumnRequest, Instant
  <1>3. \A c \in DOMAIN q.positions : columns[c].board = q.board
    BY <1>1 DEF Order, MoveOK
  <1> HIDE DEF q
  <1>4. ASSUME NEW c \in Columns
        PROVE  /\ columns'[c].live = columns[c].live
               /\ columns'[c].board = columns[c].board
               /\ columns[c].stamp > 0 => columns'[c].stamp > 0
               /\ columns[c].board # q.board =>
                    columns'[c].position = columns[c].position
    BY <1>0, <1>1, <1>2, <1>3 DEF ColumnRows
  <1>5. QED
    BY <1>1, <1>4 DEF q

LEMMA MoveKeepsApart ==
    ASSUME Types, Order, NEW r \in Requests, CommitMoveColumn(r)
    PROVE  Apart(columns', raced') /\ ColumnsStay
  <1> DEFINE q == req[r]
  <1>1. /\ raced' = IF Fresh(q) THEN raced ELSE raced \cup {q.board}
        /\ \A c \in Columns :
                /\ columns'[c].live = columns[c].live
                /\ columns'[c].board = columns[c].board
                /\ columns[c].stamp > 0 => columns'[c].stamp > 0
                /\ columns[c].board # q.board =>
                     columns'[c].position = columns[c].position
    BY MoveWrites
  <1>2. ColumnsStay
    BY <1>1 DEF ColumnsStay
  <1>3. ASSUME NEW c \in Columns, NEW d \in Columns, c # d,
               columns'[c].live, columns'[d].live,
               columns'[c].board = columns'[d].board,
               columns'[c].board \in Boards \ raced'
        PROVE  columns'[c].position # columns'[d].position
    <2>1. /\ columns[c].live /\ columns[d].live
          /\ columns[c].board = columns[d].board
          /\ columns[c].board \in Boards \ raced
      BY <1>1, <1>3
    <2>2. CASE columns[c].board # q.board
      <3>1. /\ columns'[c].position = columns[c].position
            /\ columns'[d].position = columns[d].position
        BY <1>1, <2>1, <2>2
      <3>2. Apart(columns, raced)
        BY DEF Order
      <3>3. columns[c].position # columns[d].position
        BY <1>3, <2>1, <3>2 DEF Apart
      <3>4. QED
        BY <3>1, <3>3
    <2>3. CASE columns[c].board = q.board
      <3>1. Fresh(q)
        BY <1>1, <1>3, <2>3
      <3> DEFINE place(x) == IF x = q.id THEN q.new
                             ELSE MovedTo(q.list[x], q.list[q.id], q.new)
      <3>2. /\ q.id \in DOMAIN q.list
            /\ \A x \in Columns : columns[x].live /\ columns[x].board = q.board
                 => x \in DOMAIN q.list /\ columns'[x].position = place(x)
        BY <3>1, FreshMove
      <3> HIDE DEF place
      <3>3. /\ q.id \in DOMAIN q.list
            /\ c \in DOMAIN q.list /\ d \in DOMAIN q.list
            /\ columns'[c].position =
                 IF c = q.id THEN q.new
                 ELSE MovedTo(q.list[c], q.list[q.id], q.new)
            /\ columns'[d].position =
                 IF d = q.id THEN q.new
                 ELSE MovedTo(q.list[d], q.list[q.id], q.new)
        BY <2>1, <2>3, <3>2 DEF place
      <3>4. MoveOK(q, columns, raced) /\ q.stage = "moving"
        BY DEF Order, CommitMoveColumn
      <3> HIDE DEF q
      <3>5. /\ \A x \in DOMAIN q.list : q.list[x] \in Int
            /\ \A x, y \in DOMAIN q.list : q.list[x] = q.list[y] => x = y
            /\ q.new \in Int
        BY <2>1, <2>3, <3>4 DEF MoveOK
      <3>6. QED
        <4> DEFINE x == q.list[c]
                   y == q.list[d]
                   old == q.list[q.id]
        <4>1. /\ x \in Int /\ y \in Int /\ old \in Int /\ x # y
              /\ c # q.id => x # old
              /\ d # q.id => y # old
          BY <1>3, <3>3, <3>5
        <4> HIDE DEF x, y, old
        <4>2. /\ c # q.id => MovedTo(x, old, q.new) # q.new
              /\ d # q.id => MovedTo(y, old, q.new) # q.new
              /\ c # q.id /\ d # q.id =>
                   MovedTo(x, old, q.new) # MovedTo(y, old, q.new)
          BY <3>5, <4>1, RoomMade
        <4>3. QED
          BY <1>3, <3>3, <4>2 DEF x, y, old
    <2>4. QED
      BY <2>2, <2>3
  <1>4. QED
    BY <1>2, <1>3 DEF Apart

LEMMA WritesKeepApart ==
    ASSUME Types, Order, NEW r \in Requests,
           CommitCreateColumn(r) \/ CommitUpdateColumn(r)
    PROVE  Apart(columns', raced') /\ ColumnsStay
  <1> DEFINE q == req[r]
  <1>0. /\ columns \in [Columns -> ColumnRows]
        /\ \A c \in Columns : columns[c] \in ColumnRows
        /\ RequestOK(req[r], boards, columns, tasks, clock)
        /\ Apart(columns, raced)
    BY DEF Types, RowTypes, Order
  <1>1. CASE CommitCreateColumn(r)
    <2>1. /\ q.id \in Columns /\ q.row \in ColumnRows /\ q.row.stamp > 0
          /\ columns[q.id].stamp = 0 /\ q.row.board \in Boards
          /\ columns' = [columns EXCEPT ![q.id] = q.row]
      BY <1>0, <1>1 DEF CommitCreateColumn, RequestOK, ColumnRequest
    <2>2. /\ raced \subseteq raced'
          /\ q.row.board \notin raced' =>
               \A c \in Columns : columns[c].live
                 /\ columns[c].board = q.row.board
                 => columns[c].position # q.row.position
      BY <1>1 DEF CommitCreateColumn, Listed
    <2>3. /\ columns'[q.id] = q.row
          /\ \A c \in Columns \ {q.id} : columns'[c] = columns[c]
      BY <1>0, <2>1
    <2> HIDE DEF q
    <2>4. ColumnsStay
      BY <2>1, <2>2, <2>3 DEF ColumnsStay
    <2>5. Apart(columns', raced')
      BY <1>0, <2>1, <2>2, <2>3 DEF Apart
    <2>6. QED
      BY <2>4, <2>5
  <1>2. CASE CommitUpdateColumn(r)
    <2>1. /\ q.id \in Columns /\ q.stamp > 0
          /\ columns' = [columns EXCEPT ![q.id].position = q.position,
                                        ![q.id].stamp = q.stamp]
      BY <1>0, <1>2 DEF CommitUpdateColumn, RequestOK, ColumnRequest, Instant
    <2>2. /\ raced \subseteq raced'
          /\ columns[q.id].board \notin raced' =>
               columns[q.id].position = q.position
      BY <1>2 DEF CommitUpdateColumn
    <2>3. /\ columns'[q.id].live = columns[q.id].live
          /\ columns'[q.id].board = columns[q.id].board
          /\ columns'[q.id].position = q.position
          /\ columns'[q.id].stamp > 0
          /\ \A c \in Columns \ {q.id} : columns'[c] = columns[c]
      BY <1>0, <2>1 DEF ColumnRows
    <2> HIDE DEF q
    <2>4. ColumnsStay
      BY <2>1, <2>2, <2>3 DEF ColumnsStay
    <2>5. Apart(columns', raced')
      BY <1>0, <2>1, <2>2, <2>3 DEF Apart
    <2>6. QED
      BY <2>4, <2>5
  <1>3. QED
    BY <1>1, <1>2

LEMMA OrderKept ==
    ASSUME Types, Order, [Next]_vars
    PROVE  Order'
  <1>1. Apart(columns', raced') /\ ColumnsStay
    <2>1. Apart(columns, raced)
      BY DEF Order
    <2>2. ASSUME \A r \in Requests : /\ ~CommitCreateColumn(r)
                                     /\ ~CommitUpdateColumn(r)
                                     /\ ~CommitMoveColumn(r)
          PROVE  Apart(columns', raced') /\ ColumnsStay
      BY <2>1, <2>2, OthersShrink, ShrinkKeeps
    <2>3. QED
      BY <2>2, WritesKeepApart, MoveKeepsApart
  <1>2. ASSUME NEW o \in Requests
        PROVE  MoveOK(req'[o], columns', raced')
    <2>1. MoveOK(req[o], columns, raced)
      BY DEF Order
    <2>2. CASE req'[o] = req[o]
      BY <1>1, <2>1, <2>2, MoveOKStays
    <2>3. CASE req'[o].stage \notin {"move", "moving"}
      BY <2>3 DEF MoveOK
    <2>4. ASSUME NEW c \in Columns, NEW p \in Positions,
                 BeginMoveColumn(o, c, p)
          PROVE  MoveOK(req'[o], columns', raced')
      BY <1>1, <2>4, MoveBegun, MoveOKStays
    <2>5. CASE ListColumns(o)
      BY <1>1, <2>5, MoveListed, MoveOKStays
    <2>6. QED
      BY <2>2, <2>3, <2>4, <2>5, MovesGoOn
  <1>3. QED
    BY <1>1, <1>2 DEF Order

LEMMA InitOrder == Init => Order
  <1> SUFFICES ASSUME Init PROVE Order
    OBVIOUS
  <1>1. \A r \in Requests : MoveOK(req[r], columns, raced)
    BY DEF Init, Idle, MoveOK
  <1>2. Apart(columns, raced)
    <2>1. CASE Nothing
      BY <2>1, NoRows DEF Nothing, Apart
    <2>2. ASSUME NEW b \in Boards, Bootstrapped(b) PROVE Apart(columns, raced)
      <3>1. \A c \in Columns :
              columns[c].live => columns[c].position = c - 1 /\ c \in Int
        BY <2>2, NoRows, RowsAssumption DEF Bootstrapped, NewColumn
      <3>2. QED
        BY <3>1 DEF Apart
    <2>3. QED
      BY <2>1, <2>2 DEF Init
  <1>3. QED
    BY <1>1, <1>2 DEF Order

LEMMA OrderInvariant == Spec => []Order
  BY InitOrder, OrderKept, TypeCorrect, PTL DEF Spec

(* The live columns of a board stand at different positions, whatever is   *)
(* moved, renamed or deleted meanwhile, unless a client asked for a taken  *)
(* position or a request wrote positions read before they changed: a move  *)
(* of columns that are what it read shifts those between by one.           *)
THEOREM ColumnsStandApart == Spec => []ColumnsInOrder
  <1>1. Order => ColumnsInOrder
    BY ApartIsInOrder DEF Order
  <1>2. QED
    BY <1>1, OrderInvariant, PTL

MoveAnswered ==
    \A r \in Requests, b \in Boards :
        LET q == req[r]
            before == Listed(b)
            after == Listed(b)'
        IN (/\ q.stage = "moving" /\ q.board = b /\ req'[r] = Idle
            /\ b \notin raced' /\ columns[q.id].live) =>
             /\ after[q.id] = q.new
             /\ \A c, d \in DOMAIN before \ {q.id} :
                   before[c] < before[d] <=> after[c] < after[d]

LEMMA MovesInOrder ==
    ASSUME Types, Order, [Next]_vars
    PROVE  MoveAnswered
  <1> SUFFICES ASSUME NEW r \in Requests, NEW b \in Boards,
                      req[r].stage = "moving", req[r].board = b,
                      req'[r] = Idle, b \notin raced',
                      columns[req[r].id].live
               PROVE  /\ Listed(b)'[req[r].id] = req[r].new
                      /\ \A c, d \in DOMAIN Listed(b) \ {req[r].id} :
                            Listed(b)[c] < Listed(b)[d] <=>
                            Listed(b)'[c] < Listed(b)'[d]
    BY DEF MoveAnswered
  <1> DEFINE q == req[r]
             place(x) == IF x = q.id THEN q.new
                         ELSE MovedTo(q.list[x], q.list[q.id], q.new)
  <1>1. CommitMoveColumn(r)
    <2>1. req'[r] # req[r] /\ req'[r].stage = "idle"
      BY DEF Idle
    <2>2. DOMAIN req = Requests
      BY DEF Types
    <2>3. ~ListColumns(r)
      BY DEF ListColumns
    <2>4. \A c \in Columns, p \in Positions : ~BeginMoveColumn(r, c, p)
      BY DEF BeginMoveColumn, Begin, Idle
    <2>5. QED
      BY <2>1, <2>3, <2>4, MovesGoOn
  <1>2. /\ Fresh(q)
        /\ \A c \in Columns : /\ columns'[c].live = columns[c].live
                              /\ columns'[c].board = columns[c].board
    BY <1>1, MoveWrites
  <1>3. /\ q.id \in Columns /\ q.id \in DOMAIN q.list /\ q.new \in Int
        /\ columns[q.id].board = b
        /\ \A c \in DOMAIN q.list : q.list[c] \in Int
    BY <1>2 DEF Order, MoveOK, Fresh, Planned
  <1>4. \A c \in Columns : columns[c].live /\ columns[c].board = b =>
           /\ c \in DOMAIN q.list /\ columns[c].position = q.list[c]
           /\ columns'[c].position = place(c)
    BY <1>1, <1>2, FreshMove
  <1>5. Apart(columns, raced) /\ b \notin raced
    BY <1>1, MoveWrites DEF Order
  <1>6. columns[q.id].live
    OBVIOUS
  <1> HIDE DEF q, place
  <1>7. /\ DOMAIN Listed(b) = {c \in Columns : columns[c].live
                                                 /\ columns[c].board = b}
        /\ \A c \in DOMAIN Listed(b) :
             /\ Listed(b)[c] = q.list[c] /\ c \in DOMAIN q.list
             /\ Listed(b)'[c] = place(c)
    BY <1>2, <1>4 DEF Listed
  <1>8. q.id \in DOMAIN Listed(b) /\ Listed(b)'[q.id] = q.new
    BY <1>3, <1>6, <1>7 DEF place
  <1>9. ASSUME NEW c \in DOMAIN Listed(b) \ {q.id},
               NEW d \in DOMAIN Listed(b) \ {q.id}
        PROVE  Listed(b)[c] < Listed(b)[d] <=>
               Listed(b)'[c] < Listed(b)'[d]
    <2> DEFINE x == q.list[c]
               y == q.list[d]
               old == q.list[q.id]
    <2>1. x \in Int /\ y \in Int /\ old \in Int /\ x # old /\ y # old
      <3>1. \A e \in DOMAIN Listed(b) \ {q.id} :
              columns[e].position # columns[q.id].position
        BY <1>3, <1>5, <1>6, <1>7 DEF Apart
      <3>2. QED
        BY <1>3, <1>4, <1>6, <1>7, <1>8, <3>1
    <2> HIDE DEF x, y, old
    <2>2. x < y <=> MovedTo(x, old, q.new) < MovedTo(y, old, q.new)
      BY <1>3, <2>1, RoomMade
    <2>3. /\ Listed(b)[c] = x /\ Listed(b)[d] = y
          /\ Listed(b)'[c] = MovedTo(x, old, q.new)
          /\ Listed(b)'[d] = MovedTo(y, old, q.new)
      BY <1>7, <1>9 DEF place, x, y, old
    <2>4. QED
      BY <2>2, <2>3
  <1>10. QED
    BY <1>8, <1>9 DEF q

(* A move that is not recorded as raced puts its column where the client   *)
(* wants it and keeps the others in their order: only CommitMoveColumn     *)
(* ends a move, and the columns it writes are those it read.               *)
THEOREM MovesPutInPlace == Spec => MovesKeepOrder
  <1>1. Types /\ Order /\ [Next]_vars => [MoveAnswered]_vars
    BY MovesInOrder
  <1>2. QED
    BY <1>1, TypeCorrect, OrderInvariant, PTL
       DEF Spec, MovesKeepOrder, MoveAnswered

=============================================================================

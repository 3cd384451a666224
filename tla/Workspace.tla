----------------------------- MODULE Workspace -----------------------------
(***************************************************************************)
(* Boards, their columns and their tasks, as the handlers change them.     *)
(*                                                                         *)
(* Every handler reads the rows it needs, checks them and writes back what *)
(* it computed, in two or three steps; other requests run in between.      *)
(* Rows are deleted softly, so no foreign key ever acts.  Boards and tasks *)
(* are written only over an older stamp, columns always.  The same         *)
(* services run over SQLite in the sidecar and over Postgres in the cloud; *)
(* their repositories differ in how a board is deleted.                    *)
(*                                                                         *)
(* Names, colours, titles and dates are left out: a rename is the rest of  *)
(* what it writes.  All requests are the owner's; another user's request   *)
(* is answered "not found" by the same checks.                             *)
(***************************************************************************)
EXTENDS Integers, Functions

CONSTANTS
    Requests,      \* requests that run at a time
    Boards, Tasks,
    Columns,       \* columns, numbered
    Defaults,      \* how many of them a board starts with
    Stores,        \* repositories: a subset of {"sqlite", "postgres"}
    MaxPosition,   \* bound: positions a client asks for
    MaxOps,        \* bound: requests begun
    None           \* no board, no column

ASSUME RowsAssumption ==
    /\ None \notin Boards \cup Columns
    /\ Columns \subseteq Nat \ {0}
    /\ Defaults \in Nat /\ 1..Defaults \subseteq Columns
    /\ Stores \subseteq {"sqlite", "postgres"}
ASSUME WorkspaceBounds == MaxPosition \in Nat /\ MaxOps \in Nat

VARIABLES
    store,         \* where the rows are
    boards, columns, tasks,
    req,           \* what each request holds
    clock, ops,
    raced,         \* history: boards with columns written from a stale list,
                   \* or created at a position that was taken
    late,          \* history: rows written while their board was deleted
    contested,     \* history: tasks of which two edits overlapped
    intended,      \* history: a task as the answered requests leave it
    emptied        \* history: boards whose rows DeleteBoard deleted

rows == <<boards, columns, tasks>>
historyVars == <<raced, late, contested, intended, emptied>>
vars == <<store, rows, req, clock, ops, historyVars>>

Statuses == {"todo", "done"}
Positions == 0..MaxPosition

Idle == [stage |-> "idle"]
NoBoardRow == [stamp |-> 0, live |-> FALSE]
NoColumnRow == [board |-> None, position |-> 0, stamp |-> 0, live |-> FALSE]
NoTaskRow == [board |-> None, column |-> None, status |-> "todo",
              stamp |-> 0, live |-> FALSE]

(* NewBoard, NewColumn, NewTask                                            *)
NewBoard(now) == [stamp |-> now, live |-> TRUE]

NewColumn(b, position, now) ==
    [board |-> b, position |-> position, stamp |-> now, live |-> TRUE]

NewTask(b, c, now) ==
    [board |-> b, column |-> c, status |-> "todo", stamp |-> now,
     live |-> TRUE]

Nothing ==
    /\ boards = [b \in Boards |-> NoBoardRow]
    /\ columns = [c \in Columns |-> NoColumnRow]
    /\ tasks = [t \in Tasks |-> NoTaskRow]

(* A board with the columns the screen gives a new one, and with tasks in  *)
(* the first of them.                                                      *)
Bootstrapped(b) ==
    /\ boards = [x \in Boards |->
                   IF x = b THEN NewBoard(1) ELSE NoBoardRow]
    /\ columns = [c \in Columns |->
                    IF c <= Defaults THEN NewColumn(b, c - 1, 1)
                    ELSE NoColumnRow]
    /\ tasks = [t \in Tasks |->
                  NewTask(b, IF Defaults > 0 THEN 1 ELSE None, 1)]

Init ==
    /\ store \in Stores
    /\ Nothing \/ \E b \in Boards : Bootstrapped(b)
    /\ req = [r \in Requests |-> Idle]
    /\ clock = 1 /\ ops = 0
    /\ raced = {} /\ late = {} /\ contested = {} /\ emptied = {}
    /\ intended = tasks

-----------------------------------------------------------------------------
(* Rows                                                                    *)

Tick == clock' = clock + 1

(* Mutant of Updates: equal stamps pass, and so does a row that is gone.   *)
UpdatesGone(row, stamp) == row.stamp <= stamp

(* WHERE deleted_at IS NULL AND updated_at < ?                             *)
Updates(row, stamp) == row.live /\ row.stamp < stamp

(* GetByBoardID: the live columns of a board, with their positions.        *)
Listed(b) ==
    [c \in {d \in Columns : columns[d].live /\ columns[d].board = b} |->
        columns[c].position]

(* getAuthorizedBoard                                                      *)
AuthorizedBoard(b) == boards[b].live

(* validateTaskColumn: the column is live, of the task's board, and that   *)
(* board is live.                                                          *)
ValidColumn(b, c) ==
    c # None => /\ b # None
                /\ columns[c].live /\ columns[c].board = b
                /\ AuthorizedBoard(b)

(* getAuthorizedColumn: the column and its board are live.                 *)
Authorized(c) == columns[c].live /\ AuthorizedBoard(columns[c].board)

Begin(r) == req[r] = Idle /\ ops < MaxOps /\ ops' = ops + 1
Finish(r) == req' = [req EXCEPT ![r] = Idle]

-----------------------------------------------------------------------------
(* Boards                                                                  *)

CreateBoard(b) ==
    /\ boards[b] = NoBoardRow
    /\ Tick
    /\ boards' = [boards EXCEPT ![b] = NewBoard(clock')]
    /\ UNCHANGED <<store, columns, tasks, req, ops, historyVars>>

(* UpdateBoardName                                                         *)
BeginUpdateBoard(r, b) ==
    /\ Begin(r) /\ AuthorizedBoard(b)
    /\ Tick
    /\ req' = [req EXCEPT ![r] =
                 [stage |-> "board", id |-> b, stamp |-> clock']]
    /\ UNCHANGED <<store, rows, historyVars>>

CommitUpdateBoard(r) ==
    /\ req[r].stage = "board"
    /\ LET b == req[r].id IN
         boards' = [boards EXCEPT ![b].stamp =
                      IF Updates(boards[b], req[r].stamp) THEN req[r].stamp
                      ELSE @]
    /\ Finish(r)
    /\ UNCHANGED <<store, columns, tasks, clock, ops, historyVars>>

(* DeleteBoard                                                             *)
BeginDeleteBoard(r, b) ==
    /\ Begin(r) /\ AuthorizedBoard(b)
    /\ Tick
    /\ req' = [req EXCEPT ![r] =
                 [stage |-> "delete-board", id |-> b, stamp |-> clock']]
    /\ UNCHANGED <<store, rows, historyVars>>

(* Mutant of Removes: in Postgres too, the rows go whatever the board does.*)
RemovesAlways(b, stamp) == TRUE

(* Whether the rows of the board go with it.  SQLite runs three statements *)
(* in a transaction; Postgres deletes the rows of the board it deleted.    *)
Removes(b, stamp) == store = "postgres" => Updates(boards[b], stamp)

Gone(table, stamp) ==
    [x \in DOMAIN table |->
        IF Updates(table[x], stamp)
        THEN [table[x] EXCEPT !.live = FALSE, !.stamp = stamp] ELSE table[x]]

Cascade(b, stamp) ==
    /\ columns' = [c \in Columns |->
                     IF columns[c].board = b THEN Gone(columns, stamp)[c]
                     ELSE columns[c]]
    /\ tasks' = [t \in Tasks |->
                   IF tasks[t].board = b THEN Gone(tasks, stamp)[t]
                   ELSE tasks[t]]

CommitDeleteBoard(r) ==
    /\ req[r].stage = "delete-board"
    /\ LET b == req[r].id
           s == req[r].stamp
           Spared(table) == {x \in DOMAIN table :
                               /\ table[x].board = b
                               /\ table[x].live /\ s <= table[x].stamp}
       IN /\ boards' = [boards EXCEPT ![b] = Gone(boards, s)[b]]
          /\ IF Removes(b, s)
               THEN /\ Cascade(b, s)
                    /\ emptied' = emptied \cup {b}
                    /\ late' = late \cup Spared(columns) \cup Spared(tasks)
                    /\ intended' = [t \in Tasks |->
                         IF tasks[t].board = b
                         THEN [intended[t] EXCEPT !.live = FALSE]
                         ELSE intended[t]]
                    /\ contested' = contested \cup Spared(tasks)
               ELSE UNCHANGED <<columns, tasks, emptied, late, intended,
                                contested>>
    /\ Finish(r)
    /\ UNCHANGED <<store, clock, ops, raced>>

-----------------------------------------------------------------------------
(* Columns                                                                 *)

(* CreateColumn: the client says at which position.                        *)
BeginCreateColumn(r, c, b, p) ==
    /\ Begin(r) /\ AuthorizedBoard(b)
    /\ columns[c] = NoColumnRow
    /\ \A q \in Requests : req[q].stage = "create-column" => req[q].id # c
    /\ Tick
    /\ req' = [req EXCEPT ![r] =
                 [stage |-> "create-column", id |-> c,
                  row |-> NewColumn(b, p, clock')]]
    /\ UNCHANGED <<store, rows, historyVars>>

CommitCreateColumn(r) ==
    /\ req[r].stage = "create-column"
    /\ LET row == req[r].row
           list == Listed(row.board)
       IN /\ columns' = [columns EXCEPT ![req[r].id] = row]
          /\ raced' = IF \E c \in DOMAIN list : list[c] = row.position
                      THEN raced \cup {row.board} ELSE raced
          /\ late' = IF boards[row.board].live THEN late
                     ELSE late \cup {req[r].id}
    /\ Finish(r)
    /\ UNCHANGED <<store, boards, tasks, clock, ops, contested, intended,
                   emptied>>

(* UpdateColumn and UpdateColumnName: the whole row is written back, the   *)
(* position as it was read.                                                *)
BeginUpdateColumn(r, c) ==
    /\ Begin(r) /\ Authorized(c)
    /\ Tick
    /\ req' = [req EXCEPT ![r] =
                 [stage |-> "column", id |-> c,
                  position |-> columns[c].position, stamp |-> clock']]
    /\ UNCHANGED <<store, rows, historyVars>>

CommitUpdateColumn(r) ==
    /\ req[r].stage = "column"
    /\ LET q == req[r]
           b == columns[q.id].board
       IN /\ columns' = [columns EXCEPT ![q.id].position = q.position,
                                        ![q.id].stamp = q.stamp]
          /\ raced' = IF columns[q.id].position # q.position
                      THEN raced \cup {b} ELSE raced
    /\ Finish(r)
    /\ UNCHANGED <<store, boards, tasks, clock, ops, late, contested, intended,
                   emptied>>

(* MoveColumn reads the column ...                                         *)
BeginMoveColumn(r, c, p) ==
    /\ Begin(r) /\ Authorized(c)
    /\ p # columns[c].position
    /\ req' = [req EXCEPT ![r] =
                 [stage |-> "move", id |-> c, old |-> columns[c].position,
                  new |-> p, board |-> columns[c].board]]
    /\ UNCHANGED <<store, rows, clock, historyVars>>

(* Mutant of Shifted: the column at the new position stays where it is.    *)
ShiftedShort(list, old, new) ==
    [c \in {d \in DOMAIN list : \/ old < list[d] /\ list[d] < new
                                \/ new < list[d] /\ list[d] < old} |->
        IF old < new THEN list[c] - 1 ELSE list[c] + 1]

(* Mutant of Shifted: they make room on the wrong side.                    *)
ShiftedAway(list, old, new) ==
    [c \in {d \in DOMAIN list : \/ old < list[d] /\ list[d] <= new
                                \/ new <= list[d] /\ list[d] < old} |->
        list[c] + 1]

(* shouldShiftColumnRight, shouldShiftColumnLeft: the columns between make *)
(* room.                                                                   *)
Shifted(list, old, new) ==
    [c \in {d \in DOMAIN list : \/ old < list[d] /\ list[d] <= new
                                \/ new <= list[d] /\ list[d] < old} |->
        IF old < new THEN list[c] - 1 ELSE list[c] + 1]

(* ... then its board's columns, and computes the new positions.           *)
ListColumns(r) ==
    /\ req[r].stage = "move"
    /\ Tick
    /\ LET q == req[r]
           list == Listed(q.board)
           others == [c \in DOMAIN list \ {q.id} |-> list[c]]
           moved == Shifted(others, q.old, q.new)
       IN req' = [req EXCEPT ![r] =
            [stage |-> "moving", id |-> q.id, new |-> q.new,
             board |-> q.board, list |-> list,
             current |-> q.id \in DOMAIN list /\ list[q.id] = q.old,
             positions |-> [c \in DOMAIN moved \cup {q.id} |->
                              IF c = q.id THEN q.new ELSE moved[c]],
             stamp |-> clock']]
    /\ UNCHANGED <<store, rows, ops, historyVars>>

(* Whether the columns are still what a move has read.                     *)
Fresh(q) ==
    /\ q.current
    /\ \A c \in DOMAIN Listed(q.board) :
          c \in DOMAIN q.list /\ columns[c].position = q.list[c]

(* UpdatePositions, in one transaction; a deleted column is written, too.  *)
CommitMoveColumn(r) ==
    /\ req[r].stage = "moving"
    /\ LET q == req[r] IN
        /\ columns' = [c \in Columns |->
                         IF c \in DOMAIN q.positions
                         THEN [columns[c] EXCEPT !.position = q.positions[c],
                                                 !.stamp = q.stamp]
                         ELSE columns[c]]
        /\ raced' = IF Fresh(q) THEN raced ELSE raced \cup {q.board}
    /\ Finish(r)
    /\ UNCHANGED <<store, boards, tasks, clock, ops, late, contested, intended,
                   emptied>>

(* DeleteColumn: its tasks keep pointing at it.                            *)
DeleteColumn(c) ==
    /\ ops < MaxOps /\ ops' = ops + 1
    /\ Authorized(c)
    /\ Tick
    /\ columns' = [columns EXCEPT ![c].live = FALSE, ![c].stamp = clock']
    /\ UNCHANGED <<store, boards, tasks, req, historyVars>>

-----------------------------------------------------------------------------
(* Tasks                                                                   *)

(* CreateTask: the board and the column are checked, the task is inserted. *)
BeginCreateTask(r, t, b, c) ==
    /\ Begin(r)
    /\ tasks[t] = NoTaskRow
    /\ \A q \in Requests : req[q].stage = "create-task" => req[q].id # t
    /\ b # None => AuthorizedBoard(b)
    /\ ValidColumn(b, c)
    /\ Tick
    /\ req' = [req EXCEPT ![r] =
                 [stage |-> "create-task", id |-> t,
                  row |-> NewTask(b, c, clock')]]
    /\ UNCHANGED <<store, rows, historyVars>>

CommitCreateTask(r) ==
    /\ req[r].stage = "create-task"
    /\ LET t == req[r].id
           row == req[r].row
       IN /\ tasks' = [tasks EXCEPT ![t] = row]
          /\ intended' = [intended EXCEPT ![t] = row]
          /\ late' = IF row.board # None /\ ~boards[row.board].live
                     THEN late \cup {t} ELSE late
    /\ Finish(r)
    /\ UNCHANGED <<store, boards, columns, clock, ops, raced, contested,
                   emptied>>

(* The edits of a task read its row, which need not be on a live board.    *)
ReadTask(r, t, edit) ==
    /\ Begin(r) /\ tasks[t].live
    /\ req' = [req EXCEPT ![r] =
                 [stage |-> "task", id |-> t, row |-> tasks[t],
                  edit |-> edit, seen |-> tasks[t].stamp]]
    /\ UNCHANGED <<store, rows, clock, historyVars>>

(* UpdateTaskStatus                                                        *)
BeginUpdateTaskStatus(r, t, status) ==
    ReadTask(r, t, [field |-> "status", value |-> status])

(* UpdateTask and MoveTaskToColumn                                         *)
BeginMoveTask(r, t, c) == ReadTask(r, t, [field |-> "column", value |-> c])

(* UpdateTaskDetails, UpdateTaskPriority: neither of the fields modelled.  *)
BeginUpdateTaskDetails(r, t) ==
    ReadTask(r, t, [field |-> "none", value |-> None])

Edited(row, edit) ==
    CASE edit.field = "status" -> [row EXCEPT !.status = edit.value]
      [] edit.field = "column" -> [row EXCEPT !.column = edit.value]
      [] OTHER -> row

(* Mutant of Touched: the task keeps the stamp it was read with.           *)
TouchedNot(q, now) == Edited(q.row, q.edit)

Touched(q, now) == [Edited(q.row, q.edit) EXCEPT !.stamp = now]

(* The column is checked, the row changed and stamped.                     *)
TouchTask(r) ==
    /\ req[r].stage = "task"
    /\ req[r].edit.field = "column" =>
         ValidColumn(req[r].row.board, req[r].edit.value)
    /\ Tick
    /\ req' = [req EXCEPT ![r].stage = "save-task",
                          ![r].row = Touched(req[r], clock')]
    /\ UNCHANGED <<store, rows, ops, historyVars>>

(* The check fails: the column, or the board, is gone.                     *)
RefuseTask(r) ==
    /\ req[r].stage = "task" /\ req[r].edit.field = "column"
    /\ ~ValidColumn(req[r].row.board, req[r].edit.value)
    /\ Finish(r)
    /\ UNCHANGED <<store, rows, clock, ops, historyVars>>

(* The whole row is written, if it is older; the answer is 204 either way. *)
CommitTask(r) ==
    /\ req[r].stage = "save-task"
    /\ LET q == req[r] IN
        /\ tasks' = IF Updates(tasks[q.id], q.row.stamp)
                    THEN [tasks EXCEPT ![q.id] = q.row] ELSE tasks
        /\ intended' = [intended EXCEPT ![q.id] = Edited(@, q.edit)]
        /\ contested' = IF tasks[q.id].stamp # q.seen
                        THEN contested \cup {q.id} ELSE contested
    /\ Finish(r)
    /\ UNCHANGED <<store, boards, columns, clock, ops, raced, late, emptied>>

(* DeleteTask                                                              *)
BeginDeleteTask(r, t) ==
    /\ Begin(r) /\ tasks[t].live
    /\ Tick
    /\ req' = [req EXCEPT ![r] =
                 [stage |-> "delete-task", id |-> t, stamp |-> clock',
                  seen |-> tasks[t].stamp]]
    /\ UNCHANGED <<store, rows, historyVars>>

CommitDeleteTask(r) ==
    /\ req[r].stage = "delete-task"
    /\ LET q == req[r] IN
        /\ tasks' = [tasks EXCEPT ![q.id] = Gone(tasks, q.stamp)[q.id]]
        /\ intended' = [intended EXCEPT ![q.id].live = FALSE]
        /\ contested' = IF tasks[q.id].stamp # q.seen
                        THEN contested \cup {q.id} ELSE contested
    /\ Finish(r)
    /\ UNCHANGED <<store, boards, columns, clock, ops, raced, late, emptied>>

-----------------------------------------------------------------------------

(* The requests, each from what it reads to its answer.                    *)

UpdateBoardName(r) ==
    (\E b \in Boards : BeginUpdateBoard(r, b)) \/ CommitUpdateBoard(r)

DeleteBoard(r) ==
    (\E b \in Boards : BeginDeleteBoard(r, b)) \/ CommitDeleteBoard(r)

CreateColumn(r) ==
    \/ \E c \in Columns, b \in Boards, p \in Positions :
         BeginCreateColumn(r, c, b, p)
    \/ CommitCreateColumn(r)

UpdateColumn(r) ==
    (\E c \in Columns : BeginUpdateColumn(r, c)) \/ CommitUpdateColumn(r)

MoveColumn(r) ==
    \/ \E c \in Columns, p \in Positions : BeginMoveColumn(r, c, p)
    \/ ListColumns(r) \/ CommitMoveColumn(r)

CreateTask(r) ==
    \/ \E t \in Tasks, b \in Boards \cup {None}, c \in Columns \cup {None} :
         BeginCreateTask(r, t, b, c)
    \/ CommitCreateTask(r)

UpdateTask(r) ==
    \/ \E t \in Tasks, status \in Statuses :
         BeginUpdateTaskStatus(r, t, status)
    \/ \E t \in Tasks, c \in Columns \cup {None} : BeginMoveTask(r, t, c)
    \/ \E t \in Tasks : BeginUpdateTaskDetails(r, t)
    \/ TouchTask(r) \/ RefuseTask(r) \/ CommitTask(r)

DeleteTask(r) ==
    (\E t \in Tasks : BeginDeleteTask(r, t)) \/ CommitDeleteTask(r)

Next ==
    \/ \E b \in Boards : CreateBoard(b)
    \/ \E c \in Columns : DeleteColumn(c)
    \/ \E r \in Requests :
        \/ UpdateBoardName(r) \/ DeleteBoard(r)
        \/ CreateColumn(r) \/ UpdateColumn(r) \/ MoveColumn(r)
        \/ CreateTask(r) \/ UpdateTask(r) \/ DeleteTask(r)

Spec == Init /\ [][Next]_vars

-----------------------------------------------------------------------------
(* Properties                                                              *)

(* The live columns of a board stand at different positions, whatever is   *)
(* moved, renamed or deleted meanwhile, unless a client asked for a taken  *)
(* position or a request wrote positions it had read before they changed.  *)
ColumnsInOrder ==
    \A b \in Boards \ raced : IsInjective(Listed(b))

(* A move puts its column where the client wants it and keeps the others   *)
(* in their order, unless the columns changed after it read them.          *)
MovesKeepOrder ==
    [][\A r \in Requests, b \in Boards :
          LET q == req[r]
              before == Listed(b)
              after == Listed(b)'
          IN (/\ q.stage = "moving" /\ q.board = b /\ req'[r] = Idle
              /\ b \notin raced' /\ columns[q.id].live) =>
               /\ after[q.id] = q.new
               /\ \A c, d \in DOMAIN before \ {q.id} :
                     before[c] < before[d] <=> after[c] < after[d]]_vars

(* "Se eliminara ... junto con sus columnas y tareas": nothing of a        *)
(* deleted board is left but what was written while it was being deleted,  *)
(* and in Postgres a board that is not deleted keeps its rows.  In SQLite  *)
(* a board renamed in the meantime stays, without them.                    *)
BoardTakesItsRows ==
    /\ \A b \in emptied : boards[b].live => store = "sqlite"
    /\ \A c \in Columns : columns[c].live /\ columns[c].board \in emptied =>
         c \in late \/ boards[columns[c].board].live
    /\ \A t \in Tasks : tasks[t].live /\ tasks[t].board \in emptied =>
         t \in late \/ boards[tasks[t].board].live

(* An answered edit of a task lasts: status, column and deletion are what  *)
(* the last answered requests say, unless two of them overlapped.          *)
EditsKept ==
    \A t \in Tasks \ contested :
        /\ tasks[t].live = intended[t].live
        /\ tasks[t].live => /\ tasks[t].status = intended[t].status
                            /\ tasks[t].column = intended[t].column

(* A row of boards or tasks never goes back to an older stamp, and no      *)
(* deleted row of any table returns: Last Write Wins would lose the newer  *)
(* state on other devices.                                                 *)
RowsOnlyAdvance ==
    [][/\ \A b \in Boards : boards[b].stamp <= boards'[b].stamp
       /\ \A t \in Tasks : tasks[t].stamp <= tasks'[t].stamp
       /\ \A b \in Boards : boards'[b].live =>
            boards[b].live \/ boards[b].stamp = 0
       /\ \A c \in Columns : columns'[c].live =>
            columns[c].live \/ columns[c].stamp = 0
       /\ \A t \in Tasks : tasks'[t].live =>
            tasks[t].live \/ tasks[t].stamp = 0]_vars

=============================================================================

----------------------------- MODULE BoardPull -----------------------------
(***************************************************************************)
(* Pulling rows that refer to each other.  RemoteSyncService.PullChanges   *)
(* reads the tables one query after the other, in the order boards,        *)
(* columns, tasks, and hides the columns of deleted boards; the desktop's  *)
(* applyPulledChanges writes the answer in one SQLite transaction whose    *)
(* foreign keys are checked at commit.  One reading device, the web        *)
(* application and other desktops that push what they stamped offline.     *)
(*                                                                         *)
(* A row is a pair <<kind, board>>: each board has one column and one task *)
(* in it, which is enough for every reference between the three tables.    *)
(***************************************************************************)
EXTENDS Naturals

CONSTANTS
    Boards,
    MaxClock    \* bound: number of edits

ASSUME MaxClockAssumption == MaxClock \in Nat

Kinds == {"board", "column", "task"}
Rows == Kinds \X Boards

VARIABLES
    clock,      \* the instant of the latest edit
    cloud,      \* cloud[row]: stamp and tombstone in Postgres
    pending,    \* pending[row]: stamp in another desktop's outbox, 0 if none
    local,      \* local[row]: the reading device's copy
    cursor,     \* its saved pull cursor
    stage,      \* the table its pull request is about to read
    until,      \* the instant the request started
    answer      \* answer[row]: what the request has read so far

cloudVars == <<clock, cloud, pending>>
deviceVars == <<local, cursor, stage, until, answer>>
vars == <<cloudVars, deviceVars>>

Absent == [stamp |-> 0, dead |-> FALSE]
NoCopies == [row \in Rows |-> Absent]
Stages == {"idle", "board", "column", "task", "read"}

(* The foreign keys: a column names its board, a task both of them.        *)
Parents(row) ==
    CASE row[1] = "board"  -> {}
      [] row[1] = "column" -> {<<"board", row[2]>>}
      [] row[1] = "task"   -> {<<"board", row[2]>>, <<"column", row[2]>>}

Exists(copies, row) == copies[row].stamp # 0
Live(copies, row) == Exists(copies, row) /\ ~copies[row].dead
Linked(copies) ==
    \A row \in Rows : Exists(copies, row) =>
        \A parent \in Parents(row) : Exists(copies, parent)

Merge(store, incoming) ==
    [row \in Rows |-> IF incoming[row].stamp > store[row].stamp
                      THEN incoming[row] ELSE store[row]]

Init ==
    /\ clock = 0
    /\ cloud = NoCopies
    /\ pending = [row \in Rows |-> 0]
    /\ local = NoCopies
    /\ cursor = 0
    /\ stage = "idle"
    /\ until = 0
    /\ answer = NoCopies

-----------------------------------------------------------------------------
(* The cloud                                                               *)

Tick == clock < MaxClock /\ clock' = clock + 1
Stamped == [stamp |-> clock + 1, dead |-> FALSE]

(* A handler loads the row it changes; only a column's also loads the      *)
(* board, so a task stays reachable when its board is gone.                *)
Authorized(row) ==
    /\ Live(cloud, row)
    /\ row[1] = "column" => Live(cloud, <<"board", row[2]>>)

(* A web client edits a row it may reach or creates one under live parents. *)
WebSave(row) ==
    /\ Tick
    /\ \/ Authorized(row)
       \/ /\ ~Exists(cloud, row) /\ pending[row] = 0
          /\ \A parent \in Parents(row) : Live(cloud, parent)
    /\ cloud' = [cloud EXCEPT ![row] = Stamped]
    /\ UNCHANGED <<pending, deviceVars>>

(* Mutant of Cascade: the tasks' tombstones keep the old updated_at.       *)
CascadeUnstamped(b) ==
    [row \in Rows |->
        IF row[2] # b \/ ~Live(cloud, row) THEN cloud[row]
        ELSE IF row[1] = "task" THEN [cloud[row] EXCEPT !.dead = TRUE]
        ELSE [stamp |-> clock + 1, dead |-> TRUE]]

(* One statement puts tombstones on a board, its columns and its tasks.    *)
Cascade(b) ==
    [row \in Rows |-> IF row[2] = b /\ Live(cloud, row)
                      THEN [stamp |-> clock + 1, dead |-> TRUE]
                      ELSE cloud[row]]

WebDeleteBoard(b) ==
    /\ Tick
    /\ Live(cloud, <<"board", b>>)
    /\ cloud' = Cascade(b)
    /\ UNCHANGED <<pending, deviceVars>>

(* Deleting a column or a task touches that row only.                      *)
WebDelete(row) ==
    /\ Tick
    /\ row[1] # "board" /\ Authorized(row)
    /\ cloud' = [cloud EXCEPT ![row] = [stamp |-> clock + 1, dead |-> TRUE]]
    /\ UNCHANGED <<pending, deviceVars>>

Known(row) == Exists(cloud, row) \/ pending[row] # 0

(* Another desktop, offline, creates a row or edits one that it may not    *)
(* have heard is deleted: the edit revives it.                             *)
OfflineSave(row) ==
    /\ Tick
    /\ \A parent \in Parents(row) : Known(parent)
    /\ pending' = [pending EXCEPT ![row] = clock + 1]
    /\ UNCHANGED <<cloud, deviceVars>>

(* Its push commits any part of its outbox that Postgres' foreign keys let *)
(* through, at any later time.                                             *)
Push(batch) ==
    LET incoming == [row \in Rows |->
                        IF row \in batch
                        THEN [stamp |-> pending[row], dead |-> FALSE]
                        ELSE Absent]
    IN /\ batch # {} /\ \A row \in batch : pending[row] # 0
       /\ Linked(Merge(cloud, incoming))
       /\ cloud' = Merge(cloud, incoming)
       /\ pending' = [row \in Rows |->
                        IF row \in batch THEN 0 ELSE pending[row]]
       /\ UNCHANGED <<clock, deviceVars>>

-----------------------------------------------------------------------------
(* The device's pull                                                       *)

BeginPull ==
    /\ stage = "idle"
    /\ stage' = "board"
    /\ until' = clock
    /\ answer' = NoCopies
    /\ UNCHANGED <<cloudVars, local, cursor>>

(* The rows in the window, columns only through boards that are alive now. *)
Selected(row) ==
    /\ cursor < cloud[row].stamp /\ cloud[row].stamp <= until
    /\ row[1] = "column" => Live(cloud, <<"board", row[2]>>)

NextStage ==
    [board |-> "column", column |-> "task", task |-> "read"]

ReadTable ==
    /\ stage \in Kinds
    /\ answer' = [row \in Rows |-> IF row[1] = stage /\ Selected(row)
                                   THEN cloud[row] ELSE answer[row]]
    /\ stage' = NextStage[stage]
    /\ UNCHANGED <<cloudVars, local, cursor, until>>

(* The transaction commits only if every reference resolves; the cursor is *)
(* saved after it.                                                         *)
Apply ==
    /\ stage = "read"
    /\ Linked(Merge(local, answer))
    /\ local' = Merge(local, answer)
    /\ cursor' = until
    /\ stage' = "idle"
    /\ answer' = NoCopies
    /\ UNCHANGED <<cloudVars, until>>

(* Mutant of Refuse: the error path returns without unlocking the mutex,   *)
(* so no later cycle can start.                                            *)
RefuseAndStop ==
    /\ stage = "read"
    /\ ~Linked(Merge(local, answer))
    /\ UNCHANGED vars

(* Otherwise the whole answer is thrown away and the cycle fails.          *)
Refuse ==
    /\ stage = "read"
    /\ ~Linked(Merge(local, answer))
    /\ stage' = "idle"
    /\ answer' = NoCopies
    /\ UNCHANGED <<cloudVars, local, cursor, until>>

-----------------------------------------------------------------------------

PullStep == BeginPull \/ ReadTable \/ Apply \/ Refuse

Next ==
    \/ \E row \in Rows : WebSave(row) \/ WebDelete(row) \/ OfflineSave(row)
    \/ \E b \in Boards : WebDeleteBoard(b)
    \/ \E batch \in SUBSET Rows : Push(batch)
    \/ PullStep

Spec == Init /\ [][Next]_vars

(* The worker keeps starting cycles and a cycle goes on to its end.        *)
FairSpec == Spec /\ WF_vars(PullStep)

-----------------------------------------------------------------------------
(* Properties                                                              *)

Copies == [Rows -> [stamp : Nat, dead : BOOLEAN]]

TypeOK ==
    /\ clock \in Nat
    /\ cloud \in Copies
    /\ pending \in [Rows -> Nat]
    /\ local \in Copies
    /\ cursor \in Nat
    /\ stage \in Stages
    /\ until \in Nat
    /\ answer \in Copies

(* The device's copy of a row is a version the cloud has or had: never     *)
(* newer, and at the same stamp never a different tombstone, although the  *)
(* tables of an answer are read at different moments.                      *)
LocalIsPastCloud ==
    \A row \in Rows :
        /\ local[row].stamp <= cloud[row].stamp
        /\ local[row].stamp = cloud[row].stamp => local[row] = cloud[row]

Hidden(row) ==
    row[1] = "column" /\ ~Live(cloud, <<"board", row[2]>>)

Overdue(row) == ~Exists(local, row) /\ Exists(cloud, row)

Behind(row) == Overdue(row) /\ cloud[row].stamp <= cursor /\ ~Hidden(row)

(* A row the device will be sent refers to one it will not be sent.        *)
Blocked ==
    \E row \in Rows :
        /\ cloud[row].stamp > cursor /\ ~Hidden(row)
        /\ \E parent \in Parents(row) :
            Overdue(parent) /\ (Hidden(parent) \/ Behind(parent))

(* Reading the tables one by one may refuse an answer, but not for ever:   *)
(* pulls go on succeeding unless a parent row is out of the device's reach *)
(* for good.                                                               *)
PullsAdvanceUnlessBlocked == <>[]Blocked \/ []<>(cursor = clock)

=============================================================================

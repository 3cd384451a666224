----------------------------- MODULE SyncEngine -----------------------------
(***************************************************************************)
(* The synchronisation engine: one cloud database and any number of        *)
(* desktop sidecars, each with its SQLite store, its outbox and its pull   *)
(* cursor (backend/internal/core/services/http_sync_service.go on the      *)
(* desktop, remote_sync_service.go on the server, the outbox triggers of   *)
(* backend/cmd/sqlite.go).                                                 *)
(*                                                                         *)
(* A row version is its `updated_at' stamp: the client that edits a row    *)
(* writes the stamp, and the whole system compares nothing else when it    *)
(* reconciles two copies.  Stamp 0 is a row the store does not hold; a     *)
(* soft delete is an ordinary version.  `clock' is real time: every edit   *)
(* takes a fresh instant, and all machines read the same clock, which is   *)
(* the most favourable case for a Last Write Wins scheme.                  *)
(*                                                                         *)
(* Two variables are history only and constrain nothing: `overtaken' and   *)
(* `skipped' remember where an edit can fall out of the protocol, so that  *)
(* the invariants can say these are the only places.                       *)
(***************************************************************************)
EXTENDS Naturals, FiniteSets

CONSTANTS
    Devices,    \* desktop installations of one user
    Rows,       \* primary keys of one synchronised table
    PushLimit,  \* syncOutboxBatchSize (100)
    PullLimit,  \* remoteSyncPullBatchLimit (500)
    Guarded,    \* rows whose repository UPDATE compares stamps (boards,
                \* tasks, transactions); the other tables overwrite
    Refused,    \* rows the server rejects on push (ownership, foreign key)
    Accounts,   \* financial accounts that mirror a credit card
    CardOf,     \* CardOf[a]: the card's own row (same id, other table)
    MaxStamp,   \* bound: number of edits
    MaxFaults   \* bound: failed requests and crashes

ASSUME LimitsAssumption ==
    /\ PushLimit \in Nat \ {0}
    /\ PullLimit \in Nat \ {0}
    /\ MaxStamp \in Nat
    /\ MaxFaults \in Nat

ASSUME RowsAssumption == Guarded \subseteq Rows /\ Refused \subseteq Rows

ASSUME AccountsAssumption ==
    /\ Accounts \subseteq Rows \ Guarded
    /\ CardOf \in [Accounts -> Rows \ Accounts]

VARIABLES
    clock,      \* the last instant any edit was stamped at
    faults,     \* failures used up so far
    server,     \* server[r]: stamp of the row in the cloud database
    web,        \* an edit the API server has stamped and not yet committed
    local,      \* local[d][r]: stamp of the row in d's SQLite
    outbox,     \* outbox[d][r]: state of the sync_outbox entry of the row
    cursor,     \* cursor[d]: sync_state 'remote_pull', 0 when absent
    stage,      \* stage[d]: how far d's cycle has got
    from,       \* from[d]: cursor value the cycle started with
    batch,      \* batch[d][r]: stamp of the copy being pushed, 0 if none
    pulled,     \* pulled[d][r]: stamp in the pull response, 0 if none
    until,      \* until[d]: cursor carried by the pull response
    overtaken,  \* history: <<d, r>> whose entry went with an older copy
    skipped     \* history: <<d, r>> the server committed behind d's cursor

serverVars == <<server, web>>
storeVars == <<local, outbox, cursor>>
cycleVars == <<stage, from, batch, pulled, until>>
historyVars == <<overtaken, skipped>>
vars == <<clock, faults, serverVars, storeVars, cycleVars, historyVars>>

Stages == {"idle", "collected", "clearing", "pulling", "pulled", "applied"}
EntryStates == {"none", "ready", "backoff"}

NoRows == [r \in Rows |-> 0]
NoWeb == [row |-> {}, stamp |-> 0]

-----------------------------------------------------------------------------

Init ==
    /\ clock = 0
    /\ faults = 0
    /\ server = NoRows
    /\ web = NoWeb
    /\ local = [d \in Devices |-> NoRows]
    /\ outbox = [d \in Devices |-> [r \in Rows |-> "none"]]
    /\ cursor = [d \in Devices |-> 0]
    /\ stage = [d \in Devices |-> "idle"]
    /\ from = [d \in Devices |-> 0]
    /\ batch = [d \in Devices |-> NoRows]
    /\ pulled = [d \in Devices |-> NoRows]
    /\ until = [d \in Devices |-> 0]
    /\ overtaken = {}
    /\ skipped = {}

(* Mutant of Merge: the upsert without its WHERE clause.                   *)
MergeUnconditional(store, incoming) ==
    [r \in Rows |-> IF incoming[r] # 0 THEN incoming[r] ELSE store[r]]

(* The conditional upsert both sides run: an incoming copy replaces the    *)
(* stored one only when its stamp is strictly newer.                       *)
Merge(store, incoming) ==
    [r \in Rows |-> IF incoming[r] > store[r] THEN incoming[r] ELSE store[r]]

(* Ids are UUIDs made by the creator: only it can hold a row first.        *)
Unborn(r) ==
    /\ server[r] = 0
    /\ r \notin web.row
    /\ \A d \in Devices : local[d][r] = 0

(* The instant up to which d believes it has seen the server's rows.       *)
Asked(d) == IF stage[d] \in {"pulled", "applied"} THEN until[d] ELSE cursor[d]

(* The devices and rows a commit of `incoming' lands behind.               *)
LandsBehind(incoming) ==
    { p \in Devices \X Rows :
        /\ incoming[p[2]] > server[p[2]]
        /\ incoming[p[2]] <= Asked(p[1])
        /\ incoming[p[2]] > local[p[1]][p[2]] }

Fault ==
    /\ faults < MaxFaults
    /\ faults' = faults + 1

(* Every early return of the cycle, and the death of the process, forget   *)
(* the request in flight; what SQLite has committed stays.                 *)
EndCycle(d) ==
    /\ stage' = [stage EXCEPT ![d] = "idle"]
    /\ from' = [from EXCEPT ![d] = 0]
    /\ batch' = [batch EXCEPT ![d] = NoRows]
    /\ pulled' = [pulled EXCEPT ![d] = NoRows]
    /\ until' = [until EXCEPT ![d] = 0]

-----------------------------------------------------------------------------
(* Edits                                                                   *)

(* A card and the account that mirrors it are written together.            *)
Touched(r) == {r} \cup { a \in Accounts : CardOf[a] = r }

(* The rows of `store' an edit of r writes: all of them when it creates r, *)
(* those that are there when it changes r.                                 *)
Written(store, r) ==
    { q \in Touched(r) : store[r] = 0 \/ store[q] # 0 }

(* A mirror is never created by itself.                                    *)
CanEdit(store, r) ==
    \/ store[r] # 0
    \/ r \notin Accounts /\ \A q \in Touched(r) : Unborn(q)

(* The desktop user creates, edits or soft-deletes a row: the repository   *)
(* statements and the outbox triggers commit together.                     *)
LocalEdit(d, r) ==
    /\ clock < MaxStamp
    /\ CanEdit(local[d], r)
    /\ clock' = clock + 1
    /\ LET written == Written(local[d], r) IN
        /\ local' = [local EXCEPT ![d] =
                [q \in Rows |-> IF q \in written THEN clock + 1
                                                 ELSE local[d][q]]]
        /\ outbox' = [outbox EXCEPT ![d] =
                [q \in Rows |-> IF q \in written THEN "ready"
                                                 ELSE outbox[d][q]]]
        /\ overtaken' = overtaken \ ({d} \X written)
    /\ UNCHANGED <<faults, serverVars, cursor, cycleVars, skipped>>

(* A web client edits a row: the API server's domain layer stamps it ...   *)
WebStamp(r) ==
    /\ clock < MaxStamp
    /\ web = NoWeb
    /\ CanEdit(server, r)
    /\ clock' = clock + 1
    /\ web' = [row |-> Written(server, r), stamp |-> clock + 1]
    /\ UNCHANGED <<faults, server, storeVars, cycleVars, historyVars>>

(* ... and its repository commits it later, unless the table is one where  *)
(* the UPDATE looks at the stamp and a newer one is there.                 *)
WebRows == [r \in Rows |-> IF r \in web.row THEN web.stamp ELSE 0]

WebCommit ==
    /\ web # NoWeb
    /\ server' = [r \in Rows |-> IF r \in web.row \ Guarded
                                 THEN web.stamp ELSE Merge(server, WebRows)[r]]
    /\ skipped' = skipped \cup LandsBehind(WebRows)
    /\ web' = NoWeb
    /\ UNCHANGED <<clock, faults, storeVars, cycleVars, overtaken>>

-----------------------------------------------------------------------------
(* One cycle of syncOnce                                                   *)

Ready(d) == { r \in Rows : outbox[d][r] = "ready" }

(* Take the cursor (or the epoch for a full pull), select the due outbox   *)
(* entries, and read the current copy of each row.  The queue's order is a *)
(* timestamp of one-second grain written in two formats, so which entries  *)
(* a full batch leaves behind is left open.                                *)
BeginCycle(d, full) ==
    /\ stage[d] = "idle"
    /\ from' = [from EXCEPT ![d] = IF full THEN 0 ELSE cursor[d]]
    /\ \E due \in SUBSET Ready(d) :
        /\ due = Ready(d) \/ Cardinality(due) = PushLimit
        /\ Cardinality(due) <= PushLimit
        /\ batch' = [batch EXCEPT ![d] =
                        [r \in Rows |-> IF r \in due THEN local[d][r] ELSE 0]]
        /\ stage' = [stage EXCEPT ![d] =
                        IF due = {} THEN "pulling" ELSE "collected"]
    /\ UNCHANGED <<clock, faults, serverVars, storeVars, pulled, until,
                   historyVars>>

InBatch(d) == { r \in Rows : batch[d][r] # 0 }

(* PushChanges: one transaction for the whole batch, refused as a whole.   *)
ServerAccepts(d) ==
    /\ InBatch(d) \cap Refused = {}
    /\ server' = Merge(server, batch[d])
    /\ skipped' = skipped \cup LandsBehind(batch[d])

(* Mutants of MarkBatchFailed: entries dropped, or marked for good.        *)
MarkBatchDropped(d) ==
    /\ outbox' = [outbox EXCEPT ![d] =
                    [r \in Rows |-> IF r \in InBatch(d) THEN "none"
                                                        ELSE outbox[d][r]]]
    /\ EndCycle(d)

MarkBatchDead(d) ==
    /\ outbox' = [outbox EXCEPT ![d] =
                    [r \in Rows |-> IF r \in InBatch(d) THEN "failed"
                                                        ELSE outbox[d][r]]]
    /\ EndCycle(d)

(* The failed push puts every entry of the batch off for a minute.         *)
MarkBatchFailed(d) ==
    /\ outbox' = [outbox EXCEPT ![d] =
                    [r \in Rows |-> IF r \in InBatch(d) THEN "backoff"
                                                        ELSE outbox[d][r]]]
    /\ EndCycle(d)

PushSucceeds(d) ==
    /\ stage[d] = "collected"
    /\ ServerAccepts(d)
    /\ stage' = [stage EXCEPT ![d] = "clearing"]
    /\ UNCHANGED <<clock, faults, web, storeVars, from, batch, pulled, until,
                   overtaken>>

(* The server refuses the batch because of one of its rows.                *)
PushRefused(d) ==
    /\ stage[d] = "collected"
    /\ InBatch(d) \cap Refused # {}
    /\ MarkBatchFailed(d)
    /\ UNCHANGED <<clock, faults, serverVars, local, cursor, historyVars>>

(* The request never arrives ...                                           *)
PushLost(d) ==
    /\ stage[d] = "collected"
    /\ Fault
    /\ MarkBatchFailed(d)
    /\ UNCHANGED <<clock, serverVars, local, cursor, historyVars>>

(* ... or it is applied and the answer is lost, so it will be sent again.  *)
PushAnswerLost(d) ==
    /\ stage[d] = "collected"
    /\ Fault
    /\ ServerAccepts(d)
    /\ MarkBatchFailed(d)
    /\ UNCHANGED <<clock, web, local, cursor, overtaken>>

(* DELETE FROM sync_outbox WHERE id = ?, one entry at a time, whatever     *)
(* happened to the row since its copy was read.                            *)
ClearEntry(d, r) ==
    /\ stage[d] = "clearing"
    /\ r \in InBatch(d)
    /\ outbox' = [outbox EXCEPT ![d][r] = "none"]
    /\ overtaken' = IF local[d][r] > batch[d][r]
                    THEN overtaken \cup {<<d, r>>} ELSE overtaken
    /\ batch' = [batch EXCEPT ![d][r] = 0]
    /\ stage' = [stage EXCEPT ![d] =
                    IF InBatch(d) = {r} THEN "pulling" ELSE "clearing"]
    /\ UNCHANGED <<clock, faults, serverVars, local, cursor, from, pulled,
                   until, skipped>>

(* Mutant of Window: rows stamped at the answer's own instant left out.    *)
WindowOpen(d) == { r \in Rows : from[d] < server[r] /\ server[r] < clock }

(* The rows PullChanges selects: stamped in the half-open window, oldest   *)
(* first, at most PullLimit of them.                                       *)
Window(d) == { r \in Rows : from[d] < server[r] /\ server[r] <= clock }

Oldest(window) ==
    { r \in window :
        Cardinality({ q \in window : server[q] < server[r] }) < PullLimit }

(* PullChanges answers with those rows and the server's time as cursor.    *)
Pull(d) ==
    /\ stage[d] = "pulling"
    /\ pulled' = [pulled EXCEPT ![d] =
                    [r \in Rows |-> IF r \in Oldest(Window(d)) THEN server[r]
                                                               ELSE 0]]
    /\ until' = [until EXCEPT ![d] = clock]
    /\ skipped' = skipped \cup
                    { p \in {d} \X (Window(d) \ Oldest(Window(d))) :
                        server[p[2]] > local[d][p[2]] }
    /\ stage' = [stage EXCEPT ![d] = "pulled"]
    /\ UNCHANGED <<clock, faults, serverVars, storeVars, from, batch,
                   overtaken>>

(* Mutant of Apply: the triggers are left on.                              *)
ApplyUnsuppressed(d) ==
    /\ stage[d] = "pulled"
    /\ local' = [local EXCEPT ![d] = Merge(local[d], pulled[d])]
    /\ outbox' = [outbox EXCEPT ![d] =
                    [r \in Rows |-> IF pulled[d][r] > local[d][r]
                                    THEN "ready" ELSE outbox[d][r]]]
    /\ skipped' = { p \in skipped :
                        p[1] = d => server[p[2]] > local'[d][p[2]] }
    /\ stage' = [stage EXCEPT ![d] = "applied"]
    /\ UNCHANGED <<clock, faults, serverVars, cursor, from, batch, pulled,
                   until, overtaken>>

(* One SQLite transaction with the outbox triggers suppressed.             *)
Apply(d) ==
    /\ stage[d] = "pulled"
    /\ local' = [local EXCEPT ![d] = Merge(local[d], pulled[d])]
    /\ skipped' = { p \in skipped :
                        p[1] = d => server[p[2]] > local'[d][p[2]] }
    /\ stage' = [stage EXCEPT ![d] = "applied"]
    /\ UNCHANGED <<clock, faults, serverVars, outbox, cursor, from, batch,
                   pulled, until, overtaken>>

(* The cursor is saved by a statement of its own, after the rows.          *)
SaveCursor(d) ==
    /\ stage[d] = "applied"
    /\ cursor' = [cursor EXCEPT ![d] = until[d]]
    /\ EndCycle(d)
    /\ UNCHANGED <<clock, faults, serverVars, local, outbox, historyVars>>

(* Mutant of Abort: the answer's cursor is kept although its rows were not. *)
AbortKeepsCursor(d) ==
    /\ stage[d] # "idle"
    /\ Fault
    /\ cursor' = [cursor EXCEPT ![d] = IF stage[d] \in {"pulled", "applied"}
                                       THEN until[d] ELSE cursor[d]]
    /\ EndCycle(d)
    /\ UNCHANGED <<clock, serverVars, local, outbox, historyVars>>

(* Pull, apply or save fails at any point of the cycle: the worker's next  *)
(* cycle starts from what SQLite holds.                                    *)
Abort(d) ==
    /\ stage[d] # "idle"
    /\ Fault
    /\ EndCycle(d)
    /\ UNCHANGED <<clock, serverVars, storeVars, historyVars>>

(* The sidecar dies, in a cycle or between two, and is launched again.     *)
(* Opening the database writes every live card into its account with the   *)
(* card's updated_at, whatever stamp the account has; the outbox triggers  *)
(* are in place by then.                                                   *)
Restart(d) ==
    /\ Fault
    /\ EndCycle(d)
    /\ \E live \in SUBSET { a \in Accounts : local[d][CardOf[a]] # 0 } :
        /\ local' = [local EXCEPT ![d] =
                [r \in Rows |-> IF r \in live THEN local[d][CardOf[r]]
                                              ELSE local[d][r]]]
        /\ outbox' = [outbox EXCEPT ![d] =
                [r \in Rows |-> IF r \in live THEN "ready" ELSE outbox[d][r]]]
    /\ UNCHANGED <<clock, serverVars, cursor, historyVars>>

(* next_attempt_at of a failed entry has passed.                           *)
RetryDue(d, r) ==
    /\ outbox[d][r] = "backoff"
    /\ outbox' = [outbox EXCEPT ![d][r] = "ready"]
    /\ UNCHANGED <<clock, faults, serverVars, local, cursor, cycleVars,
                   historyVars>>

-----------------------------------------------------------------------------

Edit ==
    \/ \E d \in Devices, r \in Rows : LocalEdit(d, r)
    \/ \E r \in Rows : WebStamp(r)

Progress(d) ==
    \/ PushSucceeds(d)
    \/ PushRefused(d)
    \/ \E r \in Rows : ClearEntry(d, r)
    \/ Pull(d)
    \/ Apply(d)
    \/ SaveCursor(d)

Failure(d) == PushLost(d) \/ PushAnswerLost(d) \/ Abort(d) \/ Restart(d)

Next ==
    \/ Edit
    \/ WebCommit
    \/ \E d \in Devices :
        \/ \E full \in BOOLEAN : BeginCycle(d, full)
        \/ Progress(d)
        \/ Failure(d)
        \/ \E r \in Rows : RetryDue(d, r)

Spec == Init /\ [][Next]_vars

(* The worker's ticker starts an incremental cycle whenever none runs, a   *)
(* started cycle goes on, a failed entry becomes due, and a web request    *)
(* that stamped its row commits it.  Nobody promises an edit, a fault or a *)
(* full pull.                                                              *)
Fairness ==
    /\ WF_vars(WebCommit)
    /\ \A d \in Devices :
        /\ WF_vars(BeginCycle(d, FALSE))
        /\ WF_vars(Progress(d))
        /\ \A r \in Rows : WF_vars(RetryDue(d, r))

FairSpec == Spec /\ Fairness

-----------------------------------------------------------------------------
(* Properties                                                              *)

TypeOK ==
    /\ clock \in Nat
    /\ faults \in Nat
    /\ server \in [Rows -> Nat]
    /\ web \in [row : SUBSET Rows, stamp : Nat]
    /\ local \in [Devices -> [Rows -> Nat]]
    /\ outbox \in [Devices -> [Rows -> EntryStates]]
    /\ cursor \in [Devices -> Nat]
    /\ stage \in [Devices -> Stages]
    /\ from \in [Devices -> Nat]
    /\ batch \in [Devices -> [Rows -> Nat]]
    /\ pulled \in [Devices -> [Rows -> Nat]]
    /\ until \in [Devices -> Nat]
    /\ overtaken \in SUBSET (Devices \X Rows)
    /\ skipped \in SUBSET (Devices \X Rows)

(* An edit the server does not have yet is waiting in the outbox, unless   *)
(* its entry was deleted on behalf of an older copy of the row: failures,  *)
(* lost answers, crashes and pulls never drop it.                          *)
UnsyncedIsQueued ==
    \A d \in Devices, r \in Guarded :
        local[d][r] > server[r] =>
            outbox[d][r] # "none" \/ <<d, r>> \in overtaken

(* A device whose saved cursor has gone past a version of a row holds that *)
(* version, whatever the order of pushes, pulls and crashes, unless the    *)
(* server committed it behind the cursor or cut it from an answer.         *)
CursorCoversServer ==
    \A d \in Devices, r \in Guarded :
        server[r] <= cursor[d] /\ server[r] > local[d][r] =>
            <<d, r>> \in skipped

(* Pulled rows do not re-enter the outbox: an entry appears only in the    *)
(* step that stamps a new version of its row on this device, or when a     *)
(* restart gives a card's account the card's stamp.                        *)
OnlyOwnEditsAreQueued ==
    [][\A d \in Devices, r \in Rows :
        outbox[d][r] = "none" /\ outbox'[d][r] # "none" =>
            \/ clock' > clock /\ local'[d][r] = clock'
            \/ r \in Accounts /\ local'[d][r] = local[d][CardOf[r]]]_vars

(* A device exchanges a version of a row for an older one only when a      *)
(* restart copies a card into its account, and then the row is queued: no  *)
(* pull that was answered before an edit takes the edit back.              *)
OnlyBackfillTurnsBack ==
    [][\A d \in Devices, r \in Rows :
        local'[d][r] < local[d][r] =>
            /\ r \in Accounts /\ local'[d][r] = local[d][CardOf[r]]
            /\ outbox'[d][r] = "ready"]_vars

(* Once edits and faults stop, every outbox drains and every copy of a row *)
(* equals the server's, except where history recorded a loss.              *)
SettlesUnlessLost ==
    <>[](\A d \in Devices, r \in Rows :
            /\ outbox[d][r] = "none"
            /\ \/ local[d][r] = server[r]
               \/ <<d, r>> \in overtaken \cup skipped)

Quiet ==
    /\ clock = MaxStamp
    /\ web = NoWeb
    /\ \A d \in Devices, r \in Rows : outbox[d][r] = "none"

(* A device that never pulled, when nobody edits any more and nothing is   *)
(* queued anywhere, ends up with all of the server's rows.                 *)
FreshDeviceCatchesUp ==
    \A d \in Devices :
        (Quiet /\ cursor[d] = 0 /\ stage[d] = "idle")
            ~> (\A r \in Rows : local[d][r] >= server[r])

-----------------------------------------------------------------------------
(* What the README promises without reservation; the code falls short.     *)

(* "synchronizes state with cloud infrastructure whenever connectivity     *)
(* becomes available": every local edit gets to the server.                *)
EditsReachServer ==
    \A d \in Devices, r \in Rows :
        local[d][r] > server[r] ~> server[r] >= local[d][r]

=============================================================================

---------------------------- MODULE SyncWakeups ----------------------------
(***************************************************************************)
(* Who wakes whom.  A change travels from where it is made to every screen *)
(* through lossy channels: the middleware signals the sync worker through  *)
(* a one-place channel (sync_signal_bus.go), the server's realtime hub     *)
(* sends to bounded per-socket queues (user_realtime_hub.go), the sidecar  *)
(* tells its screen over server-sent events (sync_event_hub.go); each send *)
(* to a full channel is dropped and nothing is replayed after a reconnect. *)
(* Some writers use none of these channels: the notification and statement *)
(* workers and what a GET reconciles.                                      *)
(*                                                                         *)
(* The rows' versions are in SyncEngine.  Here an outbox entry is due,     *)
(* under way or waiting for its next attempt; a device lacks rows of the   *)
(* cloud or not, and its screen shows what the store holds or not.         *)
(***************************************************************************)
EXTENDS Naturals, FiniteSets

CONSTANTS
    Devices,
    Rows,       \* the rows that can have an outbox entry
    Setups,     \* who is there: the devices that run, those of them with a
                \* window open, and the rows that each of them writes
    Batch,      \* syncOutboxBatchSize (100)
    Buffer,     \* capacity of a hub subscription (8)
    MaxEdits,   \* bound: edits made
    MaxFaults   \* bound: failed cycles and broken streams

ASSUME SetupsAssumption ==
    \A s \in Setups :
        /\ s.running \subseteq Devices
        /\ s.windows \subseteq s.running
        /\ s.writes \in [s.running -> SUBSET Rows]
ASSUME BatchAssumption == Batch \in Nat \ {0}
ASSUME BufferAssumption == Buffer \in Nat \ {0}
ASSUME BoundAssumption == MaxEdits \in Nat /\ MaxFaults \in Nat

VARIABLES
    setup,        \* one of Setups, for good
    edits, faults,
    announcing,   \* web mutations committed and not yet published
    due,          \* outbox entries a cycle may take
    waiting,      \* outbox entries whose next_attempt_at is still to come
    quiet,        \* history: due entries a silent writer, a failed cycle or
                  \* the clock left without a signal
    notifying,    \* mutations committed whose middleware has not signalled
    signal,       \* the signal bus holds a reason
    stage,        \* where the worker's cycle stands
    sending,      \* the cycle's batch
    fetched,      \* the cycle's pull changes the store
    behind,       \* the cloud has rows the store lacks
    missed,       \* the same, and their news was lost or never sent
    linked,       \* the realtime socket is up
    queue,        \* events waiting for that socket
    stale,        \* the store has rows the screen does not show
    unseen,       \* the same, and their event was lost or never sent
    watching,     \* the screen's event stream is up
    updates,      \* sync_updated events waiting for that stream
    statuses      \* connected, pending and error events waiting there too

outboxVars == <<due, waiting, quiet>>
signalVars == <<notifying, signal>>
cycleVars == <<stage, sending, fetched>>
newsVars == <<behind, missed>>
linkVars == <<linked, queue>>
screenVars == <<stale, unseen, watching, updates, statuses>>
vars == <<setup, edits, faults, announcing, outboxVars, signalVars, cycleVars,
          newsVars, linkVars, screenVars>>

Stages == {"off", "wait", "pushing", "announcing", "pulling", "applying", 
           "saving", "updating"}

No == [d \in Devices |-> FALSE]
None == [d \in Devices |-> {}]
Zero == [d \in Devices |-> 0]

(* The sidecars start with their first cycle still to run.  Nobody tells a *)
(* device that is switched off what it lacks.                              *)
Init ==
    /\ setup \in Setups
    /\ edits = 0 /\ faults = 0 /\ announcing = 0
    /\ due = None /\ waiting = None /\ quiet = None
    /\ notifying = Zero /\ signal = No
    /\ stage = [d \in Devices |-> IF d \in setup.running THEN "pulling"
                                                         ELSE "off"]
    /\ sending = None /\ fetched = No
    /\ behind = [d \in Devices |-> d \in setup.running]
    /\ missed = [d \in Devices |-> d \notin setup.running]
    /\ linked = No /\ queue = Zero
    /\ stale = No /\ unseen = No /\ watching = No
    /\ updates = Zero /\ statuses = Zero

EditMade == edits < MaxEdits /\ edits' = edits + 1
Fault == faults < MaxFaults /\ faults' = faults + 1

(* A send to a bounded channel that never blocks.                          *)
Enqueue(n) == IF n < Buffer THEN n + 1 ELSE n

-----------------------------------------------------------------------------
(* The server                                                              *)

(* UserRealtimeHub.Publish reaches the sockets that are up; the others     *)
(* will not hear of what they lack.                                        *)
Publish ==
    /\ queue' = [d \in Devices |-> IF linked[d] THEN Enqueue(queue[d])
                                                ELSE queue[d]]
    /\ behind' = [d \in Devices |-> behind[d] /\ linked[d]]
    /\ missed' = [d \in Devices |-> missed[d] \/ (behind[d] /\ ~linked[d])]
    /\ UNCHANGED linked

(* A web mutation commits ...                                              *)
WebEdit ==
    /\ EditMade
    /\ announcing' = announcing + 1
    /\ behind' = [d \in Devices |-> TRUE]
    /\ UNCHANGED <<setup, faults, outboxVars, signalVars, cycleVars, missed,
                   linkVars, screenVars>>

(* Mutant of WebAnnounce: the status is read before the handler has run.   *)
WebAnnounceSilent ==
    /\ announcing > 0
    /\ announcing' = announcing - 1
    /\ UNCHANGED <<setup, edits, faults, outboxVars, signalVars, cycleVars,
                   newsVars, linkVars, screenVars>>

(* ... and the middleware publishes after the handler has returned.        *)
WebAnnounce ==
    /\ announcing > 0
    /\ announcing' = announcing - 1
    /\ Publish
    /\ UNCHANGED <<setup, edits, faults, outboxVars, signalVars, cycleVars,
                   screenVars>>

(* The server's workers, and its GET handlers that reconcile, commit rows  *)
(* and publish nothing.                                                    *)
SilentWebEdit ==
    /\ EditMade
    /\ missed' = [d \in Devices |-> TRUE]
    /\ UNCHANGED <<setup, faults, announcing, outboxVars, signalVars,
                   cycleVars, behind, linkVars, screenVars>>

-----------------------------------------------------------------------------
(* Writers on the device                                                   *)

(* The outbox trigger: the row has one entry, due at once.  An entry that  *)
(* is under way stays the cycle's.                                         *)
Queued(d, r) ==
    /\ due' = [due EXCEPT ![d] = IF r \in sending[d] THEN @ ELSE @ \cup {r}]
    /\ waiting' = [waiting EXCEPT ![d] = @ \ {r}]

(* A mutation through the local API commits ...                            *)
LocalEdit(d, r) ==
    /\ d \in setup.running /\ r \in setup.writes[d]
    /\ EditMade
    /\ Queued(d, r)
    /\ quiet' = [quiet EXCEPT ![d] = @ \ {r}]
    /\ notifying' = [notifying EXCEPT ![d] = @ + 1]
    /\ UNCHANGED <<setup, faults, announcing, signal, cycleVars, newsVars,
                   linkVars, screenVars>>

(* Mutant of Notify: a signal bus without a place to leave the reason.     *)
NotifyUnbuffered(d) ==
    /\ notifying[d] > 0
    /\ notifying' = [notifying EXCEPT ![d] = @ - 1]
    /\ signal' = [signal EXCEPT ![d] = stage[d] = "wait"]
    /\ UNCHANGED <<setup, edits, faults, announcing, outboxVars, cycleVars,
                   newsVars, linkVars, screenVars>>

(* ... and its middleware then leaves a reason on the bus, unless one is   *)
(* there already.                                                          *)
Notify(d) ==
    /\ notifying[d] > 0
    /\ notifying' = [notifying EXCEPT ![d] = @ - 1]
    /\ signal' = [signal EXCEPT ![d] = TRUE]
    /\ UNCHANGED <<setup, edits, faults, announcing, outboxVars, cycleVars,
                   newsVars, linkVars, screenVars>>

(* The device's workers, and its GET handlers that reconcile, write behind *)
(* the middleware's back: no signal, and no event for the screen.          *)
SilentEdit(d, r) ==
    /\ d \in setup.running /\ r \in setup.writes[d]
    /\ EditMade
    /\ Queued(d, r)
    /\ quiet' = [quiet EXCEPT ![d] = @ \cup (due'[d] \ due[d])]
    /\ unseen' = [unseen EXCEPT ![d] = d \in setup.windows]
    /\ UNCHANGED <<setup, faults, announcing, signalVars, cycleVars, newsVars,
                   linkVars, stale, watching, updates, statuses>>

(* The minute is over for some of the entries, and nobody is told.         *)
Due(d) ==
    \E retries \in SUBSET waiting[d] \ {{}} :
        /\ due' = [due EXCEPT ![d] = @ \cup retries]
        /\ waiting' = [waiting EXCEPT ![d] = @ \ retries]
        /\ quiet' = [quiet EXCEPT ![d] = @ \cup retries]
        /\ UNCHANGED <<setup, edits, faults, announcing, signalVars, cycleVars,
                       newsVars, linkVars, screenVars>>

(* A realtime event arrives: same bus.                                     *)
Receive(d) ==
    /\ queue[d] > 0
    /\ queue' = [queue EXCEPT ![d] = @ - 1]
    /\ signal' = [signal EXCEPT ![d] = TRUE]
    /\ UNCHANGED <<setup, edits, faults, announcing, outboxVars, notifying,
                   cycleVars, newsVars, linked, screenVars>>

-----------------------------------------------------------------------------
(* The sync worker                                                         *)

(* What the LIMIT of pushPendingOutbox takes of the due entries.           *)
Batches(entries) ==
    {b \in SUBSET entries :
        Cardinality(b) <= Batch /\ (b = entries \/ Cardinality(b) = Batch)}

(* Mutant of Begin: only a signalled cycle pushes, the ticker's just pull. *)
BeginUnsignalled(d) ==
    /\ stage[d] = "wait"
    /\ \E batch \in Batches(IF signal[d] THEN due[d] ELSE {}) :
        /\ sending' = [sending EXCEPT ![d] = batch]
        /\ due' = [due EXCEPT ![d] = @ \ batch]
        /\ stage' = [stage EXCEPT ![d] = IF batch = {} THEN "pulling"
                                                       ELSE "pushing"]
    /\ quiet' = [quiet EXCEPT ![d] = IF signal[d] THEN {} ELSE due[d]]
    /\ UNCHANGED <<setup, edits, faults, announcing, waiting, notifying,
                   fetched, newsVars, linkVars, screenVars>>

(* A cycle takes a batch of the due entries; with nothing to push it only  *)
(* pulls.  What a full batch leaves needs no signal of its own: the server *)
(* announces the push to its own device, whose next cycle takes more.      *)
Begin(d) ==
    /\ stage[d] = "wait"
    /\ \E batch \in Batches(due[d]) :
        /\ sending' = [sending EXCEPT ![d] = batch]
        /\ due' = [due EXCEPT ![d] = @ \ batch]
        /\ stage' = [stage EXCEPT ![d] = IF batch = {} THEN "pulling"
                                                       ELSE "pushing"]
    /\ quiet' = [quiet EXCEPT ![d] = {}]
    /\ UNCHANGED <<setup, edits, faults, announcing, waiting, notifying,
                   fetched, newsVars, linkVars, screenVars>>

Signalled(d) ==
    /\ signal[d]
    /\ signal' = [signal EXCEPT ![d] = FALSE]
    /\ Begin(d)

(* The five-minute ticker, a login, or "sync now".                         *)
Tick(d) == Begin(d) /\ UNCHANGED signal

(* The worker has no remote session: the reason is gone and no cycle runs. *)
Skip(d) ==
    /\ stage[d] = "wait" /\ signal[d]
    /\ Fault
    /\ signal' = [signal EXCEPT ![d] = FALSE]
    /\ quiet' = [quiet EXCEPT ![d] = due[d]]
    /\ behind' = [behind EXCEPT ![d] = FALSE]
    /\ missed' = [missed EXCEPT ![d] = @ \/ behind[d]]
    /\ UNCHANGED <<setup, edits, announcing, due, waiting, notifying,
                   cycleVars, linkVars, screenVars>>

(* The server commits the batch: the other devices lack its rows ...       *)
PushCommit(d) ==
    /\ stage[d] = "pushing"
    /\ behind' = [e \in Devices |-> behind[e] \/ e # d]
    /\ stage' = [stage EXCEPT ![d] = "announcing"]
    /\ UNCHANGED <<setup, edits, faults, announcing, outboxVars, signalVars,
                   sending, fetched, missed, linkVars, screenVars>>

(* ... publishes to every socket of the user, the pusher's own included,   *)
(* and answers.  Without that echo the rest of the outbox is left alone.   *)
PushAnnounce(d) ==
    /\ stage[d] = "announcing"
    /\ Publish
    /\ quiet' = [quiet EXCEPT ![d] = IF linked[d] THEN @ ELSE due[d]]
    /\ sending' = [sending EXCEPT ![d] = {}]
    /\ stage' = [stage EXCEPT ![d] = "pulling"]
    /\ UNCHANGED <<setup, edits, faults, announcing, due, waiting, signalVars,
                   fetched, screenVars>>

Fetch(d) ==
    /\ stage[d] = "pulling"
    /\ fetched' = [fetched EXCEPT ![d] = behind[d] \/ missed[d]]
    /\ behind' = [behind EXCEPT ![d] = FALSE]
    /\ missed' = [missed EXCEPT ![d] = FALSE]
    /\ stage' = [stage EXCEPT ![d] = "applying"]
    /\ UNCHANGED <<setup, edits, faults, announcing, outboxVars, signalVars,
                   sending, linkVars, screenVars>>

(* Mutant of Apply: the cycle's own writes signal the worker.              *)
ApplyResignals(d) ==
    /\ stage[d] = "applying"
    /\ stale' = [stale EXCEPT ![d] = @ \/ (fetched[d] /\ d \in setup.windows)]
    /\ stage' = [stage EXCEPT ![d] = "saving"]
    /\ signal' = [signal EXCEPT ![d] = TRUE]
    /\ UNCHANGED <<setup, edits, faults, announcing, outboxVars, notifying,
                   sending, fetched, newsVars, linkVars, unseen, watching,
                   updates, statuses>>

(* The pulled rows are committed with the outbox suppressed.               *)
Apply(d) ==
    /\ stage[d] = "applying"
    /\ stale' = [stale EXCEPT ![d] = @ \/ (fetched[d] /\ d \in setup.windows)]
    /\ stage' = [stage EXCEPT ![d] = "saving"]
    /\ UNCHANGED <<setup, edits, faults, announcing, outboxVars, signalVars,
                   sending, fetched, newsVars, linkVars, unseen, watching,
                   updates, statuses>>

(* SyncEventHub.Publish to the screen's stream.                            *)
Room(d) == watching[d] /\ updates[d] + statuses[d] < Buffer
Status(d) == statuses' = [statuses EXCEPT ![d] = IF Room(d) THEN @ + 1 ELSE @]

(* The cursor is saved and the screen told that the cloud answers, before  *)
(* it is told of the rows.                                                 *)
Save(d) ==
    /\ stage[d] = "saving"
    /\ Status(d)
    /\ stage' = [stage EXCEPT ![d] = IF fetched[d] THEN "updating" ELSE "wait"]
    /\ UNCHANGED <<setup, edits, faults, announcing, outboxVars, signalVars,
                   sending, fetched, newsVars, linkVars, stale, unseen,
                   watching, updates>>

(* The screen lacks rows and will not be told, unless an earlier           *)
(* sync_updated is still waiting: its refetch will show them all.          *)
Unheard(d) ==
    /\ stale' = [stale EXCEPT ![d] = @ /\ updates[d] > 0]
    /\ unseen' = [unseen EXCEPT ![d] = @ \/ (stale[d] /\ updates[d] = 0)]

(* Mutant of Update: the cycle ends without its event.                     *)
UpdateUnheard(d) ==
    /\ stage[d] = "updating"
    /\ stage' = [stage EXCEPT ![d] = "wait"]
    /\ fetched' = [fetched EXCEPT ![d] = FALSE]
    /\ UNCHANGED <<setup, edits, faults, announcing, outboxVars, signalVars,
                   sending, newsVars, linkVars, screenVars>>

(* sync_updated, which only a cycle that changed the store sends; a queue  *)
(* full of status events drops it.                                         *)
Update(d) ==
    /\ stage[d] = "updating"
    /\ stage' = [stage EXCEPT ![d] = "wait"]
    /\ fetched' = [fetched EXCEPT ![d] = FALSE]
    /\ \/ /\ Room(d)
          /\ updates' = [updates EXCEPT ![d] = @ + 1]
          /\ UNCHANGED <<stale, unseen>>
       \/ ~Room(d) /\ Unheard(d) /\ UNCHANGED updates
    /\ UNCHANGED <<setup, edits, faults, announcing, outboxVars, signalVars,
                   sending, newsVars, linkVars, watching, statuses>>

(* The batch goes back: marked for a minute later, or due as it was.       *)
Retried(d) ==
    /\ \/ /\ waiting' = [waiting EXCEPT ![d] = @ \cup sending[d]]
          /\ UNCHANGED due
       \/ /\ due' = [due EXCEPT ![d] = @ \cup sending[d]]
          /\ UNCHANGED waiting
    /\ quiet' = [quiet EXCEPT ![d] =
                   IF stage[d] \in {"pushing", "announcing"} THEN due'[d]
                                                             ELSE @]
    /\ sending' = [sending EXCEPT ![d] = {}]

(* The news that die with the cycle: its own, which its pull was to fetch, *)
(* and everybody's if the server fails between commit and publication.     *)
Dropped(d, e) ==
    \/ e = d /\ stage[d] \in {"pushing", "pulling"}
    \/ stage[d] = "announcing"

(* The cycle fails before it ends.  A failure to save the cursor leaves    *)
(* rows in the store whose sync_updated no later cycle sends: pulled       *)
(* again, they change nothing.                                             *)
CycleFails(d) ==
    /\ stage[d] \in {"pushing", "announcing", "pulling", "applying", "saving"}
    /\ Fault
    /\ Retried(d)
    /\ behind' = [e \in Devices |-> behind[e] /\ ~Dropped(d, e)]
    /\ missed' = [e \in Devices |->
                    \/ missed[e] \/ (behind[e] /\ Dropped(d, e))
                    \/ e = d /\ fetched[d] /\ stage[d] = "applying"]
    /\ IF stage[d] = "saving" THEN Unheard(d) ELSE UNCHANGED <<stale, unseen>>
    /\ fetched' = [fetched EXCEPT ![d] = FALSE]
    /\ Status(d)
    /\ stage' = [stage EXCEPT ![d] = "wait"]
    /\ UNCHANGED <<setup, edits, announcing, signalVars, linkVars, watching,
                   updates>>

(* The push is published and its answer lost.                              *)
AnswerLost(d) ==
    /\ stage[d] = "announcing"
    /\ Fault
    /\ Publish
    /\ Retried(d)
    /\ Status(d)
    /\ stage' = [stage EXCEPT ![d] = "wait"]
    /\ UNCHANGED <<setup, edits, announcing, signalVars, fetched, stale,
                   unseen, watching, updates>>

-----------------------------------------------------------------------------
(* The streams                                                             *)

(* The realtime client reconnects after three seconds and asks for nothing *)
(* it may have missed.                                                     *)
Link(d) ==
    /\ d \in setup.running /\ ~linked[d]
    /\ linked' = [linked EXCEPT ![d] = TRUE]
    /\ UNCHANGED <<setup, edits, faults, announcing, outboxVars, signalVars,
                   cycleVars, newsVars, queue, screenVars>>

Unlink(d) ==
    /\ linked[d]
    /\ Fault
    /\ linked' = [linked EXCEPT ![d] = FALSE]
    /\ queue' = [queue EXCEPT ![d] = 0]
    /\ behind' = [behind EXCEPT ![d] = @ /\ queue[d] = 0]
    /\ missed' = [missed EXCEPT ![d] = @ \/ (behind[d] /\ queue[d] > 0)]
    /\ quiet' = [quiet EXCEPT ![d] = IF queue[d] > 0 THEN due[d] ELSE @]
    /\ UNCHANGED <<setup, edits, announcing, due, waiting, signalVars,
                   cycleVars, screenVars>>

(* useSyncEvents reconnects after a second and a half, refetching nothing. *)
Watch(d) ==
    /\ d \in setup.windows /\ ~watching[d]
    /\ watching' = [watching EXCEPT ![d] = TRUE]
    /\ UNCHANGED <<setup, edits, faults, announcing, outboxVars, signalVars,
                   cycleVars, newsVars, linkVars, stale, unseen, updates,
                   statuses>>

Unwatch(d) ==
    /\ watching[d]
    /\ Fault
    /\ watching' = [watching EXCEPT ![d] = FALSE]
    /\ updates' = [updates EXCEPT ![d] = 0]
    /\ statuses' = [statuses EXCEPT ![d] = 0]
    /\ stale' = [stale EXCEPT ![d] = @ /\ updates[d] = 0]
    /\ unseen' = [unseen EXCEPT ![d] = @ \/ (stale[d] /\ updates[d] > 0)]
    /\ UNCHANGED <<setup, edits, announcing, outboxVars, signalVars, cycleVars,
                   newsVars, linkVars>>

(* A handler that signs in, or restores a session, reports how its own     *)
(* synchronisation went.                                                   *)
Report(d) ==
    /\ Status(d)
    /\ UNCHANGED <<setup, edits, faults, announcing, outboxVars, signalVars,
                   cycleVars, newsVars, linkVars, stale, unseen, watching,
                   updates>>

Refetched(d) ==
    /\ stale' = [stale EXCEPT ![d] = FALSE]
    /\ unseen' = [unseen EXCEPT ![d] = FALSE]

(* The screen hears of the change and fetches every active query again.    *)
Refetch(d) ==
    /\ updates[d] > 0
    /\ updates' = [updates EXCEPT ![d] = @ - 1]
    /\ Refetched(d)
    /\ UNCHANGED <<setup, edits, faults, announcing, outboxVars, signalVars,
                   cycleVars, newsVars, linkVars, watching, statuses>>

(* The other events change the badge and fetch nothing.                    *)
ShowStatus(d) ==
    /\ statuses[d] > 0
    /\ statuses' = [statuses EXCEPT ![d] = @ - 1]
    /\ UNCHANGED <<setup, edits, faults, announcing, outboxVars, signalVars,
                   cycleVars, newsVars, linkVars, stale, unseen, watching,
                   updates>>

(* The user comes back to the window.                                      *)
Focus(d) ==
    /\ d \in setup.windows /\ (stale[d] \/ unseen[d])
    /\ Refetched(d)
    /\ UNCHANGED <<setup, edits, faults, announcing, outboxVars, signalVars,
                   cycleVars, newsVars, linkVars, watching, updates, statuses>>

-----------------------------------------------------------------------------

Cycle(d) ==
    \/ Signalled(d) \/ PushCommit(d) \/ PushAnnounce(d)
    \/ Fetch(d) \/ Apply(d) \/ Save(d) \/ Update(d)

Failure(d) ==
    Skip(d) \/ CycleFails(d) \/ AnswerLost(d) \/ Unlink(d) \/ Unwatch(d)

Next ==
    \/ WebEdit \/ WebAnnounce \/ SilentWebEdit
    \/ \E d \in Devices :
        \/ \E r \in Rows : LocalEdit(d, r) \/ SilentEdit(d, r)
        \/ Notify(d) \/ Due(d) \/ Receive(d)
        \/ Cycle(d) \/ Tick(d) \/ Failure(d)
        \/ Link(d) \/ Watch(d) \/ Report(d)
        \/ Refetch(d) \/ ShowStatus(d) \/ Focus(d)

Spec == Init /\ [][Next]_vars

(* Handlers that committed go on to notify, a worker that is signalled,    *)
(* that the ticker calls or that is in a cycle goes on, events that were   *)
(* sent are received, sockets are opened again, minutes end.  No promise   *)
(* that anybody opens or looks at a window.                                *)
TickFairness ==
    /\ WF_vars(WebAnnounce)
    /\ \A d \in Devices :
        /\ WF_vars(Notify(d)) /\ WF_vars(Receive(d)) /\ WF_vars(Link(d))
        /\ WF_vars(Cycle(d)) /\ WF_vars(Tick(d)) /\ WF_vars(Due(d))

TickSpec == Spec /\ TickFairness

-----------------------------------------------------------------------------
(* Properties                                                              *)

TypeOK ==
    /\ setup \in Setups
    /\ edits \in Nat /\ faults \in Nat /\ announcing \in Nat
    /\ due \in [Devices -> SUBSET Rows]
    /\ waiting \in [Devices -> SUBSET Rows]
    /\ quiet \in [Devices -> SUBSET Rows]
    /\ notifying \in [Devices -> Nat]
    /\ signal \in [Devices -> BOOLEAN]
    /\ stage \in [Devices -> Stages]
    /\ sending \in [Devices -> SUBSET Rows]
    /\ fetched \in [Devices -> BOOLEAN]
    /\ behind \in [Devices -> BOOLEAN]
    /\ missed \in [Devices -> BOOLEAN]
    /\ linked \in [Devices -> BOOLEAN]
    /\ queue \in [Devices -> 0..Buffer]
    /\ stale \in [Devices -> BOOLEAN]
    /\ unseen \in [Devices -> BOOLEAN]
    /\ watching \in [Devices -> BOOLEAN]
    /\ updates \in [Devices -> Nat]
    /\ statuses \in [Devices -> Nat]
    /\ \A d \in Devices : updates[d] + statuses[d] <= Buffer

(* A due entry that a request left has a wake-up on its way to the worker: *)
(* its middleware, the bus, which holds one reason and drops the others,   *)
(* the echo of a push that took a full batch, or that push itself.  Only   *)
(* silent writers, failed or skipped cycles, a socket that is down, and    *)
(* the end of an entry's minute leave entries to the ticker.               *)
EditsHaveSignal ==
    \A d \in Devices :
        due[d] \subseteq quiet[d]
            \/ notifying[d] > 0 \/ signal[d] \/ queue[d] > 0
            \/ stage[d] \in {"pushing", "announcing"}

(* A device that lacks rows has the news of them on its way: about to be   *)
(* published, queued, on the bus, or in a cycle that has not pulled yet,   *)
(* however many events the full queues dropped.  The rows of the server's  *)
(* silent writers, and those whose news met a closed socket or a cycle     *)
(* that failed, count as missed.                                           *)
NewsOnItsWay ==
    \A d \in Devices :
        behind[d] =>
            \/ announcing > 0
            \/ \E e \in Devices : stage[e] = "announcing"
            \/ queue[d] > 0 \/ signal[d]
            \/ stage[d] \in {"pushing", "pulling"}

(* A screen that does not show the store has a sync_updated on its way,    *)
(* though status events share its queue: one that was dropped because the  *)
(* queue was full is made good by an earlier one waiting there, or its     *)
(* rows count as unseen, with those of silent writers, of a stream that    *)
(* was down, and of a cycle that failed to save its cursor.                *)
ScreenWillHear ==
    \A d \in Devices :
        stale[d] => stage[d] \in {"saving", "updating"} \/ updates[d] > 0

(* Devices do not keep each other awake: a push is echoed to its own       *)
(* device and to the others, and the cycles that follow announce nothing,  *)
(* so once the edits stop no worker is signalled again, tick as it may.    *)
EchoesDie == <>[][\A d \in Devices : signal'[d] => signal[d]]_vars

(* The outbox is empty, and the store has all of the cloud's rows.         *)
CaughtUp(d) ==
    /\ due[d] = {} /\ waiting[d] = {} /\ sending[d] = {}
    /\ ~behind[d] /\ ~missed[d]

(* With the ticker every wake-up that was lost or never sent is made good, *)
(* batch after batch: once the edits stop, every device that runs has all  *)
(* there is and keeps it.                                                  *)
StoresCatchUp == <>[](\A d \in Devices : stage[d] # "off" => CaughtUp(d))

=============================================================================

# Taskify in TLA+

Taskify is a task board and a personal ledger. The desktop application is a
React screen, a Go sidecar with an HTTP API on localhost and a SQLite store; the
web application talks to the same Go program running as a server over Postgres.
The desktop works offline and synchronises by Last Write Wins
(`src/README.MD:18,117`). The modules in this directory model the parts of it
where the order of steps matters: synchronisation, the session it runs under,
the channels that start it, the books of the accounts and credit cards, the
payables and their cycles, the boards as concurrent requests change them,
signing in and out, the alerts of due bills, and the arithmetic on dates.

Paths below are relative to `src/`; `services/` is
`backend/internal/core/services/`, `repositories/` is
`backend/internal/adapters/repositories/`.

## 1. The system

| component | state | operations | interacts with |
|---|---|---|---|
| Outbox sync engine, `services/http_sync_service.go`, `backend/cmd/sqlite.go` | rows and `sync_outbox` (SQLite), cursor in `sync_state` | triggers that enqueue a row; `syncOnce`: push due entries, clear them, pull, apply, save the cursor | remote sync API; repositories (the triggers fire in their transactions) |
| Remote sync API, `services/remote_sync_service.go` | Postgres rows | `PushChanges`, `PullChanges` | every sidecar; the web API writes the same rows |
| Remote session, `http_sync_service.go`, `services/user_service.go` | token pair in memory and in `sync_runtime_flags`, `refresh_tokens` on the server | login, refresh, restore, persist, clear | sync worker, realtime client, login and logout handlers |
| Wake-up channels, `sync_signal_bus.go`, `sync_event_hub.go`, `user_realtime_hub.go`, two middlewares, `remote_realtime_client.go`, `sync_worker.go`, `useSyncEvents.ts` | bounded Go channels, sockets, event streams | notify, publish, receive, reconnect, tick | worker cycles, screens |
| Boards, columns and tasks, `services/board_service.go`, `task_service.go`, both repositories | rows with positions and tombstones | create, edit, move, delete with cascade | sync |
| Accounts, transactions, ledger, `financial_account_service.go`, `transaction_service.go` | `financial_accounts`, `transactions`, `ledger_entries` | create, edit, delete | cards, payables, notifications |
| Payables, `transaction_service.go` | pending expenses in `transactions`, `account_payable_payments` | list what is due, pay a cycle, edit, delete | accounts, notifications, sync |
| Credit cards and statements, `services/credit_card_service.go`, daily worker | `credit_card_statements`, their items, `credit_card_payment_allocations` | project, reconcile, pay | accounts, transactions |
| Notifications, `services/notification_service.go`, `backend/cmd/notification_worker.go` | alert rows with a read mark | the periodic check, mark as read | payables, statements; sync |
| Avatar storage, `backend/cmd/avatar_storage_worker.go` | one table of jobs | upload of queued jobs | users |
| Users and local authentication, `user_service.go`, `handlers/system_handler.go` | users, local tokens, the local store | sign up, sign in, hydrate, sign out, purge | session, engine |
| Frontend session, screens, Tauri shell | keychain, local storage, query cache | refresh, render, start the sidecar | API |

`backend/cmd/main.go:58-289` wires them: on a desktop with `REMOTE_API_URL` the
sync worker, the realtime client, the notification worker and the statement
worker run as goroutines beside the HTTP handlers; with `ENV=production` the
server side of synchronisation does. `SyncService` (direct Postgres) and
`remote_change_listener.go` are no longer wired.

What is hard, and what makes each part correct:

* **Engine.** A row is edited while its copy is being pushed, the answer is
  lost, the sidecar dies between two SQLite statements, an answer is cut at its
  limit, a commit lands behind a cursor. Correct when no edit leaves the outbox
  before the cloud has it, no version is skipped by a cursor, no replica goes
  back in time, and all settle.
* **Tables with foreign keys.** An answer is read table by table while the web
  edits. Correct when a device never holds what the cloud never had and every
  refused answer is followed by one that is accepted.
* **Session.** Several goroutines rotate one token without a lock. Correct when
  what is kept is what the server accepts, and is gone after sign-out.
* **Channels.** Every send may be dropped. Correct when a dropped wake-up is
  covered by another and devices do not wake each other for ever.
* **Books.** Requests read, compute and write later; accounts and cards are
  deleted under them. Correct when the ledger explains the balance, the
  statements are those of the transactions, and no debt is paid twice.
* **Payables.** A payment advances the row to the first unpaid cycle, from a row
  and from paid cycles read before. Correct when a cycle is paid once, no cycle
  is passed over, and what the list offers can be paid.
* **Boards.** Handlers renumber, move and write whole rows from what they read.
  Correct when columns keep an order, a deleted board takes its rows along, and
  an answered edit lasts.
* **Accounts of a device.** One session and one cursor for whoever signs in.
  Correct when nothing behind the cursor is missing and sign-ins do not mix.
* **Notifications.** The same alert is made on several nodes and synchronised.
  Correct when a due bill is announced and what was read stays read.
* **Dates.** Months differ in length and stamps in length of text. Correct when
  cycles meet, instalments come in turn, and the later stamp wins.

`PROJECT.json` lists the components and the hazards at their lines.

## 2. The modules

| module | models | lines of the code |
|---|---|---|
| `SyncEngine` | synchronised rows, many desktops, the cloud | `syncOnce`, `PushChanges`, `PullChanges`, the triggers, the start-up backfill |
| `LWWReplicas` | abstract: replicas that only move to newer versions | none (what `README.MD:117` promises) |
| `SyncRefinesLWW` | `SyncEngine` with the mapping to `LWWReplicas` | |
| `BoardPull` | three tables with foreign keys, one puller, web and another desktop | `PullChanges`, `applyPulledChanges`, board and task services |
| `RemoteSession` | tokens of the sidecar and of the server | `http_sync_service.go`, `RefreshSession`, `Rotate` |
| `SyncWakeups` | who wakes whom, and who wakes nobody | the hubs, the bus, the middlewares, the workers |
| `CardPayments` | a cash and a card account, ledger, statements | transaction, account and card services |
| `Payables` | one payable, its cycles and their payments | `transaction_service.go`, the repositories' `CreatePaymentCycleAndUpdate` |
| `Workspace` | boards, columns and tasks of one store, under concurrent requests | board and task services and handlers, both repositories |
| `Accounts` | one desktop, its users and the cloud | `user_service.go`, `system_handler.go`, sign-out on the screen |
| `Notifications` | alerts on the server and on desktops | notification service and worker, repositories |
| `Calendar` | billing cycles, due dates, instalments, stamps as text | `credit_card_service.go`, `domain/credit_card.go`, `transaction_service.go`, `sync_service.go` |
| `Sums` | the sum of a sequence, for `CardPayments` and `Calendar` | |
| `MC*` | what TLC needs: symmetry, the accounts of cards, the setups | |
| `*_proofs` | TLAPS proofs; those about `Calendar` are in `CardPayments_proofs`, those about `Notifications` in `Payables_proofs` | |

`SyncRefinesLWW` composes `SyncEngine` and `LWWReplicas`. `BoardPull` and
`SyncWakeups` are different abstractions of the same engine: one keeps the
references between rows, the other which entries are due and whether something
is behind or unseen.
`Workspace` is one store without synchronisation, `BoardPull` the synchronisation
without overlapping requests; `Accounts` takes the cycle of `SyncEngine` as one
that pulls, or fails; `Payables` and `CardPayments` share the transactions table,
each keeping the rows the other does not look at.

### SyncEngine

A row version is its `updated_at`: a stamp, the only thing replicas compare.
`server`, `local[d]` map a row to its stamp (0: no such row); `outbox[d]` maps it
to the state of its entry; `cursor[d]` is `sync_state`. A cycle is a program
counter `stage[d]` with what the cycle carries (`batch`, `pulled`, `until`).
Actions are the atomic steps of the code: `BeginCycle` (cursor, due entries,
copies), `PushSucceeds`/`PushRefused`/`PushLost`/`PushAnswerLost`, `ClearEntry`
(one DELETE per entry), `Pull`, `Apply` (one SQLite transaction), `SaveCursor`
(a statement of its own), `Abort` (any early return), `Restart` (the sidecar dies
and is launched again). `LocalEdit` is the repository's transaction with its
triggers; `WebStamp`/`WebCommit` are the two ends of a web request. `Guarded`
rows belong to tables whose UPDATE compares stamps; `Refused` are rows the
server rejects.

`Accounts` are the rows of `financial_accounts` that mirror a credit card, and
`CardOf` says whose. The two are created, edited and deleted together
(`Touched`, `Written`), the account alone when its balance moves. Opening the
database at every start writes each live card into its account with the card's
`updated_at`, and the outbox triggers are in place by then
(`backend/cmd/sqlite.go:93`): `Restart` sets such accounts to the card's stamp
and queues them. Which cards are live is left open.

`overtaken` and `skipped` are history. They record the two places where the
protocol loses something: an entry deleted for an older copy, and a version that
fell behind a cursor. Invariants say "except as recorded", which is a
claim that there is no third place, and `SyncLostEdit` shows the first.

### BoardPull

Each board has one column and one task. `cloud`, `local`: stamp and tombstone of
each row. `ReadTable` is one query of `PullChanges`; the web may act in between.
`Selected` is the scoped query with the join that hides the columns of dead
boards. `Apply`/`Refuse` is the SQLite transaction with deferred foreign keys.
`OfflineSave`/`Push` is another desktop with stamps older than its push.

### RemoteSession

A token is its user and the second it was issued: refresh tokens carry no
identifier, so two of one user in one second are the same string and the unique
index refuses the second (`Fresh`, `CanIssue`). Each goroutine is at a stage of
`refreshRemoteTokens` or of the login, which run without a lock around
the whole. `Check` and `Rotate` are the two statements of the server.
A login may come from any user at any time. The restore handler reads the saved
pair whatever is in memory (`RestoreRequest`), or installs and saves the pair
that its request carries (`RestoreSupplied`), which may be any the server ever
issued. `disturbed` is history: two operations overlapped, a new token was lost, a
request brought a pair that was not the user's or not good any more, or a user
signed in over another one's session.

### SyncWakeups

An outbox entry is `due`, in the cycle's batch (`sending`) or `waiting` for its
next attempt. `Batches` is the LIMIT of the query: which of the due entries it
takes is left open. Mutations of both APIs are followed by their middleware
(`LocalEdit`/`Notify`, `WebEdit`/`WebAnnounce`); `SilentEdit` and `SilentWebEdit`
are the notification and statement workers, the GET handlers that reconcile, and
requests that fail after a commit, which signal and publish nothing. A device
that is not `running` is `off` and misses what the others do. Publishing to a full
queue drops. The screen's queue holds `updates` and `statuses`
together, and only `updates` make it fetch; their order is left open. `Save` sends
the status of a good cycle, `Update` the event of one that changed rows, `Report`
the status events of the sign-in and restore handlers.

Three facts are split in two, so that the invariants can speak of the half that
somebody announced: rows a device lacks are `behind` or, if their news was lost or
never sent, `missed`; rows a screen lacks are `stale` or `unseen`; due entries that
a silent writer, a failed or skipped cycle, a closed socket or the clock left
without a signal are `quiet`. Dropping from a full realtime queue or a full bus
moves nothing from one half to the other, because it must not matter; dropping
`sync_updated` from the screen's queue does, unless an earlier one waits there.

### CardPayments

`opening`, `balance` are columns of the account rows, `ledger` is the sum of the
account's entries. `charged[c]` is the sum of the card's live expenses of cycle
`c`, `payments` its payments with the number of cycles closed when they were
made. `bill` and `alloc` are the statement and allocation rows. A request is a
record in `req`: what it has read. `BeginTransaction`/`CommitTransaction` are
`prepareAccountedTransactions` and `CreateManyWithLedger`;
`BeginEdit`/`CommitEdit` are the read and the write of `UpdateAccount`;
`BeginView`/`Reconcile` are a screen's or the worker's reconciliation;
`BeginPayment`/`ReadTransactions`/`Reconcile`/`ApplyPayment` are
`PayCreditCardDebt`. Each write is one database transaction, as in the code.
`DeleteAccount` and `DeleteCreditCard` are deletions of two different rows (`gone`,
`listed`): a card is a row of `credit_cards` and one of `financial_accounts`.
`Allocations` is `projectCreditCardStatements`, cycle by cycle (`AllocatedAt`:
the payments made in one, in their order), `Applied` is `allocatePayment`: two
computations of the same thing that have to agree. `CashChecked` says which
database it is: SQLite has a CHECK on the balance of cash
(`backend/cmd/sqlite_schema.go:136`), Postgres has none
(`backend/cmd/postgres_schema.go:84-101`).

### Payables

`payable` is the row in `transactions`: next due date, recurrence, cycles left
(-1: for ever), status, stamp. `paid` is `account_payable_payments`, unique by
cycle; `spent` counts the live payment transactions of each. A payment is
`BeginPay` (read and check), `ReadPaidCycles` (another query, and `Advance`
computed from it) and `CommitPay` (one transaction: payment, cycle, guarded
update; a cycle that exists rolls it all back); `GiveUp` is any failure between.
`BeginUpdateAccountPayable`, `BeginUpdateTransaction` and `CommitUpdate` are the
two edits, which write a whole row. `GetPayables` is the list with its horizon,
`Shown` what a reader west of UTC makes of a date. `plan`, `raced`, `overwritten`
and `refunded` are history: what the user last saved, and where the guard let a
payment's row be lost, or write over another.

### Workspace

Rows are records with stamp and tombstone. Each handler that reads and later
writes is a request in `req`, which holds what it read: `BeginMoveColumn`,
`ListColumns` and `CommitMoveColumn` are the two reads and the write of
`MoveColumn`; `ReadTask`, `TouchTask` (or `RefuseTask`) and `CommitTask` are the
read, the check of the column with the new stamp, and the guarded UPDATE of every
task edit. `Updates` is that guard; columns have none. `store` says which
repository it is: `Removes` is how they differ. History says which boards
had columns written from a stale list (`raced`), which rows were written while
their board went (`late`), which tasks had overlapping edits (`contested`), and
what the answered requests asked for (`intended`).

### Accounts

A sign-in is a counter with what it has learnt: `BeginSignIn` against the store
(answer at once and go on in the background), `AuthenticateRemote` (which sets
`session`), `GetRemoteProfile` (of the session that is set *by then*), `Hydrate`,
`InitialSync`, `Answer`. `cycle` is the one synchronisation cycle, started by a
sign-in or by the worker: `Pull`, `Apply`, `Save`. `SignOut` leaves two calls
under way, `ClearSession` and `PurgeSQLite` (or `RefusePurge`); the cycle does
not wait for either. `missed` records accounts past whose rows the one cursor
moved, `overlapped` those whose session was set inside another sign-in.

### Notifications

An alert is a bill and a day, which is its identifier: repeating the check adds
nothing on a node. `BeginCheck` reads the payables, `Create` inserts one alert,
`ReadStatements` is the second query, `FailCheck` any error. `Synchronise` copies
the newer of two stamps. `recreated` records alerts that a node made after
another had made them.

### Calendar

The state is a date that passes day by day, one purchase and the fraction of a
second; the operators are the functions of the code (`StatementCycle`,
`CurrentBillingCycle`, `PaymentDueDate`, `Instalments`, `Stamp`, `TextBefore`).
The invariants compare them with what they are for. `Calendar` and
`Notifications` name their specifications `CalendarSpec` and `AlertsSpec`, with
`CalendarNext`, `alertVars` and so on, so that a module of proofs can extend them
beside `CardPayments` and `Payables`.

## 3. The runs

| run | asks | bounds |
|---|---|---|
| `SyncSafety` | is no edit forgotten, no row skipped except as recorded; what enters an outbox; what takes a row back to an older version | 2 devices (interchangeable), web, a card, its account, and a row the server refuses; batch and answer of 1, 2 edits, 2 faults |
| `SyncLiveness` | is it a last-writer-wins store; do outboxes drain and copies converge; does a new device catch up | 2 devices, 2 rows without accounts, answers not cut, 2 edits, 1 fault |
| `BoardPull` | can a device hold what the cloud never had; do pulls go on succeeding | 1 board with its column and task, 5 edits |
| `Session` | do memory, keychain and server agree; do dead tokens go; is a good saved session taken up | 1 user, 2 refreshers, 1 goroutine of logins and restores, 2 seconds, 1 fault |
| `Wakeups` | does what a request left, changed or announced have its wake-up; do echoes stop; does everything arrive in the end | a desktop with its window that writes 2 rows, or 2 devices without windows of which one writes 2 rows and one of them 1; the web; batches and queues of 1, 2 edits, 1 fault |
| `CardPayments` | do ledger, balances, statements and allocations agree, also when the account or the card is deleted | 2 requests, 2 cycles, amounts of 1, 2 transactions, 1 edit or deletion, 2 payments, no CHECK |
| `Payables` | is a cycle paid once, none forgotten, none stuck; is what is listed payable and counted once | 2 requests, 4 months, 1 due day, a limit of 2 or none, 1 edit, 3 payments, readers at and west of UTC |
| `Workspace` | do columns keep their order, do boards take their rows, do edits last, does nothing go back | both stores, 1 board, 1 task, 4 columns of which 3 exist, 2 requests at a time, 3 in all |
| `Accounts` | is anything behind the cursor missing, do sign-ins mix | 2 users, 2 sign-ins at a time and in all, 3 instants of the cloud |
| `Notifications` | does what is read stay read, is every due bill announced | the server and a desktop, an overdue payable and a statement due on the last of 2 days, 1 read, 1 failed check |
| `Calendar` | do cycles meet, do instalments come in turn, does the later stamp win | cut-offs 1, 15, 28 to 31, payment days 1, 20, 30, 31; 16 months from December 2023, with a leap February and one that is not; 3 and 12 instalments of 1000 cents; hundredths of a second |
| `SyncLostEdit` | violated: every edit reaches the server | 1 device, 1 row, 2 edits |

Why the bounds are enough to meet the cases: with a batch and an answer of one
row, two rows are already "more than fits"; two edits of one row are needed for
an edit during a push, and two devices plus the web give every pair of writers;
two faults allow a lost answer followed by a crash. Batches of one make two
entries a full batch with a rest; with one place in the screen's queue a status
event fills it, or a `sync_updated` that covers a dropped one; two announcements
overfill the realtime queue; two devices are an echo and its answer. Two billing
cycles are needed for an old statement with a newer one behind it (the double
payment is only possible when the card's balance holds charges of a later cycle); two requests give every
overlap of a payment with a payment, a reconciliation, a charge or an edit.
Four months with payments of three cycles let one payment overtake another and
the row come to rest on a paid cycle; three requests on a board give a move
beside a move with a deletion in between; three instants of the cloud give a row
of each of two users and one more behind the other's cursor. Hundredths of a
second show every relation between two fractions that nine digits have (equal,
prefix, not a prefix), and 1000 cents divide neither by 3 nor by 12. Each
property of a passing run was also seen to fail when one mapped definition is
changed as a plausible bug would change it (the operators marked "Mutant of").

### Bounds and abstractions of each model

* `MaxStamp`, `MaxClock`, `MaxSeconds`, `MaxEdits`, `MaxFaults`, `MaxCreated`,
  `MaxChanged`, `MaxPayments`, `Months` end the behaviours. In `BoardPull`,
  `MaxClock` also lets time stop, so that "for ever" is about a quiet cloud.
* `SyncEngine`: one web request in flight; a local edit is stamped
  and committed at once; all machines read one clock and every edit has an
  instant of its own (equal stamps and clock skew are left out, both only make
  Last Write Wins worse); a soft delete is a version like another. Equal
  stamps mean equal rows, except for accounts after a restart, whose balance may
  differ under the card's stamp. Only `SyncSafety` has accounts: a restart that
  dates one back is no step of a last-writer-wins store.
* `BoardPull`: one column and one task per board; deletions by the other desktop
  are left out, its saves may revive a row.
* `RemoteSession`: a second user is left to the proof of `SessionUsable`, which is
  for any set of users; tokens do not expire with time; a server never goes on
  after its client has given up; the two requests of the screen's sign-out are
  one.
* `SyncWakeups`: what a device lacks is one fact for all rows; restarts are left to
  `SyncEngine`; nobody promises that the user looks at the window (`Focus` has no
  fairness). `Setups` says which devices run, have a window, and write which rows;
  the run begins from either of two of them (`Scenes` of `MCSyncWakeups`), because
  the screens do not influence the rest. Two devices with windows are covered by
  the proofs, which are for any setups.
* `CardPayments`: one cash and one card account; charges are summed by cycle;
  instalments, pending and historical transactions and edited transactions are
  left out. `BeginView` reads the clock with the
  transactions, the code a moment later. Income on the card's account raises
  its balance, as `transactionDeltaForAccount` has it. Payments made in the same
  cycle are taken in the order they were committed; in the code their dates are
  read before the commit, so two of them may be swapped by a later projection.
  Edits of the limit are left out, since account and card may then differ in it.
* `Payables`: days up to the 28th, for which the next cycle is the same day of
  the next month; "monthly" stands for the other recurrences.
* `Workspace`: texts, colours, dates and priorities are the row's stamp; every
  request takes its own instant; all requests are the owner's.
* `Accounts`: a password is the user whose it is; pushes are left to `SyncEngine`.
* `Notifications`: bills are the same on every node; `Ahead` is 1 instead of 4.
* `Payables`, `Workspace`, `Accounts`, `Calendar` and `CardPayments` may stop where
  a bound, or the deletion of the only row, leaves nothing to do; deadlock is not
  looked for there. Everywhere else it is.

### Fairness

* `SyncEngine!FairSpec`: the worker's ticker (`sync_worker.go:25-46`) starts a
  cycle whenever none runs; a started cycle makes its next call, because
  requests have a timeout; `next_attempt_at` passes; a web handler that stamped
  a row commits it. Edits, faults and full pulls are promised by nobody, and
  faults are bounded: liveness speaks of the time after the last one.
* `BoardPull!FairSpec`: the cycle goes on, over all its steps as one.
* `RemoteSession!FairSpec`: a request that was sent ends; the realtime client's
  loop calls `EnsureRemoteSession` before each connection
  (`remote_realtime_client.go:28-60`).
* `SyncWakeups!TickSpec`: handlers go on to their middleware's publication, a
  signalled worker runs, realtime events are received, sockets are opened again by
  their loop, the ticker ticks, an entry's minute passes. Nobody promises an
  edit, a failure, a status event of a handler, or anything about windows.
* `Notifications!FairSpec`: each node's worker checks at its start and by its
  ticker (`notification_worker.go:12-26`), and a check that runs makes its next
  statement. Failures, payments, days and synchronisation are promised by nobody.
* `CardPayments`, `Payables`, `Workspace`, `Accounts` and `Calendar` have no
  fairness: they only say what never happens.

## 4. What the runs showed

One promise does not hold, and a run whose trace is the story shows it (`findings`
in `PROJECT.json`): an edit made while its row is being pushed is deleted from the
outbox with the copy that was pushed (`http_sync_service.go:442`; run
`SyncLostEdit`).

The other places where the code does less than it says are part of the models:
a history variable records each, and the invariant holds "except as recorded",
which claims that there is no other way to lose the same thing.

Engine and session:

* Every start dates the account of a card back to the card's `updated_at` and
  queues it (`backend/cmd/sqlite.go:108`), although a charge has moved its balance
  under a later stamp since (`Restart`; the exception in `OnlyBackfillTurnsBack`).
  A balance not pushed before the restart is then pushed as the older version;
  where the cloud has one as new it is refused as stale and its entry is deleted.
* Rows past the 500th of an answer are never sent, because the cursor takes the
  time of the whole answer (`remote_sync_service.go:205`; `skipped`). Rows
  committed with an old stamp fall behind cursors in the same way.
* One refused row keeps its whole batch from the cloud
  (`http_sync_service.go:427`; `Refused`).
* After a board was deleted its tasks are sent without their columns, and
  a device that never had them refuses every later answer
  (`remote_sync_service.go:190`; `Blocked`).
* A refresh or login that ends after sign-out brings the session back
  (`http_sync_service.go:796`); two overlapping refreshes may end with none
  (`disturbed`). A relaunch may find a spent token in the keychain, and a restore
  request may put one there (`system_handler.go:309`).
* The event stream's reconnection fetches nothing. Status events can fill the
  screen's queue and push `sync_updated` out (`sync_event_hub.go:46`), and after a
  failure to save the cursor no cycle sends it at all
  (`http_sync_service.go:352`); the window shows the rows when the user comes back
  to it (`unseen`).
* The notification and statement workers and the GET handlers that reconcile
  wake nobody: their rows wait for the next cycle, five minutes at most
  (`quiet`, `missed`). What a full batch leaves in the outbox is sent because the
  server announces the push to its own device; with the socket down it waits
  for the ticker too.
* Updates of columns and accounts on the web do not compare stamps (`Guarded`).

Books and cards:

* Two payments of one statement both pass: the second reconciles from a
  snapshot without the first, which resets the amount the optimistic check
  compares (`credit_card_service.go:191`; `stale`).
* On Postgres a cash balance driven below zero by two concurrent expenses makes
  the account unreadable, and the row is one SQLite refuses (`raced`).
* `UpdateAccount` writes over a movement committed since its read
  (`overwritten`); deleting a transaction gives back neither balance nor ledger
  entry (`deleted`). Balances are merged by Last Write Wins like any row, while
  the ledger entries of two devices add up.
* `DeleteAccount` of a card's account leaves the card listed, and its payments
  refused; a movement checked before the deletion enters the ledger without
  moving the balance. `UpdateAccount` and `UpdateCreditCard` may set different
  limits.

Payables:

* `GetPayables` formats UTC midnights in the reader's zone: west of UTC it shows
  the day before, which `isValidPayableCycleDate` refuses
  (`ListedCanBePaid` holds for `shift = 0` only); `statementCycleForDate` shifts
  alike.
* A payment whose guarded UPDATE matches no row is answered 204 all the same
  (`raced`); a payment that began before the user saved the payable may
  advance it past cycles of the new plan (`overwritten`).
* Deleting a payment leaves its cycle paid (`refunded`). The check of a cycle
  ignores how many are left. Instalments are listed with the payables.
* `AddDate(0, 1, 0)` on days 29 to 31 skips February and stays on the later day.

Boards and tasks:

* SQLite deletes the columns and tasks of a board even if the board's own row was
  renamed meanwhile and stays; Postgres does not (`Removes`).
* Rows are deleted softly, so `ON DELETE SET NULL` never fires: tasks of a
  deleted column keep pointing at it and the screen shows them nowhere
  (`kanban-board.tsx:497`).
* A rename of a column writes back the position it read; a new column gets the
  count of columns as its position, which after a deletion is taken (`raced`).
* Of two overlapping edits of a task one is answered 204 and lost (`contested`);
  rows may be created under a board that has just been deleted (`late`).

Accounts of a device:

* One session and one pull cursor serve whoever signs in
  (`user_service.go:268-297`): another account's cycle moves the cursor past
  rows of the first (`missed`).
* A profile is asked of whatever session is set by then (`overlapped`).
* The sidebar's sign-out never purges (`sidebar.tsx:483`), though `README.MD:351`
  says so; the other sends the purge with the token that was just refused. The
  purge does not take the cycle's mutex, so a cycle may save its cursor into the
  emptied store, and a background sign-in may put the account back.
* The "fallback to local cached credentials" is reached only when the store has
  refused them already.

Notifications and dates:

* The same alert is made on the server and on a desktop; the later copy takes the
  read mark away (`recreated`).
* A due statement of a deleted account has no name; reading it fails, which stops
  all card alerts, on the server those of every user (`Unreadable`).
* An alert's day is that of the node's zone.
* Stamps are compared as RFC3339Nano text, whose fraction is cut of its zeros: an
  earlier stamp that is the beginning of the later counts as the later.
  Postgres keeps microseconds, so a pulled copy may look newer than its own
  stamp; that does no harm.
* Instalments of a purchase after the 28th may meet in one statement, or skip
  one. Two statements fall due together in a February when
  28 <= cut-off < payment day.

## 5. The proofs

All are checked by TLAPS for every value of the constants that the named
assumptions allow.

| module | theorem | says |
|---|---|---|
| `SyncEngine_proofs` | `TypeCorrect` | `TypeOK` |
| | `NoEditForgotten` | `UnsyncedIsQueued` |
| | `NoGapBehindCursor` | `CursorCoversServer` |
| | `PulledRowsStayOut` | `OnlyOwnEditsAreQueued` |
| | `EditsAreNotTakenBack` | `OnlyBackfillTurnsBack` |
| | `EngineIsLWW` | `ImplementsLWW`, where every UPDATE compares stamps (`Guarded = Rows`) |
| `RemoteSession_proofs` | `TypeCorrect` | `TypeOK` |
| | `UndisturbedSessionUsable` | `SessionUsable` |
| `SyncWakeups_proofs` | `TypeCorrect` | `TypeOK`, no queue outgrows its capacity, whatever shares it |
| | `NewsNeverDropped` | `NewsOnItsWay` |
| | `SignalsNeverLost` | `EditsHaveSignal` |
| | `ScreensHear` | `ScreenWillHear` |
| `CardPayments_proofs` | `LedgerExplains` | `BalanceExplained` |
| | `CheckedIsCovered` | `CoveredUnlessRaced` |
| | `CardTypes` | `TypeOK` |
| | `PaidAsAllocated` | `PaidIsAllocated` |
| | `DebtOwed` | `DebtIsOwed` |
| | `StatementsStaySettled` | `StaysSettled` |
| | `CyclesAlwaysMeet` | `CyclesMeet` of `Calendar` |
| | `InstalmentsComeInTurn` | `InstalmentsInTurn` of `Calendar` |
| | `LaterStampsAreGreater` | `StampsInOrder` of `Calendar` |
| `Payables_proofs` | `TypeCorrect` | `TypeOK` |
| | `CyclesSettledOnce` | `SettledOnce` |
| | `ListsWhatCanBePaid` | `ListedCanBePaid` |
| | `WaitsOnlyAfterRace` | `StuckOnlyAfterRace` |
| | `NoDebtForgotten` | `NothingForgotten` |
| | `ExpenseCountedOnce` | `CountedOnce` |
| | `ReadMarksStay` | `ReadStaysRead` of `Notifications` |
| `BoardPull_proofs` | `CopiesArePast` | `LocalIsPastCloud` |
| `Accounts_proofs` | `TypeCorrect` | `TypeOK` |
| | `SignInsAreSeparate` | `SignInsDoNotMix` |
| | `CursorIsEnough` | `RowsUpToCursor` |
| `Workspace_proofs` | `TypeCorrect` | types, and what each request holds |
| | `RowsAdvance` | `RowsOnlyAdvance` |
| | `AnsweredEditsLast` | `EditsKept` |
| | `DeletedBoardsAreEmpty` | `BoardTakesItsRows` |
| | `ColumnsStandApart` | `ColumnsInOrder` |
| | `MovesPutInPlace` | `MovesKeepOrder` |

`TypeOK` of the session, channels, payables, accounts and cards is not run as an
invariant: a type says little, and the proof covers it.

The arguments:

* *No edit forgotten.* `UnsyncedIsQueued` is not inductive: when `ClearEntry`
  deletes an entry one must know that the server has the copy the entry stood
  for. `QueueInv` adds `StampsBounded`: a batch holds copies no newer than the
  store's, and while entries are being cleared the server holds at least them.
* *No gap.* `SaveCursor` makes a promise about rows pulled three steps earlier.
  `CursorInv` states for a cycle that has pulled, or applied, that a version
  inside the answer's window is in the answer, in the store, or recorded; a
  commit that lands in the window meanwhile is recorded by `LandsBehind`.
* *Nothing taken back.* `OnlyBackfillTurnsBack` follows from the shape of `Apply`
  and `LocalEdit` once stamps are bounded by the clock (`StampsBounded` of
  `QueueInv`): a merge keeps the later stamp, an edit takes a new one, and
  `Restart` is the exception named.
* *Refinement.* `LocalEdit` is a `Write`, `WebStamp` a `Hand`. Every other step is
  a `Transfer`: the clock stands, each store keeps its version or `Adopts` a newer
  one in transit, and what travels afterwards travelled or was stored before.
  `TypeOK` is the only invariant this needs; an unguarded web UPDATE breaks it,
  and so does a restart that dates an account back, hence the hypothesis, which
  with `AccountsAssumption` leaves no accounts.
* *Session.* `SessionInv` says that undisturbed at most one goroutine is under
  way (`OneBusy`) and, for each of its stages, what it holds: the
  token in memory before the rotation, the valid one after.
* *Wake-ups.* Publishing to a full queue keeps the queue non-empty, which is all
  `NewsOnItsWay` needs. For `EditsHaveSignal` a batch that leaves something must
  not be empty (`BatchTakesSome`): then the push is under way, and its
  publication puts an echo in the pusher's own queue. `SignalInv` adds that a
  batch exists only while it is pushed, so a cycle that fails later puts nothing
  back. `ScreenInv` adds to `ScreenWillHear` that a cycle between its commit and
  its event counts only if it fetched something: one that changed nothing sends
  none.
* *Books.* `AccountInv` adds what a request remembers: a checked movement fits
  the balance that was *seen*, so if the balance has not moved since it still fits;
  an edit remembers whether what it saw was itself explained. Between them
  the ledger and the rows move together whatever the interleaving. Deletions
  keep it, because they write neither balances nor entries.
* *Sums and induction.* The sums and the allocation are recursive functions. The
  library's induction theorems cannot be used here, but its theorem that finite
  sets are well-founded under inclusion can: applied to intervals it gives that
  a set of numbers has a least one (`LeastNumber`), hence induction over a *set*
  of numbers (`Inductive`). From it follow that such a function exists
  (`SumsExist`, `PaymentsInTurn`), that two of them that go on alike are alike
  (`SameCourse`), and the usual facts about sums.
* *Statements.* `CardInv` is `TypeInv`, `PaidIsAllocated` and, while nothing has
  spoilt the books (`Sound`), `SoundBooks`: the payments that exist are spread
  over the statements, all of each, in statements closed when it was made
  (`Spread`); expenses less payments are no more than the card's ledger; and what
  a payment was computed from is a beginning of what the tables hold
  (`FollowsFrom`). The lemmas about the algorithm are that, whatever the snapshot,
  it pays the oldest statement first and none more than it bills
  (`AllocationsGreedy`), and that it uses up payments for which there was room when
  they were made (`AllocationsSpend`). `DebtIsOwed` follows: the payments found room once, as the
  rows show, so they find it in the projection. For `StaysSettled` one more
  payment extends the allocation by `Applied` of what was outstanding
  (`LastPayment`), and if another payment came before, some statement that the
  late one would change has another amount paid than it was computed from, so
  `StatementsUnchanged` refuses it (`OthersShow`): the optimistic check on the
  statements it touches is enough.
* *Cycles and instalments.* Months have 28 to 31 days (`DaysInType`), and every
  date function cuts or carries a day at that number. The proofs are case
  analyses of where a day stands to the cut-off in its month and in the
  neighbouring ones. Nothing else about the lengths is needed, leap years
  included. Instalments differ by one month before the carry, and their sum is
  the first plus equal ones.
* *Stamps.* The number made of the first `i` digits (`Leading`) is ten times that
  of the first `i - 1` and a digit. Where the numbers of two fractions first
  differ, the smaller fraction has the smaller digit (`FirstDifference`); the
  larger one's digit is not zero there, so it was not cut. Either the smaller one
  has that digit too, and the texts compare by it, or its digits ended before.
* *Alerts.* `AlertsInv` says that of a copy that is read every newer one is read
  (`NewerRead`), unless the alert was made again: a copy is only replaced by a
  newer one, and a new mark or copy is newer than all (`StampsEnd`: they have a
  greatest stamp, although nobody bounds the number of desktops).
* *Payables.* Uniqueness gives `SettledOnce`. For the rest a request must be
  related to the row it read. `Stamped` says how old that is: if the row's stamp
  is still the one seen, it is still the row. `PlanKept` says that the row, and
  whatever row a request carries (`Carried`), is the user's plan `Advanced` over
  paid cycles only, one cycle of the limit for each. That the first unpaid cycle
  exists and is the least is a fact about natural numbers, taken from the
  well-foundedness theorems; it replaces induction over the loop of
  `nextUnpaidDate`. `NothingForgotten` and `CountedOnce` follow.
* *Copies.* `Past` says of the device's copy and of the answer, table by table,
  that each row is a version the cloud had: no newer stamp, and the tombstone of
  that stamp. It survives the web acting between two tables because the cloud's
  stamps only grow (`InTime`).
* *Sign-ins.* `Unmixed` says for every stage of a sign-in what it may hold, given
  whose session was set meanwhile; `CycleWhole` that between `Pull` and `Save` a
  cycle's answer, or the store, has every row up to what it will save.
* *Boards.* `Types` holds, beside types, what a request remembers: a row to be
  inserted does not exist and nobody else will insert it (`Distinct`), a row
  that was read still exists, and if its stamp is the one seen, the edit to be
  saved is the edit of the present row. So a guarded UPDATE that writes nothing
  means that somebody wrote in between, which is what `contested` records.

Assumptions: `LimitsAssumption`, `RowsAssumption`, `AccountsAssumption` (engine: a
mirroring account has a card's row of its own and an unguarded UPDATE),
`CloudAssumption` (the cloud is no desktop), `UserAssumption`,
`ProcessAssumption`, `BoundAssumption` (session), `BufferAssumption`,
`BatchAssumption`, `SetupsAssumption` (channels: room for one event, a batch of
one, windows and writers are devices that run), `MonthsAssumption`,
`AmountsAssumption`, `TableAssumption`
(books: amounts are positive, the table checks or does not), `DatesAssumption`,
`LimitsAssumption` (payables: a limit, if any, is positive), `MaxClockAssumption`,
`NoneAssumption`, `AccountsBounds` (accounts: time has begun), `RowsAssumption`
(boards: the columns a new board gets are columns), `DaysAssumption`,
`BoundsAssumption` (calendar: cut-offs and payment days are 1 to 31, a purchase
has two instalments or more). Beyond being numbers, the
bounds play no part in the arguments.

Only model-checked is all liveness, which is out of the prover's reach:
`SettlesUnlessLost`, `FreshDeviceCatchesUp`, `PullsAdvanceUnlessBlocked`,
`StaleTokensGo`, `PersistedSessionResumes`, `EchoesDie`, `StoresCatchUp`,
`DueIsAlerted`. Every invariant and action property of the passing runs has its
theorem.

## 6. Not modelled

* The avatar worker: one goroutine over one table, which runs only without a
  remote API; a job queued again during its upload is marked completed with the
  old one (`avatar_storage_worker.go:60`).
* The frontend's single-flight refresh of local tokens (`services/api.ts`), the
  rotation of local tokens, profile edits and password hashing.
* Edits of limits and days of a card, the default cash account, transactions that
  an edit moves between accounts, the filters of the summaries.
* Handlers that only decode and call their service, row scanning, rendering, the
  Tauri shell, the updater and the generated API documentation: input and output
  without a state of their own. `SyncService` and the Postgres change listener
  are not wired; what they share with `HTTPRemoteSyncService` is modelled there.

## 7. Plan

1. `AvatarJobs`: queue, upload, completion by user and by job.
2. `CardPayments` with edits of the limit, and with transactions an edit moves.
3. `Payables` under synchronisation: the unique cycle on two devices, each paid
   offline.
4. Frontend token refresh.
5. Proofs: that the liveness properties' safety parts hold, such as that what
   `DueIsAlerted` waits for cannot be undone; that `Workspace` of either store
   implements a common abstract one.

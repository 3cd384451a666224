------------------------------ MODULE Payables ------------------------------
(***************************************************************************)
(* An account payable and the payments of its cycles.                      *)
(*                                                                         *)
(* A payable is a pending expense that falls due once or every month.  Its *)
(* row holds the next due date and how many cycles are left.  Paying a     *)
(* cycle writes a payment, a row of account_payable_payments for the cycle *)
(* and the payable advanced to its first unpaid cycle, all in one          *)
(* transaction; but what is written was computed from a row and from paid  *)
(* cycles read before.  Meanwhile others pay, edit and delete.             *)
(*                                                                         *)
(* A due date is a day of the month and a month.  Days up to the 28th are  *)
(* meant, for which NextDate keeps the day; "monthly" stands for every     *)
(* recurrence.  Concepts, categories and amounts are left out.             *)
(***************************************************************************)
EXTENDS Integers, FiniteSets

CONSTANTS
    Requests,      \* requests that run at a time
    DueDays,       \* days of the month a user picks
    MaxMonth,      \* bound: months are 1..MaxMonth
    FirstMonths,   \* months a user picks for the first cycle
    Limits,        \* numbers of cycles a user picks
    Shifts,        \* days a reader's zone sets a date back: 1 west of UTC
    MaxEdits,      \* bound: edits of the payable
    MaxPays        \* bound: payments begun

Unlimited == -1

ASSUME DatesAssumption ==
    /\ MaxMonth \in Nat
    /\ DueDays \subseteq Nat \ {0} /\ FirstMonths \subseteq 1..MaxMonth
ASSUME LimitsAssumption == Limits \subseteq Nat \ {0}
ASSUME PayablesBounds ==
    MaxEdits \in Nat /\ MaxPays \in Nat /\ Shifts \subseteq Nat

VARIABLES
    payable,       \* the row of the payable in transactions
    paid,          \* due dates in account_payable_payments
    spent,         \* live payment transactions, by the cycle they paid
    req,           \* what each request holds
    clock,         \* time, as far as updated_at tells it
    edits, pays,
    plan,          \* history: the payable as its user last saved it
    raced,         \* history: a payment wrote over, or lost to, a row it had
                   \* not read
    overwritten,   \* history: ... and the user had saved that row meanwhile
    refunded       \* history: cycles whose payment the user deleted

rowVars == <<payable, paid, spent>>
boundVars == <<clock, edits, pays>>
historyVars == <<plan, raced, overwritten, refunded>>
vars == <<rowVars, req, boundVars, historyVars>>

Months == 1..MaxMonth
Dates == DueDays \X (1..MaxMonth + 1)

Idle == [stage |-> "idle"]
NoRow == [due |-> <<0, 0>>, monthly |-> FALSE, limit |-> Unlimited,
          status |-> "PENDING", stamp |-> 0, live |-> FALSE]

Init ==
    /\ payable = NoRow /\ plan = NoRow
    /\ paid = {} /\ spent = [d \in Dates |-> 0]
    /\ req = [r \in Requests |-> Idle]
    /\ clock = 0 /\ edits = 0 /\ pays = 0
    /\ raced = FALSE /\ overwritten = FALSE /\ refunded = {}

-----------------------------------------------------------------------------
(* Rows                                                                    *)

(* normalizeOptionalTransactionRecurrenceLimit                             *)
NormalLimit(monthly, limit) == IF monthly THEN limit ELSE Unlimited

(* What the handlers let a user save: a limit, if any, above zero.         *)
Requested ==
    {form \in [due : DueDays \X FirstMonths, monthly : BOOLEAN,
               limit : Limits \cup {Unlimited}] :
        form.monthly \/ form.limit = Unlimited}

(* Transaction.Update, with the time it is made                            *)
Saved(form, status, now) ==
    [due |-> form.due, monthly |-> form.monthly,
     limit |-> NormalLimit(form.monthly, form.limit), status |-> status,
     stamp |-> now, live |-> TRUE]

(* NewTransaction, which a user saves as pending.                          *)
New(form, now) == Saved(form, "PENDING", now)

(* getAuthorizedTransaction                                                *)
Authorized == payable.live

(* Reading a row stamps it: SetAccountingDetails touches the transaction.  *)
Loaded(now) == [payable EXCEPT !.stamp = now]

(* The WHERE clause of the updates: a row that is gone, or was stamped     *)
(* later, is left as it is, and nobody is told.                            *)
Updates(stamp) == payable.live /\ payable.stamp < stamp

(* Update                                                                  *)
Written(row) == IF Updates(row.stamp) THEN row ELSE payable

(* Mutant of Complete: the limit is left as it is.                         *)
CompleteKeepsLimit(row) == [row EXCEPT !.status = "COMPLETED"]

Complete(row) == [row EXCEPT !.status = "COMPLETED", !.limit = 0]

(* AdvanceRecurrence, n times: the due date moves on, the limit counts     *)
(* down, and at zero the payable is completed.                             *)
AdvanceRecurrence(row, n) ==
    [row EXCEPT !.due = <<row.due[1], row.due[2] + n>>,
                !.limit = IF row.limit = Unlimited THEN Unlimited
                          ELSE row.limit - n,
                !.status = IF row.limit # Unlimited /\ n > 0 /\ row.limit <= n
                           THEN "COMPLETED" ELSE row.status]

-----------------------------------------------------------------------------
(* Cycles                                                                  *)

(* Mutant of IsValidCycle: only the current date can be paid.              *)
IsValidCycleCurrent(row, date) == date = row.due

(* isValidPayableCycleDate: the date is one of the payable's, from its     *)
(* current one on.  The limit is not looked at.                            *)
IsValidCycle(row, date) ==
    \/ date = row.due
    \/ row.monthly /\ date[1] = row.due[1] /\ date[2] > row.due[2]

(* Mutant of FirstUnpaid: one paid cycle is passed, not all of them.       *)
FirstUnpaidOfTwo(row, cycles) ==
    IF row.due \in cycles /\ row.limit # 0 THEN 1 ELSE 0

(* Mutant of FirstUnpaid: the payable goes past the last paid cycle.       *)
FirstUnpaidPastLast(row, cycles) ==
    CHOOSE n \in 0..MaxMonth :
        /\ row.limit = Unlimited \/ n <= row.limit
        /\ \A k \in n..MaxMonth :
              \/ <<row.due[1], row.due[2] + k>> \notin cycles
              \/ row.limit # Unlimited /\ k >= row.limit

(* How many cycles advanceAccountPayableToFirstUnpaidCycle goes on: past   *)
(* those that are paid, until the payable is completed.  (It gives up      *)
(* after 1200.)                                                            *)
FirstUnpaid(row, cycles) ==
    LET Passed(n) ==
            /\ \A k \in 0..n - 1 : <<row.due[1], row.due[2] + k>> \in cycles
            /\ row.limit = Unlimited \/ n <= row.limit
    IN CHOOSE n \in 0..MaxMonth :
           Passed(n) /\ (n = MaxMonth \/ ~Passed(n + 1))

(* A payable that falls due once is completed when its date is paid.       *)
Advance(row, cycles) ==
    IF row.monthly THEN AdvanceRecurrence(row, FirstUnpaid(row, cycles))
    ELSE IF row.due \in cycles THEN Complete(row) ELSE row

(* The dates of a payable, from its current one on.                        *)
Scheduled(row) ==
    IF ~row.monthly THEN {row.due}
    ELSE {d \in {row.due[1]} \X Months :
             /\ d[2] >= row.due[2]
             /\ row.limit # Unlimited => d[2] - row.due[2] < row.limit}

(* manualFinancialPayables: what the screen shows on a day of month        *)
(* `today`: the unpaid cycles up to the first that is not overdue.         *)
Listed(row, cycles, today) ==
    IF ~row.live \/ row.status # "PENDING" THEN {}
    ELSE {d \in Scheduled(row) : d[2] <= today \/ d = row.due} \ cycles

(* GetPayables: the row and the paid cycles, as they are.                  *)
GetPayables(today) == Listed(payable, paid, today)

(* The date a reader sees: midnight of the stored day in UTC, put into the *)
(* zone of the reader and cut to a day.                                    *)
Shown(date, shift) == <<date[1] - shift, date[2]>>

(* calculateFinancialSummary skips pending transactions, and payables      *)
(* completed by their payments (isCompletedAccountPayable).                *)
CountsAsExpense(row) ==
    row.live /\ row.status # "PENDING" /\ ~(row.status = "COMPLETED"
                                            /\ row.limit = 0)

-----------------------------------------------------------------------------
(* Requests                                                                *)

Tick == clock' = clock + 1

(* CreateTransaction                                                       *)
CreatePayable ==
    /\ payable = NoRow
    /\ Tick
    /\ \E form \in Requested :
        /\ payable' = New(form, clock')
        /\ plan' = payable'
    /\ UNCHANGED <<paid, spent, req, edits, pays, raced, overwritten, refunded>>

(* PayAccountPayable reads the payable and checks it and the date ...      *)
BeginPay(r) ==
    /\ req[r] = Idle
    /\ pays < MaxPays /\ pays' = pays + 1
    /\ Authorized /\ payable.status = "PENDING"
    /\ Tick
    /\ \E date \in DueDays \X Months :
        /\ IsValidCycle(payable, date)
        /\ req' = [req EXCEPT ![r] =
             [stage |-> "read", date |-> date, row |-> Loaded(clock'),
              seen |-> payable.stamp, plan |-> plan.stamp]]
    /\ UNCHANGED <<rowVars, edits, historyVars>>

(* GetPaidCyclesByAccountPayableID                                         *)
PaidCycles == paid

(* ... then the paid cycles, and advances the payable it has read.         *)
ReadPaidCycles(r) ==
    /\ req[r].stage = "read"
    /\ LET q == req[r]
           next == Advance(q.row, PaidCycles \cup {q.date})
       IN /\ IF next = q.row THEN UNCHANGED clock ELSE Tick
          /\ req' = [req EXCEPT ![r] =
               [q EXCEPT !.stage = "computed",
                  !.row = IF next = q.row THEN q.row
                          ELSE [next EXCEPT !.stamp = clock']]]
    /\ UNCHANGED <<rowVars, edits, pays, historyVars>>

(* Mutant of IsPaid: the cycle is taken for unpaid.                        *)
IsPaidNever(date) == FALSE

(* The constraint uq_account_payable_payments_cycle.                       *)
IsPaid(date) == date \in paid

(* CreatePaymentCycleAndUpdate: the payment, its cycle and the payable, in *)
(* one transaction.                                                        *)
CreatePaymentCycleAndUpdate(date, row) ==
    /\ paid' = paid \cup {date}
    /\ spent' = [spent EXCEPT ![date] = @ + 1]
    /\ payable' = Written(row)

CommitPay(r) ==
    /\ req[r].stage = "computed"
    /\ ~IsPaid(req[r].date)
    /\ LET q == req[r] IN
        /\ CreatePaymentCycleAndUpdate(q.date, q.row)
        /\ raced' = (raced \/ payable.stamp # q.seen)
        /\ overwritten' =
             (overwritten \/ (Updates(q.row.stamp) /\ q.plan # plan.stamp))
    /\ req' = [req EXCEPT ![r] = Idle]
    /\ UNCHANGED <<boundVars, plan, refunded>>

(* ErrAccountPayableCycleAlreadyPaid, an error, a client that has gone:    *)
(* the transaction is rolled back.  (Giving up earlier is no different.)   *)
GiveUp(r) ==
    /\ req[r].stage = "computed"
    /\ req' = [req EXCEPT ![r] = Idle]
    /\ UNCHANGED <<rowVars, boundVars, historyVars>>

Edit(r, status) ==
    /\ req[r] = Idle
    /\ edits < MaxEdits /\ edits' = edits + 1
    /\ Authorized
    /\ Tick
    /\ \E form \in Requested :
         req' = [req EXCEPT ![r] = [stage |-> "saving",
                                    row |-> Saved(form, status, clock')]]
    /\ UNCHANGED <<rowVars, pays, historyVars>>

(* UpdateAccountPayable: whatever it was, it is pending now.               *)
BeginUpdateAccountPayable(r) == Edit(r, "PENDING")

(* UpdateTransaction may settle it as well.                                *)
BeginUpdateTransaction(r) == Edit(r, "PAID")

(* The whole row is written from the form, unless the row was stamped in   *)
(* the meantime; the answer is the same.                                   *)
CommitUpdate(r) ==
    /\ req[r].stage = "saving"
    /\ IF Updates(req[r].row.stamp)
         THEN plan' = req[r].row /\ raced' = FALSE /\ overwritten' = FALSE
         ELSE UNCHANGED <<plan, raced, overwritten>>
    /\ payable' = Written(req[r].row)
    /\ req' = [req EXCEPT ![r] = Idle]
    /\ UNCHANGED <<paid, spent, boundVars, refunded>>

(* DeleteTransaction of the payable: its cycles and payments stay.         *)
DeletePayable ==
    /\ Authorized
    /\ Tick
    /\ payable' = [payable EXCEPT !.live = FALSE, !.stamp = clock']
    /\ UNCHANGED <<paid, spent, req, edits, pays, historyVars>>

(* DeleteTransaction of a payment: its cycle stays paid.                   *)
DeletePayment ==
    /\ Cardinality(refunded) < MaxEdits
    /\ \E date \in Dates :
        /\ spent[date] > 0
        /\ spent' = [spent EXCEPT ![date] = @ - 1]
        /\ refunded' = refunded \cup {date}
    /\ UNCHANGED <<payable, paid, req, boundVars, plan, raced, overwritten>>

(* The request PayAccountPayable, from its date to its answer.             *)
PaySteps(r) == BeginPay(r) \/ ReadPaidCycles(r) \/ CommitPay(r) \/ GiveUp(r)

EditSteps(r) ==
    \/ BeginUpdateAccountPayable(r) \/ BeginUpdateTransaction(r)
    \/ CommitUpdate(r)

Next ==
    \/ CreatePayable \/ DeletePayable \/ DeletePayment
    \/ \E r \in Requests : PaySteps(r) \/ EditSteps(r)

Spec == Init /\ [][Next]_vars

-----------------------------------------------------------------------------
(* Properties                                                              *)

Rows ==
    [due : Nat \X Nat, monthly : BOOLEAN, limit : Nat \cup {Unlimited},
     status : {"PENDING", "PAID", "COMPLETED"}, stamp : Nat, live : BOOLEAN]

RequestStates ==
    {Idle}
    \cup [stage : {"read", "computed"}, date : DueDays \X Months, row : Rows,
          seen : Nat, plan : Nat]
    \cup [stage : {"saving"}, row : Rows]

(* Types.  The table's CHECK constraints say the same of a limit: if       *)
(* advancing took it below zero the payment would be refused.              *)
TypeOK ==
    /\ payable \in Rows /\ plan \in Rows
    /\ paid \subseteq DueDays \X Months /\ spent \in [Dates -> Nat]
    /\ req \in [Requests -> RequestStates]
    /\ clock \in Nat /\ edits \in 0..MaxEdits /\ pays \in 0..MaxPays
    /\ raced \in BOOLEAN /\ overwritten \in BOOLEAN
    /\ refunded \subseteq Dates

(* However many pay at a time, and however often a request is repeated, a  *)
(* cycle has one payment, and a cycle that counts as paid has it, unless   *)
(* the user deleted the payment.                                           *)
SettledOnce ==
    \A d \in Dates :
        /\ spent[d] <= 1
        /\ spent[d] = 1 => d \in paid
        /\ d \in paid => spent[d] = 1 \/ d \in refunded

(* No debt is forgotten: a cycle of the payable, as its user saved it, is  *)
(* either paid or listed once it is due, whoever else paid other cycles at *)
(* the time.  A payment under way when the user saved it may undo that.    *)
NothingForgotten ==
    payable.live /\ plan.status = "PENDING" /\ ~overwritten =>
        \A today \in Months : \A d \in Scheduled(plan) :
            d[2] <= today => d \in paid \cup GetPayables(today)

(* The payable waits at a cycle that is paid already, where paying "the    *)
(* current cycle" is refused, only after two payments at a time or when    *)
(* its user set it back to a paid date.                                    *)
StuckOnlyAfterRace ==
    payable.live /\ payable.status = "PENDING" /\ payable.due \in paid =>
        raced \/ (edits > 0 /\ payable.due = plan.due)

(* What the list shows can be paid as shown, in zones where the date it    *)
(* shows is the stored one.  West of UTC it shows the day before, which    *)
(* PayAccountPayable refuses (README).                                     *)
ListedCanBePaid ==
    \A today \in Months, shift \in Shifts :
        \A d \in GetPayables(today) :
            /\ IsValidCycle(payable, Shown(d, shift)) <=> shift = 0
            /\ d \notin paid

(* The financial summary counts an expense once: the payments, and the     *)
(* payable itself only when its user settled it by hand.                   *)
CountedOnce ==
    CountsAsExpense(payable) => plan.status # "PENDING" \/ overwritten

=============================================================================

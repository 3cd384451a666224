---------------------------- MODULE CardPayments ----------------------------
(***************************************************************************)
(* Accounts, their ledger and the statements of a credit card.             *)
(*                                                                         *)
(* A user has a cash account and a card account.  Each account row holds a *)
(* balance, the ledger entries of its transactions are in another table,   *)
(* and the card's statements, with the payments allocated to them, are in  *)
(* two more, recomputed from the transactions by whoever looks at them     *)
(* (Reconcile).  The requests of the API and the daily worker run at the   *)
(* same time: a request reads, computes, and writes in a transaction of    *)
(* its own, so what it read may be stale when it writes.                   *)
(*                                                                         *)
(* Amounts are small integers.  A transaction is what the books need of    *)
(* it: the card's expenses are summed by billing cycle, and a payment is   *)
(* its amount and the cycles closed when it was made.  Instalments,        *)
(* pending and historical transactions are left out.                       *)
(***************************************************************************)
EXTENDS Integers, Sequences, Sums

CONSTANTS
    Requests,     \* requests that run at a time, the daily worker's included
    Months,       \* billing cycles
    Limit,        \* the card's credit limit
    Amounts,      \* amounts of transactions and payments
    Cash,         \* opening balance of the cash account
    Openings,     \* opening balances a user types in an edit
    CashChecked,  \* TRUE: the accounts table refuses negative cash (SQLite);
                  \* FALSE: it does not (Postgres)
    MaxCreated,   \* bound: transactions created
    MaxChanged,   \* bound: edits and deletions
    MaxPayments   \* bound: card payments

ASSUME MonthsAssumption == Months \in Nat /\ Limit \in Nat
ASSUME AmountsAssumption ==
    Amounts \subseteq Nat \ {0} /\ Openings \subseteq Nat /\ Cash \in Nat
ASSUME TableAssumption == CashChecked \in BOOLEAN
ASSUME BoundAssumption ==
    MaxCreated \in Nat /\ MaxChanged \in Nat /\ MaxPayments \in Nat

VARIABLES
    closed,       \* billing cycles that have reached their cut-off
    opening,      \* opening_balance_cents
    balance,      \* current_balance_cents
    ledger,       \* sum of the account's ledger entries
    gone,         \* accounts whose row is deleted
    listed,       \* FALSE: the card's own row (credit_cards) is deleted
    charged,      \* the card's live expenses, by cycle
    payments,     \* the card's payments; a deleted one has amount 0
    bill,         \* statement rows
    alloc,        \* live allocation rows: payment, cycle, amount
    req,          \* what each request holds
    created, changed,
    raced,        \* history: an account was written after its check went stale
    overwritten,  \* history: an account edit dropped or shifted a balance
    stale,        \* history: a reconciliation wrote from a stale snapshot
    deleted       \* history: a transaction was deleted

rowVars == <<gone, listed>>
accountVars == <<opening, balance, ledger, rowVars>>
statementVars == <<bill, alloc>>
boundVars == <<created, changed>>
historyVars == <<raced, overwritten, stale, deleted>>
vars == <<closed, accountVars, charged, payments, statementVars, req,
          boundVars, historyVars>>

Accounts == {"cash", "card"}
Cycles == 1..Months
PaymentIds == 1..MaxPayments

Idle == [stage |-> "idle"]
NoRow == [live |-> FALSE, amount |-> 0, paid |-> 0]
NoAllocation == [i \in PaymentIds |-> [c \in Cycles |-> 0]]

Init ==
    /\ closed = 0
    /\ opening = [a \in Accounts |-> IF a = "cash" THEN Cash ELSE 0]
    /\ balance = opening
    /\ ledger = [a \in Accounts |-> 0]
    /\ gone = {} /\ listed = TRUE
    /\ charged = [c \in Cycles |-> 0]
    /\ payments = <<>>
    /\ bill = [c \in Cycles |-> NoRow]
    /\ alloc = NoAllocation
    /\ req = [r \in Requests |-> Idle]
    /\ created = 0 /\ changed = 0
    /\ raced = [a \in Accounts |-> FALSE]
    /\ overwritten = [a \in Accounts |-> FALSE]
    /\ stale = FALSE /\ deleted = FALSE

Create == created < MaxCreated /\ created' = created + 1 /\ UNCHANGED changed
Change == changed < MaxChanged /\ changed' = changed + 1 /\ UNCHANGED created

(* Billing cycles end as time passes.                                      *)
CloseCycle ==
    /\ closed < Months
    /\ closed' = closed + 1
    /\ UNCHANGED <<accountVars, charged, payments, statementVars, req,
                   boundVars, historyVars>>

-----------------------------------------------------------------------------
(* Transactions and accounts                                               *)

(* transactionDeltaForAccount                                              *)
TransactionDelta(type, a, n) ==
    IF type = "expense" /\ a = "cash" THEN -n ELSE n

(* Where the table does not refuse a negative balance of cash,             *)
(* RehydrateFinancialAccount does: the account is not read back.           *)
Readable(a) == a = "cash" => balance[a] >= 0

(* getAuthorizedAccount: a deleted account is not found.                   *)
Authorized(a) == a \notin gone /\ Readable(a)

(* Mutant of Covers: the balance is checked before the delta.              *)
CoversBefore(a, delta) == a = "cash" => balance[a] >= 0

(* FinancialAccount.ApplyDelta                                             *)
Covers(a, delta) ==
    IF a = "cash" THEN balance[a] + delta >= 0 ELSE balance[a] + delta <= Limit

(* CreateTransaction reads the account and checks the movement ...         *)
BeginTransaction(r) ==
    /\ req[r] = Idle
    /\ Create
    /\ \E a \in Accounts, type \in {"expense", "income"}, n \in Amounts,
          c \in Cycles :
        LET delta == TransactionDelta(type, a, n) IN
        /\ Authorized(a)
        /\ Covers(a, delta)
        /\ a = "cash" \/ type = "income" => c = 1
        /\ req' = [req EXCEPT ![r] =
             [stage |-> "checked", account |-> a, type |-> type,
              delta |-> delta, cycle |-> c, seen |-> balance[a]]]
    /\ UNCHANGED <<closed, accountVars, charged, payments, statementVars,
                   historyVars>>

(* Mutant of Move: the new balance is computed by the service.             *)
MoveAbsolute(a, delta, seen) ==
    /\ balance' = [balance EXCEPT ![a] = seen + delta]
    /\ ledger' = [ledger EXCEPT ![a] = @ + delta]

(* The balance moves by the delta, whatever it is by now.  An account      *)
(* deleted since it was read is not found, and gets its entry all the same.*)
Move(a, delta, seen) ==
    /\ balance' = IF a \in gone THEN balance
                                ELSE [balance EXCEPT ![a] = @ + delta]
    /\ ledger' = [ledger EXCEPT ![a] = @ + delta]

(* The CHECK constraint chk_financial_accounts_cash_balance.               *)
TableAllows(a, n) == CashChecked /\ a = "cash" => n >= 0

(* ... and CreateManyWithLedger inserts, moves the balance without looking *)
(* at it again, and enters the movement in the ledger.  If the table       *)
(* refuses the balance nothing is written.                                 *)
CommitTransaction(r) ==
    /\ req[r].stage = "checked"
    /\ LET q == req[r] IN
        /\ TableAllows(q.account, balance[q.account] + q.delta)
        /\ Move(q.account, q.delta, q.seen)
        /\ charged' = IF q.account = "card" /\ q.type = "expense"
                        THEN [charged EXCEPT ![q.cycle] = @ + q.delta]
                        ELSE charged
        /\ raced' = [raced EXCEPT ![q.account] =
                        @ \/ balance[q.account] # q.seen]
    /\ req' = [req EXCEPT ![r] = Idle]
    /\ UNCHANGED <<closed, opening, rowVars, payments, statementVars,
                   boundVars, overwritten, stale, deleted>>

(* UpdateAccount reads the row ...                                         *)
BeginEdit(r) ==
    /\ req[r] = Idle
    /\ Change
    /\ \E a \in Accounts, o \in Openings :
        /\ Authorized(a)
        /\ req' = [req EXCEPT ![r] =
             [stage |-> "editing", account |-> a, opening |-> o,
              seen |-> balance[a], seenOpening |-> opening[a]]]
    /\ UNCHANGED <<closed, accountVars, charged, payments, statementVars,
                   historyVars>>

(* The balance it read, or the new opening balance when the two were equal.*)
EditedBalance(q) ==
    IF q.seen = q.seenOpening THEN q.opening ELSE q.seen

(* ... and writes all of it back, the balance included.                    *)
CommitEdit(r) ==
    /\ req[r].stage = "editing"
    /\ LET q == req[r]
           a == q.account IN
        /\ opening' = [opening EXCEPT ![a] = q.opening]
        /\ balance' = [balance EXCEPT ![a] = EditedBalance(q)]
        /\ overwritten' = [overwritten EXCEPT ![a] =
             \/ @ \/ balance[a] # q.seen \/ opening[a] # q.seenOpening
             \/ q.seen # q.seenOpening /\ q.opening # q.seenOpening]
    /\ req' = [req EXCEPT ![r] = Idle]
    /\ UNCHANGED <<closed, ledger, rowVars, charged, payments, statementVars,
                   boundVars, raced, stale, deleted>>

(* DeleteTransaction hides the row; balances and ledger stay as they are.  *)
DeleteCharge ==
    /\ Change
    /\ \E c \in Cycles, n \in Amounts :
        /\ charged[c] >= n
        /\ charged' = [charged EXCEPT ![c] = @ - n]
    /\ deleted' = TRUE
    /\ UNCHANGED <<closed, accountVars, payments, statementVars, req, raced,
                   overwritten, stale>>

DeletePayment ==
    /\ Change
    /\ \E i \in DOMAIN payments :
        /\ payments[i].amount > 0
        /\ payments' = [payments EXCEPT ![i].amount = 0]
    /\ deleted' = TRUE
    /\ UNCHANGED <<closed, accountVars, charged, statementVars, req, raced,
                   overwritten, stale>>

(* DeleteAccount hides the row, for a card's account too; the card itself, *)
(* its statements and the transactions stay.                               *)
DeleteAccount ==
    /\ Change
    /\ \E a \in Accounts :
        /\ Authorized(a)
        /\ gone' = gone \cup {a}
    /\ UNCHANGED <<closed, opening, balance, ledger, listed, charged, payments,
                   statementVars, req, historyVars>>

(* DeleteCreditCard hides the card and its account and detaches its        *)
(* transactions; its payments are still known by their destination.        *)
DeleteCreditCard ==
    /\ Change
    /\ listed
    /\ listed' = FALSE
    /\ gone' = gone \cup {"card"}
    /\ charged' = [c \in Cycles |-> 0]
    /\ UNCHANGED <<closed, opening, balance, ledger, payments, statementVars,
                   req, historyVars>>

-----------------------------------------------------------------------------
(* Statements                                                              *)

(* A payment goes to the oldest statement first.                           *)
Applied(n, due) ==
    [c \in Cycles |-> LET left == n - SumTo(due, c - 1) IN
                        IF left <= 0 THEN 0
                        ELSE IF left > due[c] THEN due[c] ELSE left]

Paid(rows, c) == SumTo([i \in PaymentIds |-> rows[i][c]], MaxPayments)

(* projectCreditCardStatements: every cycle closed by `now` with expenses  *)
(* has a statement, and each payment, the oldest first, goes to the        *)
(* statements that were closed when it was made.                           *)
Billed(snap) ==
    [c \in Cycles |-> IF c <= snap.now THEN snap.charged[c] ELSE 0]

(* What a payment finds to pay when `at' cycles are closed.                *)
Due(snap, rows, at) ==
    [c \in Cycles |-> IF c <= at THEN Billed(snap)[c] - Paid(rows, c) ELSE 0]

(* The payments made then, in their order, on top of those before.         *)
AllocatedAt(at, snap, before) ==
    LET p == snap.payments
        rows[i \in 0..Len(p)] ==
            IF i = 0 THEN before
            ELSE IF p[i].at # at THEN rows[i - 1]
            ELSE [rows[i - 1] EXCEPT ![i] =
                    Applied(p[i].amount, Due(snap, rows[i - 1], at))]
    IN rows[Len(p)]

(* One cycle after the other: payments are sorted by their date.           *)
Allocations(snap) ==
    LET rows[at \in 0..Months] ==
            IF at = 0 THEN NoAllocation
            ELSE AllocatedAt(at, snap, rows[at - 1])
    IN rows[Months]

Outstanding(snap) ==
    LET rows == Allocations(snap)
    IN [c \in Cycles |-> Billed(snap)[c] - Paid(rows, c)]

(* What the tables say now.                                                *)
Books == [now |-> closed, charged |-> charged, payments |-> payments]

Projection(snap) ==
    LET rows == Allocations(snap)
        billed == Billed(snap)
    IN [c \in Cycles |-> IF billed[c] = 0 THEN NoRow
                         ELSE [live |-> TRUE, amount |-> billed[c],
                               paid |-> Paid(rows, c)]]

(* Mutant of WriteStatements: allocations missing from it are left.        *)
WriteAllocationsKept(snap) ==
    /\ bill' = [c \in Cycles |->
                  IF Billed(snap)[c] = 0 THEN [bill[c] EXCEPT !.live = FALSE]
                  ELSE Projection(snap)[c]]
    /\ alloc' = [i \in PaymentIds |-> [c \in Cycles |->
                   IF Allocations(snap)[i][c] = 0 THEN alloc[i][c]
                   ELSE Allocations(snap)[i][c]]]

(* CreditCardStatementRepository.Reconcile: one database transaction.  A   *)
(* row that the projection lacks is hidden and keeps its amounts.          *)
WriteStatements(snap) ==
    /\ bill' = [c \in Cycles |->
                  IF Billed(snap)[c] = 0 THEN [bill[c] EXCEPT !.live = FALSE]
                  ELSE Projection(snap)[c]]
    /\ alloc' = Allocations(snap)

(* GetPayables and GetCardsWithSummary, for the screens and for the daily  *)
(* worker: read every transaction ...                                      *)
BeginView(r) ==
    /\ req[r] = Idle
    /\ listed
    /\ req' = [req EXCEPT ![r] =
                 [stage |-> "read", amount |-> 0, owed |-> 0, snap |-> Books]]
    /\ UNCHANGED <<closed, accountVars, charged, payments, statementVars,
                   boundVars, historyVars>>

(* PayCreditCardDebt reads the accounts and the time ...                   *)
BeginPayment(r) ==
    /\ req[r] = Idle
    /\ Len(payments) < MaxPayments
    /\ listed /\ Authorized("cash") /\ Authorized("card")
    /\ \E n \in Amounts :
        /\ Covers("cash", -n)
        /\ req' = [req EXCEPT ![r] =
                     [stage |-> "paying", amount |-> n, now |-> closed,
                      owed |-> balance["card"]]]
    /\ UNCHANGED <<closed, accountVars, charged, payments, statementVars,
                   boundVars, historyVars>>

(* ... and then every transaction.                                         *)
ReadTransactions(r) ==
    /\ req[r].stage = "paying"
    /\ req' = [req EXCEPT ![r] =
                 [stage |-> "read", amount |-> req[r].amount,
                  owed |-> req[r].owed,
                  snap |-> [Books EXCEPT !.now = req[r].now]]]
    /\ UNCHANGED <<closed, accountVars, charged, payments, statementVars,
                   boundVars, historyVars>>

(* Both reconcile the statements with what they read.  A payment goes on   *)
(* if it is within the debt and the balance of the card.                   *)
Reconcile(r) ==
    /\ req[r].stage = "read"
    /\ LET q == req[r]
           debt == SumTo(Outstanding(q.snap), Months) IN
        /\ WriteStatements(q.snap)
        /\ stale' = (stale \/ q.snap # Books)
        /\ req' = [req EXCEPT ![r] =
             IF 0 < q.amount /\ q.amount <= debt /\ q.amount <= q.owed
               THEN [stage |-> "paid", amount |-> q.amount, snap |-> q.snap]
               ELSE Idle]
    /\ UNCHANGED <<closed, accountVars, charged, payments, boundVars, raced,
                   overwritten, deleted>>

(* Mutant of StatementsUnchanged: the amounts paid are not compared.       *)
StatementsUnmatched(snap, part) == TRUE

(* The statements a payment changes must hold the amounts it was computed  *)
(* from, or else it is refused (ErrCreditCardPaymentConflict).             *)
StatementsUnchanged(snap, part) ==
    \A c \in Cycles :
        part[c] > 0 => bill[c].paid = Paid(Allocations(snap), c)

(* Both balances go down by the payment and enter it in the ledger, or the *)
(* payment is refused: here the rows are looked at again.                  *)
Transfer(n) ==
    /\ \A a \in Accounts : a \notin gone /\ balance[a] >= n
    /\ balance' = [a \in Accounts |-> balance[a] - n]
    /\ ledger' = [a \in Accounts |-> ledger[a] - n]

(* ApplyPayment: one database transaction with the payment, both balances, *)
(* the ledger, the statements and the allocations.                         *)
ApplyPayment(r) ==
    /\ req[r].stage = "paid"
    /\ Len(payments) < MaxPayments
    /\ LET q == req[r]
           n == q.amount
           part == Applied(n, Outstanding(q.snap)) IN
        /\ Transfer(n)
        /\ StatementsUnchanged(q.snap, part)
        /\ payments' = Append(payments, [amount |-> n, at |-> q.snap.now])
        /\ bill' = [c \in Cycles |->
             IF part[c] > 0
               THEN [bill[c] EXCEPT !.live = TRUE,
                       !.paid = Paid(Allocations(q.snap), c) + part[c]]
               ELSE bill[c]]
        /\ alloc' = [alloc EXCEPT ![Len(payments) + 1] = part]
    /\ req' = [req EXCEPT ![r] = Idle]
    /\ UNCHANGED <<closed, opening, rowVars, charged, boundVars, historyVars>>

(* A request ends without writing: a refused payment, an error, a client   *)
(* that has gone.                                                          *)
GiveUp(r) ==
    /\ req[r] # Idle
    /\ req' = [req EXCEPT ![r] = Idle]
    /\ UNCHANGED <<closed, accountVars, charged, payments, statementVars,
                   boundVars, historyVars>>

-----------------------------------------------------------------------------

(* The requests, each with its steps.                                      *)
CreateTransaction(r) == BeginTransaction(r) \/ CommitTransaction(r)

UpdateAccount(r) == BeginEdit(r) \/ CommitEdit(r)

GetFinancialPayables(r) == BeginView(r) \/ Reconcile(r)

PayCreditCardDebt(r) ==
    BeginPayment(r) \/ ReadTransactions(r) \/ Reconcile(r) \/ ApplyPayment(r)

Next ==
    \/ CloseCycle
    \/ DeleteCharge \/ DeletePayment \/ DeleteAccount \/ DeleteCreditCard
    \/ \E r \in Requests :
        \/ CreateTransaction(r) \/ UpdateAccount(r)
        \/ GetFinancialPayables(r) \/ PayCreditCardDebt(r)
        \/ GiveUp(r)

Spec == Init /\ [][Next]_vars

-----------------------------------------------------------------------------
(* Properties                                                              *)

Snapshots ==
    [now : 0..Months, charged : [Cycles -> Nat],
     payments : Seq([amount : Nat, at : 0..Months])]

RequestStates ==
    {Idle}
    \cup [stage : {"checked"}, account : Accounts, type : {"expense", "income"},
          delta : Int, cycle : Cycles, seen : Int]
    \cup [stage : {"editing"}, account : Accounts, opening : Nat, seen : Int,
          seenOpening : Nat]
    \cup [stage : {"paying"}, amount : Nat, now : 0..Months, owed : Int]
    \cup [stage : {"read"}, amount : Nat, owed : Int, snap : Snapshots]
    \cup [stage : {"paid"}, amount : Nat, snap : Snapshots]

TypeOK ==
    /\ closed \in 0..Months
    /\ created \in 0..MaxCreated /\ changed \in 0..MaxChanged
    /\ opening \in [Accounts -> Nat]
    /\ balance \in [Accounts -> Int] /\ ledger \in [Accounts -> Int]
    /\ gone \subseteq Accounts /\ listed \in BOOLEAN
    /\ charged \in [Cycles -> Nat]
    /\ payments \in Seq([amount : Nat, at : 0..Months])
    /\ bill \in [Cycles -> [live : BOOLEAN, amount : Nat, paid : Nat]]
    /\ alloc \in [PaymentIds -> [Cycles -> Nat]]
    /\ req \in [Requests -> RequestStates]
    /\ raced \in [Accounts -> BOOLEAN] /\ overwritten \in [Accounts -> BOOLEAN]
    /\ stale \in BOOLEAN /\ deleted \in BOOLEAN

(* The ledger explains every balance, concurrent movements and payments    *)
(* included, except where an account edit wrote over one, and of a deleted *)
(* account, which a movement checked before the deletion no longer moves.  *)
BalanceExplained ==
    \A a \in Accounts :
        a \in gone \/ overwritten[a] \/ balance[a] = opening[a] + ledger[a]

(* No account is overdrawn, no limit exceeded, unless the check was made   *)
(* on a balance that had moved when the transaction was written, and the   *)
(* table did not check it, or the user typed a balance beyond the limit.   *)
CoveredUnlessRaced ==
    /\ balance["cash"] < 0 => raced["cash"] /\ ~CashChecked
    /\ balance["card"] > Limit =>
         raced["card"] \/ overwritten["card"] \/ opening["card"] > Limit

(* A statement has been paid what its allocations add up to, whoever       *)
(* reconciled last, unless one reconciled from a stale snapshot or         *)
(* expenses of a billed cycle were deleted.                                *)
PaidIsAllocated ==
    \A c \in Cycles :
        bill[c].live => bill[c].paid = Paid(alloc, c) \/ stale \/ deleted

(* The two books agree: what the statements ask for is owed on the card's  *)
(* account, so that a payment of it is not refused, unless history spoilt  *)
(* either book or the account is deleted.                                  *)
DebtIsOwed ==
    \/ SumTo(Outstanding(Books), Months) <= balance["card"]
    \/ stale \/ deleted \/ overwritten["card"] \/ "card" \in gone

(* The statements and their allocations are those of the transactions.     *)
Settled ==
    /\ alloc = Allocations(Books)
    /\ \A c \in Cycles :
        IF Billed(Books)[c] = 0 THEN ~bill[c].live
        ELSE bill[c] = Projection(Books)[c]

(* A payment enters itself in the statements (allocatePayment) the way the *)
(* next reconciliation would compute it from the transactions, and a       *)
(* reconciliation under way, of another payment included, disturbs         *)
(* nothing, unless its snapshot is stale or the payment was computed from  *)
(* expenses or a date that have changed.                                   *)
Outdated(r) ==
    /\ req[r].stage = "paid"
    /\ <<req[r].snap.now, req[r].snap.charged>> # <<closed, charged>>

StaysSettled ==
    [][/\ UNCHANGED <<closed, charged>>
       /\ ~stale' /\ ~deleted'
       /\ \A r \in Requests : Outdated(r) => UNCHANGED req[r]
       /\ Settled
       => Settled']_vars

=============================================================================

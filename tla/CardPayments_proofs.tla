------------------------ MODULE CardPayments_proofs ------------------------
(***************************************************************************)
(* Proofs about the accounts and the statements of CardPayments, for any   *)
(* number of requests and any amounts, cycles and payments, and about the  *)
(* cycles, instalments and stamps of the Calendar.                         *)
(*                                                                         *)
(* The accounts come first: every balance is explained by the ledger.      *)
(* Then the allocation of payments to statements, a recursive function of  *)
(* the transactions: what it allocates, how one more payment changes it,   *)
(* and what tells a payment that others came before it.  Then what keeps   *)
(* the two books together while requests overtake each other.              *)
(***************************************************************************)
EXTENDS CardPayments, Calendar, FiniteSetTheorems, TLAPS

(* What the account rows hold, and what the requests remember of them.     *)
AccountRows ==
    /\ opening \in [Accounts -> Int]
    /\ balance \in [Accounts -> Int]
    /\ ledger \in [Accounts -> Int]
    /\ raced \in [Accounts -> BOOLEAN]
    /\ overwritten \in [Accounts -> BOOLEAN]

Checked(q) ==
    /\ q.account \in Accounts /\ q.delta \in Int /\ q.seen \in Int
    /\ q.account = "cash" => q.seen + q.delta >= 0
    /\ q.account = "card" => q.seen + q.delta <= Limit

Editing(q) ==
    /\ q.account \in Accounts /\ q.opening \in Nat
    /\ q.seen \in Int /\ q.seenOpening \in Int
    /\ q.account = "cash" => q.seen >= 0
    /\ q.account = "card" /\ q.seen > Limit =>
         raced["card"] \/ overwritten["card"] \/ q.seenOpening > Limit

Remembered(q) ==
    /\ q.stage = "checked" => Checked(q)
    /\ q.stage = "editing" => Editing(q)
    /\ q.stage \in {"paying", "read", "paid"} => q.amount \in Nat

RequestsRemember ==
    /\ req = [r \in Requests |-> req[r]]
    /\ \A r \in Requests : Remembered(req[r])

AccountInv ==
    AccountRows /\ RequestsRemember /\ BalanceExplained /\ CoveredUnlessRaced

-----------------------------------------------------------------------------
(* Requests                                                                *)

LEMMA RequestReplaced ==
    ASSUME RequestsRemember, NEW r \in Requests, NEW STATE q,
           req' = [req EXCEPT ![r] = q]
    PROVE  /\ req' = [s \in Requests |-> req'[s]]
           /\ req'[r] = q
           /\ \A s \in Requests : s # r => req'[s] = req[s]
  BY DEF RequestsRemember

(* Histories only grow: what a request remembered it still remembers.      *)
LEMMA OthersRemember ==
    ASSUME RequestsRemember, NEW r \in Requests,
           req' = [s \in Requests |-> req'[s]],
           \A s \in Requests : s # r => req'[s] = req[s],
           raced["card"] => raced'["card"],
           overwritten["card"] => overwritten'["card"],
           Remembered(req[r])'
    PROVE  RequestsRemember'
  <1>1. ASSUME NEW s \in Requests, s # r PROVE Remembered(req[s])'
    BY <1>1 DEF RequestsRemember, Remembered, Checked, Editing
  <1>2. QED
    BY <1>1 DEF RequestsRemember

LEMMA RequestEnds ==
    ASSUME RequestsRemember, NEW r \in Requests,
           req' = [req EXCEPT ![r] = Idle],
           raced["card"] => raced'["card"],
           overwritten["card"] => overwritten'["card"]
    PROVE  RequestsRemember'
  <1>1. Remembered(req[r])'
    BY RequestReplaced DEF Remembered, Idle
  <1>2. QED
    BY <1>1, RequestReplaced, OthersRemember

(* Steps that only move a request along leave the accounts alone.          *)
LEMMA RowsStay ==
    ASSUME AccountInv, UNCHANGED <<accountVars, raced, overwritten>>
    PROVE  AccountRows' /\ BalanceExplained' /\ CoveredUnlessRaced'
  BY DEF AccountInv, AccountRows, BalanceExplained, CoveredUnlessRaced,
         accountVars, rowVars

LEMMA RequestMoves ==
    ASSUME AccountInv, NEW r \in Requests, NEW STATE q,
           req' = [req EXCEPT ![r] = q],
           UNCHANGED <<accountVars, raced, overwritten>>,
           Remembered(q)
    PROVE  AccountInv'
  <1>1. Remembered(req[r])'
    BY RequestReplaced DEF AccountInv, Remembered, Checked, Editing
  <1>2. RequestsRemember'
    BY <1>1, RequestReplaced, OthersRemember DEF AccountInv
  <1>3. QED
    BY <1>2, RowsStay DEF AccountInv

-----------------------------------------------------------------------------
(* Accounts                                                                *)

LEMMA TransactionKept ==
    ASSUME AccountInv, NEW r \in Requests, CommitTransaction(r)
    PROVE  AccountInv'
  <1> DEFINE q == req[r]
             a == q.account
  <1>1. Checked(q)
    BY DEF AccountInv, RequestsRemember, Remembered, CommitTransaction
  <1>2. /\ a \in Accounts /\ q.delta \in Int /\ q.seen \in Int
        /\ a = "cash" => q.seen + q.delta >= 0
        /\ a = "card" => q.seen + q.delta <= Limit
    BY <1>1 DEF Checked
  <1>3. /\ balance' = IF a \in gone THEN balance
                                    ELSE [balance EXCEPT ![a] = @ + q.delta]
        /\ ledger' = [ledger EXCEPT ![a] = @ + q.delta]
        /\ raced' = [raced EXCEPT ![a] = @ \/ balance[a] # q.seen]
        /\ req' = [req EXCEPT ![r] = Idle]
        /\ UNCHANGED <<opening, overwritten, gone>>
        /\ CashChecked /\ a = "cash" => balance[a] + q.delta >= 0
    BY DEF CommitTransaction, Move, TableAllows, rowVars
  <1> HIDE DEF q, a
  <1>4. AccountRows'
    BY <1>2, <1>3 DEF AccountInv, AccountRows
  <1>5. BalanceExplained'
    BY <1>2, <1>3 DEF AccountInv, AccountRows, BalanceExplained
  <1>6. \A b \in Accounts : raced[b] => raced'[b]
    BY <1>2, <1>3 DEF AccountInv, AccountRows
  <1>7. CoveredUnlessRaced'
    <2>1. /\ balance'[a] = balance[a] + q.delta \/ balance'[a] = balance[a]
          /\ raced'[a] = (raced[a] \/ balance[a] # q.seen)
          /\ \A b \in Accounts : b # a => balance'[b] = balance[b]
          /\ balance[a] \in Int
      BY <1>2, <1>3 DEF AccountInv, AccountRows
    <2>2. ~raced'[a] => balance[a] = q.seen
      BY <2>1
    <2>3. balance'["cash"] < 0 => raced'["cash"] /\ ~CashChecked
      BY <1>2, <1>3, <1>6, <2>1, <2>2
      DEF AccountInv, CoveredUnlessRaced, Accounts
    <2>4. balance'["card"] > Limit =>
            raced'["card"] \/ overwritten'["card"] \/ opening'["card"] > Limit
      BY <1>2, <1>3, <1>6, <2>1, <2>2, MonthsAssumption
      DEF AccountInv, CoveredUnlessRaced, Accounts
    <2>5. QED
      BY <2>3, <2>4 DEF CoveredUnlessRaced
  <1>8. RequestsRemember'
    BY <1>3, <1>6, RequestEnds DEF AccountInv, Accounts
  <1>9. QED
    BY <1>4, <1>5, <1>7, <1>8 DEF AccountInv

LEMMA EditKept ==
    ASSUME AccountInv, NEW r \in Requests, CommitEdit(r)
    PROVE  AccountInv'
  <1> DEFINE q == req[r]
             a == q.account
             new == IF q.seen = q.seenOpening THEN q.opening ELSE q.seen
             lost == \/ balance[a] # q.seen \/ opening[a] # q.seenOpening
                     \/ q.seen # q.seenOpening /\ q.opening # q.seenOpening
  <1>1. Editing(q)
    BY DEF AccountInv, RequestsRemember, Remembered, CommitEdit
  <1>2. /\ a \in Accounts /\ q.opening \in Nat
        /\ q.seen \in Int /\ q.seenOpening \in Int
        /\ a = "cash" => q.seen >= 0
        /\ a = "card" /\ q.seen > Limit =>
             raced["card"] \/ overwritten["card"] \/ q.seenOpening > Limit
    BY <1>1 DEF Editing
  <1>3. /\ opening' = [opening EXCEPT ![a] = q.opening]
        /\ balance' = [balance EXCEPT ![a] = new]
        /\ overwritten' = [overwritten EXCEPT ![a] = @ \/ lost]
        /\ req' = [req EXCEPT ![r] = Idle]
        /\ UNCHANGED <<ledger, raced, gone>>
    BY Zenon DEF CommitEdit, EditedBalance, rowVars
  <1>4. /\ new \in Int /\ lost \in BOOLEAN
        /\ a = "cash" => new >= 0
        /\ a = "card" /\ new > Limit =>
             \/ raced["card"] \/ overwritten["card"] \/ lost
             \/ q.opening > Limit
        /\ ~lost => /\ balance[a] = q.seen /\ opening[a] = q.seenOpening
                    /\ q.seen = q.seenOpening \/ q.opening = q.seenOpening
    BY <1>2, MonthsAssumption
  <1>5. /\ balance'[a] = new /\ opening'[a] = q.opening
        /\ overwritten'[a] = (overwritten[a] \/ lost)
        /\ \A b \in Accounts : b # a =>
             /\ balance'[b] = balance[b] /\ opening'[b] = opening[b]
             /\ overwritten'[b] = overwritten[b]
    BY <1>2, <1>3 DEF AccountInv, AccountRows
  <1>6. AccountRows'
    BY <1>2, <1>3, <1>4 DEF AccountInv, AccountRows
  <1>7. \A b \in Accounts : overwritten[b] => overwritten'[b]
    BY <1>5
  <1>8. BalanceExplained'
    <2>1. ASSUME NEW b \in Accounts, b \notin gone, ~overwritten'[b]
          PROVE  balance'[b] = opening'[b] + ledger'[b]
      <3>1. balance[b] = opening[b] + ledger[b]
        BY <1>7, <2>1 DEF AccountInv, BalanceExplained
      <3>2. CASE b # a
        BY <1>3, <1>5, <3>1, <3>2
      <3>3. CASE b = a
        <4>1. ~lost
          BY <1>5, <2>1, <3>3
        <4>2. q.seen = q.seenOpening + ledger[a]
          BY <1>4, <3>1, <3>3, <4>1
        <4>3. new = q.opening + ledger[a]
          BY <1>2, <1>4, <4>1, <4>2 DEF AccountInv, AccountRows
        <4>4. QED
          BY <1>3, <1>5, <3>3, <4>3
      <3>4. QED
        BY <3>2, <3>3
    <2>2. QED
      BY <1>3, <2>1 DEF BalanceExplained
  <1>9. CoveredUnlessRaced'
    <2>1. balance'["cash"] < 0 => raced'["cash"] /\ ~CashChecked
      BY <1>2, <1>3, <1>4, <1>5
      DEF AccountInv, AccountRows, CoveredUnlessRaced, Accounts
    <2>2. balance'["card"] > Limit =>
            raced'["card"] \/ overwritten'["card"] \/ opening'["card"] > Limit
      BY <1>2, <1>3, <1>4, <1>5
      DEF AccountInv, AccountRows, CoveredUnlessRaced, Accounts
    <2>3. QED
      BY <2>1, <2>2 DEF CoveredUnlessRaced
  <1>10. RequestsRemember'
    BY <1>3, <1>7, RequestEnds DEF AccountInv, Accounts
  <1>11. QED
    BY <1>6, <1>8, <1>9, <1>10 DEF AccountInv

LEMMA PaymentKept ==
    ASSUME AccountInv, NEW r \in Requests, ApplyPayment(r)
    PROVE  AccountInv'
  <1> DEFINE n == req[r].amount
  <1>1. n \in Nat
    BY DEF AccountInv, RequestsRemember, Remembered, ApplyPayment
  <1>2. /\ \A a \in Accounts : balance[a] >= n
        /\ balance' = [a \in Accounts |-> balance[a] - n]
        /\ ledger' = [a \in Accounts |-> ledger[a] - n]
        /\ req' = [req EXCEPT ![r] = Idle]
        /\ UNCHANGED <<opening, raced, overwritten, gone>>
    BY DEF ApplyPayment, Transfer, historyVars, rowVars
  <1> HIDE DEF n
  <1>3. AccountRows'
    BY <1>1, <1>2 DEF AccountInv, AccountRows
  <1>4. BalanceExplained'
    BY <1>1, <1>2 DEF AccountInv, AccountRows, BalanceExplained
  <1>5. CoveredUnlessRaced'
    BY <1>1, <1>2, MonthsAssumption
    DEF AccountInv, AccountRows, CoveredUnlessRaced, Accounts
  <1>6. RequestsRemember'
    BY <1>2, RequestEnds DEF AccountInv
  <1>7. QED
    BY <1>3, <1>4, <1>5, <1>6 DEF AccountInv

-----------------------------------------------------------------------------
(* Requests under way                                                      *)

LEMMA BeginTransactionKept ==
    ASSUME AccountInv, NEW r \in Requests, BeginTransaction(r)
    PROVE  AccountInv'
  <1>1. PICK a \in Accounts, type \in {"expense", "income"}, n \in Amounts,
             c \in Cycles :
          /\ Covers(a, TransactionDelta(type, a, n))
          /\ req' = [req EXCEPT ![r] =
               [stage |-> "checked", account |-> a, type |-> type,
                delta |-> TransactionDelta(type, a, n), cycle |-> c,
                seen |-> balance[a]]]
    BY DEF BeginTransaction
  <1> DEFINE delta == TransactionDelta(type, a, n)
             q == [stage |-> "checked", account |-> a, type |-> type,
                   delta |-> delta, cycle |-> c, seen |-> balance[a]]
  <1>2. delta \in Int
    BY AmountsAssumption DEF TransactionDelta
  <1> HIDE DEF delta
  <1>3. /\ balance[a] \in Int
        /\ a = "cash" => balance[a] + delta >= 0
        /\ a = "card" => balance[a] + delta <= Limit
    BY <1>1 DEF AccountInv, AccountRows, Covers, delta
  <1>4. Remembered(q)
    BY <1>2, <1>3 DEF Remembered, Checked
  <1>5. req' = [req EXCEPT ![r] = q]
    BY <1>1 DEF delta
  <1>6. UNCHANGED <<accountVars, raced, overwritten>>
    BY DEF BeginTransaction, historyVars
  <1> HIDE DEF q
  <1>7. QED
    BY <1>4, <1>5, <1>6, RequestMoves

LEMMA BeginEditKept ==
    ASSUME AccountInv, NEW r \in Requests, BeginEdit(r)
    PROVE  AccountInv'
  <1>1. PICK a \in Accounts, o \in Openings :
          /\ Readable(a)
          /\ req' = [req EXCEPT ![r] =
               [stage |-> "editing", account |-> a, opening |-> o,
                seen |-> balance[a], seenOpening |-> opening[a]]]
    BY DEF BeginEdit, Authorized
  <1> DEFINE q == [stage |-> "editing", account |-> a, opening |-> o,
                   seen |-> balance[a], seenOpening |-> opening[a]]
  <1>2. /\ o \in Nat /\ balance[a] \in Int /\ opening[a] \in Int
        /\ a = "cash" => balance[a] >= 0
        /\ a = "card" /\ balance[a] > Limit =>
             raced["card"] \/ overwritten["card"] \/ opening[a] > Limit
    BY <1>1, AmountsAssumption
    DEF AccountInv, AccountRows, CoveredUnlessRaced, Readable
  <1>3. Remembered(q)
    BY <1>2 DEF Remembered, Editing
  <1>4. UNCHANGED <<accountVars, raced, overwritten>>
    BY DEF BeginEdit, historyVars
  <1>5. req' = [req EXCEPT ![r] = q]
    BY <1>1
  <1> HIDE DEF q
  <1>6. QED
    BY <1>3, <1>4, <1>5, RequestMoves

LEMMA ViewKept ==
    ASSUME AccountInv, NEW r \in Requests,
           \/ BeginView(r) \/ BeginPayment(r) \/ ReadTransactions(r)
           \/ Reconcile(r) \/ GiveUp(r)
    PROVE  AccountInv'
  <1>1. CASE BeginView(r)
    <2> DEFINE q == [stage |-> "read", amount |-> 0, owed |-> 0, snap |-> Books]
    <2>1. Remembered(q)
      BY DEF Remembered
    <2>2. /\ UNCHANGED <<accountVars, raced, overwritten>>
          /\ req' = [req EXCEPT ![r] = q]
      BY <1>1 DEF BeginView, historyVars
    <2> HIDE DEF q
    <2>3. QED
      BY <2>1, <2>2, RequestMoves
  <1>2. CASE BeginPayment(r)
    <2>1. PICK n \in Amounts :
            req' = [req EXCEPT ![r] =
                      [stage |-> "paying", amount |-> n, now |-> closed,
                       owed |-> balance["card"]]]
      BY <1>2 DEF BeginPayment
    <2> DEFINE q == [stage |-> "paying", amount |-> n, now |-> closed,
                     owed |-> balance["card"]]
    <2>2. Remembered(q)
      BY AmountsAssumption DEF Remembered
    <2>3. /\ UNCHANGED <<accountVars, raced, overwritten>>
          /\ req' = [req EXCEPT ![r] = q]
      BY <1>2, <2>1 DEF BeginPayment, historyVars
    <2> HIDE DEF q
    <2>4. QED
      BY <2>2, <2>3, RequestMoves
  <1>3. CASE ReadTransactions(r)
    <2> DEFINE q == [stage |-> "read", amount |-> req[r].amount,
                     owed |-> req[r].owed,
                     snap |-> [Books EXCEPT !.now = req[r].now]]
    <2>1. req[r].amount \in Nat
      BY <1>3 DEF AccountInv, RequestsRemember, Remembered, ReadTransactions
    <2>2. Remembered(q)
      BY <2>1 DEF Remembered
    <2>3. /\ UNCHANGED <<accountVars, raced, overwritten>>
          /\ req' = [req EXCEPT ![r] = q]
      BY <1>3 DEF ReadTransactions, historyVars
    <2> HIDE DEF q
    <2>4. QED
      BY <2>2, <2>3, RequestMoves
  <1>4. CASE Reconcile(r)
    <2> DEFINE pay == [stage |-> "paid", amount |-> req[r].amount,
                       snap |-> req[r].snap]
    <2>1. req[r].amount \in Nat
      BY <1>4 DEF AccountInv, RequestsRemember, Remembered, Reconcile
    <2>2. Remembered(pay) /\ Remembered(Idle)
      BY <2>1 DEF Remembered, Idle
    <2>3. /\ UNCHANGED <<accountVars, raced, overwritten>>
          /\ \/ req' = [req EXCEPT ![r] = pay]
             \/ req' = [req EXCEPT ![r] = Idle]
      BY <1>4, Zenon DEF Reconcile
    <2> HIDE DEF pay
    <2>4. QED
      BY <2>2, <2>3, RequestMoves
  <1>5. CASE GiveUp(r)
    <2>1. Remembered(Idle)
      BY DEF Remembered, Idle
    <2>2. QED
      BY <1>5, <2>1, RequestMoves DEF GiveUp, historyVars
  <1>6. QED
    BY <1>1, <1>2, <1>3, <1>4, <1>5

-----------------------------------------------------------------------------
(* Every step of the accounts                                              *)

LEMMA AccountsStart == Init => AccountInv
  <1> SUFFICES ASSUME Init PROVE AccountInv
    OBVIOUS
  <1>1. \A a \in Accounts :
          /\ opening[a] \in Nat /\ balance[a] = opening[a] /\ ledger[a] = 0
          /\ raced[a] = FALSE /\ overwritten[a] = FALSE
    BY AmountsAssumption DEF Init
  <1>2. AccountRows
    <2>1. /\ opening \in [Accounts -> Int] /\ balance \in [Accounts -> Int]
          /\ ledger \in [Accounts -> Int]
      BY AmountsAssumption DEF Init
    <2>2. [a \in Accounts |-> FALSE] \in [Accounts -> BOOLEAN]
      OBVIOUS
    <2>3. /\ raced \in [Accounts -> BOOLEAN]
          /\ overwritten \in [Accounts -> BOOLEAN]
      BY <2>2, Zenon DEF Init
    <2>4. QED
      BY <2>1, <2>3 DEF AccountRows
  <1>3. RequestsRemember
    BY DEF Init, RequestsRemember, Remembered, Idle
  <1>4. BalanceExplained
    BY <1>1 DEF BalanceExplained
  <1>5. CoveredUnlessRaced
    <2>1. balance["cash"] \in Nat /\ balance["card"] = 0
      BY AmountsAssumption DEF Init, Accounts
    <2>2. QED
      BY <2>1, MonthsAssumption DEF CoveredUnlessRaced
  <1>6. QED
    BY <1>2, <1>3, <1>4, <1>5 DEF AccountInv

(* A deletion leaves what the row holds, and asks less of it.              *)
LEMMA DeletionKept ==
    ASSUME AccountInv, DeleteAccount \/ DeleteCreditCard
    PROVE  AccountInv'
  <1>1. /\ UNCHANGED <<opening, balance, ledger, req, raced, overwritten>>
        /\ gone \subseteq gone'
    BY DEF DeleteAccount, DeleteCreditCard, historyVars
  <1>2. AccountRows' /\ BalanceExplained' /\ CoveredUnlessRaced'
    BY <1>1 DEF AccountInv, AccountRows, BalanceExplained, CoveredUnlessRaced
  <1>3. RequestsRemember'
    BY <1>1 DEF AccountInv, RequestsRemember, Remembered, Checked, Editing
  <1>4. QED
    BY <1>2, <1>3 DEF AccountInv

LEMMA AccountsKept == AccountInv /\ [Next]_vars => AccountInv'
  <1> SUFFICES ASSUME AccountInv, [Next]_vars PROVE AccountInv'
    OBVIOUS
  <1>1. CASE CloseCycle \/ DeleteCharge \/ DeletePayment \/ UNCHANGED vars
    <2>1. UNCHANGED <<accountVars, raced, overwritten, req>>
      BY <1>1 DEF CloseCycle, DeleteCharge, DeletePayment, vars, historyVars
    <2>2. RequestsRemember'
      BY <2>1 DEF AccountInv, RequestsRemember, Remembered, Checked, Editing
    <2>3. QED
      BY <2>1, <2>2, RowsStay DEF AccountInv
  <1>2. CASE DeleteAccount \/ DeleteCreditCard
    BY <1>2, DeletionKept
  <1>3. ASSUME NEW r \in Requests,
               \/ CreateTransaction(r) \/ UpdateAccount(r)
               \/ GetFinancialPayables(r) \/ PayCreditCardDebt(r)
               \/ GiveUp(r)
        PROVE  AccountInv'
    BY <1>3, BeginTransactionKept, BeginEditKept, ViewKept, TransactionKept,
       EditKept, PaymentKept
    DEF CreateTransaction, UpdateAccount, GetFinancialPayables,
        PayCreditCardDebt
  <1>4. QED
    BY <1>1, <1>2, <1>3 DEF Next

-----------------------------------------------------------------------------
(* Induction                                                               *)

(* Every set of numbers has a least one: the intervals below its members   *)
(* are finite sets, among which inclusion is well-founded.                 *)
LEMMA LeastNumber ==
    ASSUME NEW T, T \subseteq Nat, T # {}
    PROVE  \E x \in T : \A y \in T : x <= y
  <1> DEFINE R == StrictSubsetOrdering(Nat)
             F == {0..x : x \in T}
  <1>1. IsWellFoundedOn(R, FiniteSubsetsOf(Nat))
    BY FS_StrictSubsetOrderingWellFounded
  <1>2. F \subseteq FiniteSubsetsOf(Nat) /\ F # {}
    <2>1. ASSUME NEW x \in T PROVE IsFiniteSet(0..x) /\ 0..x \in SUBSET Nat
      BY FS_Interval
    <2>2. QED
      BY <2>1 DEF FiniteSubsetsOf
  <1>3. PICK f \in F : \A g \in F : <<g, f>> \notin R
    BY <1>1, <1>2, WFMin, Zenon
  <1>4. PICK x \in T : f = 0..x
    BY <1>3
  <1>5. ASSUME NEW y \in T, y < x PROVE FALSE
    <2>1. 0..y \subseteq 0..x /\ 0..x # 0..y /\ 0..y \in F
      BY <1>5
    <2>2. <<0..y, 0..x>> \in R
      BY <2>1 DEF StrictSubsetOrdering
    <2>3. QED
      BY <2>1, <2>2, <1>3, <1>4
  <1>6. QED
    BY <1>5

(* Induction, over a set: the first number outside it would follow one     *)
(* inside it.                                                              *)
LEMMA Inductive ==
    ASSUME NEW S, 0 \in S, \A n \in Nat : n \in S => n + 1 \in S
    PROVE  \A n \in Nat : n \in S
  <1> SUFFICES ASSUME Nat \ S # {} PROVE FALSE
    OBVIOUS
  <1>1. PICK x \in Nat \ S : \A y \in Nat \ S : x <= y
    BY LeastNumber
  <1>2. x - 1 \in Nat /\ ~(x <= x - 1) /\ (x - 1) + 1 = x
    BY <1>1
  <1>3. x - 1 \in S
    BY <1>1, <1>2
  <1>4. QED
    BY <1>1, <1>2, <1>3

(* Two functions that go on alike are alike.                               *)
Alike(g, h, n) ==
    /\ g[0] = h[0]
    /\ \A i \in 1..n : g[i - 1] = h[i - 1] => g[i] = h[i]

LEMMA SameCourse ==
    ASSUME NEW g, NEW h, NEW n \in Nat, Alike(g, h, n)
    PROVE  \A i \in 0..n : g[i] = h[i]
  <1> DEFINE S == {i \in Nat : i <= n => g[i] = h[i]}
  <1>1. 0 \in S
    BY DEF Alike
  <1>2. ASSUME NEW i \in Nat, i \in S PROVE i + 1 \in S
    <2>1. CASE i + 1 <= n
      <3>1. i + 1 \in 1..n /\ (i + 1) - 1 = i /\ g[i] = h[i]
        BY <1>2, <2>1
      <3>2. QED
        BY <3>1 DEF Alike
    <2>2. QED
      BY <2>1
  <1> HIDE DEF S
  <1>3. \A i \in Nat : i \in S
    BY <1>1, <1>2, Inductive
  <1>4. QED
    BY <1>3 DEF S

-----------------------------------------------------------------------------
(* Sums                                                                    *)

Sums(s, f, n) == s = [i \in 0..n |-> IF i = 0 THEN 0 ELSE s[i - 1] + f[i]]

LEMMA SumsExist ==
    ASSUME NEW f, NEW n \in Nat
    PROVE  \E s : Sums(s, f, n)
  <1> DEFINE S == {k \in Nat : \E s : Sums(s, f, k)}
  <1>1. 0 \in S
    <2>1. Sums([i \in 0..0 |-> 0], f, 0)
      BY DEF Sums
    <2>2. QED
      BY <2>1
  <1>2. ASSUME NEW k \in Nat, k \in S PROVE k + 1 \in S
    <2>1. PICK s : Sums(s, f, k)
      BY <1>2
    <2> DEFINE t == [i \in 0..(k + 1) |-> IF i = k + 1 THEN s[k] + f[k + 1]
                                                       ELSE s[i]]
    <2>2. \A i \in 0..k : s[i] = IF i = 0 THEN 0 ELSE s[i - 1] + f[i]
      BY <2>1 DEF Sums
    <2>3. \A i \in 0..(k + 1) : t[i] = IF i = 0 THEN 0 ELSE t[i - 1] + f[i]
      BY <2>2
    <2>4. Sums(t, f, k + 1)
      BY <2>3 DEF Sums
    <2>5. QED
      BY <2>4
  <1> HIDE DEF S
  <1>3. n \in S
    BY <1>1, <1>2, Inductive
  <1>4. QED
    BY <1>3 DEF S

(* f[1] + ... + f[n], one by one.                                          *)
LEMMA SumSteps ==
    ASSUME NEW f
    PROVE  /\ SumTo(f, 0) = 0
           /\ \A n \in Nat : SumTo(f, n + 1) = SumTo(f, n) + f[n + 1]
  <1> DEFINE s(n) == CHOOSE g : Sums(g, f, n)
  <1>1. \A n \in Nat : Sums(s(n), f, n)
    BY SumsExist
  <1>2. \A n \in Nat : SumTo(f, n) = s(n)[n]
    BY DEF SumTo, Sums
  <1>3. \A n \in Nat : \A i \in 0..n :
          s(n)[i] = IF i = 0 THEN 0 ELSE s(n)[i - 1] + f[i]
    BY <1>1 DEF Sums
  <1> HIDE DEF s
  <1>4. SumTo(f, 0) = 0
    BY <1>2, <1>3
  <1>5. ASSUME NEW n \in Nat PROVE SumTo(f, n + 1) = SumTo(f, n) + f[n + 1]
    <2>1. \A i \in 0..n : s(n)[i] = s(n + 1)[i]
      <3>1. s(n)[0] = s(n + 1)[0]
        BY <1>3
      <3>2. \A i \in 1..n : s(n)[i - 1] = s(n + 1)[i - 1] =>
                            s(n)[i] = s(n + 1)[i]
        BY <1>3
      <3>3. QED
        BY <3>1, <3>2, SameCourse DEF Alike
    <2>2. s(n + 1)[n + 1] = s(n + 1)[n] + f[n + 1]
      BY <1>3
    <2>3. QED
      BY <1>2, <2>1, <2>2
  <1>6. QED
    BY <1>4, <1>5

LEMMA SumInt ==
    ASSUME NEW f, NEW n \in Nat, \A i \in 1..n : f[i] \in Int
    PROVE  \A m \in 0..n : SumTo(f, m) \in Int
  <1> DEFINE S == {m \in Nat : m <= n => SumTo(f, m) \in Int}
  <1>1. 0 \in S
    BY SumSteps
  <1>2. ASSUME NEW m \in Nat, m \in S PROVE m + 1 \in S
    BY <1>2, SumSteps
  <1> HIDE DEF S
  <1>3. \A m \in Nat : m \in S
    BY <1>1, <1>2, Inductive
  <1>4. QED
    BY <1>3 DEF S

(* Sums of functions that differ by a function.                            *)
LEMMA SumAdds ==
    ASSUME NEW f, NEW g, NEW h, NEW n \in Nat,
           \A i \in 1..n : f[i] \in Int /\ g[i] \in Int /\ h[i] = f[i] + g[i]
    PROVE  SumTo(h, n) = SumTo(f, n) + SumTo(g, n)
  <1> DEFINE S == {m \in Nat :
                     m <= n => SumTo(h, m) = SumTo(f, m) + SumTo(g, m)}
  <1>1. 0 \in S
    BY SumSteps
  <1>2. ASSUME NEW m \in Nat, m \in S PROVE m + 1 \in S
    <2> SUFFICES ASSUME m + 1 <= n
                 PROVE  SumTo(h, m + 1) = SumTo(f, m + 1) + SumTo(g, m + 1)
      OBVIOUS
    <2>1. SumTo(f, m) \in Int /\ SumTo(g, m) \in Int
      BY SumInt
    <2>2. SumTo(h, m) = SumTo(f, m) + SumTo(g, m)
      BY <1>2
    <2>3. QED
      BY <2>1, <2>2, SumSteps
  <1> HIDE DEF S
  <1>3. \A m \in Nat : m \in S
    BY <1>1, <1>2, Inductive
  <1>4. QED
    BY <1>3 DEF S

LEMMA SumLeq ==
    ASSUME NEW f, NEW g, NEW n \in Nat,
           \A i \in 1..n : f[i] \in Int /\ g[i] \in Int /\ f[i] <= g[i]
    PROVE  SumTo(f, n) <= SumTo(g, n)
  <1> DEFINE S == {m \in Nat : m <= n => SumTo(f, m) <= SumTo(g, m)}
  <1>1. 0 \in S
    BY SumSteps
  <1>2. ASSUME NEW m \in Nat, m \in S PROVE m + 1 \in S
    <2> SUFFICES ASSUME m + 1 <= n
                 PROVE  SumTo(f, m + 1) <= SumTo(g, m + 1)
      OBVIOUS
    <2>1. SumTo(f, m) \in Int /\ SumTo(g, m) \in Int
      BY SumInt
    <2>2. SumTo(f, m) <= SumTo(g, m)
      BY <1>2
    <2>3. QED
      BY <2>1, <2>2, SumSteps
  <1> HIDE DEF S
  <1>3. \A m \in Nat : m \in S
    BY <1>1, <1>2, Inductive
  <1>4. QED
    BY <1>3 DEF S

LEMMA SumSame ==
    ASSUME NEW f, NEW g, NEW n \in Nat, \A i \in 1..n : f[i] = g[i]
    PROVE  SumTo(f, n) = SumTo(g, n)
  <1> DEFINE S == {m \in Nat : m <= n => SumTo(f, m) = SumTo(g, m)}
  <1>1. 0 \in S
    BY SumSteps
  <1>2. ASSUME NEW m \in Nat, m \in S PROVE m + 1 \in S
    BY <1>2, SumSteps
  <1> HIDE DEF S
  <1>3. \A m \in Nat : m \in S
    BY <1>1, <1>2, Inductive
  <1>4. QED
    BY <1>3 DEF S

LEMMA SumZero ==
    ASSUME NEW f, NEW n \in Nat, \A i \in 1..n : f[i] = 0
    PROVE  SumTo(f, n) = 0
  <1> DEFINE S == {m \in Nat : m <= n => SumTo(f, m) = 0}
  <1>1. 0 \in S
    BY SumSteps
  <1>2. ASSUME NEW m \in Nat, m \in S PROVE m + 1 \in S
    BY <1>2, SumSteps
  <1> HIDE DEF S
  <1>3. \A m \in Nat : m \in S
    BY <1>1, <1>2, Inductive
  <1>4. QED
    BY <1>3 DEF S

(* A sum grows with its length, by as much as is added.                    *)
LEMMA SumGrows ==
    ASSUME NEW f, NEW n \in Nat, NEW k \in 0..n,
           \A i \in 1..n : f[i] \in Nat
    PROVE  /\ SumTo(f, k) \in Nat /\ SumTo(f, n) \in Nat
           /\ SumTo(f, k) <= SumTo(f, n)
           /\ (\A i \in (k + 1)..n : f[i] = 0) => SumTo(f, n) = SumTo(f, k)
  <1> DEFINE Low == [i \in 1..n |-> IF i <= k THEN f[i] ELSE 0]
             S == {m \in Nat : m <= n =>
                     SumTo(Low, m) = SumTo(f, IF m <= k THEN m ELSE k)}
  <1>1. 0 \in S
    BY SumSteps
  <1>2. ASSUME NEW m \in Nat, m \in S PROVE m + 1 \in S
    <2> SUFFICES ASSUME m + 1 <= n
                 PROVE  SumTo(Low, m + 1) =
                        SumTo(f, IF m + 1 <= k THEN m + 1 ELSE k)
      OBVIOUS
    <2>1. SumTo(Low, m + 1) = SumTo(Low, m) + Low[m + 1]
      BY SumSteps
    <2>2. SumTo(f, m + 1) = SumTo(f, m) + f[m + 1]
      BY SumSteps
    <2>3. SumTo(Low, m) = SumTo(f, IF m <= k THEN m ELSE k)
      BY <1>2
    <2>4. SumTo(f, k) \in Int
      BY SumInt
    <2>5. QED
      BY <2>1, <2>2, <2>3, <2>4
  <1>3. \A m \in Nat : m \in S
    <2> HIDE DEF S
    <2>1. QED
      BY <1>1, <1>2, Inductive
  <1>4. SumTo(Low, n) = SumTo(f, k)
    BY <1>3
  <1>5. \A i \in 1..n : Low[i] \in Int /\ f[i] \in Int /\ Low[i] <= f[i]
    OBVIOUS
  <1>6. SumTo(f, k) <= SumTo(f, n)
    BY <1>4, <1>5, SumLeq
  <1>7. (\A i \in (k + 1)..n : f[i] = 0) => SumTo(f, n) = SumTo(f, k)
    BY <1>4, SumSame
  <1>8. SumTo([i \in 1..n |-> 0], k) <= SumTo(f, k)
    BY SumLeq
  <1>9. SumTo([i \in 1..n |-> 0], k) = 0
    BY SumZero
  <1>10. SumTo(f, k) \in Int /\ SumTo(f, n) \in Int
    BY SumInt
  <1>11. QED
    BY <1>6, <1>7, <1>8, <1>9, <1>10

(* A sum moves with one of its terms.                                      *)
LEMMA SumPoint ==
    ASSUME NEW f, NEW g, NEW n \in Nat, NEW k \in 1..n,
           \A i \in 1..n : f[i] \in Int /\ g[i] \in Int,
           \A i \in 1..n : i # k => g[i] = f[i]
    PROVE  SumTo(g, n) = SumTo(f, n) + (g[k] - f[k])
  <1> DEFINE S == {m \in Nat : m <= n =>
                     SumTo(g, m) = SumTo(f, m)
                                   + IF m < k THEN 0 ELSE g[k] - f[k]}
  <1>1. 0 \in S
    BY SumSteps
  <1>2. ASSUME NEW m \in Nat, m \in S PROVE m + 1 \in S
    <2> SUFFICES ASSUME m + 1 <= n
                 PROVE  SumTo(g, m + 1) = SumTo(f, m + 1)
                          + IF m + 1 < k THEN 0 ELSE g[k] - f[k]
      OBVIOUS
    <2>1. SumTo(f, m) \in Int /\ SumTo(g, m) \in Int
      BY SumInt
    <2>2. SumTo(g, m) = SumTo(f, m) + IF m < k THEN 0 ELSE g[k] - f[k]
      BY <1>2
    <2>3. QED
      BY <2>1, <2>2, SumSteps
  <1> HIDE DEF S
  <1>3. n \in S
    BY <1>1, <1>2, Inductive
  <1>4. QED
    BY <1>3 DEF S

LEMMA SumLess ==
    ASSUME NEW f, NEW g, NEW n \in Nat, NEW k \in 1..n, f[k] < g[k],
           \A i \in 1..n : f[i] \in Int /\ g[i] \in Int /\ f[i] <= g[i]
    PROVE  SumTo(f, n) < SumTo(g, n)
  <1> DEFINE h == [i \in 1..n |-> IF i = k THEN f[k] ELSE g[i]]
  <1>a. \A i \in 1..n : f[i] \in Int /\ h[i] \in Int /\ f[i] <= h[i]
    OBVIOUS
  <1>b. /\ \A i \in 1..n : g[i] \in Int /\ h[i] \in Int
        /\ \A i \in 1..n : i # k => h[i] = g[i]
    OBVIOUS
  <1>1. SumTo(f, n) <= SumTo(h, n)
    <2> HIDE DEF h
    <2>1. QED
      BY <1>a, SumLeq, Zenon
  <1>2. SumTo(h, n) = SumTo(g, n) + (h[k] - g[k])
    <2> HIDE DEF h
    <2>1. QED
      BY <1>b, SumPoint, Zenon
  <1>3. SumTo(f, n) \in Int
    BY SumInt
  <1>4. SumTo(g, n) \in Int
    BY SumInt
  <1>5. h[k] = f[k]
    OBVIOUS
  <1> HIDE DEF h
  <1>6. QED
    BY <1>1, <1>2, <1>3, <1>4, <1>5

(* The sum of a table, by rows and by columns.                             *)
Transposed(t, u, n, m) ==
    \A i \in 1..n : \A j \in 1..m : t[i][j] \in Int /\ u[j][i] = t[i][j]

Totals(f, t, n, m) == \A i \in 1..n : f[i] = SumTo(t[i], m)

LEMMA SumSwaps ==
    ASSUME NEW t, NEW u, NEW f, NEW g, NEW n \in Nat, NEW m \in Nat,
           Transposed(t, u, n, m), Totals(f, t, n, m), Totals(g, u, m, n)
    PROVE  SumTo(f, n) = SumTo(g, m)
  <1> DEFINE c(k) == [j \in 1..m |-> SumTo(u[j], k)]
             S == {k \in Nat : k <= n => SumTo(f, k) = SumTo(c(k), m)}
  <1>1. 0 \in S
    <2>1. \A j \in 1..m : c(0)[j] = 0
      BY SumSteps
    <2> HIDE DEF c
    <2>2. SumTo(c(0), m) = 0
      BY <2>1, SumZero
    <2>3. QED
      BY <2>2, SumSteps
  <1>2. ASSUME NEW k \in Nat, k \in S PROVE k + 1 \in S
    <2> SUFFICES ASSUME k + 1 <= n
                 PROVE  SumTo(f, k + 1) = SumTo(c(k + 1), m)
      OBVIOUS
    <2>1. SumTo(f, k + 1) = SumTo(f, k) + SumTo(t[k + 1], m)
      BY SumSteps DEF Totals
    <2>2. ASSUME NEW j \in 1..m
          PROVE  /\ c(k)[j] \in Int /\ t[k + 1][j] \in Int
                 /\ c(k + 1)[j] = c(k)[j] + t[k + 1][j]
      <3> DEFINE v == u[j]
      <3>1. \A i \in 1..n : v[i] \in Int /\ v[i] = t[i][j]
        BY DEF Transposed
      <3> HIDE DEF v
      <3>2. SumTo(v, k) \in Int
        BY <3>1, SumInt
      <3>3. SumTo(v, k + 1) = SumTo(v, k) + v[k + 1]
        BY SumSteps
      <3>4. QED
        BY <3>1, <3>2, <3>3 DEF v
    <2> HIDE DEF c
    <2>3. SumTo(c(k + 1), m) = SumTo(c(k), m) + SumTo(t[k + 1], m)
      BY <2>2, SumAdds
    <2>4. QED
      BY <1>2, <2>1, <2>3
  <1>3. n \in S
    <2> HIDE DEF S
    <2>1. QED
      BY <1>1, <1>2, Inductive
  <1>4. SumTo(f, n) = SumTo(c(n), m)
    <2> HIDE DEF c
    <2>1. QED
      BY <1>3
  <1>5. SumTo(c(n), m) = SumTo(g, m)
    <2>1. \A j \in 1..m : c(n)[j] = g[j]
      BY DEF Totals
    <2> HIDE DEF c
    <2>2. QED
      BY <2>1, SumSame
  <1>6. QED
    BY <1>4, <1>5

-----------------------------------------------------------------------------
(* Allocations                                                             *)

Rows == [PaymentIds -> [Cycles -> Nat]]

(* What the payment i finds, and what it adds.                             *)
Step(s, at, i, rows) ==
    IF s.payments[i].at # at THEN rows
    ELSE [rows EXCEPT ![i] = Applied(s.payments[i].amount, Due(s, rows, at))]

InTurn(g, s, at, before, n) ==
    g = [i \in 0..n |-> IF i = 0 THEN before ELSE Step(s, at, i, g[i - 1])]

InCourse(g, s, n) ==
    g = [at \in 0..n |-> IF at = 0 THEN NoAllocation
                         ELSE AllocatedAt(at, s, g[at - 1])]

LEMMA InTurnExists ==
    ASSUME NEW s, NEW at, NEW before, NEW n \in Nat
    PROVE  \E g : InTurn(g, s, at, before, n)
  <1> DEFINE S == {k \in Nat : \E g : InTurn(g, s, at, before, k)}
  <1>1. 0 \in S
    <2>1. InTurn([i \in 0..0 |-> before], s, at, before, 0)
      BY DEF InTurn
    <2>2. QED
      BY <2>1
  <1>2. ASSUME NEW k \in Nat, k \in S PROVE k + 1 \in S
    <2>1. PICK g : InTurn(g, s, at, before, k)
      BY <1>2
    <2> DEFINE h == [i \in 0..(k + 1) |-> IF i = k + 1
                                            THEN Step(s, at, k + 1, g[k])
                                            ELSE g[i]]
    <2>2. \A i \in 0..k :
            g[i] = IF i = 0 THEN before ELSE Step(s, at, i, g[i - 1])
      BY <2>1 DEF InTurn
    <2>3. \A i \in 0..(k + 1) :
            h[i] = IF i = 0 THEN before ELSE Step(s, at, i, h[i - 1])
      BY <2>2
    <2>4. InTurn(h, s, at, before, k + 1)
      BY <2>3 DEF InTurn
    <2>5. QED
      BY <2>4
  <1> HIDE DEF S
  <1>3. n \in S
    BY <1>1, <1>2, Inductive
  <1>4. QED
    BY <1>3 DEF S

Turns(g, s, at, before) ==
    /\ g[0] = before
    /\ \A i \in 1..Len(s.payments) : g[i] = Step(s, at, i, g[i - 1])
    /\ AllocatedAt(at, s, before) = g[Len(s.payments)]

LEMMA PaymentsInTurn ==
    ASSUME NEW s, Len(s.payments) \in Nat, NEW at, NEW before
    PROVE  \E g : Turns(g, s, at, before)
  <1> DEFINE n == Len(s.payments)
             g == CHOOSE x : InTurn(x, s, at, before, n)
  <1>1. InTurn(g, s, at, before, n)
    BY InTurnExists
  <1>2. AllocatedAt(at, s, before) = g[n]
    BY DEF AllocatedAt, InTurn, Step
  <1> HIDE DEF g
  <1>3. \A i \in 0..n :
          g[i] = IF i = 0 THEN before ELSE Step(s, at, i, g[i - 1])
    BY <1>1 DEF InTurn
  <1>4. Turns(g, s, at, before)
    BY <1>2, <1>3 DEF Turns
  <1>5. QED
    BY <1>4

LEMMA InCourseExists ==
    ASSUME NEW s, NEW n \in Nat
    PROVE  \E g : InCourse(g, s, n)
  <1> DEFINE S == {k \in Nat : \E g : InCourse(g, s, k)}
  <1>1. 0 \in S
    <2>1. InCourse([at \in 0..0 |-> NoAllocation], s, 0)
      BY DEF InCourse
    <2>2. QED
      BY <2>1
  <1>2. ASSUME NEW k \in Nat, k \in S PROVE k + 1 \in S
    <2>1. PICK g : InCourse(g, s, k)
      BY <1>2
    <2> DEFINE h == [at \in 0..(k + 1) |-> IF at = k + 1
                                             THEN AllocatedAt(k + 1, s, g[k])
                                             ELSE g[at]]
    <2>2. \A at \in 0..k :
            g[at] = IF at = 0 THEN NoAllocation
                              ELSE AllocatedAt(at, s, g[at - 1])
      BY <2>1 DEF InCourse
    <2>3. \A at \in 0..(k + 1) :
            h[at] = IF at = 0 THEN NoAllocation
                              ELSE AllocatedAt(at, s, h[at - 1])
      BY <2>2
    <2>4. InCourse(h, s, k + 1)
      BY <2>3 DEF InCourse
    <2>5. QED
      BY <2>4
  <1> HIDE DEF S
  <1>3. n \in S
    BY <1>1, <1>2, Inductive
  <1>4. QED
    BY <1>3 DEF S

Courses(g, s) ==
    /\ g[0] = NoAllocation
    /\ \A at \in 1..Months : g[at] = AllocatedAt(at, s, g[at - 1])
    /\ Allocations(s) = g[Months]

LEMMA CyclesInCourse ==
    ASSUME NEW s
    PROVE  \E g : Courses(g, s)
  <1> DEFINE g == CHOOSE x : InCourse(x, s, Months)
  <1>1. InCourse(g, s, Months)
    BY InCourseExists, MonthsAssumption
  <1>2. Allocations(s) = g[Months]
    BY DEF Allocations, InCourse
  <1> HIDE DEF g
  <1>3. \A at \in 0..Months :
          g[at] = IF at = 0 THEN NoAllocation ELSE AllocatedAt(at, s, g[at - 1])
    BY <1>1 DEF InCourse
  <1>4. Courses(g, s)
    BY <1>2, <1>3, MonthsAssumption DEF Courses
  <1>5. QED
    BY <1>4

LEMMA CyclesSum ==
    ASSUME NEW f \in [Cycles -> Nat], NEW k \in 0..Months
    PROVE  /\ SumTo(f, k) \in Nat /\ SumTo(f, Months) \in Nat
           /\ SumTo(f, k) <= SumTo(f, Months)
           /\ (\A c \in (k + 1)..Months : f[c] = 0) =>
                SumTo(f, Months) = SumTo(f, k)
  <1>1. \A c \in 1..Months : f[c] \in Nat
    BY DEF Cycles
  <1>2. QED
    BY <1>1, SumGrows, MonthsAssumption

LEMMA PaymentsSum ==
    ASSUME NEW f \in [PaymentIds -> Int]
    PROVE  /\ SumTo(f, MaxPayments) \in Int
           /\ \A g \in [PaymentIds -> Int] :
                (\A i \in PaymentIds : f[i] <= g[i]) =>
                  /\ SumTo(f, MaxPayments) <= SumTo(g, MaxPayments)
                  /\ \A i \in PaymentIds : f[i] < g[i] =>
                       SumTo(f, MaxPayments) < SumTo(g, MaxPayments)
           /\ \A i \in PaymentIds : \A x \in Int :
                SumTo([f EXCEPT ![i] = x], MaxPayments)
                  = SumTo(f, MaxPayments) + (x - f[i])
  <1> DEFINE P == MaxPayments
  <1>1. P \in Nat /\ P \in 0..P /\ PaymentIds = 1..P
    BY BoundAssumption DEF PaymentIds
  <1>2. \A i \in 1..P : f[i] \in Int
    BY <1>1
  <1>3. SumTo(f, P) \in Int
    <2> HIDE DEF P
    <2>1. QED
      BY <1>1, <1>2, SumInt
  <1>4. ASSUME NEW g \in [PaymentIds -> Int],
               \A i \in PaymentIds : f[i] <= g[i]
        PROVE  /\ SumTo(f, P) <= SumTo(g, P)
               /\ \A i \in PaymentIds : f[i] < g[i] => SumTo(f, P) < SumTo(g, P)
    <2>1. \A i \in 1..P : f[i] \in Int /\ g[i] \in Int /\ f[i] <= g[i]
      BY <1>1, <1>4
    <2> HIDE DEF P
    <2>2. SumTo(f, P) <= SumTo(g, P)
      BY <1>1, <2>1, SumLeq
    <2>3. \A i \in PaymentIds : f[i] < g[i] => SumTo(f, P) < SumTo(g, P)
      BY <1>1, <2>1, SumLess
    <2>4. QED
      BY <2>2, <2>3
  <1>5. ASSUME NEW i \in PaymentIds, NEW x \in Int
        PROVE  SumTo([f EXCEPT ![i] = x], P) = SumTo(f, P) + (x - f[i])
    <2> DEFINE g == [f EXCEPT ![i] = x]
    <2>1. \A j \in 1..P : /\ f[j] \in Int /\ g[j] \in Int
                          /\ j # i => g[j] = f[j]
      BY <1>1
    <2>2. g[i] = x /\ i \in 1..P
      BY <1>1
    <2> HIDE DEF g, P
    <2>3. SumTo(g, P) = SumTo(f, P) + (g[i] - f[i])
      BY <1>1, <2>1, <2>2, SumPoint
    <2>4. QED
      BY <2>2, <2>3 DEF g
  <1>6. QED
    BY <1>3, <1>4, <1>5

(* A payment fills the statements it finds from the first one on, until    *)
(* nothing is left of it.                                                  *)
LEMMA AppliedInOrder ==
    ASSUME NEW n \in Nat, NEW due \in [Cycles -> Nat]
    PROVE  /\ Applied(n, due) \in [Cycles -> Nat]
           /\ \A c \in Cycles : Applied(n, due)[c] <= due[c]
           /\ \A b, c \in Cycles : b < c /\ Applied(n, due)[c] > 0 =>
                Applied(n, due)[b] = due[b]
           /\ \A k \in 0..Months :
                SumTo(Applied(n, due), k) =
                  IF n <= SumTo(due, k) THEN n ELSE SumTo(due, k)
  <1> DEFINE A == Applied(n, due)
  <1>1. ASSUME NEW c \in Cycles
        PROVE  /\ c - 1 \in 0..Months /\ c \in 1..Months
               /\ SumTo(due, c - 1) \in Nat
               /\ SumTo(due, c) = SumTo(due, c - 1) + due[c]
               /\ due[c] \in Nat
               /\ A[c] = IF n <= SumTo(due, c - 1) THEN 0
                         ELSE IF n - SumTo(due, c - 1) > due[c] THEN due[c]
                         ELSE n - SumTo(due, c - 1)
    <2>1. c - 1 \in 0..Months /\ c \in 1..Months /\ (c - 1) + 1 = c
      BY MonthsAssumption DEF Cycles
    <2>2. SumTo(due, c - 1) \in Nat
      BY <2>1, CyclesSum
    <2>3. SumTo(due, c) = SumTo(due, c - 1) + due[c]
      BY <2>1, SumSteps
    <2>4. A[c] = LET left == n - SumTo(due, c - 1) IN
                   IF left <= 0 THEN 0
                   ELSE IF left > due[c] THEN due[c] ELSE left
      BY DEF Applied
    <2>5. QED
      BY <2>1, <2>2, <2>3, <2>4
  <1>2. A = [c \in Cycles |-> A[c]]
    BY DEF Applied
  <1> HIDE DEF A
  <1>3. A \in [Cycles -> Nat] /\ \A c \in Cycles : A[c] <= due[c]
    BY <1>1, <1>2
  <1>4. ASSUME NEW b \in Cycles, NEW c \in Cycles, b < c, A[c] > 0
        PROVE  A[b] = due[b]
    <2>1. SumTo(due, b) <= SumTo(due, c - 1)
      <3>1. b \in 0..(c - 1) /\ c - 1 \in Nat
        BY <1>4, MonthsAssumption DEF Cycles
      <3>2. \A i \in 1..(c - 1) : due[i] \in Nat
        BY MonthsAssumption DEF Cycles
      <3>3. QED
        BY <3>1, <3>2, SumGrows
    <2>2. n > SumTo(due, c - 1)
      BY <1>1, <1>4
    <2>3. SumTo(due, b) \in Nat /\ SumTo(due, b - 1) \in Nat
      BY <1>1, CyclesSum
    <2>4. n - SumTo(due, b - 1) > due[b]
      BY <1>1, <2>1, <2>2, <2>3
    <2>5. QED
      BY <1>1, <2>3, <2>4
  <1>5. \A k \in 0..Months :
          SumTo(A, k) = IF n <= SumTo(due, k) THEN n ELSE SumTo(due, k)
    <2> DEFINE S == {k \in Nat : k <= Months =>
                       SumTo(A, k) =
                         IF n <= SumTo(due, k) THEN n ELSE SumTo(due, k)}
    <2>1. 0 \in S
      BY SumSteps
    <2>2. ASSUME NEW k \in Nat, k \in S PROVE k + 1 \in S
      <3> SUFFICES ASSUME k + 1 <= Months
                   PROVE  SumTo(A, k + 1) = IF n <= SumTo(due, k + 1)
                                            THEN n ELSE SumTo(due, k + 1)
        OBVIOUS
      <3>1. k + 1 \in Cycles /\ (k + 1) - 1 = k
        BY DEF Cycles
      <3>2. SumTo(A, k) = IF n <= SumTo(due, k) THEN n ELSE SumTo(due, k)
        BY <2>2, MonthsAssumption
      <3>3. SumTo(A, k + 1) = SumTo(A, k) + A[k + 1]
        BY SumSteps
      <3>4. /\ SumTo(due, k) \in Nat /\ due[k + 1] \in Nat
            /\ SumTo(due, k + 1) = SumTo(due, k) + due[k + 1]
            /\ A[k + 1] = IF n <= SumTo(due, k) THEN 0
                          ELSE IF n - SumTo(due, k) > due[k + 1] THEN due[k + 1]
                          ELSE n - SumTo(due, k)
        BY <1>1, <3>1
      <3>5. QED
        BY <3>2, <3>3, <3>4
    <2> HIDE DEF S
    <2>3. \A k \in Nat : k \in S
      BY <2>1, <2>2, Inductive
    <2>4. QED
      BY <2>3, MonthsAssumption DEF S
  <1>6. QED
    BY <1>3, <1>4, <1>5 DEF A

(* Two payments' rows never mix: a row added to an empty one adds to what  *)
(* each statement has been paid.                                           *)
LEMMA PaidAdds ==
    ASSUME NEW rows \in Rows, NEW c \in Cycles
    PROVE  /\ Paid(rows, c) \in Nat
           /\ \A i \in PaymentIds : \A new \in [Cycles -> Nat] :
                rows[i][c] = 0 =>
                  Paid([rows EXCEPT ![i] = new], c) = Paid(rows, c) + new[c]
           /\ \A i \in PaymentIds : rows[i][c] > 0 => Paid(rows, c) > 0
           /\ (\A i \in PaymentIds : rows[i][c] = 0) => Paid(rows, c) = 0
  <1> DEFINE f == [i \in PaymentIds |-> rows[i][c]]
             P == MaxPayments
  <1>1. \A i \in 1..P : f[i] \in Nat /\ f[i] \in Int /\ f[i] = rows[i][c]
    BY DEF Rows, PaymentIds
  <1>2. P \in Nat /\ 0 \in 0..P /\ PaymentIds = 1..P
    BY BoundAssumption DEF PaymentIds
  <1>3. Paid(rows, c) = SumTo(f, P)
    BY DEF Paid
  <1>4. Paid(rows, c) \in Nat
    <2> HIDE DEF f, P
    <2>1. QED
      BY <1>1, <1>2, <1>3, SumGrows
  <1>5. ASSUME NEW i \in PaymentIds, NEW new \in [Cycles -> Nat],
               rows[i][c] = 0
        PROVE  Paid([rows EXCEPT ![i] = new], c) = Paid(rows, c) + new[c]
    <2> DEFINE g == [j \in PaymentIds |-> [rows EXCEPT ![i] = new][j][c]]
    <2>1. /\ \A j \in 1..P : g[j] \in Int /\ (j # i => g[j] = f[j])
          /\ g[i] = new[c] /\ f[i] = 0 /\ new[c] \in Nat
      BY <1>1, <1>2, <1>5 DEF Rows
    <2>2. Paid([rows EXCEPT ![i] = new], c) = SumTo(g, P)
      BY DEF Paid
    <2> HIDE DEF f, g, P
    <2>3. SumTo(g, P) = SumTo(f, P) + (g[i] - f[i])
      BY <1>1, <1>2, <2>1, SumPoint
    <2>4. QED
      BY <1>3, <1>4, <2>1, <2>2, <2>3
  <1>6. ASSUME NEW i \in PaymentIds, rows[i][c] > 0
        PROVE  Paid(rows, c) > 0
    <2> DEFINE z == [j \in PaymentIds |-> 0]
    <2>1. \A j \in 1..P : z[j] = 0 /\ z[j] \in Int
      BY <1>2
    <2>2. \A j \in 1..P : z[j] <= f[j]
      BY <1>1, <2>1
    <2>3. z[i] < f[i]
      BY <1>2, <1>6
    <2> HIDE DEF f, z, P
    <2>4. SumTo(z, P) = 0
      BY <1>2, <2>1, SumZero
    <2>5. SumTo(z, P) < SumTo(f, P)
      BY <1>1, <1>2, <2>1, <2>2, <2>3, SumLess
    <2>6. QED
      BY <1>3, <1>4, <2>4, <2>5
  <1>7. (\A i \in PaymentIds : rows[i][c] = 0) => Paid(rows, c) = 0
    <2>1. (\A i \in PaymentIds : rows[i][c] = 0) => \A i \in 1..P : f[i] = 0
      BY <1>1, <1>2
    <2> HIDE DEF f, P
    <2>2. QED
      BY <1>2, <1>3, <2>1, SumZero
  <1>8. QED
    BY <1>4, <1>5, <1>6, <1>7

(* All that has been paid, by statement and by payment.                    *)
LEMMA PaidByBoth ==
    ASSUME NEW rows \in Rows, NEW k \in 0..Months
    PROVE  SumTo([i \in PaymentIds |-> SumTo(rows[i], k)], MaxPayments)
             = SumTo([c \in Cycles |-> Paid(rows, c)], k)
  <1> DEFINE f == [i \in PaymentIds |-> SumTo(rows[i], k)]
             g == [c \in Cycles |-> Paid(rows, c)]
             u == [c \in Cycles |-> [i \in PaymentIds |-> rows[i][c]]]
             n == MaxPayments
  <1>1. /\ n \in Nat /\ k \in Nat
        /\ Transposed(rows, u, n, k)
        /\ Totals(f, rows, n, k) /\ Totals(g, u, k, n)
    BY BoundAssumption, MonthsAssumption
    DEF PaymentIds, Cycles, Rows, Paid, Transposed, Totals
  <1> HIDE DEF f, g, u, n
  <1>2. SumTo(f, n) = SumTo(g, k)
    BY <1>1, SumSwaps
  <1>3. QED
    BY <1>2 DEF f, g, n

-----------------------------------------------------------------------------
(* What the statements owe to the payments                                 *)

SnapOK(s) ==
    /\ s.now \in 0..Months /\ s.charged \in [Cycles -> Nat]
    /\ Len(s.payments) \in 0..MaxPayments
    /\ \A i \in 1..Len(s.payments) :
         s.payments[i].amount \in Nat /\ s.payments[i].at \in 0..Months

(* What was paid while no more than k cycles were closed.                  *)
MadeBy(s, k) ==
    [i \in PaymentIds |->
       IF i <= Len(s.payments) /\ s.payments[i].at <= k
         THEN s.payments[i].amount ELSE 0]

(* Every payment found statements to pay.                                  *)
Payable(s) ==
    \A k \in 0..Months : SumTo(MadeBy(s, k), MaxPayments) <= SumTo(Billed(s), k)

(* Payment j has its row when payment i of the cycle `at' has its own.     *)
Placed(s, at, i, j) ==
    /\ j \in 1..Len(s.payments)
    /\ s.payments[j].at >= 1
    /\ s.payments[j].at < at \/ (s.payments[j].at = at /\ j <= i)

(* The rows by then: no statement is paid more than it bills, a payment    *)
(* goes to the statements closed when it was made, a statement is paid     *)
(* only once those before it are, and a payment is used up unless there    *)
(* was nothing for it to pay.                                              *)
WithinBills(s, rows) == \A c \in Cycles : Paid(rows, c) <= Billed(s)[c]

OldestFirst(s, rows) ==
    \A b, c \in Cycles :
        b < c /\ Paid(rows, c) > 0 => Paid(rows, b) = Billed(s)[b]

WithinPayments(s, rows) ==
    \A j \in 1..Len(s.payments) :
        SumTo(rows[j], Months) <= s.payments[j].amount

PlacedOnly(s, at, i, rows) ==
    \A j \in PaymentIds : \A c \in Cycles :
        rows[j][c] > 0 => Placed(s, at, i, j) /\ c <= s.payments[j].at

UsedUp(s, at, i, rows) ==
    \A j \in PaymentIds :
        Placed(s, at, i, j) => SumTo(rows[j], Months) = s.payments[j].amount

Entered(s, at, i, rows) ==
    /\ rows \in Rows
    /\ WithinBills(s, rows) /\ OldestFirst(s, rows) /\ WithinPayments(s, rows)
    /\ PlacedOnly(s, at, i, rows)
    /\ Payable(s) => UsedUp(s, at, i, rows)

LEMMA BilledType ==
    ASSUME NEW s, SnapOK(s)
    PROVE  /\ Billed(s) \in [Cycles -> Nat]
           /\ 1..Len(s.payments) \subseteq PaymentIds
           /\ \A k \in 0..Months : MadeBy(s, k) \in [PaymentIds -> Nat]
  BY BoundAssumption, MonthsAssumption DEF SnapOK, Billed, Cycles, PaymentIds,
     MadeBy

(* What there is to pay, when a payment finds room for it.                 *)
LEMMA RoomToPay ==
    ASSUME NEW s, SnapOK(s), Payable(s), NEW at \in 1..Months,
           NEW i \in 1..Len(s.payments), s.payments[i].at = at,
           NEW rows, Entered(s, at, i - 1, rows)
    PROVE  s.payments[i].amount <= SumTo(Due(s, rows, at), Months)
  <1> DEFINE due == Due(s, rows, at)
             billed == Billed(s)
             paid == [c \in Cycles |-> Paid(rows, c)]
             spent == [j \in PaymentIds |-> SumTo(rows[j], at)]
             made == MadeBy(s, at)
             P == MaxPayments
             n == s.payments[i].amount
             others == [made EXCEPT ![i] = 0]
  <1>1. /\ at \in Nat /\ at \in 0..Months /\ 1..at \subseteq Cycles
        /\ P \in Nat /\ PaymentIds = 1..P /\ i \in PaymentIds /\ n \in Nat
        /\ n = made[i]
        /\ rows \in Rows
    BY MonthsAssumption, BoundAssumption, BilledType
    DEF Cycles, PaymentIds, SnapOK, MadeBy, Entered
  <1>2. \A c \in Cycles : /\ Paid(rows, c) \in Nat /\ billed[c] \in Nat
                          /\ Paid(rows, c) <= billed[c]
                          /\ paid[c] = Paid(rows, c)
    BY <1>1, BilledType, PaidAdds DEF Entered, WithinBills
  <1>3. due \in [Cycles -> Nat]
    BY <1>2 DEF Due
  <1>4. SumTo(due, Months) = SumTo(due, at)
    <2>1. \A c \in (at + 1)..Months : due[c] = 0
      BY MonthsAssumption DEF Due, Cycles
    <2> HIDE DEF due
    <2>2. QED
      BY <1>1, <1>3, <2>1, CyclesSum
  <1>5. SumTo(billed, at) = SumTo(due, at) + SumTo(paid, at)
    <2>1. \A c \in 1..at : /\ due[c] \in Int /\ paid[c] \in Int
                           /\ billed[c] = due[c] + paid[c]
      BY <1>1, <1>2 DEF Due
    <2> HIDE DEF due, billed, paid
    <2>2. QED
      BY <1>1, <2>1, SumAdds
  <1>6. SumTo(spent, P) = SumTo(paid, at)
    BY <1>1, PaidByBoth
  <1>7. ASSUME NEW j \in 1..P
        PROVE  /\ spent[j] \in Int /\ others[j] \in Int /\ made[j] \in Int
               /\ spent[j] <= others[j]
               /\ j # i => others[j] = made[j]
    <2>1. rows[j] \in [Cycles -> Nat] /\ made[j] \in Nat
      BY <1>1, BilledType DEF Rows
    <2>2. /\ spent[j] = SumTo(rows[j], at) /\ spent[j] \in Nat
          /\ spent[j] <= SumTo(rows[j], Months)
      BY <1>1, <2>1, CyclesSum
    <2>3. others[j] = IF j = i THEN 0 ELSE made[j]
      BY <1>1, BilledType
    <2>4. CASE \E c \in Cycles : rows[j][c] > 0
      <3>1. Placed(s, at, i - 1, j)
        BY <1>1, <2>4 DEF Entered, PlacedOnly
      <3>2. j \in 1..Len(s.payments) /\ j # i /\ s.payments[j].at <= at
        BY <3>1 DEF Placed, SnapOK
      <3>3. made[j] = s.payments[j].amount
        BY <1>1, <3>2 DEF MadeBy, SnapOK
      <3>4. SumTo(rows[j], Months) <= s.payments[j].amount
        BY <3>2 DEF Entered, WithinPayments
      <3> HIDE DEF spent, others, made
      <3>5. QED
        BY <2>1, <2>2, <2>3, <3>2, <3>3, <3>4, CyclesSum
    <2>5. CASE \A c \in Cycles : rows[j][c] = 0
      <3> DEFINE row == rows[j]
      <3>1. \A c \in 1..at : row[c] = 0
        BY <1>1, <2>5
      <3> HIDE DEF row
      <3>2. SumTo(row, at) = 0
        BY <1>1, <3>1, SumZero
      <3>3. QED
        BY <2>1, <2>2, <2>3, <3>2 DEF row
    <2>6. QED
      BY <2>1, <2>4, <2>5
  <1>8. /\ spent \in [PaymentIds -> Int] /\ others \in [PaymentIds -> Int]
        /\ made \in [PaymentIds -> Int]
    <2>1. \A j \in PaymentIds : spent[j] \in Int
      BY <1>1, <1>7
    <2>2. made \in [PaymentIds -> Nat]
      BY <1>1, BilledType
    <2>3. spent \in [PaymentIds -> Int]
      BY <2>1
    <2> HIDE DEF made, spent
    <2>4. made \in [PaymentIds -> Int]
      BY <2>2
    <2>5. others \in [PaymentIds -> Int]
      BY <1>1, <2>4
    <2>6. QED
      BY <2>3, <2>4, <2>5
  <1>9. SumTo(made, P) <= SumTo(billed, at)
    BY <1>1 DEF Payable
  <1>10. SumTo(billed, at) \in Nat /\ SumTo(due, at) \in Nat
    BY <1>1, <1>3, BilledType, CyclesSum
  <1> HIDE DEF due, billed, paid, spent, made, n
  <1>11. SumTo(spent, P) <= SumTo(others, P)
    <2>1. \A j \in PaymentIds : spent[j] <= others[j]
      BY <1>1, <1>7
    <2> HIDE DEF others
    <2>2. QED
      BY <1>8, <2>1, PaymentsSum
  <1>12. SumTo(others, P) = SumTo(made, P) + (0 - made[i])
    BY <1>1, <1>8, PaymentsSum
  <1>13. SumTo(made, P) \in Int /\ SumTo(spent, P) \in Int
    BY <1>8, PaymentsSum
  <1>14. n <= SumTo(due, at)
    BY <1>1, <1>5, <1>6, <1>9, <1>10, <1>11, <1>12, <1>13
  <1>15. QED
    BY <1>4, <1>14 DEF due, n

LEMMA PaymentsType ==
    ASSUME NEW s, SnapOK(s)
    PROVE  /\ Len(s.payments) \in Nat
           /\ \A j \in 1..Len(s.payments) :
                /\ s.payments[j].at \in Nat /\ s.payments[j].amount \in Nat
                /\ j \in Nat /\ j \in PaymentIds
  <1>1. Len(s.payments) \in Nat /\ Len(s.payments) <= MaxPayments
    BY BoundAssumption DEF SnapOK
  <1>2. \A j \in 1..Len(s.payments) : j \in Nat /\ j \in PaymentIds
    BY <1>1, BoundAssumption DEF PaymentIds
  <1>3. \A j \in 1..Len(s.payments) :
          s.payments[j].at \in Nat /\ s.payments[j].amount \in Nat
    BY MonthsAssumption DEF SnapOK
  <1>4. QED
    BY <1>1, <1>2, <1>3

LEMMA DueType ==
    ASSUME NEW s, SnapOK(s), NEW at \in 0..Months, NEW i, NEW rows,
           Entered(s, at, i, rows)
    PROVE  /\ Due(s, rows, at) \in [Cycles -> Nat]
           /\ \A c \in Cycles :
                /\ Paid(rows, c) \in Nat /\ Billed(s)[c] \in Nat
                /\ Due(s, rows, at)[c] =
                     IF c <= at THEN Billed(s)[c] - Paid(rows, c) ELSE 0
  <1>1. \A c \in Cycles : /\ Paid(rows, c) \in Nat /\ Billed(s)[c] \in Nat
                          /\ Paid(rows, c) <= Billed(s)[c]
    BY BilledType, PaidAdds DEF Entered, WithinBills
  <1>2. QED
    BY <1>1 DEF Due

LEMMA StepEntered ==
    ASSUME NEW s, SnapOK(s), NEW at \in 1..Months,
           NEW i \in 1..Len(s.payments), NEW rows, Entered(s, at, i - 1, rows)
    PROVE  Entered(s, at, i, Step(s, at, i, rows))
  <1> DEFINE p == s.payments
             due == Due(s, rows, at)
             n == p[i].amount
             part == Applied(n, due)
             new == [rows EXCEPT ![i] = part]
  <1>1. /\ i \in PaymentIds /\ i \in Nat /\ at \in 0..Months /\ at \in Nat
        /\ n \in Nat /\ p[i].at \in Nat /\ rows \in Rows
        /\ \A j \in 1..Len(p) : p[j].at \in Nat /\ j \in Nat
    <2>1. \A j \in 1..Len(p) : /\ p[j].at \in Nat /\ p[j].amount \in Nat
                              /\ j \in Nat /\ j \in PaymentIds
      BY PaymentsType
    <2>2. at \in 0..Months /\ at \in Nat
      BY MonthsAssumption
    <2>3. QED
      BY <2>1, <2>2 DEF Entered
  <1>2. CASE p[i].at # at
    <2>1. \A j : Placed(s, at, i, j) <=> Placed(s, at, i - 1, j)
      BY <1>1, <1>2 DEF Placed
    <2>2. Step(s, at, i, rows) = rows
      BY <1>2 DEF Step
    <2>3. QED
      BY <2>1, <2>2 DEF Entered, PlacedOnly, UsedUp
  <1>3. CASE p[i].at = at
    <2>1. \A j : Placed(s, at, i, j) <=> Placed(s, at, i - 1, j) \/ j = i
      BY <1>1, <1>3 DEF Placed
    <2>2. ~Placed(s, at, i - 1, i)
      BY <1>1, <1>3 DEF Placed
    <2>3. \A c \in Cycles : rows[i][c] = 0
      BY <1>1, <2>2 DEF Entered, PlacedOnly, Rows
    <2>4. Step(s, at, i, rows) = new
      BY <1>3 DEF Step
    <2>5. /\ due \in [Cycles -> Nat]
          /\ \A c \in Cycles :
               /\ Paid(rows, c) \in Nat /\ Billed(s)[c] \in Nat
               /\ due[c] = IF c <= at THEN Billed(s)[c] - Paid(rows, c) ELSE 0
      BY <1>1, DueType
    <2> HIDE DEF due, n
    <2>6. /\ part \in [Cycles -> Nat]
          /\ \A c \in Cycles : part[c] <= due[c]
          /\ \A b, c \in Cycles : b < c /\ part[c] > 0 => part[b] = due[b]
          /\ SumTo(part, Months) =
               IF n <= SumTo(due, Months) THEN n ELSE SumTo(due, Months)
      BY <1>1, <2>5, AppliedInOrder, MonthsAssumption
    <2> HIDE DEF part
    <2>7. \A c \in Cycles : Paid(new, c) = Paid(rows, c) + part[c]
      BY <1>1, <2>3, <2>6, PaidAdds
    <2>8. /\ new \in Rows /\ new[i] = part
          /\ \A j \in PaymentIds : j # i => new[j] = rows[j]
      BY <1>1, <2>6 DEF Rows
    <2> HIDE DEF new
    <2>9. WithinBills(s, new)
      <3>1. ASSUME NEW c \in Cycles PROVE Paid(new, c) <= Billed(s)[c]
        <4>1. Paid(rows, c) <= Billed(s)[c]
          BY DEF Entered, WithinBills
        <4>2. part[c] \in Nat /\ part[c] <= due[c]
          BY <2>6
        <4>3. QED
          BY <2>5, <2>7, <4>1, <4>2
      <3>2. QED
        BY <3>1 DEF WithinBills
    <2>10. OldestFirst(s, new)
      <3>1. ASSUME NEW b \in Cycles, NEW c \in Cycles, b < c, Paid(new, c) > 0
            PROVE  Paid(new, b) = Billed(s)[b]
        <4>1. /\ b \in Nat /\ c \in Nat
              /\ part[b] \in Nat /\ part[c] \in Nat
              /\ part[b] <= due[b] /\ part[c] <= due[c]
          BY <2>6, MonthsAssumption DEF Cycles
        <4>2. CASE Paid(rows, c) > 0
          <5>1. Paid(rows, b) = Billed(s)[b]
            BY <3>1, <4>2 DEF Entered, OldestFirst
          <5>2. due[b] = 0
            BY <2>5, <5>1
          <5>3. QED
            BY <2>5, <2>7, <4>1, <5>1, <5>2
        <4>3. CASE part[c] > 0
          <5>1. part[b] = due[b]
            BY <2>6, <3>1, <4>3
          <5>2. c <= at
            BY <2>5, <4>1, <4>3
          <5>3. b <= at
            BY <1>1, <3>1, <4>1, <5>2
          <5>4. due[b] = Billed(s)[b] - Paid(rows, b)
            BY <2>5, <5>3
          <5>5. QED
            BY <2>5, <2>7, <5>1, <5>4
        <4>4. QED
          BY <2>5, <2>7, <3>1, <4>1, <4>2, <4>3
      <3>2. QED
        BY <3>1 DEF OldestFirst
    <2>11. SumTo(part, Months) <= n
      BY <1>1, <2>5, <2>6, CyclesSum, MonthsAssumption
    <2>12. WithinPayments(s, new)
      <3>1. 1..Len(p) \subseteq PaymentIds
        BY BilledType
      <3>2. ASSUME NEW j \in 1..Len(p)
            PROVE  SumTo(new[j], Months) <= p[j].amount
        <4>1. CASE j = i
          BY <2>8, <2>11, <4>1 DEF n
        <4>2. CASE j # i
          <5>1. new[j] = rows[j]
            BY <2>8, <3>1, <4>2
          <5>2. QED
            BY <5>1 DEF Entered, WithinPayments
        <4>3. QED
          BY <4>1, <4>2
      <3>3. QED
        BY <3>2 DEF WithinPayments
    <2>13. PlacedOnly(s, at, i, new)
      <3>1. ASSUME NEW c \in Cycles, part[c] > 0 PROVE c <= at
        <4>1. part[c] \in Nat /\ part[c] <= due[c]
          BY <2>6
        <4>2. due[c] = IF c <= at THEN Billed(s)[c] - Paid(rows, c) ELSE 0
          BY <2>5
        <4>3. QED
          BY <3>1, <4>1, <4>2
      <3>2. QED
        BY <1>3, <2>1, <2>8, <3>1 DEF Entered, PlacedOnly
    <2>14. Payable(s) => UsedUp(s, at, i, new)
      <3>1. Payable(s) => n <= SumTo(due, Months)
        BY <1>3, RoomToPay DEF n, due
      <3>2. QED
        BY <2>1, <2>6, <2>8, <3>1 DEF Entered, UsedUp, n
    <2>15. QED
      BY <2>4, <2>8, <2>9, <2>10, <2>12, <2>13, <2>14 DEF Entered
  <1>4. QED
    BY <1>2, <1>3

LEMMA AllEntered ==
    ASSUME NEW s, SnapOK(s), NEW at \in 1..Months, NEW before,
           Entered(s, at, 0, before)
    PROVE  Entered(s, at, Len(s.payments), AllocatedAt(at, s, before))
  <1> DEFINE n == Len(s.payments)
  <1>1. n \in Nat
    BY BoundAssumption DEF SnapOK
  <1>2. PICK g : Turns(g, s, at, before)
    BY <1>1, PaymentsInTurn
  <1> DEFINE S == {i \in Nat : i <= n => Entered(s, at, i, g[i])}
  <1>3. 0 \in S
    BY <1>2 DEF Turns
  <1>4. ASSUME NEW i \in Nat, i \in S PROVE i + 1 \in S
    <2> SUFFICES ASSUME i + 1 <= n
                 PROVE  Entered(s, at, i + 1, g[i + 1])
      OBVIOUS
    <2>1. i + 1 \in 1..n /\ (i + 1) - 1 = i
      BY <1>1
    <2>2. Entered(s, at, (i + 1) - 1, g[i])
      BY <1>1, <1>4, <2>1
    <2>3. g[i + 1] = Step(s, at, i + 1, g[i])
      BY <1>2, <2>1 DEF Turns
    <2>4. QED
      BY <2>1, <2>2, <2>3, StepEntered
  <1> HIDE DEF S
  <1>5. \A i \in Nat : i \in S
    BY <1>3, <1>4, Inductive
  <1>6. QED
    BY <1>1, <1>2, <1>5 DEF S, Turns

LEMMA NoneAllocated ==
    /\ NoAllocation \in Rows
    /\ \A c \in Cycles : Paid(NoAllocation, c) = 0
    /\ \A i \in PaymentIds : SumTo(NoAllocation[i], Months) = 0
  <1>1. /\ NoAllocation \in Rows
        /\ \A i \in PaymentIds : \A c \in Cycles : NoAllocation[i][c] = 0
    BY DEF NoAllocation, Rows
  <1>2. \A c \in Cycles : Paid(NoAllocation, c) = 0
    BY <1>1, PaidAdds
  <1>3. ASSUME NEW i \in PaymentIds
        PROVE  SumTo(NoAllocation[i], Months) = 0
    <2> DEFINE row == NoAllocation[i]
    <2>1. \A c \in 1..Months : row[c] = 0
      BY <1>1 DEF Cycles
    <2> HIDE DEF row
    <2>2. SumTo(row, Months) = 0
      BY <2>1, SumZero, MonthsAssumption
    <2>3. QED
      BY <2>2 DEF row
  <1>4. QED
    BY <1>1, <1>2, <1>3

(* All payments in their rows: what a reconciliation writes.               *)
LEMMA AllocationsEntered ==
    ASSUME NEW s, SnapOK(s)
    PROVE  Entered(s, Months + 1, 0, Allocations(s))
  <1>1. PICK g : Courses(g, s)
    BY CyclesInCourse
  <1> DEFINE S == {k \in Nat : k <= Months => Entered(s, k + 1, 0, g[k])}
  <1>2. \A j \in 1..Len(s.payments) :
          /\ s.payments[j].at \in Nat /\ s.payments[j].amount \in Nat
          /\ j \in Nat /\ j \in PaymentIds
    BY PaymentsType
  <1>3. 0 \in S
    <2>1. \A j : ~Placed(s, 1, 0, j)
      BY <1>2 DEF Placed
    <2>2. /\ WithinBills(s, NoAllocation) /\ OldestFirst(s, NoAllocation)
          /\ WithinPayments(s, NoAllocation)
      BY <1>2, NoneAllocated, BilledType
      DEF WithinBills, OldestFirst, WithinPayments
    <2>3. PlacedOnly(s, 1, 0, NoAllocation)
      BY DEF PlacedOnly, NoAllocation
    <2>4. UsedUp(s, 1, 0, NoAllocation)
      BY <2>1 DEF UsedUp
    <2>5. QED
      BY <1>1, <2>2, <2>3, <2>4, NoneAllocated DEF Entered, Courses
  <1>4. ASSUME NEW k \in Nat, k \in S PROVE k + 1 \in S
    <2> SUFFICES ASSUME k + 1 <= Months
                 PROVE  Entered(s, (k + 1) + 1, 0, g[k + 1])
      OBVIOUS
    <2>1. k + 1 \in 1..Months /\ (k + 1) - 1 = k
      BY MonthsAssumption
    <2>2. Entered(s, k + 1, 0, g[k])
      BY <1>4, MonthsAssumption
    <2>3. g[k + 1] = AllocatedAt(k + 1, s, g[k])
      BY <1>1, <2>1 DEF Courses
    <2>4. Entered(s, k + 1, Len(s.payments), g[k + 1])
      BY <2>1, <2>2, <2>3, AllEntered
    <2>5. \A j : Placed(s, k + 1, Len(s.payments), j) <=>
                 Placed(s, (k + 1) + 1, 0, j)
      BY <1>2 DEF Placed
    <2>6. QED
      BY <2>4, <2>5 DEF Entered, PlacedOnly, UsedUp
  <1> HIDE DEF S
  <1>5. \A k \in Nat : k \in S
    BY <1>3, <1>4, Inductive
  <1>6. QED
    BY <1>1, <1>5, MonthsAssumption DEF S, Courses

(* Everything paid.                                                        *)
Spent(s) == SumTo(MadeBy(s, Months), MaxPayments)

PaidSum(rows) == SumTo([c \in Cycles |-> Paid(rows, c)], Months)

LEMMA SpentType ==
    ASSUME NEW s, SnapOK(s)
    PROVE  /\ MadeBy(s, Months) \in [PaymentIds -> Nat] /\ Spent(s) \in Int
           /\ \A i \in PaymentIds :
                MadeBy(s, Months)[i] = IF i <= Len(s.payments)
                                         THEN s.payments[i].amount ELSE 0
  <1>1. Months \in 0..Months
    BY MonthsAssumption
  <1>2. MadeBy(s, Months) \in [PaymentIds -> Nat]
    BY <1>1, BilledType
  <1>3. MadeBy(s, Months) \in [PaymentIds -> Int]
    BY <1>2
  <1>4. Spent(s) \in Int
    BY <1>3, PaymentsSum DEF Spent
  <1>5. \A i \in PaymentIds : i <= Len(s.payments) => s.payments[i].at <= Months
    BY BoundAssumption, MonthsAssumption DEF SnapOK, PaymentIds
  <1>6. QED
    BY <1>2, <1>4, <1>5 DEF MadeBy

(* What Allocations returns.                                               *)
LEMMA AllocationsGreedy ==
    ASSUME NEW s, SnapOK(s)
    PROVE  /\ Allocations(s) \in Rows
           /\ \A c \in Cycles :
                /\ Paid(Allocations(s), c) \in Nat /\ Billed(s)[c] \in Nat
                /\ Paid(Allocations(s), c) <= Billed(s)[c]
           /\ OldestFirst(s, Allocations(s))
           /\ \A j \in PaymentIds : \A c \in Cycles :
                Allocations(s)[j][c] > 0 =>
                  j <= Len(s.payments) /\ c <= s.payments[j].at
  <1>1. Entered(s, Months + 1, 0, Allocations(s))
    BY AllocationsEntered
  <1>2. \A j : Placed(s, Months + 1, 0, j) => j <= Len(s.payments)
    BY PaymentsType DEF Placed
  <1>3. QED
    BY <1>1, <1>2, PaidAdds, BilledType DEF Entered, WithinBills, PlacedOnly

LEMMA AllocationsSpend ==
    ASSUME NEW s, SnapOK(s)
    PROVE  /\ \A j \in PaymentIds :
                /\ Allocations(s)[j] \in [Cycles -> Nat]
                /\ SumTo(Allocations(s)[j], Months) \in Int
                /\ SumTo(Allocations(s)[j], Months) <= MadeBy(s, Months)[j]
                /\ Payable(s) =>
                     SumTo(Allocations(s)[j], Months) = MadeBy(s, Months)[j]
           /\ PaidSum(Allocations(s)) \in Int
           /\ PaidSum(Allocations(s)) <= Spent(s)
           /\ Payable(s) => PaidSum(Allocations(s)) = Spent(s)
  <1> DEFINE R == Allocations(s)
             made == MadeBy(s, Months)
             used == [j \in PaymentIds |-> SumTo(R[j], Months)]
             P == MaxPayments
  <1>1. Entered(s, Months + 1, 0, R)
    BY AllocationsEntered
  <1>2. R \in Rows
    BY <1>1 DEF Entered
  <1>3. Months \in 0..Months
    BY MonthsAssumption
  <1> HIDE DEF R
  <1>4. ASSUME NEW j \in PaymentIds
        PROVE  /\ R[j] \in [Cycles -> Nat] /\ used[j] \in Int
               /\ used[j] <= made[j]
               /\ Payable(s) => used[j] = made[j]
    <2>1. R[j] \in [Cycles -> Nat] /\ used[j] \in Nat
      BY <1>2, <1>3, CyclesSum DEF Rows
    <2>2. made[j] = IF j <= Len(s.payments) THEN s.payments[j].amount ELSE 0
      BY SpentType
    <2>3. CASE j <= Len(s.payments)
      <3>1. j \in 1..Len(s.payments)
        BY <2>3, PaymentsType, BoundAssumption DEF PaymentIds
      <3>2. used[j] <= made[j]
        BY <1>1, <2>2, <2>3, <3>1 DEF Entered, WithinPayments
      <3>3. CASE s.payments[j].at >= 1
        <4>1. Placed(s, Months + 1, 0, j)
          BY <3>1, <3>3, PaymentsType, MonthsAssumption DEF Placed, SnapOK
        <4>2. Payable(s) => used[j] = made[j]
          BY <1>1, <2>2, <2>3, <4>1 DEF Entered, UsedUp
        <4>3. QED
          BY <2>1, <3>2, <4>2
      <3>4. CASE ~(s.payments[j].at >= 1)
        <4>1. ASSUME Payable(s) PROVE made[j] = 0
          <5> DEFINE f == MadeBy(s, 0)
                     z == [i \in PaymentIds |-> 0]
          <5>1. 0 \in 0..Months /\ s.payments[j].at <= 0
            BY <3>1, <3>4, MonthsAssumption, PaymentsType
          <5>2. f \in [PaymentIds -> Nat] /\ z \in [PaymentIds -> Int]
            BY <5>1, BilledType
          <5>3. f[j] = made[j]
            BY <2>2, <2>3, <5>1 DEF MadeBy
          <5>4. SumTo(f, P) <= SumTo(Billed(s), 0)
            BY <4>1, <5>1 DEF Payable
          <5>5. SumTo(Billed(s), 0) = 0
            BY SumSteps
          <5>6. \A i \in 1..P : z[i] = 0
            BY DEF PaymentIds
          <5>7. \A i \in PaymentIds : z[i] <= f[i]
            BY <5>2
          <5>8. z[j] = 0 /\ f[j] \in Nat
            BY <5>2
          <5> HIDE DEF f, z, P, made
          <5>9. SumTo(z, P) = 0
            BY <5>6, SumZero, BoundAssumption DEF P
          <5>10. f \in [PaymentIds -> Int]
            BY <5>2
          <5>11. SumTo(f, P) \in Int
            BY <5>10, PaymentsSum DEF P
          <5>12. 0 < f[j] => SumTo(z, P) < SumTo(f, P)
            BY <5>2, <5>7, <5>8, <5>10, PaymentsSum DEF P
          <5>13. QED
            BY <5>3, <5>4, <5>5, <5>8, <5>9, <5>11, <5>12
        <4>2. QED
          BY <2>1, <3>2, <4>1
      <3>5. QED
        BY <3>3, <3>4
    <2>4. CASE ~(j <= Len(s.payments))
      <3> DEFINE row == R[j]
      <3>1. ~Placed(s, Months + 1, 0, j)
        BY <2>4, PaymentsType DEF Placed
      <3>2. \A c \in Cycles : row[c] = 0
        BY <1>1, <2>1, <3>1 DEF Entered, PlacedOnly
      <3>3. \A c \in 1..Months : row[c] = 0
        BY <3>2 DEF Cycles
      <3>4. used[j] = SumTo(row, Months)
        OBVIOUS
      <3> HIDE DEF row
      <3>5. SumTo(row, Months) = 0
        BY <3>3, SumZero, MonthsAssumption
      <3>6. QED
        BY <2>1, <2>2, <2>4, <3>4, <3>5
    <2>5. QED
      BY <2>3, <2>4
  <1>5. PaidSum(R) = SumTo(used, P)
    BY <1>2, <1>3, PaidByBoth DEF PaidSum
  <1>6. made \in [PaymentIds -> Int]
    <2>1. made \in [PaymentIds -> Nat]
      BY SpentType
    <2> HIDE DEF made
    <2>2. QED
      BY <2>1
  <1>7. used \in [PaymentIds -> Int]
    BY <1>4
  <1>8. \A j \in PaymentIds : used[j] = SumTo(R[j], Months)
    OBVIOUS
  <1>9. Spent(s) = SumTo(made, P)
    BY DEF Spent
  <1> HIDE DEF used, made, P
  <1>10. SumTo(used, P) \in Int /\ SumTo(used, P) <= SumTo(made, P)
    BY <1>4, <1>6, <1>7, PaymentsSum DEF P
  <1>11. Payable(s) => SumTo(made, P) <= SumTo(used, P)
    <2>1. Payable(s) => \A j \in PaymentIds : made[j] <= used[j]
      BY <1>4
    <2>2. QED
      BY <1>6, <1>7, <2>1, PaymentsSum DEF P
  <1>12. SumTo(made, P) \in Int
    BY <1>6, PaymentsSum DEF P
  <1>13. PaidSum(R) \in Int /\ PaidSum(R) <= Spent(s)
    BY <1>5, <1>9, <1>10
  <1>14. Payable(s) => PaidSum(R) = Spent(s)
    BY <1>5, <1>9, <1>10, <1>11, <1>12
  <1>15. QED
    BY <1>4, <1>8, <1>13, <1>14 DEF R, made

(* What is left to pay.                                                    *)
LEMMA OutstandingIs ==
    ASSUME NEW s, SnapOK(s)
    PROVE  /\ Outstanding(s) \in [Cycles -> Nat]
           /\ \A c \in Cycles :
                Outstanding(s)[c] = Billed(s)[c] - Paid(Allocations(s), c)
           /\ SumTo(Outstanding(s), Months) \in Nat
           /\ SumTo(Outstanding(s), Months)
                = SumTo(Billed(s), Months) - PaidSum(Allocations(s))
  <1> DEFINE R == Allocations(s)
             out == Outstanding(s)
             billed == Billed(s)
             paid == [c \in Cycles |-> Paid(R, c)]
  <1>1. \A c \in Cycles :
          /\ Paid(R, c) \in Nat /\ billed[c] \in Nat
          /\ Paid(R, c) <= billed[c]
    BY AllocationsGreedy
  <1>2. out = [c \in Cycles |-> billed[c] - Paid(R, c)]
    BY DEF Outstanding
  <1>3. out \in [Cycles -> Nat]
    BY <1>1, <1>2
  <1>4. \A c \in 1..Months : /\ out[c] \in Int /\ paid[c] \in Int
                             /\ billed[c] = out[c] + paid[c]
    BY <1>1, <1>2 DEF Cycles
  <1>5. PaidSum(R) = SumTo(paid, Months)
    BY DEF PaidSum
  <1>6. Months \in 0..Months /\ Months \in Nat
    BY MonthsAssumption
  <1> HIDE DEF R, out, billed, paid
  <1>7. SumTo(billed, Months) = SumTo(out, Months) + SumTo(paid, Months)
    BY <1>4, <1>6, SumAdds
  <1>8. SumTo(out, Months) \in Nat
    BY <1>3, <1>6, CyclesSum
  <1>9. PaidSum(R) \in Int
    BY AllocationsSpend DEF R
  <1>10. \A c \in Cycles : out[c] = billed[c] - Paid(R, c)
    BY <1>2
  <1>11. QED
    BY <1>3, <1>5, <1>7, <1>8, <1>9, <1>10 DEF R, out, billed

-----------------------------------------------------------------------------
(* One more payment, and a payment that others came before                 *)

(* t is s with one more payment, made in the cycle k.                      *)
OneMore(s, t, n, k) ==
    /\ t.now = s.now /\ t.charged = s.charged
    /\ Len(t.payments) = Len(s.payments) + 1
    /\ \A i \in 1..Len(s.payments) : t.payments[i] = s.payments[i]
    /\ t.payments[Len(s.payments) + 1].amount = n
    /\ t.payments[Len(s.payments) + 1].at = k

LEMMA SameDue ==
    ASSUME NEW s, NEW t, t.now = s.now, t.charged = s.charged
    PROVE  /\ Billed(t) = Billed(s)
           /\ \A rows, at : Due(t, rows, at) = Due(s, rows, at)
  BY DEF Billed, Due

LEMMA OneMoreAt ==
    ASSUME NEW s, SnapOK(s), NEW t, NEW n, NEW k, OneMore(s, t, n, k),
           NEW at, NEW before
    PROVE  LET old == AllocatedAt(at, s, before) IN
           AllocatedAt(at, t, before) =
             IF k # at THEN old
             ELSE [old EXCEPT ![Len(s.payments) + 1] =
                     Applied(n, Due(s, old, at))]
  <1> DEFINE l == Len(s.payments)
  <1>1. l \in Nat /\ Len(t.payments) = l + 1
    BY PaymentsType DEF OneMore
  <1>2. PICK g : Turns(g, s, at, before)
    BY <1>1, PaymentsInTurn, Zenon
  <1>3. PICK h : Turns(h, t, at, before)
    <2>1. Len(t.payments) \in Nat
      BY <1>1
    <2>2. QED
      BY <2>1, PaymentsInTurn, Zenon
  <1>4. ASSUME NEW i \in 1..l, NEW rows
        PROVE  Step(t, at, i, rows) = Step(s, at, i, rows)
    <2>1. t.payments[i] = s.payments[i]
      BY DEF OneMore
    <2>2. Due(t, rows, at) = Due(s, rows, at)
      BY SameDue DEF OneMore
    <2>3. QED
      BY <2>1, <2>2 DEF Step
  <1>5. Alike(g, h, l)
    BY <1>1, <1>2, <1>3, <1>4 DEF Turns, Alike
  <1>6. g[l] = h[l]
    <2>1. \A i \in 0..l : g[i] = h[i]
      BY <1>1, <1>5, SameCourse
    <2>2. QED
      BY <1>1, <2>1
  <1>7. h[l + 1] = Step(t, at, l + 1, h[l])
    BY <1>1, <1>3 DEF Turns
  <1>8. Step(t, at, l + 1, h[l]) =
          IF k # at THEN h[l]
          ELSE [h[l] EXCEPT ![l + 1] = Applied(n, Due(s, h[l], at))]
    BY SameDue DEF Step, OneMore
  <1>9. QED
    BY <1>1, <1>2, <1>3, <1>6, <1>7, <1>8 DEF Turns

(* A cycle in which nothing was paid.                                      *)
LEMMA NothingAt ==
    ASSUME NEW s, SnapOK(s), NEW at, NEW before,
           \A i \in 1..Len(s.payments) : s.payments[i].at # at
    PROVE  AllocatedAt(at, s, before) = before
  <1> DEFINE l == Len(s.payments)
             h == [i \in 0..l |-> before]
  <1>1. l \in Nat
    BY PaymentsType
  <1>2. PICK g : Turns(g, s, at, before)
    BY <1>1, PaymentsInTurn
  <1>3. \A i \in 1..l : g[i] = g[i - 1]
    BY <1>2 DEF Step, Turns
  <1>4. h[l] = before /\ Alike(g, h, l)
    BY <1>1, <1>2, <1>3 DEF Turns, Alike
  <1> HIDE DEF h
  <1>5. \A i \in 0..l : g[i] = h[i]
    BY <1>1, <1>4, SameCourse
  <1>6. g[l] = h[l]
    BY <1>1, <1>5
  <1>7. QED
    BY <1>2, <1>4, <1>6 DEF Turns

(* The last payment is entered as it enters itself: with what the others   *)
(* leave outstanding.                                                      *)
LEMMA LastPayment ==
    ASSUME NEW s, SnapOK(s), NEW t, SnapOK(t), NEW n, s.now >= 1,
           OneMore(s, t, n, s.now),
           \A i \in 1..Len(s.payments) : s.payments[i].at <= s.now
    PROVE  Allocations(t) =
             [Allocations(s) EXCEPT ![Len(s.payments) + 1] =
                Applied(n, Outstanding(s))]
  <1> DEFINE k == s.now
             l == Len(s.payments)
             Added(rows) == [rows EXCEPT ![l + 1] = Applied(n, Due(s, rows, k))]
  <1>1. PICK g : Courses(g, s)
    BY CyclesInCourse
  <1>2. PICK h : Courses(h, t)
    BY CyclesInCourse
  <1>3. /\ k \in 1..Months /\ k \in Nat /\ Months \in Nat /\ k - 1 \in Nat
        /\ l \in Nat /\ Len(t.payments) = l + 1
        /\ \A i \in 1..l : s.payments[i].at \in Nat
    BY MonthsAssumption, PaymentsType DEF SnapOK, OneMore
  <1>4. \A at, before :
          AllocatedAt(at, t, before) =
            IF k # at THEN AllocatedAt(at, s, before)
            ELSE Added(AllocatedAt(at, s, before))
    BY OneMoreAt
  <1>5. Alike(g, h, k - 1)
    <2>1. ASSUME NEW at \in 1..(k - 1), g[at - 1] = h[at - 1]
          PROVE  g[at] = h[at]
      <3>1. at \in 1..Months /\ k # at
        BY <1>3
      <3>2. QED
        BY <1>1, <1>2, <1>4, <2>1, <3>1 DEF Courses
    <2>2. QED
      BY <1>1, <1>2, <2>1 DEF Courses, Alike
  <1> HIDE DEF k, l
  <1>6. \A at \in 0..(k - 1) : g[at] = h[at]
    BY <1>3, <1>5, SameCourse
  <1>7. h[k] = Added(g[k])
    <2>1. g[k - 1] = h[k - 1]
      BY <1>3, <1>6
    <2>2. QED
      BY <1>1, <1>2, <1>3, <1>4, <2>1 DEF Courses
  <1>8. ASSUME NEW at \in 1..Months, at > k
        PROVE  g[at] = g[at - 1] /\ h[at] = h[at - 1]
    <2>1. \A i \in 1..l : s.payments[i].at # at
      BY <1>3, <1>8 DEF k, l
    <2>2. \A before : AllocatedAt(at, s, before) = before
      BY <2>1, NothingAt DEF l
    <2>3. \A before : AllocatedAt(at, t, before) = before
      BY <1>3, <1>4, <1>8, <2>2
    <2>4. QED
      BY <1>1, <1>2, <2>2, <2>3 DEF Courses
  <1>9. h[Months] = h[k] /\ g[Months] = g[k]
    <2> DEFINE S == {m \in Nat : k + m <= Months =>
                       h[k + m] = h[k] /\ g[k + m] = g[k]}
    <2>1. 0 \in S
      BY <1>3
    <2>2. ASSUME NEW m \in Nat, m \in S PROVE m + 1 \in S
      <3> SUFFICES ASSUME k + (m + 1) <= Months
                   PROVE  h[k + (m + 1)] = h[k] /\ g[k + (m + 1)] = g[k]
        OBVIOUS
      <3>1. /\ k + (m + 1) \in 1..Months /\ k + (m + 1) > k
            /\ (k + (m + 1)) - 1 = k + m /\ k + m <= Months
        BY <1>3
      <3>2. h[k + m] = h[k] /\ g[k + m] = g[k]
        BY <2>2, <3>1
      <3>3. /\ g[k + (m + 1)] = g[k + m]
            /\ h[k + (m + 1)] = h[k + m]
        BY <1>8, <3>1
      <3>4. QED
        BY <3>2, <3>3
    <2> HIDE DEF S
    <2>3. \A m \in Nat : m \in S
      BY <2>1, <2>2, Inductive
    <2>4. PICK m \in Nat : k + m = Months
      <3>1. Months - k \in Nat /\ k + (Months - k) = Months
        BY <1>3
      <3>2. QED
        BY <3>1
    <2>5. m \in S /\ k + m <= Months
      BY <1>3, <2>3, <2>4
    <2>6. h[k + m] = h[k] /\ g[k + m] = g[k]
      BY <2>5 DEF S
    <2>7. QED
      BY <2>4, <2>6
  <1>10. Allocations(t) = Added(Allocations(s))
    BY <1>1, <1>2, <1>7, <1>9 DEF Courses
  <1>11. Due(s, Allocations(s), k) = Outstanding(s)
    <2>1. \A c \in Cycles : c > k => Billed(s)[c] = 0
      BY <1>3 DEF Billed, Cycles, k
    <2>2. \A c \in Cycles :
            (IF c <= k THEN Billed(s)[c] - Paid(Allocations(s), c) ELSE 0)
              = Billed(s)[c] - Paid(Allocations(s), c)
      BY <1>3, <2>1, AllocationsGreedy DEF Cycles
    <2>3. QED
      BY <2>2 DEF Due, Outstanding
  <1>12. QED
    BY <1>10, <1>11 DEF l

(* The payments, entered somehow: all of each, in statements closed when   *)
(* it was made, and no more than a statement's expenses.                   *)
Spread(s, rows) ==
    /\ rows \in Rows
    /\ \A j \in PaymentIds : \A c \in Cycles :
         rows[j][c] > 0 => j <= Len(s.payments) /\ c <= s.payments[j].at
    /\ \A j \in 1..Len(s.payments) :
         SumTo(rows[j], Months) = s.payments[j].amount
    /\ \A c \in Cycles : Paid(rows, c) <= s.charged[c]

LEMMA SpreadPayable ==
    ASSUME NEW s, SnapOK(s), NEW rows, Spread(s, rows),
           \A j \in 1..Len(s.payments) : s.payments[j].at <= s.now
    PROVE  Payable(s)
  <1> SUFFICES ASSUME NEW k \in 0..Months
               PROVE  SumTo(MadeBy(s, k), MaxPayments) <= SumTo(Billed(s), k)
    BY DEF Payable
  <1> DEFINE made == MadeBy(s, k)
             used == [j \in PaymentIds |-> SumTo(rows[j], k)]
             paid == [c \in Cycles |-> Paid(rows, c)]
             billed == Billed(s)
             P == MaxPayments
  <1>1. /\ k \in Nat /\ 1..k \subseteq Cycles /\ rows \in Rows
        /\ s.now \in Nat
    BY MonthsAssumption DEF Cycles, Spread, SnapOK
  <1>2. ASSUME NEW j \in PaymentIds
        PROVE  used[j] \in Int /\ made[j] \in Int /\ made[j] <= used[j]
    <2>1. rows[j] \in [Cycles -> Nat] /\ used[j] \in Nat
      BY <1>1, CyclesSum DEF Rows
    <2>2. CASE j <= Len(s.payments) /\ s.payments[j].at <= k
      <3>1. j \in 1..Len(s.payments)
        BY <2>2, PaymentsType, BoundAssumption DEF PaymentIds
      <3>2. made[j] = s.payments[j].amount /\ made[j] \in Nat
        BY <2>2, <3>1, PaymentsType DEF MadeBy
      <3>3. made[j] = SumTo(rows[j], Months)
        BY <3>1, <3>2 DEF Spread
      <3>4. \A c \in (k + 1)..Months : rows[j][c] = 0
        <4>1. ASSUME NEW c \in (k + 1)..Months PROVE rows[j][c] = 0
          <5>1. c \in Cycles /\ c \in Nat /\ c > k
            BY <1>1, MonthsAssumption DEF Cycles
          <5>2. ~(c <= s.payments[j].at)
            BY <1>1, <2>2, <3>1, <5>1, PaymentsType
          <5>3. rows[j][c] \in Nat
            BY <2>1, <5>1
          <5>4. ~(rows[j][c] > 0)
            BY <5>1, <5>2 DEF Spread
          <5>5. QED
            BY <5>3, <5>4
        <4>2. QED
          BY <4>1
      <3>5. SumTo(rows[j], Months) = SumTo(rows[j], k)
        BY <2>1, <3>4, CyclesSum
      <3>6. QED
        BY <2>1, <3>2, <3>3, <3>5
    <2>3. CASE ~(j <= Len(s.payments) /\ s.payments[j].at <= k)
      <3>1. made[j] = 0
        BY <2>3 DEF MadeBy
      <3>2. QED
        BY <2>1, <3>1
    <2>4. QED
      BY <2>2, <2>3
  <1>3. SumTo(used, P) = SumTo(paid, k)
    BY <1>1, PaidByBoth
  <1>4. ASSUME NEW c \in 1..k
        PROVE  paid[c] \in Int /\ billed[c] \in Int /\ paid[c] <= billed[c]
    <2>1. c \in Cycles /\ c \in Nat
      BY <1>1
    <2>2. /\ Paid(rows, c) \in Nat /\ Paid(rows, c) <= s.charged[c]
          /\ billed[c] \in Nat
      BY <1>1, <2>1, PaidAdds, BilledType DEF Spread
    <2>3. c > s.now => Paid(rows, c) = 0
      <3>1. ASSUME c > s.now, NEW j \in PaymentIds PROVE rows[j][c] = 0
        <4>1. rows[j][c] \in Nat
          BY <1>1, <2>1 DEF Rows
        <4>2. ASSUME j <= Len(s.payments) PROVE ~(c <= s.payments[j].at)
          <5>1. j \in 1..Len(s.payments)
            BY <4>2, PaymentsType, BoundAssumption DEF PaymentIds
          <5>2. QED
            BY <1>1, <2>1, <3>1, <5>1, PaymentsType
        <4>3. QED
          BY <2>1, <4>1, <4>2 DEF Spread
      <3>2. QED
        BY <1>1, <2>1, <3>1, PaidAdds
    <2>4. QED
      BY <1>1, <2>1, <2>2, <2>3 DEF Billed
  <1>5. made \in [PaymentIds -> Int]
    <2>1. made \in [PaymentIds -> Nat]
      BY BilledType
    <2> HIDE DEF made
    <2>2. QED
      BY <2>1
  <1>6. used \in [PaymentIds -> Int]
    BY <1>2
  <1> HIDE DEF made, used, paid, billed, P
  <1>7. SumTo(made, P) <= SumTo(used, P)
    BY <1>2, <1>5, <1>6, PaymentsSum DEF P
  <1>8. SumTo(paid, k) <= SumTo(billed, k)
    BY <1>1, <1>4, SumLeq
  <1>9. SumTo(made, P) \in Int /\ SumTo(used, P) \in Int
    BY <1>5, <1>6, PaymentsSum DEF P
  <1>10. SumTo(billed, k) \in Int
    BY BilledType, CyclesSum DEF billed
  <1>11. QED
    BY <1>3, <1>7, <1>8, <1>9, <1>10 DEF made, billed, P

LEMMA AllocationsSpread ==
    ASSUME NEW s, SnapOK(s), Payable(s)
    PROVE  Spread(s, Allocations(s))
  <1>1. \A j \in 1..Len(s.payments) :
          SumTo(Allocations(s)[j], Months) = s.payments[j].amount
    <2>1. ASSUME NEW j \in 1..Len(s.payments)
          PROVE  SumTo(Allocations(s)[j], Months) = s.payments[j].amount
      <3>1. j \in PaymentIds /\ j <= Len(s.payments)
        BY PaymentsType
      <3>2. QED
        BY <3>1, AllocationsSpend, SpentType
    <2>2. QED
      BY <2>1
  <1>2. \A c \in Cycles : Paid(Allocations(s), c) <= s.charged[c]
    <2>1. \A c \in Cycles : s.charged[c] \in Nat /\ Billed(s)[c] <= s.charged[c]
      BY DEF SnapOK, Billed
    <2>2. QED
      BY <2>1, AllocationsGreedy
  <1>3. QED
    BY <1>1, <1>2, AllocationsGreedy DEF Spread

(* The statements a payment would change tell that another payment has     *)
(* been entered since it was computed: the first one it would change is    *)
(* the first one not paid in full, which the other has changed too.        *)
LEMMA OthersShow ==
    ASSUME NEW s, SnapOK(s), NEW t, SnapOK(t),
           t.now = s.now, t.charged = s.charged, Payable(t),
           Len(s.payments) < Len(t.payments),
           \A i \in 1..Len(s.payments) : t.payments[i] = s.payments[i],
           \A i \in 1..Len(t.payments) : t.payments[i].amount > 0,
           NEW n \in Nat, n > 0, n <= SumTo(Outstanding(s), Months)
    PROVE  \E c \in Cycles :
             /\ Applied(n, Outstanding(s))[c] > 0
             /\ Paid(Allocations(t), c) # Paid(Allocations(s), c)
  <1> DEFINE out == Outstanding(s)
             part == Applied(n, out)
             S(c) == Paid(Allocations(s), c)
             T(c) == Paid(Allocations(t), c)
             billed == Billed(s)
             P == MaxPayments
  <1> SUFFICES ASSUME \A c \in Cycles : part[c] > 0 => T(c) = S(c) PROVE FALSE
    OBVIOUS
  <1>1. /\ out \in [Cycles -> Nat]
        /\ \A c \in Cycles : out[c] = billed[c] - S(c)
    BY OutstandingIs
  <1>2. Billed(t) = billed
    BY SameDue
  <1>3. \A c \in Cycles :
          /\ S(c) \in Nat /\ T(c) \in Nat /\ billed[c] \in Nat
          /\ S(c) <= billed[c] /\ T(c) <= billed[c]
    BY <1>2, AllocationsGreedy
  <1>4. \A b, c \in Cycles : /\ b < c /\ S(c) > 0 => S(b) = billed[b]
                             /\ b < c /\ T(c) > 0 => T(b) = billed[b]
    BY <1>2, AllocationsGreedy DEF OldestFirst
  <1>5. /\ part \in [Cycles -> Nat]
        /\ \A c \in Cycles : part[c] <= out[c]
        /\ \A b, c \in Cycles : b < c /\ part[c] > 0 => part[b] = out[b]
        /\ SumTo(part, Months) = n
    BY <1>1, AppliedInOrder, MonthsAssumption
  <1>6. PICK z \in Cycles : part[z] > 0
    <2>1. SUFFICES ASSUME \A c \in Cycles : ~(part[c] > 0) PROVE FALSE
      OBVIOUS
    <2>2. \A c \in 1..Months : part[c] = 0
      BY <1>5, <2>1 DEF Cycles
    <2> HIDE DEF part
    <2>3. SumTo(part, Months) = 0
      BY <2>2, SumZero, MonthsAssumption
    <2>4. QED
      BY <1>5, <2>3
  <1> HIDE DEF out, part, billed, S, T
  <1>7. S(z) < billed[z] /\ T(z) < billed[z]
    BY <1>1, <1>3, <1>5, <1>6
  <1>8. ASSUME NEW c \in Cycles PROVE T(c) <= S(c)
    <2>1. c \in Nat /\ z \in Nat
      BY MonthsAssumption DEF Cycles
    <2>2. CASE c = z
      BY <1>3, <1>6, <2>2
    <2>3. CASE c > z
      <3>1. ~(T(c) > 0)
        BY <1>3, <1>4, <1>7, <2>3
      <3>2. QED
        BY <1>3, <3>1
    <2>4. CASE c < z
      <3>1. part[c] = out[c]
        BY <1>5, <1>6, <2>4
      <3>2. CASE part[c] > 0
        BY <1>3, <3>2
      <3>3. CASE ~(part[c] > 0)
        <4>1. out[c] = 0
          BY <1>1, <3>1, <3>3
        <4>2. QED
          BY <1>1, <1>3, <4>1
      <3>4. QED
        BY <3>2, <3>3
    <2>5. QED
      BY <2>1, <2>2, <2>3, <2>4
  <1>9. PaidSum(Allocations(t)) <= PaidSum(Allocations(s))
    <2> DEFINE f == [c \in Cycles |-> T(c)]
               g == [c \in Cycles |-> S(c)]
    <2>1. \A c \in 1..Months : f[c] \in Int /\ g[c] \in Int /\ f[c] <= g[c]
      BY <1>3, <1>8 DEF Cycles
    <2>2. /\ PaidSum(Allocations(t)) = SumTo(f, Months)
          /\ PaidSum(Allocations(s)) = SumTo(g, Months)
      BY DEF PaidSum, T, S
    <2> HIDE DEF f, g
    <2>3. QED
      BY <2>1, <2>2, SumLeq, MonthsAssumption
  <1>10. Spent(s) < Spent(t)
    <2> DEFINE f == MadeBy(s, Months)
               g == MadeBy(t, Months)
               l == Len(s.payments)
    <2>1. /\ f \in [PaymentIds -> Nat] /\ g \in [PaymentIds -> Nat]
          /\ \A i \in PaymentIds :
               /\ f[i] = IF i <= l THEN s.payments[i].amount ELSE 0
               /\ g[i] = IF i <= Len(t.payments) THEN t.payments[i].amount
                                                 ELSE 0
      BY SpentType
    <2>2. l + 1 \in 1..Len(t.payments) /\ l + 1 \in PaymentIds /\ l \in Nat
      BY PaymentsType
    <2>3. f[l + 1] = 0 /\ g[l + 1] = t.payments[l + 1].amount
      BY <2>1, <2>2, PaymentsType
    <2>4. f[l + 1] < g[l + 1]
      BY <2>2, <2>3
    <2>5. ASSUME NEW i \in PaymentIds PROVE f[i] <= g[i]
      <3>1. i \in Nat /\ i >= 1
        BY BoundAssumption DEF PaymentIds
      <3>2. CASE i <= l
        <4>1. i \in 1..l /\ i <= Len(t.payments)
          BY <2>2, <3>1, <3>2, PaymentsType
        <4>2. f[i] = g[i]
          BY <2>1, <3>2, <4>1
        <4>3. QED
          BY <2>1, <4>2
      <3>3. CASE ~(i <= l)
        BY <2>1, <3>3
      <3>4. QED
        BY <3>2, <3>3
    <2>6. Spent(s) = SumTo(f, P) /\ Spent(t) = SumTo(g, P)
      BY DEF Spent
    <2> HIDE DEF f, g, P
    <2>7. f \in [PaymentIds -> Int] /\ g \in [PaymentIds -> Int]
      BY <2>1
    <2>8. QED
      BY <2>2, <2>4, <2>5, <2>6, <2>7, PaymentsSum DEF P
  <1>11. /\ PaidSum(Allocations(s)) <= Spent(s)
         /\ PaidSum(Allocations(t)) = Spent(t)
         /\ PaidSum(Allocations(s)) \in Int /\ PaidSum(Allocations(t)) \in Int
         /\ Spent(s) \in Int /\ Spent(t) \in Int
    BY AllocationsSpend, SpentType
  <1>12. QED
    BY <1>9, <1>10, <1>11

-----------------------------------------------------------------------------
(* The invariant                                                           *)

(* What the requests hold of the books.                                    *)
Snapshot(s) ==
    /\ s \in Snapshots
    /\ s.now <= closed
    /\ Len(s.payments) <= Len(payments)

Held(q) ==
    /\ q \in RequestStates
    /\ q.stage = "checked" /\ q.account = "card" => q.delta \in Nat
    /\ q.stage = "paying" => q.now <= closed
    /\ q.stage \in {"read", "paid"} => Snapshot(q.snap)
    /\ q.stage = "paid" =>
         q.amount > 0 /\ q.amount <= SumTo(Outstanding(q.snap), Months)

TypeInv ==
    /\ TypeOK
    /\ Len(payments) <= MaxPayments
    /\ \A i \in 1..Len(payments) : payments[i].at <= closed
    /\ \A i \in PaymentIds : \A c \in Cycles :
         i > Len(payments) => alloc[i][c] = 0
    /\ \A r \in Requests : Held(req[r])

(* While nothing has spoilt the books, they go on from what a payment was  *)
(* computed from, the statements it was computed from are there, the       *)
(* payments are spread over the statements, and what the statements ask    *)
(* for is in the ledger.                                                   *)
Sound == ~stale /\ ~deleted /\ "card" \notin gone

FollowsFrom(s) ==
    /\ \A c \in Cycles : s.charged[c] <= charged[c]
    /\ \A i \in 1..Len(s.payments) : payments[i] = s.payments[i]
    /\ \A c \in Cycles : Billed(s)[c] > 0 => bill[c].live

SoundBooks ==
    /\ \A r \in Requests : req[r].stage = "paid" => FollowsFrom(req[r].snap)
    /\ \A i \in 1..Len(payments) : payments[i].amount > 0
    /\ Spread(Books, alloc)
    /\ SumTo(charged, Months) - Spent(Books) <= ledger["card"]

CardInv == TypeInv /\ PaidIsAllocated /\ (Sound => SoundBooks)

-----------------------------------------------------------------------------
(* Its parts, and the state they type                                      *)

AccountTypes ==
    /\ opening \in [Accounts -> Nat]
    /\ balance \in [Accounts -> Int] /\ ledger \in [Accounts -> Int]
    /\ gone \subseteq Accounts /\ listed \in BOOLEAN

BookTypes ==
    /\ closed \in 0..Months
    /\ charged \in [Cycles -> Nat]
    /\ payments \in Seq([amount : Nat, at : 0..Months])
    /\ Len(payments) <= MaxPayments
    /\ \A i \in 1..Len(payments) : payments[i].at <= closed

StatementTypes ==
    /\ bill \in [Cycles -> [live : BOOLEAN, amount : Nat, paid : Nat]]
    /\ alloc \in Rows
    /\ \A i \in PaymentIds : \A c \in Cycles :
         i > Len(payments) => alloc[i][c] = 0

CountTypes ==
    /\ created \in 0..MaxCreated /\ changed \in 0..MaxChanged
    /\ raced \in [Accounts -> BOOLEAN] /\ overwritten \in [Accounts -> BOOLEAN]
    /\ stale \in BOOLEAN /\ deleted \in BOOLEAN

RequestTypes ==
    /\ req = [r \in Requests |-> req[r]]
    /\ \A r \in Requests : Held(req[r])

LEMMA TypeInvParts ==
    TypeInv <=> /\ AccountTypes /\ BookTypes /\ StatementTypes /\ CountTypes
                /\ RequestTypes
  <1>1. req \in [Requests -> RequestStates] =>
          req = [r \in Requests |-> req[r]]
    OBVIOUS
  <1>2. RequestTypes => req \in [Requests -> RequestStates]
    BY DEF RequestTypes, Held
  <1>3. Rows = [PaymentIds -> [Cycles -> Nat]]
    BY DEF Rows
  <1>4. QED
    BY <1>1, <1>2, <1>3
    DEF TypeInv, TypeOK, AccountTypes, BookTypes, StatementTypes, CountTypes,
        RequestTypes

(* What a request holds it goes on holding.                                *)
LEMMA HeldOn ==
    ASSUME NEW r \in Requests, Held(req[r]), req'[r] = req[r],
           closed \in Nat, closed' \in Nat, closed <= closed',
           Len(payments) \in Nat, Len(payments') \in Nat,
           Len(payments) <= Len(payments')
    PROVE  Held(req[r])'
  <1>1. ASSUME req[r].stage \in {"read", "paid"}
        PROVE  Snapshot(req[r].snap)'
    <2>1. Snapshot(req[r].snap)
      BY <1>1 DEF Held
    <2>2. req[r].snap.now \in Int /\ Len(req[r].snap.payments) \in Int
      BY <2>1, MonthsAssumption DEF Snapshot, Snapshots
    <2>3. QED
      BY <2>1, <2>2 DEF Snapshot
  <1>2. ASSUME req[r].stage = "paying" PROVE req[r].now <= closed'
    <2>1. req[r].now \in Int /\ req[r].now <= closed
      BY <1>2, MonthsAssumption DEF Held, RequestStates, Idle
    <2>2. QED
      BY <2>1
  <1>3. QED
    BY <1>1, <1>2 DEF Held

LEMMA RequestGoesOn ==
    ASSUME RequestTypes, NEW r \in Requests, NEW STATE q,
           req' = [req EXCEPT ![r] = q],
           closed \in Nat, closed' \in Nat, closed <= closed',
           Len(payments) \in Nat, Len(payments') \in Nat,
           Len(payments) <= Len(payments'),
           Held(req[r])'
    PROVE  RequestTypes'
  <1>1. /\ req' = [s \in Requests |-> req'[s]]
        /\ \A s \in Requests : s # r => req'[s] = req[s]
    BY DEF RequestTypes
  <1>2. ASSUME NEW s \in Requests PROVE Held(req[s])'
    <2>1. CASE s = r
      BY <2>1
    <2>2. CASE s # r
      BY <1>1, <2>2, HeldOn DEF RequestTypes
    <2>3. QED
      BY <2>1, <2>2
  <1>3. QED
    BY <1>1, <1>2 DEF RequestTypes

LEMMA IdleHeld ==
    ASSUME RequestTypes, NEW r \in Requests, req' = [req EXCEPT ![r] = Idle]
    PROVE  Held(req[r])'
  <1>1. req'[r] = Idle
    BY DEF RequestTypes
  <1>2. QED
    BY <1>1 DEF Held, RequestStates, Idle

LEMMA Element ==
    ASSUME NEW T, NEW q \in Seq(T)
    PROVE  Len(q) \in Nat /\ \A i \in 1..Len(q) : q[i] \in T
  OBVIOUS

LEMMA BookNumbers ==
    ASSUME BookTypes
    PROVE  /\ closed \in Nat /\ Len(payments) \in Nat
           /\ \A i \in 1..Len(payments) :
                /\ payments[i].amount \in Nat
                /\ payments[i].at \in 0..Months /\ payments[i].at \in Nat
           /\ SnapOK(Books)
           /\ Books \in Snapshots
  <1>1. closed \in Nat /\ Len(payments) \in Nat
    BY MonthsAssumption DEF BookTypes
  <1>2. \A i \in 1..Len(payments) :
          payments[i] \in [amount : Nat, at : 0..Months]
    BY Element, Zenon DEF BookTypes
  <1>3. \A i \in 1..Len(payments) :
          /\ payments[i].amount \in Nat
          /\ payments[i].at \in 0..Months /\ payments[i].at \in Nat
    BY <1>2, MonthsAssumption
  <1>4. SnapOK(Books)
    BY <1>1, <1>3, BoundAssumption DEF SnapOK, Books, BookTypes
  <1>5. Books \in Snapshots
    BY DEF Books, Snapshots, BookTypes
  <1>6. QED
    BY <1>1, <1>3, <1>4, <1>5

LEMMA SnapshotOK ==
    ASSUME BookTypes, NEW s, Snapshot(s)
    PROVE  SnapOK(s) /\ Len(s.payments) <= Len(payments) /\ s.now <= closed
  <1>1. /\ s.now \in 0..Months /\ s.charged \in [Cycles -> Nat]
        /\ s.payments \in Seq([amount : Nat, at : 0..Months])
        /\ Len(s.payments) <= Len(payments) /\ s.now <= closed
    BY DEF Snapshot, Snapshots
  <1>2. Len(s.payments) \in 0..MaxPayments
    BY <1>1, BookNumbers, BoundAssumption DEF BookTypes
  <1>3. \A i \in 1..Len(s.payments) :
          s.payments[i] \in [amount : Nat, at : 0..Months]
    BY <1>1, Element, Zenon
  <1>4. QED
    BY <1>1, <1>2, <1>3 DEF SnapOK

LEMMA RequestMovesOn ==
    ASSUME TypeInv, NEW r \in Requests, NEW STATE q,
           req' = [req EXCEPT ![r] = q],
           UNCHANGED <<closed, accountVars, charged, payments, statementVars>>,
           CountTypes', Held(req[r])'
    PROVE  TypeInv'
  <1>1. UNCHANGED <<closed, opening, balance, ledger, gone, listed, charged,
                    payments, bill, alloc>>
    BY DEF accountVars, rowVars, statementVars
  <1>2. AccountTypes' /\ BookTypes' /\ StatementTypes'
    BY <1>1, TypeInvParts
    DEF AccountTypes, BookTypes, StatementTypes
  <1>3. RequestTypes'
    <2>1. /\ RequestTypes /\ closed \in Nat /\ Len(payments) \in Nat
          /\ closed' = closed /\ Len(payments') = Len(payments)
      BY <1>1, TypeInvParts, BookNumbers
    <2>2. closed <= closed' /\ Len(payments) <= Len(payments')
      BY <2>1
    <2>3. QED
      BY <2>1, <2>2, RequestGoesOn
  <1>4. QED
    BY <1>2, <1>3, TypeInvParts, PTL

LEMMA CountsStay ==
    ASSUME TypeInv, UNCHANGED historyVars,
           Create \/ Change \/ UNCHANGED boundVars
    PROVE  CountTypes'
  <1>1. CountTypes
    BY TypeInvParts
  <1>2. created' \in 0..MaxCreated /\ changed' \in 0..MaxChanged
    BY <1>1, BoundAssumption DEF CountTypes, Create, Change, boundVars
  <1>3. QED
    BY <1>1, <1>2 DEF CountTypes, historyVars

LEMMA RequestSet ==
    ASSUME TypeInv, NEW r \in Requests, NEW STATE q,
           req' = [req EXCEPT ![r] = q]
    PROVE  req'[r] = q
  BY TypeInvParts DEF RequestTypes

LEMMA BeginningsTyped ==
    ASSUME TypeInv, NEW r \in Requests,
           \/ BeginTransaction(r) \/ BeginEdit(r) \/ BeginView(r)
           \/ BeginPayment(r) \/ ReadTransactions(r) \/ GiveUp(r)
    PROVE  TypeInv'
  <1>1. /\ UNCHANGED <<closed, accountVars, charged, payments, statementVars>>
        /\ CountTypes'
    BY CountsStay DEF BeginTransaction, BeginEdit, BeginView, BeginPayment,
       ReadTransactions, GiveUp
  <1>2. /\ AccountTypes /\ BookTypes /\ RequestTypes
        /\ closed \in Nat /\ Books \in Snapshots /\ Len(payments) \in Nat
    BY TypeInvParts, BookNumbers
  <1>3. UNCHANGED <<closed, charged, payments>>
    BY <1>1
  <1>4. Snapshot(Books)' /\ Books' = Books
    BY <1>2, <1>3 DEF Snapshot, Books
  <1>5. CASE BeginTransaction(r)
    <2>1. PICK a \in Accounts, type \in {"expense", "income"}, n \in Amounts,
               c \in Cycles :
            req' = [req EXCEPT ![r] =
                 [stage |-> "checked", account |-> a, type |-> type,
                  delta |-> TransactionDelta(type, a, n), cycle |-> c,
                  seen |-> balance[a]]]
      BY <1>5 DEF BeginTransaction
    <2> DEFINE delta == TransactionDelta(type, a, n)
               q == [stage |-> "checked", account |-> a, type |-> type,
                     delta |-> delta, cycle |-> c, seen |-> balance[a]]
    <2>2. delta \in Int /\ (a = "card" => delta \in Nat)
      BY AmountsAssumption DEF TransactionDelta
    <2> HIDE DEF delta
    <2>3. balance[a] \in Int
      BY <1>2 DEF AccountTypes
    <2>4. req'[r] = q
      BY <2>1, RequestSet DEF delta
    <2>5. Held(req[r])'
      BY <2>2, <2>3, <2>4 DEF Held, RequestStates
    <2>6. req' = [req EXCEPT ![r] = q]
      BY <2>1 DEF delta
    <2> HIDE DEF q
    <2>7. QED
      BY <1>1, <2>5, <2>6, RequestMovesOn
  <1>6. CASE BeginEdit(r)
    <2>1. PICK a \in Accounts, o \in Openings :
            req' = [req EXCEPT ![r] =
                 [stage |-> "editing", account |-> a, opening |-> o,
                  seen |-> balance[a], seenOpening |-> opening[a]]]
      BY <1>6 DEF BeginEdit
    <2> DEFINE q == [stage |-> "editing", account |-> a, opening |-> o,
                     seen |-> balance[a], seenOpening |-> opening[a]]
    <2>2. o \in Nat /\ balance[a] \in Int /\ opening[a] \in Nat
      BY <1>2, AmountsAssumption DEF AccountTypes
    <2>3. req'[r] = q
      BY <2>1, RequestSet
    <2>4. Held(req[r])'
      BY <2>2, <2>3 DEF Held, RequestStates
    <2>5. req' = [req EXCEPT ![r] = q]
      BY <2>1
    <2> HIDE DEF q
    <2>6. QED
      BY <1>1, <2>4, <2>5, RequestMovesOn
  <1>7. CASE BeginView(r)
    <2> DEFINE q == [stage |-> "read", amount |-> 0, owed |-> 0, snap |-> Books]
    <2>1. req' = [req EXCEPT ![r] = q]
      BY <1>7 DEF BeginView
    <2>2. req'[r] = q
      BY <2>1, RequestSet
    <2>3. Held(req[r])'
      BY <1>2, <1>4, <2>2 DEF Held, RequestStates
    <2> HIDE DEF q
    <2>4. QED
      BY <1>1, <2>1, <2>3, RequestMovesOn
  <1>8. CASE BeginPayment(r)
    <2>1. PICK n \in Amounts :
            req' = [req EXCEPT ![r] =
                      [stage |-> "paying", amount |-> n, now |-> closed,
                       owed |-> balance["card"]]]
      BY <1>8 DEF BeginPayment
    <2> DEFINE q == [stage |-> "paying", amount |-> n, now |-> closed,
                     owed |-> balance["card"]]
    <2>2. /\ n \in Nat /\ balance["card"] \in Int
          /\ closed \in 0..Months /\ closed <= closed
      BY <1>2, AmountsAssumption DEF AccountTypes, BookTypes, Accounts
    <2>3. req'[r] = q
      BY <2>1, RequestSet
    <2>4. Held(req[r])'
      BY <1>3, <2>2, <2>3 DEF Held, RequestStates
    <2>5. req' = [req EXCEPT ![r] = q]
      BY <2>1
    <2> HIDE DEF q
    <2>6. QED
      BY <1>1, <2>4, <2>5, RequestMovesOn
  <1>9. CASE ReadTransactions(r)
    <2> DEFINE s == [Books EXCEPT !.now = req[r].now]
               q == [stage |-> "read", amount |-> req[r].amount,
                     owed |-> req[r].owed, snap |-> s]
    <2>1. /\ req' = [req EXCEPT ![r] = q]
          /\ req[r].stage = "paying"
      BY <1>9 DEF ReadTransactions
    <2>2. /\ req[r].amount \in Nat /\ req[r].owed \in Int
          /\ req[r].now \in 0..Months /\ req[r].now <= closed
      BY <1>2, <2>1 DEF RequestTypes, Held, RequestStates, Idle
    <2>3. s \in Snapshots /\ s.now <= closed' /\ s.payments = payments'
      BY <1>2, <1>3, <2>2 DEF Books, Snapshots
    <2>4. UNCHANGED payments
      BY <1>3
    <2>5. req'[r] = q
      BY <2>1, RequestSet
    <2>6. req'[r].snap = s /\ req'[r].stage = "read"
      BY <2>5
    <2>7. req'[r] \in RequestStates
      <3> HIDE DEF s
      <3>1. QED
        BY <2>2, <2>3, <2>5 DEF RequestStates
    <2>8. Held(req[r])'
      <3>1. Snapshot(req[r].snap)'
        BY <1>2, <2>3, <2>4, <2>6 DEF Snapshot
      <3>2. QED
        BY <2>6, <2>7, <3>1 DEF Held
    <2> HIDE DEF q
    <2>9. QED
      BY <1>1, <2>1, <2>8, RequestMovesOn
  <1>10. CASE GiveUp(r)
    <2>1. req' = [req EXCEPT ![r] = Idle]
      BY <1>10 DEF GiveUp
    <2>2. Held(req[r])'
      BY <1>2, <2>1, IdleHeld
    <2>3. QED
      BY <1>1, <2>1, <2>2, RequestMovesOn
  <1>11. QED
    BY <1>5, <1>6, <1>7, <1>8, <1>9, <1>10

LEMMA TypeInvGoesOn ==
    ASSUME TypeInv, AccountTypes', BookTypes', StatementTypes', CountTypes',
           RequestTypes'
    PROVE  TypeInv'
  BY TypeInvParts, PTL

(* Steps of no request.                                                    *)
LEMMA OthersGoOn ==
    ASSUME TypeInv, BookTypes', UNCHANGED req, closed <= closed',
           Len(payments) <= Len(payments')
    PROVE  RequestTypes'
  <1>1. /\ closed \in Nat /\ Len(payments) \in Nat /\ RequestTypes
        /\ closed' \in Nat /\ Len(payments') \in Nat
    BY TypeInvParts, BookNumbers, MonthsAssumption DEF BookTypes
  <1>2. \A r \in Requests : Held(req[r])'
    BY <1>1, HeldOn DEF RequestTypes
  <1>3. QED
    BY <1>1, <1>2 DEF RequestTypes

LEMMA DaysTyped ==
    ASSUME TypeInv,
           \/ CloseCycle \/ DeleteAccount \/ DeleteCreditCard \/ UNCHANGED vars
    PROVE  TypeInv'
  <1>1. /\ AccountTypes /\ BookTypes /\ StatementTypes /\ CountTypes
        /\ RequestTypes
        /\ closed \in Nat /\ Len(payments) \in Nat
        /\ \A i \in 1..Len(payments) : payments[i].at \in Nat
    BY TypeInvParts, BookNumbers
  <1>2. /\ UNCHANGED <<opening, balance, ledger, payments, bill, alloc, req>>
        /\ closed' \in 0..Months /\ closed' \in Nat /\ closed <= closed'
        /\ gone' \subseteq Accounts /\ listed' \in BOOLEAN
        /\ charged' \in [Cycles -> Nat]
        /\ UNCHANGED historyVars
        /\ Create \/ Change \/ UNCHANGED boundVars
    <2>1. /\ closed \in 0..Months /\ charged \in [Cycles -> Nat]
          /\ gone \subseteq Accounts /\ listed \in BOOLEAN
      BY <1>1 DEF AccountTypes, BookTypes
    <2>2. CASE CloseCycle
      BY <1>1, <2>1, <2>2, MonthsAssumption
      DEF CloseCycle, accountVars, rowVars, statementVars
    <2>3. CASE DeleteAccount
      BY <1>1, <2>1, <2>3 DEF DeleteAccount, statementVars
    <2>4. CASE DeleteCreditCard
      <3>1. charged' \in [Cycles -> Nat]
        BY <2>4 DEF DeleteCreditCard
      <3>2. /\ UNCHANGED <<closed, opening, balance, ledger, payments,
                           statementVars, req, historyVars>>
            /\ Change /\ listed' = FALSE /\ gone' = gone \cup {"card"}
        BY <2>4 DEF DeleteCreditCard
      <3>3. gone' \subseteq Accounts
        BY <2>1, <3>2 DEF Accounts
      <3>4. listed' \in BOOLEAN
        BY <3>2
      <3>5. /\ UNCHANGED <<opening, balance, ledger, payments, bill, alloc,
                           req>>
            /\ UNCHANGED historyVars /\ UNCHANGED closed
        BY <3>2 DEF statementVars
      <3>6. closed' \in 0..Months /\ closed' \in Nat /\ closed <= closed'
        BY <1>1, <2>1, <3>5
      <3>7. QED
        BY <3>1, <3>2, <3>3, <3>4, <3>5, <3>6
    <2>5. CASE UNCHANGED vars
      BY <1>1, <2>1, <2>5 DEF vars, accountVars, rowVars, statementVars
    <2>6. QED
      BY <2>2, <2>3, <2>4, <2>5
  <1>3. AccountTypes'
    BY <1>1, <1>2 DEF AccountTypes
  <1>4. BookTypes'
    BY <1>1, <1>2 DEF BookTypes
  <1>5. StatementTypes'
    BY <1>1, <1>2 DEF StatementTypes
  <1>6. CountTypes'
    BY <1>2, CountsStay
  <1>7. RequestTypes'
    BY <1>1, <1>2, <1>4, OthersGoOn
  <1>8. QED
    BY <1>3, <1>4, <1>5, <1>6, <1>7, TypeInvGoesOn

LEMMA DeletionsTyped ==
    ASSUME TypeInv, DeleteCharge \/ DeletePayment
    PROVE  TypeInv'
  <1>1. /\ AccountTypes /\ BookTypes /\ StatementTypes /\ CountTypes
        /\ RequestTypes
        /\ closed \in Nat /\ Len(payments) \in Nat
    BY TypeInvParts, BookNumbers
  <1>2. /\ UNCHANGED <<closed, accountVars, statementVars, req, raced,
                       overwritten, stale>>
        /\ Change /\ deleted' = TRUE
    BY DEF DeleteCharge, DeletePayment
  <1>3. BookTypes' /\ Len(payments') = Len(payments)
    <2>1. CASE DeleteCharge
      <3>1. PICK c \in Cycles, n \in Amounts :
              /\ charged[c] >= n
              /\ charged' = [charged EXCEPT ![c] = @ - n]
        BY <2>1 DEF DeleteCharge
      <3>2. n \in Nat /\ charged[c] \in Nat /\ charged \in [Cycles -> Nat]
        BY <1>1, AmountsAssumption DEF BookTypes
      <3>3. charged' \in [Cycles -> Nat]
        BY <3>1, <3>2
      <3>4. payments' = payments
        BY <2>1 DEF DeleteCharge
      <3>5. QED
        BY <1>1, <1>2, <3>3, <3>4 DEF BookTypes
    <2>2. CASE DeletePayment
      <3> DEFINE T == [amount : Nat, at : 0..Months]
      <3>1. PICK i \in DOMAIN payments :
              payments' = [payments EXCEPT ![i].amount = 0]
        BY <2>2 DEF DeletePayment
      <3>2. payments \in Seq(T)
        BY <1>1 DEF BookTypes
      <3>3. i \in 1..Len(payments)
        BY <3>1, <3>2
      <3>4. payments[i] \in T
        BY <3>2, <3>3, Element, Zenon
      <3>5. [payments[i] EXCEPT !.amount = 0] \in T
        BY <3>4
      <3>6. payments' = [payments EXCEPT ![i] =
                           [payments[i] EXCEPT !.amount = 0]]
        BY <3>1
      <3> DEFINE new == [payments[i] EXCEPT !.amount = 0]
      <3>7. new.at = payments[i].at
        BY <3>4
      <3> HIDE DEF T, new
      <3>8. /\ payments' \in Seq(T) /\ Len(payments') = Len(payments)
            /\ \A j \in 1..Len(payments) :
                 payments'[j] = IF j = i THEN new ELSE payments[j]
        BY <3>2, <3>3, <3>5, <3>6 DEF new
      <3>9. UNCHANGED charged
        BY <2>2 DEF DeletePayment
      <3>10. QED
        BY <1>1, <1>2, <3>7, <3>8, <3>9 DEF BookTypes, T
    <2>3. QED
      BY <2>1, <2>2
  <1>4. AccountTypes'
    BY <1>1, <1>2 DEF AccountTypes, accountVars, rowVars
  <1>5. StatementTypes'
    BY <1>1, <1>2, <1>3 DEF StatementTypes, statementVars
  <1>6. CountTypes'
    BY <1>1, <1>2, BoundAssumption DEF CountTypes, Change
  <1>7. RequestTypes'
    BY <1>1, <1>2, <1>3, OthersGoOn
  <1>8. QED
    BY <1>3, <1>4, <1>5, <1>6, <1>7, TypeInvGoesOn

LEMMA RequestEndsTyped ==
    ASSUME TypeInv, NEW r \in Requests, req' = [req EXCEPT ![r] = Idle],
           BookTypes', closed <= closed', Len(payments) <= Len(payments')
    PROVE  RequestTypes'
  <1>1. /\ RequestTypes /\ closed \in Nat /\ Len(payments) \in Nat
        /\ closed' \in Nat /\ Len(payments') \in Nat
    BY TypeInvParts, BookNumbers, MonthsAssumption DEF BookTypes
  <1>2. Held(req[r])'
    BY <1>1, IdleHeld
  <1>3. QED
    BY <1>1, <1>2, RequestGoesOn

LEMMA CommitsTyped ==
    ASSUME TypeInv, NEW r \in Requests, CommitTransaction(r) \/ CommitEdit(r)
    PROVE  TypeInv'
  <1>1. /\ AccountTypes /\ BookTypes /\ StatementTypes /\ CountTypes
        /\ RequestTypes /\ Held(req[r])
        /\ closed \in Nat /\ Len(payments) \in Nat
    BY TypeInvParts, BookNumbers DEF RequestTypes
  <1>2. /\ UNCHANGED <<closed, rowVars, payments, statementVars, boundVars,
                       stale, deleted>>
        /\ req' = [req EXCEPT ![r] = Idle]
    BY DEF CommitTransaction, CommitEdit
  <1>3. CASE CommitTransaction(r)
    <2> DEFINE a == req[r].account
               d == req[r].delta
    <2>1. /\ a \in Accounts /\ d \in Int /\ req[r].cycle \in Cycles
          /\ a = "card" => d \in Nat
      BY <1>1, <1>3 DEF CommitTransaction, Held, RequestStates, Idle
    <2>2. /\ balance' = IF a \in gone THEN balance
                                      ELSE [balance EXCEPT ![a] = @ + d]
          /\ ledger' = [ledger EXCEPT ![a] = @ + d]
          /\ raced' = [raced EXCEPT ![a] = @ \/ balance[a] # req[r].seen]
          /\ UNCHANGED <<opening, overwritten>>
      BY <1>3 DEF CommitTransaction, Move
    <2>3. \/ UNCHANGED charged
          \/ /\ a = "card"
             /\ charged' = [charged EXCEPT ![req[r].cycle] = @ + d]
      BY <1>3, Zenon DEF CommitTransaction
    <2> HIDE DEF a, d
    <2>4. AccountTypes'
      BY <1>1, <1>2, <2>1, <2>2 DEF AccountTypes, rowVars
    <2>5. charged' \in [Cycles -> Nat]
      BY <1>1, <2>1, <2>3 DEF BookTypes
    <2>6. BookTypes'
      BY <1>1, <1>2, <2>5 DEF BookTypes
    <2>7. StatementTypes'
      BY <1>1, <1>2 DEF StatementTypes, statementVars
    <2>8. CountTypes'
      BY <1>1, <1>2, <2>2 DEF CountTypes, boundVars
    <2>9. RequestTypes'
      <3>1. closed <= closed' /\ Len(payments) <= Len(payments')
        BY <1>1, <1>2
      <3>2. QED
        BY <1>2, <2>6, <3>1, RequestEndsTyped
    <2>10. QED
      BY <2>4, <2>6, <2>7, <2>8, <2>9, TypeInvGoesOn
  <1>4. CASE CommitEdit(r)
    <2> DEFINE q == req[r]
               a == q.account
    <2>1. /\ a \in Accounts /\ q.opening \in Nat /\ q.seen \in Int
      BY <1>1, <1>4 DEF CommitEdit, Held, RequestStates, Idle
    <2>2. EditedBalance(q) \in Int
      BY <2>1 DEF EditedBalance
    <2>3. /\ opening' = [opening EXCEPT ![a] = q.opening]
          /\ balance' = [balance EXCEPT ![a] = EditedBalance(q)]
          /\ UNCHANGED <<ledger, charged, raced>>
      BY <1>4 DEF CommitEdit
    <2>4. PICK lost \in BOOLEAN :
            overwritten' = [overwritten EXCEPT ![a] = @ \/ lost]
      <3> DEFINE l == \/ balance[a] # q.seen \/ opening[a] # q.seenOpening
                      \/ q.seen # q.seenOpening /\ q.opening # q.seenOpening
      <3>1. overwritten' = [overwritten EXCEPT ![a] = @ \/ l]
        BY <1>4, Zenon DEF CommitEdit
      <3>2. l \in BOOLEAN
        OBVIOUS
      <3> HIDE DEF l
      <3>3. QED
        BY <3>1, <3>2
    <2> HIDE DEF q, a
    <2>5. AccountTypes'
      BY <1>1, <1>2, <2>1, <2>2, <2>3 DEF AccountTypes, rowVars
    <2>6. BookTypes'
      BY <1>1, <1>2, <2>3 DEF BookTypes
    <2>7. StatementTypes'
      BY <1>1, <1>2 DEF StatementTypes, statementVars
    <2>8. CountTypes'
      BY <1>1, <1>2, <2>3, <2>4 DEF CountTypes, boundVars
    <2>9. RequestTypes'
      <3>1. closed <= closed' /\ Len(payments) <= Len(payments')
        BY <1>1, <1>2
      <3>2. QED
        BY <1>2, <2>6, <3>1, RequestEndsTyped
    <2>10. QED
      BY <2>5, <2>6, <2>7, <2>8, <2>9, TypeInvGoesOn
  <1>5. QED
    BY <1>3, <1>4

(* What a reconciliation writes.                                           *)
LEMMA Written ==
    ASSUME BookTypes, StatementTypes, NEW s, Snapshot(s), WriteStatements(s)
    PROVE  /\ alloc' = Allocations(s) /\ alloc' \in Rows
           /\ \A i \in PaymentIds : \A c \in Cycles :
                i > Len(payments) => alloc'[i][c] = 0
           /\ bill' \in [Cycles -> [live : BOOLEAN, amount : Nat, paid : Nat]]
           /\ \A c \in Cycles :
                IF Billed(s)[c] = 0 THEN ~bill'[c].live
                ELSE bill'[c] = [live |-> TRUE, amount |-> Billed(s)[c],
                                 paid |-> Paid(Allocations(s), c)]
  <1>1. SnapOK(s) /\ Len(s.payments) <= Len(payments)
    BY SnapshotOK
  <1>2. /\ Allocations(s) \in Rows
        /\ \A c \in Cycles : /\ Paid(Allocations(s), c) \in Nat
                             /\ Billed(s)[c] \in Nat
        /\ \A j \in PaymentIds : \A c \in Cycles :
             Allocations(s)[j][c] > 0 => j <= Len(s.payments)
    BY <1>1, AllocationsGreedy
  <1>3. \A c \in Cycles :
          Projection(s)[c] =
            IF Billed(s)[c] = 0 THEN NoRow
            ELSE [live |-> TRUE, amount |-> Billed(s)[c],
                  paid |-> Paid(Allocations(s), c)]
    BY DEF Projection
  <1>4. /\ alloc' = Allocations(s)
        /\ bill' = [c \in Cycles |->
                      IF Billed(s)[c] = 0 THEN [bill[c] EXCEPT !.live = FALSE]
                      ELSE Projection(s)[c]]
    BY DEF WriteStatements
  <1>5. ASSUME NEW c \in Cycles
        PROVE  /\ bill'[c] \in [live : BOOLEAN, amount : Nat, paid : Nat]
               /\ IF Billed(s)[c] = 0 THEN ~bill'[c].live
                  ELSE bill'[c] = [live |-> TRUE, amount |-> Billed(s)[c],
                                   paid |-> Paid(Allocations(s), c)]
    <2>1. bill[c] \in [live : BOOLEAN, amount : Nat, paid : Nat]
      BY DEF StatementTypes
    <2>2. CASE Billed(s)[c] = 0
      <3>1. bill'[c] = [bill[c] EXCEPT !.live = FALSE]
        BY <1>4, <2>2
      <3>2. QED
        BY <2>1, <2>2, <3>1
    <2>3. CASE Billed(s)[c] # 0
      <3>1. bill'[c] = [live |-> TRUE, amount |-> Billed(s)[c],
                        paid |-> Paid(Allocations(s), c)]
        BY <1>3, <1>4, <2>3
      <3>2. bill'[c] \in [live : BOOLEAN, amount : Nat, paid : Nat]
        BY <1>2, <3>1
      <3>3. QED
        BY <2>3, <3>1, <3>2
    <2>4. QED
      BY <2>2, <2>3
  <1>6. bill' = [c \in Cycles |-> bill'[c]]
    BY <1>4
  <1>7. bill' \in [Cycles -> [live : BOOLEAN, amount : Nat, paid : Nat]]
    BY <1>5, <1>6
  <1>8. ASSUME NEW i \in PaymentIds, NEW c \in Cycles, i > Len(payments)
        PROVE  Allocations(s)[i][c] = 0
    <2>1. Allocations(s)[i][c] \in Nat
      BY <1>2 DEF Rows
    <2>2. ~(i <= Len(s.payments))
      BY <1>1, <1>8, BookNumbers, PaymentsType, BoundAssumption
      DEF PaymentIds
    <2>3. QED
      BY <1>2, <2>1, <2>2
  <1>9. QED
    BY <1>2, <1>4, <1>5, <1>7, <1>8

LEMMA ReconcileTyped ==
    ASSUME TypeInv, NEW r \in Requests, Reconcile(r)
    PROVE  TypeInv'
  <1> DEFINE q == req[r]
             s == q.snap
             pay == [stage |-> "paid", amount |-> q.amount, snap |-> s]
             pays == /\ 0 < q.amount
                     /\ q.amount <= SumTo(Outstanding(s), Months)
                     /\ q.amount <= q.owed
  <1>1. /\ AccountTypes /\ BookTypes /\ StatementTypes /\ CountTypes
        /\ RequestTypes /\ Held(q)
        /\ closed \in Nat /\ Len(payments) \in Nat
    BY TypeInvParts, BookNumbers DEF RequestTypes
  <1>2. /\ q.stage = "read" /\ WriteStatements(s)
        /\ stale' = (stale \/ s # Books)
        /\ req' = [req EXCEPT ![r] = IF pays THEN pay ELSE Idle]
        /\ UNCHANGED <<closed, accountVars, charged, payments, boundVars, raced,
                       overwritten, deleted>>
    BY Zenon DEF Reconcile
  <1>3. Snapshot(s) /\ s \in Snapshots /\ q.amount \in Nat
    BY <1>1, <1>2 DEF Held, Snapshot, RequestStates, Idle
  <1>4. AccountTypes'
    BY <1>1, <1>2 DEF AccountTypes, accountVars, rowVars
  <1>5. BookTypes'
    BY <1>1, <1>2 DEF BookTypes
  <1>6. StatementTypes'
    <2>1. /\ alloc' \in Rows
          /\ bill' \in [Cycles -> [live : BOOLEAN, amount : Nat, paid : Nat]]
          /\ \A i \in PaymentIds : \A c \in Cycles :
               i > Len(payments) => alloc'[i][c] = 0
      BY <1>1, <1>2, <1>3, Written
    <2>2. QED
      BY <1>2, <2>1 DEF StatementTypes
  <1>7. CountTypes'
    BY <1>1, <1>2 DEF CountTypes, boundVars
  <1>8. closed' = closed /\ payments' = payments
    BY <1>2
  <1>9. Held(req[r])'
    <2>1. CASE pays
      <3>1. req'[r] = pay
        BY <1>1, <1>2, <2>1 DEF RequestTypes
      <3>2. req'[r].stage = "paid" /\ req'[r].snap = s
        BY <3>1
      <3>3. req'[r] \in RequestStates
        <4> HIDE DEF s, q
        <4>1. QED
          BY <1>3, <3>1 DEF RequestStates
      <3>4. Snapshot(req[r].snap)'
        BY <1>3, <1>8, <3>2 DEF Snapshot
      <3>5. req'[r].amount > 0
        BY <1>3, <2>1, <3>1
      <3>6. req'[r].amount <= SumTo(Outstanding(req'[r].snap), Months)
        BY <2>1, <3>1
      <3>7. QED
        BY <3>2, <3>3, <3>4, <3>5, <3>6 DEF Held
    <2>2. CASE ~pays
      <3>1. req' = [req EXCEPT ![r] = Idle]
        BY <1>2, <2>2
      <3>2. QED
        BY <1>1, <3>1, IdleHeld
    <2>3. QED
      BY <2>1, <2>2
  <1>10. RequestTypes'
    <2> DEFINE new == IF pays THEN pay ELSE Idle
    <2>1. closed <= closed' /\ Len(payments) <= Len(payments')
      BY <1>1, <1>8
    <2>2. req' = [req EXCEPT ![r] = new]
      BY <1>2
    <2> HIDE DEF new
    <2>3. QED
      BY <1>1, <1>8, <1>9, <2>1, <2>2, RequestGoesOn
  <1>11. QED
    BY <1>4, <1>5, <1>6, <1>7, <1>10, TypeInvGoesOn

(* What a payment writes.                                                  *)
PartOf(q) == Applied(q.amount, Outstanding(q.snap))

LEMMA Entering ==
    ASSUME TypeInv, NEW r \in Requests, ApplyPayment(r)
    PROVE  LET q == req[r]
               part == PartOf(q)
               l == Len(payments) IN
           /\ Held(q) /\ Snapshot(q.snap) /\ SnapOK(q.snap)
           /\ q.amount \in Nat /\ q.amount > 0
           /\ q.amount <= SumTo(Outstanding(q.snap), Months)
           /\ part \in [Cycles -> Nat] /\ l \in Nat
           /\ l + 1 \in PaymentIds
           /\ payments' = Append(payments, [amount |-> q.amount,
                                            at |-> q.snap.now])
           /\ Len(payments') = l + 1
           /\ \A i \in 1..l : payments'[i] = payments[i]
           /\ payments'[l + 1] = [amount |-> q.amount, at |-> q.snap.now]
           /\ alloc' = [alloc EXCEPT ![l + 1] = part]
           /\ alloc' \in Rows
           /\ \A c \in Cycles : Paid(alloc', c) = Paid(alloc, c) + part[c]
           /\ \A c \in Cycles :
                bill'[c] = IF part[c] > 0
                             THEN [bill[c] EXCEPT !.live = TRUE,
                                     !.paid = Paid(Allocations(q.snap), c)
                                                + part[c]]
                             ELSE bill[c]
           /\ DOMAIN bill' = Cycles
           /\ \A c \in Cycles :
                part[c] > 0 => bill[c].paid = Paid(Allocations(q.snap), c)
  <1> DEFINE q == req[r]
             s == q.snap
             part == PartOf(q)
             l == Len(payments)
  <1>1. /\ BookTypes /\ StatementTypes /\ Held(q) /\ l \in Nat
        /\ q.stage = "paid" /\ l < MaxPayments
    BY TypeInvParts, BookNumbers DEF RequestTypes, ApplyPayment
  <1>2. /\ Snapshot(s) /\ q.amount \in Nat /\ q.amount > 0
        /\ q.amount <= SumTo(Outstanding(s), Months)
    BY <1>1 DEF Held, RequestStates, Idle
  <1>3. SnapOK(s)
    BY <1>1, <1>2, SnapshotOK
  <1>4. part \in [Cycles -> Nat]
    BY <1>2, <1>3, OutstandingIs, AppliedInOrder DEF PartOf
  <1>5. /\ StatementsUnchanged(s, part)
        /\ payments' = Append(payments, [amount |-> q.amount, at |-> s.now])
        /\ bill' = [c \in Cycles |->
             IF part[c] > 0
               THEN [bill[c] EXCEPT !.live = TRUE,
                       !.paid = Paid(Allocations(s), c) + part[c]]
               ELSE bill[c]]
        /\ alloc' = [alloc EXCEPT ![l + 1] = part]
    BY Zenon DEF ApplyPayment, PartOf
  <1>6. l + 1 \in PaymentIds
    BY <1>1, BoundAssumption DEF PaymentIds
  <1>7. alloc \in Rows /\ \A c \in Cycles : alloc[l + 1][c] = 0
    BY <1>1, <1>6 DEF StatementTypes
  <1>8. alloc' \in Rows
    BY <1>4, <1>5, <1>6, <1>7 DEF Rows
  <1> HIDE DEF part
  <1>9. \A c \in Cycles : Paid(alloc', c) = Paid(alloc, c) + part[c]
    BY <1>4, <1>5, <1>6, <1>7, PaidAdds
  <1>10. /\ Len(payments') = l + 1
         /\ \A i \in 1..l : payments'[i] = payments[i]
         /\ payments'[l + 1] = [amount |-> q.amount, at |-> s.now]
    <2> DEFINE T == [amount : Nat, at : 0..Months]
               e == [amount |-> q.amount, at |-> s.now]
    <2>1. payments \in Seq(T) /\ payments' = Append(payments, e)
      BY <1>1, <1>5 DEF BookTypes
    <2>2. e \in T
      BY <1>2, <1>3 DEF SnapOK
    <2> HIDE DEF T, e
    <2>3. /\ Len(payments') = l + 1
          /\ \A i \in 1..l : payments'[i] = payments[i]
          /\ payments'[l + 1] = e
      BY <1>1, <2>1, <2>2
    <2>4. QED
      BY <2>3 DEF e
  <1>11. \A c \in Cycles :
           part[c] > 0 => bill[c].paid = Paid(Allocations(s), c)
    BY <1>5 DEF StatementsUnchanged
  <1>12. /\ \A c \in Cycles :
              bill'[c] = IF part[c] > 0
                           THEN [bill[c] EXCEPT !.live = TRUE,
                                   !.paid = Paid(Allocations(s), c) + part[c]]
                           ELSE bill[c]
         /\ DOMAIN bill' = Cycles
    BY <1>5
  <1>13. QED
    BY <1>1, <1>2, <1>3, <1>4, <1>5, <1>6, <1>8, <1>9, <1>10, <1>11, <1>12
    DEF part

LEMMA PaymentTyped ==
    ASSUME TypeInv, NEW r \in Requests, ApplyPayment(r)
    PROVE  TypeInv'
  <1> DEFINE q == req[r]
             s == q.snap
             part == PartOf(q)
             l == Len(payments)
             e == [amount |-> q.amount, at |-> s.now]
             T == [amount : Nat, at : 0..Months]
  <1>1. /\ AccountTypes /\ BookTypes /\ StatementTypes /\ CountTypes
        /\ RequestTypes
        /\ closed \in Nat
    BY TypeInvParts, BookNumbers
  <1>2. /\ Snapshot(s) /\ SnapOK(s) /\ q.amount \in Nat
        /\ part \in [Cycles -> Nat]
    BY Entering
  <1>20. l \in Nat /\ l + 1 \in PaymentIds /\ Len(payments') = l + 1
    BY Entering
  <1>21. /\ payments' = Append(payments, e)
         /\ \A i \in 1..l : payments'[i] = payments[i]
         /\ payments'[l + 1] = e
    BY Entering
  <1>22. alloc' = [alloc EXCEPT ![l + 1] = part] /\ alloc' \in Rows
    BY Entering
  <1>23. \A c \in Cycles :
           bill'[c] = IF part[c] > 0
                        THEN [bill[c] EXCEPT !.live = TRUE,
                                !.paid = Paid(Allocations(s), c) + part[c]]
                        ELSE bill[c]
    BY Entering
  <1>3. /\ balance' = [a \in Accounts |-> balance[a] - q.amount]
        /\ ledger' = [a \in Accounts |-> ledger[a] - q.amount]
        /\ req' = [req EXCEPT ![r] = Idle]
        /\ UNCHANGED <<closed, opening, gone, listed, charged, boundVars,
                       historyVars>>
    BY DEF ApplyPayment, Transfer, rowVars
  <1>4. s.now \in 0..Months /\ s.now <= closed
    BY <1>2 DEF SnapOK, Snapshot
  <1> HIDE DEF part
  <1>5. AccountTypes'
    <2>1. q.amount \in Int
      BY <1>2
    <2> HIDE DEF q
    <2>2. QED
      BY <1>1, <1>3, <2>1 DEF AccountTypes
  <1>6. BookTypes'
    <2>1. e \in T /\ e.at = s.now
      BY <1>2, <1>4
    <2>2. payments \in Seq(T) /\ payments' = Append(payments, e)
      BY <1>1, <1>21 DEF BookTypes
    <2> HIDE DEF T, e
    <2>3. payments' \in Seq(T)
      BY <2>1, <2>2
    <2>4. \A i \in 1..l : payments[i].at <= closed
      BY <1>1 DEF BookTypes
    <2>5. \A i \in 1..(l + 1) : payments'[i].at <= closed
      <3>1. ASSUME NEW i \in 1..(l + 1) PROVE payments'[i].at <= closed
        <4>1. i \in 1..l \/ i = l + 1
          BY <1>20
        <4>2. QED
          BY <1>21, <1>4, <2>1, <2>4, <4>1 DEF e
      <3>2. QED
        BY <3>1
    <2>6. Len(payments') <= MaxPayments
      BY <1>20, BoundAssumption DEF PaymentIds
    <2>7. QED
      BY <1>1, <1>20, <1>3, <2>3, <2>5, <2>6 DEF BookTypes, T
  <1>7. StatementTypes'
    <2>1. ASSUME NEW c \in Cycles
          PROVE  bill'[c] \in [live : BOOLEAN, amount : Nat, paid : Nat]
      <3>1. bill[c] \in [live : BOOLEAN, amount : Nat, paid : Nat]
        BY <1>1 DEF StatementTypes
      <3>2. Paid(Allocations(s), c) + part[c] \in Nat
        <4>1. Paid(Allocations(s), c) \in Nat /\ part[c] \in Nat
          BY <1>2, AllocationsGreedy
        <4>2. QED
          BY <4>1
      <3> DEFINE paid == Paid(Allocations(s), c) + part[c]
      <3> HIDE DEF paid
      <3>3. bill'[c] = IF part[c] > 0
                         THEN [bill[c] EXCEPT !.live = TRUE, !.paid = paid]
                         ELSE bill[c]
        BY <1>23 DEF paid
      <3>4. QED
        BY <3>1, <3>2, <3>3 DEF paid
    <2>2. bill' = [c \in Cycles |-> bill'[c]]
      BY DEF ApplyPayment
    <2>3. bill' \in [Cycles -> [live : BOOLEAN, amount : Nat, paid : Nat]]
      BY <2>1, <2>2
    <2>4. ASSUME NEW i \in PaymentIds, NEW c \in Cycles, i > l + 1
          PROVE  alloc'[i][c] = 0
      <3>1. i \in Nat /\ i # l + 1 /\ i > l
        BY <1>20, <2>4, BoundAssumption DEF PaymentIds
      <3>2. alloc'[i] = alloc[i]
        BY <1>1, <1>22, <3>1 DEF StatementTypes, Rows
      <3>3. QED
        BY <1>1, <3>1, <3>2 DEF StatementTypes
    <2>5. QED
      BY <1>20, <1>22, <2>3, <2>4 DEF StatementTypes
  <1>8. CountTypes'
    BY <1>1, <1>3 DEF CountTypes, boundVars, historyVars
  <1>9. RequestTypes'
    <2>1. closed <= closed' /\ Len(payments) <= Len(payments')
      BY <1>1, <1>20, <1>3
    <2>2. QED
      BY <1>3, <1>6, <2>1, RequestEndsTyped
  <1>10. QED
    BY <1>5, <1>6, <1>7, <1>8, <1>9, TypeInvGoesOn

LEMMA TypesStart == Init => TypeInv
  <1> SUFFICES ASSUME Init PROVE TypeInv
    OBVIOUS
  <1>1. AccountTypes
    BY AmountsAssumption DEF Init, AccountTypes
  <1>2. BookTypes
    BY MonthsAssumption, BoundAssumption DEF Init, BookTypes
  <1>3. StatementTypes
    <2>1. NoRow \in [live : BOOLEAN, amount : Nat, paid : Nat]
      BY DEF NoRow
    <2>2. bill \in [Cycles -> [live : BOOLEAN, amount : Nat, paid : Nat]]
      BY <2>1 DEF Init
    <2>3. alloc \in Rows /\ \A i \in PaymentIds : \A c \in Cycles :
                              alloc[i][c] = 0
      BY DEF Init, Rows, NoAllocation
    <2>4. QED
      BY <2>2, <2>3 DEF StatementTypes
  <1>4. CountTypes
    <2>1. /\ created = 0 /\ changed = 0 /\ stale = FALSE /\ deleted = FALSE
          /\ 0 \in 0..MaxCreated /\ 0 \in 0..MaxChanged
      BY BoundAssumption DEF Init
    <2>2. [a \in Accounts |-> FALSE] \in [Accounts -> BOOLEAN]
      OBVIOUS
    <2>3. /\ raced \in [Accounts -> BOOLEAN]
          /\ overwritten \in [Accounts -> BOOLEAN]
      BY <2>2, Zenon DEF Init
    <2>4. QED
      BY <2>1, <2>3 DEF CountTypes
  <1>5. RequestTypes
    BY DEF Init, RequestTypes, Held, RequestStates, Idle
  <1>6. QED
    BY <1>1, <1>2, <1>3, <1>4, <1>5, TypeInvParts

LEMMA TypesKept == TypeInv /\ [Next]_vars => TypeInv'
  <1> SUFFICES ASSUME TypeInv, [Next]_vars PROVE TypeInv'
    OBVIOUS
  <1>1. CASE \/ CloseCycle \/ DeleteAccount \/ DeleteCreditCard
             \/ UNCHANGED vars
    BY <1>1, DaysTyped
  <1>2. CASE DeleteCharge \/ DeletePayment
    BY <1>2, DeletionsTyped
  <1>3. ASSUME NEW r \in Requests,
               \/ CreateTransaction(r) \/ UpdateAccount(r)
               \/ GetFinancialPayables(r) \/ PayCreditCardDebt(r)
               \/ GiveUp(r)
        PROVE  TypeInv'
    BY <1>3, BeginningsTyped, CommitsTyped, ReconcileTyped, PaymentTyped
    DEF CreateTransaction, UpdateAccount, GetFinancialPayables,
        PayCreditCardDebt
  <1>4. QED
    BY <1>1, <1>2, <1>3 DEF Next

-----------------------------------------------------------------------------
(* What keeps the books sound                                              *)

LEMMA SamePayments ==
    ASSUME NEW s, NEW t, t.payments = s.payments
    PROVE  /\ Spent(t) = Spent(s)
           /\ \A rows : (\A c \in Cycles : s.charged[c] \in Nat
                                           /\ t.charged[c] \in Nat
                                           /\ s.charged[c] <= t.charged[c])
                        /\ Spread(s, rows) => Spread(t, rows)
  <1>1. Spent(t) = Spent(s)
    BY DEF Spent, MadeBy
  <1>2. ASSUME NEW rows, Spread(s, rows),
               \A c \in Cycles : /\ s.charged[c] \in Nat /\ t.charged[c] \in Nat
                                 /\ s.charged[c] <= t.charged[c]
        PROVE  Spread(t, rows)
    <2>1. \A c \in Cycles : Paid(rows, c) \in Nat
      BY <1>2, PaidAdds DEF Spread
    <2>2. QED
      BY <1>2, <2>1 DEF Spread
  <1>3. QED
    BY <1>1, <1>2

(* Steps that leave the books to others: the charges may grow with the     *)
(* ledger.                                                                 *)
LEMMA SoundGoesOn ==
    ASSUME BookTypes, BookTypes', AccountTypes, AccountTypes',
           RequestTypes, Sound, SoundBooks,
           UNCHANGED <<payments, bill, alloc>>,
           \A c \in Cycles : charged[c] <= charged'[c],
           SumTo(charged', Months) - SumTo(charged, Months)
             <= ledger'["card"] - ledger["card"],
           \A r \in Requests : req'[r].stage = "paid" => req'[r] = req[r]
    PROVE  SoundBooks'
  <1>1. /\ charged \in [Cycles -> Nat] /\ charged' \in [Cycles -> Nat]
        /\ ledger["card"] \in Int /\ ledger'["card"] \in Int
        /\ SnapOK(Books)
    BY BookNumbers DEF BookTypes, AccountTypes, Accounts
  <1>2. /\ Books.payments = payments /\ Books'.payments = payments
        /\ Books.charged = charged /\ Books'.charged = charged'
    BY DEF Books
  <1>3. ASSUME NEW r \in Requests, req'[r].stage = "paid"
        PROVE  FollowsFrom(req[r].snap)'
    <2>1. req'[r] = req[r] /\ FollowsFrom(req[r].snap) /\ Held(req[r])
      BY <1>3 DEF SoundBooks, RequestTypes
    <2> DEFINE s == req[r].snap
    <2>2. Snapshot(s)
      BY <1>3, <2>1 DEF Held
    <2>3. SnapOK(s)
      BY <2>2, SnapshotOK
    <2>4. \A c \in Cycles : s.charged[c] \in Nat /\ charged[c] \in Nat
                            /\ charged'[c] \in Nat
      BY <1>1, <2>3 DEF SnapOK
    <2>5. QED
      BY <2>1, <2>4 DEF FollowsFrom
  <1>4. Spread(Books, alloc)' /\ Spent(Books)' = Spent(Books)
    <2>1. Spread(Books, alloc)
      BY DEF SoundBooks
    <2>2. \A c \in Cycles : /\ charged[c] \in Nat /\ charged'[c] \in Nat
                            /\ charged[c] <= charged'[c]
      BY <1>1
    <2> DEFINE s == Books
               t == Books'
    <2>3. /\ t.payments = s.payments
          /\ \A c \in Cycles : /\ s.charged[c] \in Nat /\ t.charged[c] \in Nat
                               /\ s.charged[c] <= t.charged[c]
      BY <1>2, <2>2
    <2> HIDE DEF s, t
    <2>4. Spent(t) = Spent(s)
      BY <2>3, SamePayments
    <2>5. Spread(s, alloc) => Spread(t, alloc)
      BY <2>3, SamePayments
    <2>6. QED
      BY <2>1, <2>4, <2>5 DEF s, t
  <1>5. (SumTo(charged, Months) - Spent(Books) <= ledger["card"])'
    <2>1. SumTo(charged, Months) - Spent(Books) <= ledger["card"]
      BY DEF SoundBooks
    <2>2. SumTo(charged, Months) \in Nat /\ SumTo(charged', Months) \in Nat
      BY <1>1, CyclesSum, MonthsAssumption
    <2>3. Spent(Books) \in Int
      BY <1>1, SpentType
    <2>4. SumTo(charged', Months) - Spent(Books)' <= ledger'["card"]
      BY <1>1, <1>4, <2>1, <2>2, <2>3
    <2>5. QED
      BY <2>4
  <1>6. \A i \in 1..Len(payments') : payments'[i].amount > 0
    BY DEF SoundBooks
  <1>7. QED
    BY <1>3, <1>4, <1>5, <1>6 DEF SoundBooks

LEMMA CommitSound ==
    ASSUME TypeInv, TypeInv', NEW r \in Requests, CommitTransaction(r),
           Sound, SoundBooks
    PROVE  SoundBooks'
  <1> DEFINE q == req[r]
             d == q.delta
  <1>0. /\ AccountTypes /\ BookTypes /\ RequestTypes
        /\ AccountTypes' /\ BookTypes'
    BY TypeInvParts, PTL
  <1>1. /\ AccountTypes /\ BookTypes /\ RequestTypes /\ Held(q)
        /\ AccountTypes' /\ BookTypes'
    BY <1>0 DEF RequestTypes
  <1>2. /\ q.stage = "checked" /\ q.account \in Accounts /\ d \in Int
        /\ q.cycle \in Cycles
        /\ q.account = "card" => d \in Nat
    BY <1>1 DEF CommitTransaction, Held, RequestStates, Idle
  <1>3. /\ UNCHANGED <<payments, bill, alloc>>
        /\ req' = [req EXCEPT ![r] = Idle]
        /\ ledger' = [ledger EXCEPT ![q.account] = @ + d]
        /\ charged' = IF q.account = "card" /\ q.type = "expense"
                        THEN [charged EXCEPT ![q.cycle] = @ + d]
                        ELSE charged
    BY Zenon DEF CommitTransaction, Move, statementVars
  <1>4. \A p \in Requests : req'[p].stage = "paid" => req'[p] = req[p]
    BY <1>1, <1>3 DEF RequestTypes, Idle
  <1>5. /\ charged \in [Cycles -> Nat] /\ charged' \in [Cycles -> Nat]
        /\ ledger["card"] \in Int /\ ledger \in [Accounts -> Int]
    BY <1>1 DEF BookTypes, AccountTypes, Accounts
  <1>6. SumTo(charged, Months) \in Nat
    BY <1>5, CyclesSum, MonthsAssumption
  <1>7. CASE q.account = "card" /\ q.type = "expense"
    <2>1. charged' = [charged EXCEPT ![q.cycle] = @ + d] /\ d \in Nat
      BY <1>2, <1>3, <1>7
    <2>2. ledger'["card"] = ledger["card"] + d
      BY <1>2, <1>3, <1>5, <1>7 DEF Accounts
    <2> DEFINE k == q.cycle
    <2>3. /\ \A c \in Cycles : charged[c] <= charged'[c]
          /\ charged'[k] = charged[k] + d /\ charged[k] \in Nat
      BY <1>2, <1>5, <2>1
    <2>4. \A c \in 1..Months : /\ charged[c] \in Int /\ charged'[c] \in Int
                               /\ c # k => charged'[c] = charged[c]
      BY <1>2, <1>5, <2>1 DEF Cycles
    <2>5. k \in 1..Months
      BY <1>2 DEF Cycles
    <2> HIDE DEF k, q, d
    <2>6. SumTo(charged', Months) =
            SumTo(charged, Months) + (charged'[k] - charged[k])
      BY <2>4, <2>5, SumPoint, MonthsAssumption
    <2>7. SumTo(charged', Months) - SumTo(charged, Months)
            <= ledger'["card"] - ledger["card"]
      BY <1>5, <1>6, <2>1, <2>2, <2>3, <2>6
    <2>8. QED
      BY <1>1, <1>3, <1>4, <2>3, <2>7, SoundGoesOn
  <1>8. CASE ~(q.account = "card" /\ q.type = "expense")
    <2>1. charged' = charged
      BY <1>3, <1>8
    <2>2. ledger["card"] <= ledger'["card"] /\ ledger'["card"] \in Int
      BY <1>2, <1>3, <1>5 DEF Accounts
    <2> HIDE DEF q, d
    <2>3. SumTo(charged', Months) - SumTo(charged, Months)
            <= ledger'["card"] - ledger["card"]
      BY <1>5, <1>6, <2>1, <2>2
    <2>4. \A c \in Cycles : charged[c] <= charged'[c]
      BY <1>5, <2>1
    <2>5. QED
      BY <1>1, <1>3, <1>4, <2>3, <2>4, SoundGoesOn
  <1>9. QED
    BY <1>7, <1>8

(* Every other step but a reconciliation and a payment.                    *)
LEMMA OthersSound ==
    ASSUME TypeInv, TypeInv', Sound, SoundBooks,
           UNCHANGED <<charged, ledger, payments, bill, alloc>>,
           \A r \in Requests : req'[r].stage = "paid" => req'[r] = req[r]
    PROVE  SoundBooks'
  <1>1. /\ AccountTypes /\ BookTypes /\ RequestTypes
        /\ AccountTypes' /\ BookTypes'
    BY TypeInvParts, PTL
  <1>2. /\ charged \in [Cycles -> Nat] /\ ledger["card"] \in Int
        /\ SumTo(charged, Months) \in Nat
    BY <1>1, CyclesSum, MonthsAssumption DEF BookTypes, AccountTypes, Accounts
  <1>3. /\ \A c \in Cycles : charged[c] <= charged'[c]
        /\ SumTo(charged', Months) - SumTo(charged, Months)
             <= ledger'["card"] - ledger["card"]
    BY <1>2
  <1>4. QED
    BY <1>1, <1>3, SoundGoesOn

LEMMA BooksPayable ==
    ASSUME TypeInv, SoundBooks
    PROVE  SnapOK(Books) /\ Payable(Books)
  <1>1. BookTypes
    BY TypeInvParts
  <1>2. SnapOK(Books)
    BY <1>1, BookNumbers
  <1>3. \A j \in 1..Len(Books.payments) : Books.payments[j].at <= Books.now
    BY <1>1 DEF BookTypes, Books
  <1>4. Spread(Books, alloc)
    BY DEF SoundBooks
  <1> HIDE DEF SoundBooks
  <1>5. QED
    BY <1>2, <1>3, <1>4, SpreadPayable

LEMMA ReconcileSound ==
    ASSUME TypeInv, Sound => SoundBooks, NEW r \in Requests, Reconcile(r),
           Sound'
    PROVE  SoundBooks'
  <1> DEFINE q == req[r]
             s == q.snap
  <1>1. /\ BookTypes /\ StatementTypes /\ RequestTypes /\ Held(q)
    BY TypeInvParts DEF RequestTypes
  <1>2. /\ q.stage = "read" /\ WriteStatements(s)
        /\ stale' = (stale \/ s # Books)
        /\ UNCHANGED <<closed, gone, ledger, charged, payments, deleted>>
    BY DEF Reconcile, accountVars, rowVars
  <1>3. /\ req' = [req EXCEPT ![r] =
                     IF 0 < q.amount
                        /\ q.amount <= SumTo(Outstanding(s), Months)
                        /\ q.amount <= q.owed
                       THEN [stage |-> "paid", amount |-> q.amount, snap |-> s]
                       ELSE Idle]
    BY Zenon DEF Reconcile
  <1>4. s = Books /\ Sound /\ SoundBooks
    BY <1>2 DEF Sound
  <1>5. SnapOK(Books) /\ Payable(Books)
    BY <1>4, BooksPayable
  <1>6. Spread(Books, Allocations(Books))
    BY <1>5, AllocationsSpread
  <1>7. Snapshot(s)
    BY <1>1, <1>2 DEF Held
  <1>8. /\ alloc' = Allocations(s)
        /\ \A c \in Cycles :
             IF Billed(s)[c] = 0 THEN ~bill'[c].live
             ELSE bill'[c] = [live |-> TRUE, amount |-> Billed(s)[c],
                              paid |-> Paid(Allocations(s), c)]
    BY <1>1, <1>2, <1>7, Written
  <1>9. Books' = Books
    BY <1>2 DEF Books
  <1>10. Spread(Books, alloc)'
    BY <1>4, <1>6, <1>8, <1>9
  <1>11. (SumTo(charged, Months) - Spent(Books) <= ledger["card"])'
    <2>1. SumTo(charged, Months) - Spent(Books) <= ledger["card"]
      BY <1>4 DEF SoundBooks
    <2>2. QED
      BY <1>2, <1>9, <2>1
  <1>12. \A i \in 1..Len(payments') : payments'[i].amount > 0
    BY <1>2, <1>4 DEF SoundBooks
  <1>13. \A c \in Cycles : Billed(Books)[c] > 0 => bill'[c].live
    <2>1. ASSUME NEW c \in Cycles, Billed(Books)[c] > 0 PROVE bill'[c].live
      <3> DEFINE paid == Paid(Allocations(s), c)
                 billed == Billed(s)[c]
      <3>1. Billed(s)[c] = Billed(Books)[c]
        BY <1>4
      <3>2. bill'[c] = [live |-> TRUE, amount |-> billed, paid |-> paid]
        BY <1>8, <2>1, <3>1
      <3> HIDE DEF paid, billed
      <3>3. QED
        BY <3>2
    <2>2. QED
      BY <2>1
  <1>14. ASSUME NEW p \in Requests, req'[p].stage = "paid"
         PROVE  FollowsFrom(req[p].snap)'
    <2>1. CASE req'[p] = req[p]
      <3> DEFINE o == req[p].snap
      <3>1. FollowsFrom(o) /\ Held(req[p]) /\ req[p].stage = "paid"
        BY <1>1, <1>4, <1>14, <2>1 DEF SoundBooks, RequestTypes
      <3>2. Snapshot(o)
        BY <3>1 DEF Held
      <3>3. SnapOK(o) /\ o.now <= closed
        BY <1>1, <3>2, SnapshotOK
      <3>4. \A c \in Cycles : Billed(o)[c] > 0 => Billed(Books)[c] > 0
        <4>1. ASSUME NEW c \in Cycles, Billed(o)[c] > 0
              PROVE  Billed(Books)[c] > 0
          <5>1. c \in Nat /\ o.now \in Nat /\ closed \in Nat
            BY <1>1, <3>3, MonthsAssumption, BookNumbers DEF Cycles, SnapOK
          <5>2. o.charged[c] \in Nat /\ charged[c] \in Nat
            BY <1>1, <3>3 DEF SnapOK, BookTypes
          <5>3. c <= o.now /\ o.charged[c] > 0
            BY <4>1 DEF Billed
          <5>4. o.charged[c] <= charged[c]
            BY <3>1 DEF FollowsFrom
          <5>5. c <= closed /\ charged[c] > 0
            BY <3>3, <5>1, <5>2, <5>3, <5>4
          <5>6. QED
            BY <5>5 DEF Billed, Books
        <4>2. QED
          BY <4>1
      <3>5. /\ \A c \in Cycles : o.charged[c] <= charged'[c]
            /\ \A i \in 1..Len(o.payments) : payments'[i] = o.payments[i]
            /\ \A c \in Cycles : Billed(o)[c] > 0 => bill'[c].live
        BY <1>2, <1>13, <3>1, <3>4 DEF FollowsFrom
      <3>6. QED
        BY <2>1, <3>5 DEF FollowsFrom
    <2>2. CASE req'[p] # req[p]
      <3>1. p = r
        BY <1>1, <1>3, <2>2 DEF RequestTypes
      <3>2. req'[p].snap = Books
        BY <1>1, <1>3, <1>4, <1>14, <3>1 DEF RequestTypes, Idle
      <3>3. \A c \in Cycles : charged[c] <= charged[c]
        BY <1>1 DEF BookTypes
      <3>4. /\ \A c \in Cycles : Books.charged[c] <= charged'[c]
            /\ \A i \in 1..Len(Books.payments) :
                 payments'[i] = Books.payments[i]
            /\ \A c \in Cycles : Billed(Books)[c] > 0 => bill'[c].live
        BY <1>2, <1>13, <3>3 DEF Books
      <3>5. QED
        BY <3>2, <3>4 DEF FollowsFrom
    <2>3. QED
      BY <2>1, <2>2
  <1>15. QED
    BY <1>10, <1>11, <1>12, <1>14 DEF SoundBooks

LEMMA PaymentSound ==
    ASSUME TypeInv, PaidIsAllocated, Sound => SoundBooks, NEW r \in Requests,
           ApplyPayment(r), Sound'
    PROVE  SoundBooks'
  <1> DEFINE q == req[r]
             s == q.snap
             part == PartOf(q)
             l == Len(payments)
             out == Outstanding(s)
  <1>1. /\ BookTypes /\ StatementTypes /\ RequestTypes /\ AccountTypes
        /\ SnapOK(Books) /\ l \in Nat
    BY TypeInvParts, BookNumbers
  <1>2. /\ q.stage = "paid"
        /\ ledger' = [a \in Accounts |-> ledger[a] - q.amount]
        /\ req' = [req EXCEPT ![r] = Idle]
        /\ UNCHANGED <<closed, charged, gone, stale, deleted>>
    BY DEF ApplyPayment, Transfer, rowVars, historyVars
  <1>3. Sound /\ SoundBooks
    BY <1>2 DEF Sound
  <1>4. /\ SnapOK(s) /\ q.amount \in Nat /\ q.amount > 0
        /\ q.amount <= SumTo(out, Months)
        /\ part \in [Cycles -> Nat]
    BY Entering
  <1>5. /\ l + 1 \in PaymentIds /\ Len(payments') = l + 1
        /\ \A i \in 1..l : payments'[i] = payments[i]
        /\ payments'[l + 1] = [amount |-> q.amount, at |-> s.now]
    BY Entering
  <1>6. /\ alloc' = [alloc EXCEPT ![l + 1] = part] /\ alloc' \in Rows
        /\ \A c \in Cycles : Paid(alloc', c) = Paid(alloc, c) + part[c]
    BY Entering
  <1>7. \A c \in Cycles :
          bill'[c] = IF part[c] > 0
                       THEN [bill[c] EXCEPT !.live = TRUE,
                               !.paid = Paid(Allocations(s), c) + part[c]]
                       ELSE bill[c]
    BY Entering
  <1>8. \A c \in Cycles :
          part[c] > 0 => bill[c].paid = Paid(Allocations(s), c)
    BY Entering
  <1>9. FollowsFrom(s)
    BY <1>2, <1>3 DEF SoundBooks
  <1>10. /\ \A c \in Cycles : part[c] <= out[c]
         /\ SumTo(part, Months) = q.amount
    <2>1. /\ \A c \in Cycles : part[c] <= out[c]
          /\ SumTo(part, Months) =
               IF q.amount <= SumTo(out, Months) THEN q.amount
                                               ELSE SumTo(out, Months)
      BY <1>4, OutstandingIs, AppliedInOrder, MonthsAssumption DEF PartOf
    <2>2. QED
      BY <1>4, <2>1
  <1>11. \A c \in Cycles : /\ out[c] = Billed(s)[c] - Paid(Allocations(s), c)
                           /\ Paid(Allocations(s), c) \in Nat
                           /\ Billed(s)[c] \in Nat /\ part[c] \in Nat
                           /\ s.charged[c] \in Nat /\ charged[c] \in Nat
                           /\ Paid(alloc, c) \in Nat
    BY <1>1, <1>4, OutstandingIs, AllocationsGreedy, PaidAdds
    DEF SnapOK, BookTypes, StatementTypes
  <1>12. Spread(Books, alloc)
    BY <1>3 DEF SoundBooks
  <1> HIDE DEF part, out
  <1>13. Spread(Books, alloc)'
    <2>1. ASSUME NEW j \in PaymentIds, NEW c \in Cycles, alloc'[j][c] > 0
          PROVE  j <= Len(payments') /\ c <= payments'[j].at
      <3>1. CASE j = l + 1
        <4>1. alloc'[j] = part
          BY <1>1, <1>6, <3>1 DEF StatementTypes, Rows
        <4>2. Billed(s)[c] > 0
          BY <1>10, <1>11, <2>1, <4>1
        <4>3. c <= s.now
          BY <4>2 DEF Billed
        <4>4. QED
          BY <1>1, <1>5, <3>1, <4>3
      <3>2. CASE j # l + 1
        <4>1. alloc[j][c] > 0
          BY <1>1, <1>6, <2>1, <3>2 DEF StatementTypes, Rows
        <4>2. j <= l /\ c <= payments[j].at
          BY <1>12, <4>1 DEF Spread, Books
        <4>3. j \in 1..l
          BY <1>1, <4>2, BoundAssumption DEF PaymentIds
        <4>4. QED
          BY <1>1, <1>5, <4>2, <4>3
      <3>3. QED
        BY <3>1, <3>2
    <2>2. ASSUME NEW j \in 1..(l + 1)
          PROVE  SumTo(alloc'[j], Months) = payments'[j].amount
      <3>1. CASE j = l + 1
        <4>1. alloc'[j] = part
          BY <1>1, <1>5, <1>6, <3>1 DEF StatementTypes, Rows
        <4>2. QED
          BY <1>5, <1>10, <3>1, <4>1
      <3>2. CASE j # l + 1
        <4>1. j \in 1..l /\ j \in PaymentIds
          BY <1>1, <1>5, <3>2, BoundAssumption DEF PaymentIds
        <4>2. alloc'[j] = alloc[j] /\ payments'[j] = payments[j]
          BY <1>1, <1>5, <1>6, <3>2, <4>1 DEF StatementTypes, Rows
        <4>3. SumTo(alloc[j], Months) = payments[j].amount
          BY <1>12, <4>1 DEF Spread, Books
        <4>4. QED
          BY <4>2, <4>3
      <3>3. QED
        BY <3>1, <3>2
    <2>3. ASSUME NEW c \in Cycles PROVE Paid(alloc', c) <= charged'[c]
      <3>1. CASE part[c] > 0
        <4>1. Billed(s)[c] > 0
          BY <1>10, <1>11, <3>1
        <4>2. bill[c].live
          BY <1>9, <4>1 DEF FollowsFrom
        <4>3. Paid(alloc, c) = Paid(Allocations(s), c)
          BY <1>3, <1>8, <3>1, <4>2 DEF PaidIsAllocated, Sound
        <4>4. s.charged[c] <= charged[c]
          BY <1>9 DEF FollowsFrom
        <4>5. Billed(s)[c] <= s.charged[c]
          <5>1. s.charged[c] \in Nat
            BY <1>11
          <5>2. QED
            BY <5>1 DEF Billed
        <4>6. /\ Paid(alloc', c) = Paid(alloc, c) + part[c]
              /\ part[c] <= out[c]
              /\ out[c] = Billed(s)[c] - Paid(Allocations(s), c)
              /\ Paid(Allocations(s), c) \in Nat /\ Billed(s)[c] \in Nat
              /\ part[c] \in Nat /\ s.charged[c] \in Nat
              /\ charged[c] \in Nat /\ Paid(alloc, c) \in Nat
          BY <1>6, <1>10, <1>11
        <4>7. charged' = charged
          BY <1>2
        <4> HIDE DEF s
        <4>8. QED
          BY <4>3, <4>4, <4>5, <4>6, <4>7
      <3>2. CASE ~(part[c] > 0)
        <4>1. part[c] = 0
          BY <1>11, <3>2
        <4>2. Paid(alloc, c) <= charged[c]
          <5>1. \A d \in Cycles : Paid(alloc, d) <= Books.charged[d]
            BY <1>12 DEF Spread
          <5>2. Books.charged = charged
            BY DEF Books
          <5>3. QED
            BY <5>1, <5>2
        <4>3. charged' = charged /\ Paid(alloc', c) = Paid(alloc, c) + part[c]
          BY <1>2, <1>6
        <4>4. Paid(alloc, c) \in Nat
          BY <1>11
        <4>5. QED
          BY <4>1, <4>2, <4>3, <4>4
      <3>3. QED
        BY <3>1, <3>2
    <2>4. QED
      BY <1>5, <1>6, <2>1, <2>2, <2>3 DEF Spread, Books
  <1>14. (SumTo(charged, Months) - Spent(Books) <= ledger["card"])'
    <2> DEFINE f == MadeBy(Books, Months)
               g == MadeBy(Books, Months)'
               n == q.amount
    <2>1. /\ f \in [PaymentIds -> Nat]
          /\ \A i \in PaymentIds : f[i] = IF i <= l THEN payments[i].amount
                                                    ELSE 0
      BY <1>1, SpentType DEF Books
    <2>2. f[l + 1] = 0
      BY <1>1, <1>5, <2>1
    <2>3. \A i \in PaymentIds :
            g[i] = IF i <= l + 1 /\ payments'[i].at <= Months
                     THEN payments'[i].amount ELSE 0
      BY <1>5 DEF MadeBy, Books
    <2>4. g = [i \in PaymentIds |-> g[i]]
      BY DEF MadeBy
    <2>5. ASSUME NEW i \in PaymentIds
          PROVE  g[i] = IF i = l + 1 THEN n ELSE f[i]
      <3>1. i \in Nat /\ i >= 1 /\ s.now <= Months
        BY <1>4, BoundAssumption, MonthsAssumption DEF PaymentIds, SnapOK
      <3>2. CASE i = l + 1
        BY <1>1, <1>5, <2>3, <3>1, <3>2
      <3>3. CASE i # l + 1 /\ i <= l
        <4>1. i \in 1..l
          BY <1>1, <3>1, <3>3
        <4>2. payments'[i] = payments[i] /\ payments[i].at <= Months
          BY <1>1, <1>5, <4>1, BookNumbers, MonthsAssumption
        <4>3. i <= l + 1
          BY <1>1, <3>1, <3>3
        <4>4. QED
          BY <2>1, <2>3, <3>3, <4>2, <4>3
      <3>4. CASE i # l + 1 /\ ~(i <= l)
        BY <1>1, <2>1, <2>3, <3>1, <3>4
      <3>5. QED
        BY <3>2, <3>3, <3>4
    <2>6. g = [f EXCEPT ![l + 1] = n]
      <3> HIDE DEF f, g, n
      <3>1. QED
        BY <2>1, <2>4, <2>5
    <2>7. n \in Int /\ f \in [PaymentIds -> Int]
      BY <1>4, <2>1
    <2>8. /\ Spent(Books) = SumTo(f, MaxPayments)
          /\ Spent(Books)' = SumTo(g, MaxPayments)
      BY DEF Spent
    <2>9. Spent(Books) \in Int
      BY <1>1, SpentType
    <2>10. SumTo(charged, Months) - Spent(Books) <= ledger["card"]
      BY <1>3 DEF SoundBooks
    <2>11. /\ SumTo(charged, Months) \in Nat /\ ledger["card"] \in Int
           /\ ledger'["card"] = ledger["card"] - n
      BY <1>1, <1>2, CyclesSum, MonthsAssumption
      DEF BookTypes, AccountTypes, Accounts
    <2>12. charged' = charged
      BY <1>2
    <2> HIDE DEF f, g, n
    <2>13. SumTo(g, MaxPayments) = SumTo(f, MaxPayments) + (n - f[l + 1])
      BY <1>5, <2>6, <2>7, PaymentsSum
    <2>14. Spent(Books)' = Spent(Books) + n
      BY <2>2, <2>7, <2>8, <2>9, <2>13
    <2>15. SumTo(charged', Months) - Spent(Books)' <= ledger'["card"]
      BY <2>7, <2>9, <2>10, <2>11, <2>12, <2>14
    <2>16. QED
      BY <2>15
  <1>15. \A i \in 1..Len(payments') : payments'[i].amount > 0
    <2>1. ASSUME NEW i \in 1..(l + 1) PROVE payments'[i].amount > 0
      <3>1. i \in 1..l \/ i = l + 1
        BY <1>1
      <3>2. QED
        BY <1>3, <1>4, <1>5, <3>1 DEF SoundBooks
    <2>2. QED
      BY <1>5, <2>1
  <1>16. ASSUME NEW p \in Requests, req'[p].stage = "paid"
         PROVE  FollowsFrom(req[p].snap)'
    <2> DEFINE o == req[p].snap
    <2>1. p # r /\ req'[p] = req[p]
      BY <1>1, <1>2, <1>16 DEF RequestTypes, Idle
    <2>2. FollowsFrom(o) /\ Held(req[p]) /\ req[p].stage = "paid"
      BY <1>1, <1>3, <1>16, <2>1 DEF SoundBooks, RequestTypes
    <2>3. Snapshot(o)
      BY <2>2 DEF Held
    <2>4. SnapOK(o) /\ Len(o.payments) <= l /\ Len(o.payments) \in Nat
      BY <1>1, <2>3, SnapshotOK, PaymentsType
    <2>5. \A i \in 1..Len(o.payments) : payments'[i] = o.payments[i]
      <3>1. \A i \in 1..Len(o.payments) : i \in 1..l
        BY <1>1, <2>4
      <3>2. QED
        BY <1>5, <2>2, <3>1 DEF FollowsFrom
    <2>6. ASSUME NEW c \in Cycles, Billed(o)[c] > 0
          PROVE  bill'[c].live
      <3>1. bill[c].live
        BY <2>2, <2>6 DEF FollowsFrom
      <3>2. bill[c] \in [live : BOOLEAN, amount : Nat, paid : Nat]
        BY <1>1 DEF StatementTypes
      <3> DEFINE paid == Paid(Allocations(s), c) + part[c]
      <3>3. bill'[c] = IF part[c] > 0
                         THEN [bill[c] EXCEPT !.live = TRUE, !.paid = paid]
                         ELSE bill[c]
        BY <1>7
      <3> HIDE DEF paid
      <3>4. QED
        BY <3>1, <3>2, <3>3
    <2>7. QED
      BY <1>2, <2>1, <2>2, <2>5, <2>6 DEF FollowsFrom
  <1>17. QED
    BY <1>13, <1>14, <1>15, <1>16 DEF SoundBooks

-----------------------------------------------------------------------------
(* Steps                                                                   *)

LEMMA SamePaid ==
    ASSUME PaidIsAllocated, UNCHANGED <<bill, alloc>>,
           stale => stale', deleted => deleted'
    PROVE  PaidIsAllocated'
  BY DEF PaidIsAllocated

LEMMA ReconcilePaid ==
    ASSUME TypeInv, NEW r \in Requests, Reconcile(r)
    PROVE  PaidIsAllocated'
  <1> DEFINE s == req[r].snap
  <1>1. /\ BookTypes /\ StatementTypes /\ Held(req[r])
    BY TypeInvParts DEF RequestTypes
  <1>2. req[r].stage = "read" /\ WriteStatements(s)
    BY DEF Reconcile
  <1>3. Snapshot(s)
    BY <1>1, <1>2 DEF Held
  <1> HIDE DEF s
  <1>4. ASSUME NEW c \in Cycles, bill'[c].live
        PROVE  bill'[c].paid = Paid(alloc', c)
    <2> DEFINE paid == Paid(Allocations(s), c)
               billed == Billed(s)[c]
    <2>1. /\ alloc' = Allocations(s)
          /\ bill'[c] = [live |-> TRUE, amount |-> billed, paid |-> paid]
      BY <1>1, <1>2, <1>3, <1>4, Written
    <2> HIDE DEF paid, billed
    <2>2. bill'[c].paid = paid
      BY <2>1
    <2>3. QED
      BY <2>1, <2>2 DEF paid
  <1>5. QED
    BY <1>4 DEF PaidIsAllocated

LEMMA PaymentPaid ==
    ASSUME TypeInv, PaidIsAllocated, Sound => SoundBooks, NEW r \in Requests,
           ApplyPayment(r)
    PROVE  PaidIsAllocated'
  <1> DEFINE q == req[r]
             s == q.snap
             part == PartOf(q)
             out == Outstanding(s)
  <1>1. StatementTypes /\ RequestTypes
    BY TypeInvParts
  <1>2. /\ q.stage = "paid" /\ "card" \notin gone
        /\ UNCHANGED <<stale, deleted>>
    BY DEF ApplyPayment, Transfer, Accounts, historyVars
  <1>3. SnapOK(s) /\ q.amount \in Nat /\ part \in [Cycles -> Nat]
    BY Entering
  <1>4. \A c \in Cycles :
          /\ Paid(alloc', c) = Paid(alloc, c) + part[c]
          /\ part[c] > 0 => bill[c].paid = Paid(Allocations(s), c)
          /\ bill'[c] = IF part[c] > 0
                          THEN [bill[c] EXCEPT !.live = TRUE,
                                  !.paid = Paid(Allocations(s), c) + part[c]]
                          ELSE bill[c]
    BY Entering
  <1>5. \A c \in Cycles : /\ part[c] <= out[c] /\ out[c] \in Nat
                          /\ out[c] = Billed(s)[c] - Paid(Allocations(s), c)
                          /\ Paid(Allocations(s), c) \in Nat
                          /\ Billed(s)[c] \in Nat
    BY <1>3, OutstandingIs, AllocationsGreedy, AppliedInOrder DEF PartOf
  <1> HIDE DEF part, out
  <1>6. ASSUME NEW c \in Cycles, bill'[c].live, ~stale', ~deleted'
        PROVE  bill'[c].paid = Paid(alloc', c)
    <2> DEFINE paid == Paid(Allocations(s), c)
               now == Paid(alloc', c)
               old == Paid(alloc, c)
    <2>1. /\ now = old + part[c] /\ old \in Nat /\ part[c] \in Nat
          /\ bill[c] \in [live : BOOLEAN, amount : Nat, paid : Nat]
      BY <1>1, <1>3, <1>4, PaidAdds DEF StatementTypes
    <2>2. Sound /\ SoundBooks
      BY <1>2, <1>6 DEF Sound
    <2>3. CASE part[c] > 0
      <3>1. Billed(s)[c] > 0
        <4>1. /\ part[c] <= out[c] /\ out[c] \in Nat
              /\ out[c] = Billed(s)[c] - paid
              /\ paid \in Nat /\ Billed(s)[c] \in Nat
          BY <1>5
        <4> HIDE DEF paid
        <4>2. QED
          BY <2>1, <2>3, <4>1
      <3>2. bill[c].live
        BY <1>2, <2>2, <3>1 DEF SoundBooks, FollowsFrom
      <3>3. bill[c].paid = old
        BY <2>2, <3>2 DEF PaidIsAllocated, Sound
      <3>4. bill[c].paid = paid
        BY <1>4, <2>3
      <3>5. bill'[c] = [bill[c] EXCEPT !.live = TRUE, !.paid = paid + part[c]]
        BY <1>4, <2>3
      <3> HIDE DEF paid, now, old
      <3>6. bill'[c].paid = paid + part[c]
        BY <2>1, <3>5
      <3>7. bill'[c].paid = now
        BY <2>1, <3>3, <3>4, <3>6
      <3>8. QED
        BY <3>7 DEF now
    <2>4. CASE ~(part[c] > 0)
      <3>1. bill'[c] = bill[c]
        BY <1>4, <2>4
      <3>2. bill[c].paid = old
        BY <1>6, <2>2, <3>1 DEF PaidIsAllocated, Sound
      <3> HIDE DEF now, old
      <3>3. now = old
        BY <2>1, <2>4
      <3>4. QED
        BY <3>1, <3>2, <3>3 DEF now
    <2>5. QED
      BY <2>3, <2>4
  <1>7. QED
    BY <1>6 DEF PaidIsAllocated

LEMMA CardStarts == Init => CardInv
  <1> SUFFICES ASSUME Init PROVE CardInv
    OBVIOUS
  <1>1. TypeInv /\ BookTypes /\ StatementTypes
    BY TypesStart, TypeInvParts
  <1>2. PaidIsAllocated
    BY DEF Init, PaidIsAllocated, NoRow
  <1>3. /\ alloc = NoAllocation /\ payments = <<>>
        /\ charged = [c \in Cycles |-> 0] /\ ledger["card"] = 0
    BY DEF Init, Accounts
  <1>4. SnapOK(Books) /\ Books.payments = <<>> /\ Books.charged = charged
    BY <1>1, <1>3, BookNumbers DEF Books
  <1>5. Spread(Books, alloc)
    <2>1. \A i \in PaymentIds : \A c \in Cycles : NoAllocation[i][c] = 0
      BY DEF NoAllocation
    <2>2. QED
      BY <1>3, <1>4, <2>1, NoneAllocated DEF Spread
  <1>6. SumTo(charged, Months) = 0
    BY <1>3, SumZero, MonthsAssumption DEF Cycles
  <1>7. Spent(Books) = 0
    <2> DEFINE f == MadeBy(Books, Months)
    <2>1. \A i \in 1..MaxPayments : f[i] = 0
      BY <1>4, SpentType DEF PaymentIds
    <2> HIDE DEF f
    <2>2. SumTo(f, MaxPayments) = 0
      BY <2>1, SumZero, BoundAssumption
    <2>3. QED
      BY <2>2 DEF f, Spent
  <1>8. \A r \in Requests : req[r].stage # "paid"
    BY DEF Init, Idle
  <1>9. SoundBooks
    BY <1>3, <1>5, <1>6, <1>7, <1>8 DEF SoundBooks
  <1>10. QED
    BY <1>1, <1>2, <1>9 DEF CardInv

(* Every step but a commit, a reconciliation and a payment leaves the      *)
(* books as they are or takes note of having spoilt them.                  *)
LEMMA OthersKept ==
    ASSUME CardInv, TypeInv', UNCHANGED <<bill, alloc, ledger>>,
           stale' = stale, deleted => deleted', gone \subseteq gone',
           Sound' => UNCHANGED <<charged, payments>>,
           \A r \in Requests : req'[r].stage = "paid" => req'[r] = req[r]
    PROVE  CardInv'
  <1>1. PaidIsAllocated'
    BY SamePaid DEF CardInv
  <1>2. ASSUME Sound' PROVE SoundBooks'
    <2>1. Sound /\ SoundBooks
      BY <1>2 DEF Sound, CardInv
    <2>2. QED
      BY <1>2, <2>1, OthersSound DEF CardInv
  <1>3. QED
    BY <1>1, <1>2 DEF CardInv

LEMMA NewRequest ==
    ASSUME TypeInv, NEW r \in Requests, NEW q, req' = [req EXCEPT ![r] = q],
           q.stage # "paid"
    PROVE  \A p \in Requests : req'[p].stage = "paid" => req'[p] = req[p]
  <1>1. RequestTypes
    BY TypeInvParts
  <1>2. QED
    BY <1>1 DEF RequestTypes

LEMMA CardKept == CardInv /\ [Next]_vars => CardInv'
  <1> SUFFICES ASSUME CardInv, [Next]_vars PROVE CardInv'
    OBVIOUS
  <1>1. TypeInv /\ TypeInv' /\ PaidIsAllocated /\ (Sound => SoundBooks)
    BY TypesKept DEF CardInv
  <1>2. CASE \/ CloseCycle \/ DeleteCharge \/ DeletePayment \/ DeleteAccount
             \/ UNCHANGED vars
    <2>1. UNCHANGED <<bill, alloc, ledger, stale, req>>
      BY <1>2 DEF CloseCycle, DeleteCharge, DeletePayment, DeleteAccount, vars,
         accountVars, statementVars, historyVars
    <2>2. /\ deleted => deleted'
          /\ gone \subseteq gone'
          /\ Sound' => UNCHANGED <<charged, payments>>
      BY <1>2 DEF CloseCycle, DeleteCharge, DeletePayment, DeleteAccount, vars,
         accountVars, rowVars, historyVars, Sound
    <2>3. QED
      BY <1>1, <2>1, <2>2, OthersKept
  <1>3. CASE DeleteCreditCard
    <2>1. /\ UNCHANGED <<bill, alloc, ledger, stale, deleted, req>>
          /\ gone' = gone \cup {"card"}
      BY <1>3 DEF DeleteCreditCard, statementVars, historyVars
    <2>2. QED
      BY <1>1, <2>1, OthersKept DEF Sound
  <1>4. ASSUME NEW r \in Requests,
               \/ CreateTransaction(r) \/ UpdateAccount(r)
               \/ GetFinancialPayables(r) \/ PayCreditCardDebt(r)
               \/ GiveUp(r)
        PROVE  CardInv'
    <2>1. CASE CommitTransaction(r)
      <3>1. UNCHANGED <<bill, alloc, stale, deleted, gone>>
        BY <2>1 DEF CommitTransaction, statementVars, rowVars
      <3>2. PaidIsAllocated'
        BY <1>1, <3>1, SamePaid
      <3>3. Sound' => SoundBooks'
        BY <1>1, <2>1, <3>1, CommitSound DEF Sound
      <3>4. QED
        BY <1>1, <3>2, <3>3 DEF CardInv
    <2>2. CASE Reconcile(r)
      BY <1>1, <2>2, ReconcilePaid, ReconcileSound DEF CardInv
    <2>3. CASE ApplyPayment(r)
      BY <1>1, <2>3, PaymentPaid, PaymentSound DEF CardInv
    <2>4. CASE \/ BeginTransaction(r) \/ BeginEdit(r) \/ CommitEdit(r)
               \/ BeginView(r) \/ BeginPayment(r) \/ ReadTransactions(r)
               \/ GiveUp(r)
      <3>1. UNCHANGED <<bill, alloc, ledger, stale, deleted, gone, charged,
                        payments>>
        BY <2>4 DEF BeginTransaction, BeginEdit, CommitEdit, BeginView,
           BeginPayment, ReadTransactions, GiveUp, accountVars, rowVars,
           statementVars, historyVars
      <3>2. \A p \in Requests : req'[p].stage = "paid" => req'[p] = req[p]
        <4>1. CASE BeginTransaction(r)
          <5>1. PICK a \in Accounts, type \in {"expense", "income"},
                     n \in Amounts, c \in Cycles :
                  req' = [req EXCEPT ![r] =
                    [stage |-> "checked", account |-> a, type |-> type,
                     delta |-> TransactionDelta(type, a, n), cycle |-> c,
                     seen |-> balance[a]]]
            BY <4>1, Zenon DEF BeginTransaction
          <5> DEFINE q == [stage |-> "checked", account |-> a, type |-> type,
                           delta |-> TransactionDelta(type, a, n),
                           cycle |-> c, seen |-> balance[a]]
          <5>2. req' = [req EXCEPT ![r] = q] /\ q.stage # "paid"
            BY <5>1
          <5> HIDE DEF q
          <5>3. QED
            BY <1>1, <5>2, NewRequest
        <4>2. CASE BeginEdit(r)
          <5>1. PICK a \in Accounts, o \in Openings :
                  req' = [req EXCEPT ![r] =
                    [stage |-> "editing", account |-> a, opening |-> o,
                     seen |-> balance[a], seenOpening |-> opening[a]]]
            BY <4>2, Zenon DEF BeginEdit
          <5> DEFINE q == [stage |-> "editing", account |-> a, opening |-> o,
                           seen |-> balance[a], seenOpening |-> opening[a]]
          <5>2. req' = [req EXCEPT ![r] = q] /\ q.stage # "paid"
            BY <5>1
          <5> HIDE DEF q
          <5>3. QED
            BY <1>1, <5>2, NewRequest
        <4>3. CASE CommitEdit(r) \/ GiveUp(r)
          <5>1. req' = [req EXCEPT ![r] = Idle] /\ Idle.stage # "paid"
            BY <4>3 DEF CommitEdit, GiveUp, Idle
          <5>2. QED
            BY <1>1, <5>1, NewRequest
        <4>4. CASE BeginView(r)
          <5> DEFINE q == [stage |-> "read", amount |-> 0, owed |-> 0,
                           snap |-> Books]
          <5>1. req' = [req EXCEPT ![r] = q] /\ q.stage # "paid"
            BY <4>4 DEF BeginView
          <5> HIDE DEF q
          <5>2. QED
            BY <1>1, <5>1, NewRequest
        <4>5. CASE BeginPayment(r)
          <5>1. PICK n \in Amounts :
                  req' = [req EXCEPT ![r] =
                    [stage |-> "paying", amount |-> n, now |-> closed,
                     owed |-> balance["card"]]]
            BY <4>5, Zenon DEF BeginPayment
          <5> DEFINE q == [stage |-> "paying", amount |-> n, now |-> closed,
                           owed |-> balance["card"]]
          <5>2. req' = [req EXCEPT ![r] = q] /\ q.stage # "paid"
            BY <5>1
          <5> HIDE DEF q
          <5>3. QED
            BY <1>1, <5>2, NewRequest
        <4>6. CASE ReadTransactions(r)
          <5> DEFINE q == [stage |-> "read", amount |-> req[r].amount,
                           owed |-> req[r].owed,
                           snap |-> [Books EXCEPT !.now = req[r].now]]
          <5>1. req' = [req EXCEPT ![r] = q] /\ q.stage # "paid"
            BY <4>6 DEF ReadTransactions
          <5> HIDE DEF q
          <5>2. QED
            BY <1>1, <5>1, NewRequest
        <4>7. QED
          BY <2>4, <4>1, <4>2, <4>3, <4>4, <4>5, <4>6
      <3>3. QED
        BY <1>1, <3>1, <3>2, OthersKept
    <2>5. QED
      BY <1>4, <2>1, <2>2, <2>3, <2>4 DEF CreateTransaction, UpdateAccount,
         GetFinancialPayables, PayCreditCardDebt
  <1>5. QED
    BY <1>2, <1>3, <1>4 DEF Next

LEMMA DebtInLedger ==
    ASSUME CardInv, Sound
    PROVE  /\ SumTo(Outstanding(Books), Months) \in Nat
           /\ SumTo(Outstanding(Books), Months) <= ledger["card"]
  <1>1. TypeInv /\ SoundBooks /\ BookTypes /\ AccountTypes
    BY TypeInvParts DEF CardInv
  <1>2. SnapOK(Books) /\ Payable(Books)
    BY <1>1, BooksPayable
  <1>3. /\ SumTo(Outstanding(Books), Months) \in Nat
        /\ SumTo(Outstanding(Books), Months)
             = SumTo(Billed(Books), Months) - PaidSum(Allocations(Books))
    BY <1>2, OutstandingIs
  <1>4. PaidSum(Allocations(Books)) = Spent(Books) /\ Spent(Books) \in Int
    BY <1>2, AllocationsSpend, SpentType
  <1>5. SumTo(Billed(Books), Months) <= SumTo(charged, Months)
    <2>1. \A c \in Cycles : /\ charged[c] \in Int /\ charged[c] \in Nat
                            /\ Billed(Books)[c] = IF c <= closed
                                                    THEN charged[c] ELSE 0
      BY <1>1 DEF Billed, Books, BookTypes
    <2>2. \A c \in 1..Months : /\ Billed(Books)[c] \in Int
                               /\ charged[c] \in Int
                               /\ Billed(Books)[c] <= charged[c]
      BY <2>1 DEF Cycles
    <2>3. QED
      BY <2>2, SumLeq, MonthsAssumption
  <1>6. /\ SumTo(charged, Months) \in Nat
        /\ SumTo(Billed(Books), Months) \in Nat
        /\ ledger["card"] \in Int
    BY <1>1, <1>2, BilledType, CyclesSum, MonthsAssumption
    DEF BookTypes, AccountTypes, Accounts
  <1>7. SumTo(charged, Months) - Spent(Books) <= ledger["card"]
    BY <1>1 DEF SoundBooks
  <1>8. QED
    BY <1>3, <1>4, <1>5, <1>6, <1>7

LEMMA RowPaid ==
    ASSUME NEW amount \in Nat, NEW more \in Nat,
           NEW row \in [live : BOOLEAN, amount : Nat, paid : Nat],
           row.amount = amount
    PROVE  [row EXCEPT !.live = TRUE, !.paid = more]
             = [live |-> TRUE, amount |-> amount, paid |-> more]
  <1> DEFINE new == [row EXCEPT !.live = TRUE, !.paid = more]
  <1>1. new \in [live : BOOLEAN, amount : Nat, paid : Nat]
    OBVIOUS
  <1>2. new.live = TRUE /\ new.amount = amount /\ new.paid = more
    OBVIOUS
  <1> HIDE DEF new
  <1>3. new = [live |-> TRUE, amount |-> amount, paid |-> more]
    BY <1>1, <1>2
  <1>4. QED
    BY <1>3 DEF new

LEMMA ProjectionIs ==
    ASSUME NEW s, NEW c \in Cycles, Billed(s)[c] # 0
    PROVE  Projection(s)[c] = [live |-> TRUE, amount |-> Billed(s)[c],
                               paid |-> Paid(Allocations(s), c)]
  BY DEF Projection

LEMMA SameSettled ==
    ASSUME Settled, UNCHANGED <<closed, charged, payments, bill, alloc>>
    PROVE  Settled'
  <1>1. Books' = Books
    BY DEF Books
  <1>2. QED
    BY <1>1 DEF Settled

LEMMA ReconcileSettles ==
    ASSUME TypeInv, NEW r \in Requests, Reconcile(r), ~stale'
    PROVE  Settled'
  <1> DEFINE s == req[r].snap
  <1>1. BookTypes /\ StatementTypes /\ Held(req[r])
    BY TypeInvParts DEF RequestTypes
  <1>2. /\ req[r].stage = "read" /\ WriteStatements(s) /\ s = Books
        /\ UNCHANGED <<closed, charged, payments>>
    BY DEF Reconcile
  <1>3. Snapshot(s)
    BY <1>1, <1>2 DEF Held
  <1>4. Books' = s
    BY <1>2 DEF Books
  <1> HIDE DEF s
  <1>5. /\ alloc' = Allocations(s)
        /\ \A c \in Cycles : IF Billed(s)[c] = 0 THEN ~bill'[c].live
                             ELSE bill'[c] = Projection(s)[c]
    <2>1. alloc' = Allocations(s)
      BY <1>1, <1>2, <1>3, Written
    <2>2. ASSUME NEW c \in Cycles, Billed(s)[c] = 0 PROVE ~bill'[c].live
      BY <1>1, <1>2, <1>3, <2>2, Written
    <2>3. ASSUME NEW c \in Cycles, Billed(s)[c] # 0
          PROVE  bill'[c] = Projection(s)[c]
      <3> DEFINE row == [live |-> TRUE, amount |-> Billed(s)[c],
                         paid |-> Paid(Allocations(s), c)]
      <3>1. bill'[c] = row
        BY <1>1, <1>2, <1>3, <2>3, Written
      <3>2. Projection(s)[c] = row
        BY <2>3, ProjectionIs
      <3> HIDE DEF row
      <3>3. QED
        BY <3>1, <3>2
    <2>4. QED
      BY <2>1, <2>2, <2>3
  <1>6. QED
    BY <1>4, <1>5 DEF Settled

LEMMA SameSequence ==
    ASSUME NEW T, NEW p \in Seq(T), NEW q \in Seq(T), Len(p) = Len(q),
           \A i \in 1..Len(p) : p[i] = q[i]
    PROVE  p = q
  OBVIOUS

(* A payment that is accepted has seen all the others.                     *)
LEMMA PaymentSawAll ==
    ASSUME CardInv, Settled, NEW r \in Requests, ApplyPayment(r), ~Outdated(r),
           ~stale', ~deleted'
    PROVE  req[r].snap = Books
  <1> DEFINE q == req[r]
             s == q.snap
             n == q.amount
             out == Outstanding(s)
  <1>1. /\ TypeInv /\ BookTypes /\ StatementTypes
        /\ SnapOK(Books) /\ Books \in Snapshots
        /\ Len(payments) \in Nat
    BY TypeInvParts, BookNumbers DEF CardInv
  <1>2. /\ q.stage = "paid" /\ Sound
    BY DEF ApplyPayment, Transfer, Accounts, historyVars, Sound
  <1>3. SoundBooks /\ FollowsFrom(s)
    BY <1>2 DEF CardInv, SoundBooks
  <1>4. /\ Snapshot(s) /\ SnapOK(s) /\ n \in Nat /\ n > 0
        /\ n <= SumTo(out, Months)
        /\ \A c \in Cycles :
             PartOf(q)[c] > 0 => bill[c].paid = Paid(Allocations(s), c)
    BY <1>1, Entering
  <1>5. s.now = closed /\ s.charged = charged
    BY <1>2 DEF Outdated
  <1>6. /\ Books.now = closed /\ Books.charged = charged
        /\ Books.payments = payments
    BY DEF Books
  <1>7. /\ Len(s.payments) \in Nat /\ Len(s.payments) <= Len(payments)
        /\ \A i \in 1..Len(s.payments) : payments[i] = s.payments[i]
    BY <1>1, <1>3, <1>4, SnapshotOK, PaymentsType DEF FollowsFrom
  <1>8. ~(Len(s.payments) < Len(payments))
    <2> SUFFICES ASSUME Len(s.payments) < Len(payments) PROVE FALSE
      OBVIOUS
    <2>1. Payable(Books)
      BY <1>1, <1>3, BooksPayable
    <2>2. \A i \in 1..Len(payments) : payments[i].amount > 0
      BY <1>3 DEF SoundBooks
    <2> DEFINE t == Books
    <2>3. /\ t.now = s.now /\ t.charged = s.charged
          /\ Len(s.payments) < Len(t.payments)
          /\ \A i \in 1..Len(s.payments) : t.payments[i] = s.payments[i]
          /\ \A i \in 1..Len(t.payments) : t.payments[i].amount > 0
          /\ SnapOK(t) /\ Payable(t)
      BY <1>1, <1>5, <1>6, <1>7, <2>1, <2>2
    <2>4. SnapOK(s) /\ n \in Nat /\ n > 0 /\ n <= SumTo(Outstanding(s), Months)
      BY <1>4
    <2> HIDE DEF t, s, n
    <2>5. PICK c \in Cycles :
            /\ Applied(n, Outstanding(s))[c] > 0
            /\ Paid(Allocations(t), c) # Paid(Allocations(s), c)
      BY <2>3, <2>4, OthersShow
    <2>6. Billed(s)[c] > 0
      <3>1. /\ out[c] = Billed(s)[c] - Paid(Allocations(s), c)
            /\ Paid(Allocations(s), c) \in Nat /\ Billed(s)[c] \in Nat
            /\ Applied(n, out)[c] <= out[c] /\ Applied(n, out)[c] \in Nat
        BY <2>4, OutstandingIs, AllocationsGreedy, AppliedInOrder
      <3>2. Applied(n, out)[c] > 0
        BY <2>5
      <3> HIDE DEF out
      <3>3. QED
        BY <3>1, <3>2
    <2>7. Billed(t) = Billed(s)
      BY <2>3, SameDue
    <2>8. bill[c] = Projection(t)[c] /\ Billed(t)[c] # 0
      BY <2>6, <2>7 DEF Settled, t
    <2>9. bill[c].paid = Paid(Allocations(t), c)
      <3> DEFINE paid == Paid(Allocations(t), c)
                 billed == Billed(t)[c]
      <3>1. bill[c] = [live |-> TRUE, amount |-> billed, paid |-> paid]
        BY <2>8, ProjectionIs
      <3> HIDE DEF paid, billed
      <3>2. bill[c].paid = paid
        BY <3>1
      <3>3. QED
        BY <3>2 DEF paid
    <2>10. bill[c].paid = Paid(Allocations(s), c)
      BY <1>4, <2>5 DEF PartOf, s, n
    <2>11. QED
      BY <2>5, <2>9, <2>10
  <1>9. s.payments = payments
    <2>1. Len(s.payments) = Len(payments)
      BY <1>1, <1>7, <1>8
    <2>2. /\ s.payments \in Seq([amount : Nat, at : 0..Months])
          /\ payments \in Seq([amount : Nat, at : 0..Months])
      BY <1>1, <1>4 DEF Snapshot, Snapshots, BookTypes
    <2>3. QED
      BY <1>7, <2>1, <2>2, SameSequence
  <1>10. s \in Snapshots
    BY <1>4 DEF Snapshot
  <1> HIDE DEF s
  <1>11. s = Books
    BY <1>5, <1>9, <1>10 DEF Snapshots, Books
  <1>12. QED
    BY <1>11 DEF s

LEMMA PaymentSettles ==
    ASSUME CardInv, CardInv', Settled, NEW r \in Requests, ApplyPayment(r),
           ~Outdated(r), ~stale', ~deleted'
    PROVE  Settled'
  <1> DEFINE q == req[r]
             s == q.snap
             n == q.amount
             l == Len(payments)
             part == PartOf(q)
             out == Outstanding(s)
  <1>1. /\ TypeInv /\ BookTypes /\ StatementTypes
        /\ SnapOK(Books)
    BY TypeInvParts, BookNumbers DEF CardInv
  <1>2. SnapOK(Books)'
    <2>1. BookTypes'
      BY TypeInvParts, PTL DEF CardInv
    <2>2. BookTypes' => SnapOK(Books)'
      BY BookNumbers, PTL
    <2>3. QED
      BY <2>1, <2>2
  <1>3. s = Books
    BY PaymentSawAll
  <1>4. UNCHANGED <<closed, charged>>
    BY DEF ApplyPayment
  <1>5. /\ n \in Nat /\ n > 0 /\ n <= SumTo(out, Months)
        /\ part \in [Cycles -> Nat] /\ l \in Nat
        /\ Len(payments') = l + 1
        /\ \A i \in 1..l : payments'[i] = payments[i]
        /\ payments'[l + 1] = [amount |-> n, at |-> s.now]
    BY <1>1, Entering
  <1>6. /\ alloc' = [alloc EXCEPT ![l + 1] = part]
        /\ \A c \in Cycles :
             /\ Paid(alloc', c) = Paid(alloc, c) + part[c]
             /\ bill'[c] = IF part[c] > 0
                             THEN [bill[c] EXCEPT !.live = TRUE,
                                     !.paid = Paid(Allocations(s), c) + part[c]]
                             ELSE bill[c]
    BY <1>1, Entering
  <1>7. \A c \in Cycles : /\ part[c] <= out[c] /\ out[c] \in Nat
                          /\ out[c] = Billed(s)[c] - Paid(Allocations(s), c)
                          /\ Paid(Allocations(s), c) \in Nat
                          /\ Billed(s)[c] \in Nat /\ part[c] \in Nat
    BY <1>1, <1>3, <1>5, OutstandingIs, AllocationsGreedy, AppliedInOrder
    DEF PartOf
  <1>8. s.now >= 1
    <2> SUFFICES ASSUME ~(s.now >= 1) PROVE FALSE
      OBVIOUS
    <2>1. s.now = 0
      <3>1. s.now \in 0..Months
        BY <1>1, <1>3 DEF SnapOK
      <3>2. QED
        BY <3>1, MonthsAssumption
    <2>2. \A c \in 1..Months : out[c] = 0
      <3>1. ASSUME NEW c \in Cycles PROVE out[c] = 0
        <4>1. Billed(s)[c] = 0
          BY <2>1, MonthsAssumption DEF Billed, Cycles
        <4>2. QED
          BY <1>7, <4>1
      <3>2. QED
        BY <3>1 DEF Cycles
    <2> HIDE DEF out
    <2>3. SumTo(out, Months) = 0
      BY <2>2, SumZero, MonthsAssumption
    <2>4. QED
      BY <1>5, <2>3
  <1>9. Allocations(Books') = alloc'
    <2> DEFINE t == Books'
    <2>1. OneMore(s, t, n, s.now)
      BY <1>3, <1>4, <1>5 DEF OneMore, Books
    <2>2. \A i \in 1..Len(s.payments) : s.payments[i].at <= s.now
      BY <1>1, <1>3 DEF BookTypes, Books
    <2>3. SnapOK(s) /\ SnapOK(t)
      BY <1>1, <1>2, <1>3
    <2>4. Len(s.payments) = l
      BY <1>3 DEF Books
    <2>5. alloc = Allocations(s)
      BY <1>3 DEF Settled
    <2>6. part = Applied(n, Outstanding(s))
      BY DEF PartOf
    <2> HIDE DEF t, s, n, part, l
    <2>7. Allocations(t) = [Allocations(s) EXCEPT ![Len(s.payments) + 1] =
                              Applied(n, Outstanding(s))]
      BY <1>8, <2>1, <2>2, <2>3, LastPayment
    <2>8. Allocations(t) = alloc'
      BY <1>6, <2>4, <2>5, <2>6, <2>7
    <2>9. QED
      BY <2>8 DEF t
  <1>10. Billed(Books') = Billed(s)
    BY <1>3, <1>4 DEF Billed, Books
  <1>11. ASSUME NEW c \in Cycles
         PROVE  IF Billed(s)[c] = 0 THEN ~bill'[c].live
                ELSE bill'[c] = [live |-> TRUE, amount |-> Billed(s)[c],
                                 paid |-> Paid(alloc', c)]
    <2> DEFINE paid == Paid(Allocations(s), c)
               billed == Billed(s)[c]
               now == Paid(alloc', c)
               p == part[c]
    <2>1. /\ now = paid + p /\ p \in Nat /\ paid \in Nat /\ billed \in Nat
          /\ p <= billed - paid
      <3>1. Paid(alloc', c) = Paid(alloc, c) + part[c] /\ part[c] <= out[c]
        BY <1>6, <1>7
      <3>2. alloc = Allocations(s)
        BY <1>3 DEF Settled
      <3>3. /\ out[c] = Billed(s)[c] - Paid(Allocations(s), c)
            /\ Paid(Allocations(s), c) \in Nat /\ Billed(s)[c] \in Nat
            /\ part[c] \in Nat
        BY <1>7
      <3>4. QED
        BY <3>1, <3>2, <3>3
    <2>2. bill'[c] = IF p > 0 THEN [bill[c] EXCEPT !.live = TRUE,
                                      !.paid = paid + p]
                              ELSE bill[c]
      BY <1>6
    <2>3. IF billed = 0 THEN ~bill[c].live
          ELSE bill[c] = [live |-> TRUE, amount |-> billed, paid |-> paid]
      <3>1. CASE Billed(Books)[c] = 0
        BY <1>3, <3>1 DEF Settled
      <3>2. CASE Billed(Books)[c] # 0
        <4>1. bill[c] = Projection(Books)[c]
          BY <3>2 DEF Settled
        <4>2. QED
          BY <1>3, <3>2, <4>1, ProjectionIs
      <3>3. QED
        BY <3>1, <3>2
    <2> HIDE DEF paid, billed, now, p
    <2>4. IF billed = 0 THEN ~bill'[c].live
          ELSE bill'[c] = [live |-> TRUE, amount |-> billed, paid |-> now]
      <3>1. CASE billed = 0
        <4>1. p = 0
          BY <2>1, <3>1
        <4>2. QED
          BY <2>2, <2>3, <3>1, <4>1
      <3>2. CASE billed # 0
        <4>1. bill[c] = [live |-> TRUE, amount |-> billed, paid |-> paid]
          BY <2>3, <3>2
        <4>2. CASE p > 0
          <5>1. bill'[c] = [bill[c] EXCEPT !.live = TRUE, !.paid = paid + p]
            BY <2>2, <4>2
          <5>2. bill'[c] = [live |-> TRUE, amount |-> billed,
                            paid |-> paid + p]
            <6>1. /\ bill[c] \in [live : BOOLEAN, amount : Nat, paid : Nat]
                  /\ bill[c].amount = billed /\ billed \in Nat
                  /\ paid + p \in Nat
              BY <1>1, <2>1, <4>1 DEF StatementTypes
            <6>2. QED
              BY <5>1, <6>1, RowPaid
          <5>3. QED
            BY <2>1, <3>2, <5>2
        <4>3. CASE ~(p > 0)
          <5>1. bill'[c] = bill[c] /\ now = paid
            BY <2>1, <2>2, <4>3
          <5>2. QED
            BY <3>2, <4>1, <5>1
        <4>4. QED
          BY <4>2, <4>3
      <3>3. QED
        BY <3>1, <3>2
    <2>5. QED
      BY <2>4 DEF billed, now
  <1>12. ASSUME NEW c \in Cycles
         PROVE  IF Billed(Books')[c] = 0 THEN ~bill'[c].live
                ELSE bill'[c] = Projection(Books')[c]
    <2> DEFINE t == Books'
    <2>1. Billed(t) = Billed(s) /\ Allocations(t) = alloc'
      BY <1>9, <1>10
    <2> HIDE DEF t, s
    <2>2. CASE Billed(t)[c] = 0
      BY <1>11, <2>1, <2>2 DEF t
    <2>3. CASE Billed(t)[c] # 0
      <3> DEFINE row == [live |-> TRUE, amount |-> Billed(t)[c],
                         paid |-> Paid(Allocations(t), c)]
      <3>1. bill'[c] = row
        BY <1>11, <2>1, <2>3
      <3>2. Projection(t)[c] = row
        BY <2>3, ProjectionIs
      <3> HIDE DEF row
      <3>3. QED
        BY <2>3, <3>1, <3>2 DEF t
    <2>4. QED
      BY <2>2, <2>3
  <1>13. QED
    BY <1>9, <1>12 DEF Settled

-----------------------------------------------------------------------------
(* The calendar                                                            *)

LEMMA MinOfTwo ==
    ASSUME NEW a \in Int, NEW b \in Int
    PROVE  Min({a, b}) = IF a <= b THEN a ELSE b
  BY DEF Min

LEMMA DaysInType ==
    ASSUME NEW month \in Int
    PROVE  DaysIn(month) \in 28..31
  BY DEF DaysIn

(* A day of the calendar, a day of a card.                                 *)
IsDate(date) ==
    /\ date = <<date[1], date[2]>>
    /\ date[1] \in Int /\ date[2] \in 1..DaysIn(date[1])

LEMMA CycleDate ==
    ASSUME NEW month \in Int, NEW d \in 1..31
    PROVE  /\ BillingCycleDate(month, d)
                = <<month, IF d <= DaysIn(month) THEN d ELSE DaysIn(month)>>
           /\ IsDate(BillingCycleDate(month, d))
  <1>1. DaysIn(month) \in 28..31
    BY DaysInType
  <1>2. Min({d, DaysIn(month)}) =
          IF d <= DaysIn(month) THEN d ELSE DaysIn(month)
    BY <1>1, MinOfTwo
  <1>3. QED
    BY <1>1, <1>2 DEF BillingCycleDate, IsDate

LEMMA NormalIs ==
    ASSUME NEW month \in Int, NEW d \in 1..32
    PROVE  /\ IsDate(Normal(month, d))
           /\ Normal(month, d) = IF d <= DaysIn(month) THEN <<month, d>>
                                 ELSE <<month + 1, d - DaysIn(month)>>
  <1>1. DaysIn(month) \in 28..31 /\ DaysIn(month + 1) \in 28..31
    BY DaysInType
  <1>2. QED
    BY <1>1 DEF Normal, IsDate

LEMMA DateType ==
    ASSUME NEW date, IsDate(date)
    PROVE  /\ date[1] \in Int /\ date[2] \in 1..31
           /\ date[2] <= DaysIn(date[1]) /\ DaysIn(date[1]) \in 28..31
  BY DaysInType DEF IsDate

(* The end of a cycle: the day of the month, if it is not past.            *)
LEMMA CycleEnds ==
    ASSUME NEW date, IsDate(date), NEW d \in 1..31
    PROVE  LET m == date[1]
               cut == IF d <= DaysIn(m) THEN d ELSE DaysIn(m)
               k == IF cut < date[2] THEN m + 1 ELSE m
           IN  /\ k \in Int
               /\ StatementCycle(date, d)
                    = <<BillingCycleDate(k - 1, d), BillingCycleDate(k, d)>>
               /\ CurrentBillingCycle(d, date) = StatementCycle(date, d)
  <1> DEFINE m == date[1]
             cut == IF d <= DaysIn(m) THEN d ELSE DaysIn(m)
             k == IF cut < date[2] THEN m + 1 ELSE m
  <1>1. /\ m \in Int /\ date[2] \in 1..31 /\ DaysIn(m) \in 28..31
    BY DateType
  <1>2. BillingCycleDate(m, d) = <<m, cut>>
    BY <1>1, CycleDate
  <1>3. Before(BillingCycleDate(m, d), date) <=> cut < date[2]
    BY <1>1, <1>2 DEF Before
  <1>4. \A x \in Int : BillingCycleDate(x, d)[1] = x
    BY DEF BillingCycleDate
  <1>5. m + 1 - 1 = m
    BY <1>1
  <1>6. QED
    BY <1>1, <1>3, <1>4, <1>5 DEF StatementCycle, CurrentBillingCycle

CalendarTyped ==
    /\ card \in [cutoff : 1..31, payment : 1..31]
    /\ IsDate(today)

LEMMA CycleOfTomorrow ==
    ASSUME NEW date, IsDate(date), NEW d \in 1..31
    PROVE  LET cycle == StatementCycle(date, d)
               next  == StatementCycle(NextDate(date), d)
           IN  /\ IsDate(NextDate(date))
               /\ Before(cycle[1], date) /\ ~Before(cycle[2], date)
               /\ next = cycle \/ (date = cycle[2] /\ next[1] = cycle[2])
  <1> DEFINE m == date[1]
             x == date[2]
             cut(i) == IF d <= DaysIn(i) THEN d ELSE DaysIn(i)
             k == IF cut(m) < x THEN m + 1 ELSE m
             tomorrow == NextDate(date)
             m1 == tomorrow[1]
             k1 == IF cut(m1) < tomorrow[2] THEN m1 + 1 ELSE m1
  <1>1. /\ m \in Int /\ x \in 1..31 /\ x <= DaysIn(m) /\ date = <<m, x>>
        /\ \A i \in Int : DaysIn(i) \in 28..31
    BY DateType, DaysInType DEF IsDate
  <1>2. \A i \in Int : BillingCycleDate(i, d) = <<i, cut(i)>>
    BY CycleDate
  <1>3. /\ IsDate(tomorrow)
        /\ tomorrow = IF x + 1 <= DaysIn(m) THEN <<m, x + 1>> ELSE <<m + 1, 1>>
    <2>1. x + 1 \in 1..32
      BY <1>1
    <2>2. /\ IsDate(tomorrow)
          /\ tomorrow = IF x + 1 <= DaysIn(m) THEN <<m, x + 1>>
                        ELSE <<m + 1, (x + 1) - DaysIn(m)>>
      BY <1>1, <2>1, NormalIs DEF NextDate
    <2>3. ~(x + 1 <= DaysIn(m)) => (x + 1) - DaysIn(m) = 1
      BY <1>1
    <2>4. QED
      BY <2>2, <2>3
  <1>4. /\ k \in Int
        /\ StatementCycle(date, d) = <<<<k - 1, cut(k - 1)>>, <<k, cut(k)>>>>
    BY <1>1, <1>2, CycleEnds
  <1>5. /\ k1 \in Int
        /\ StatementCycle(tomorrow, d)
             = <<<<k1 - 1, cut(k1 - 1)>>, <<k1, cut(k1)>>>>
    <2>1. IsDate(tomorrow)
      BY <1>3
    <2> HIDE DEF tomorrow
    <2>2. /\ k1 \in Int
          /\ StatementCycle(tomorrow, d)
               = <<BillingCycleDate(k1 - 1, d), BillingCycleDate(k1, d)>>
      BY <2>1, CycleEnds
    <2> HIDE DEF k1, cut
    <2>3. QED
      BY <1>2, <2>2
  <1>6. /\ cut(m) \in 1..31 /\ cut(m) <= DaysIn(m)
        /\ cut(m + 1) \in 1..31 /\ cut(m - 1) \in 1..31
        /\ cut(m - 1) \in Int
    BY <1>1
  <1>7. Before(<<k - 1, cut(k - 1)>>, date)
    BY <1>1, <1>6 DEF Before
  <1>8. ~Before(<<k, cut(k)>>, date)
    BY <1>1, <1>6 DEF Before
  <1>9. \/ k1 = k
        \/ date = <<k, cut(k)>> /\ k1 - 1 = k
    <2>1. CASE x + 1 <= DaysIn(m)
      <3>1. m1 = m /\ tomorrow[2] = x + 1
        BY <1>3, <2>1
      <3>2. k1 = IF cut(m) < x + 1 THEN m + 1 ELSE m
        BY <3>1
      <3> HIDE DEF cut, k1, tomorrow, m1
      <3>3. QED
        BY <1>1, <1>6, <3>2
    <2>2. CASE ~(x + 1 <= DaysIn(m))
      <3>1. m1 = m + 1 /\ tomorrow[2] = 1 /\ x = DaysIn(m)
        BY <1>1, <1>3, <2>2
      <3>2. k1 = m + 1
        BY <1>6, <3>1
      <3> HIDE DEF cut, k1, tomorrow, m1
      <3>3. QED
        BY <1>1, <1>6, <3>1, <3>2
    <2>3. QED
      BY <2>1, <2>2
  <1> HIDE DEF k, k1, cut, tomorrow
  <1>10. QED
    BY <1>3, <1>4, <1>5, <1>7, <1>8, <1>9 DEF tomorrow

LEMMA DueDates ==
    ASSUME NEW k \in Int, NEW d \in 1..31, NEW p \in 1..31
    PROVE  LET end      == BillingCycleDate(k, d)
               due      == PaymentDueDate(end, p)
               previous == PaymentDueDate(BillingCycleDate(k - 1, d), p)
           IN  /\ Before(end, due) /\ due[1] <= end[1] + 1
               /\ ~Before(due, previous)
               /\ due = previous => 28 <= d /\ d < p
  <1> DEFINE cut(i) == IF d <= DaysIn(i) THEN d ELSE DaysIn(i)
             pay(i) == IF p <= DaysIn(i) THEN p ELSE DaysIn(i)
             due(i) == IF cut(i) < pay(i) THEN <<i, pay(i)>>
                       ELSE <<i + 1, pay(i + 1)>>
  <1>1. \A i \in Int : /\ BillingCycleDate(i, d) = <<i, cut(i)>>
                       /\ BillingCycleDate(i, p) = <<i, pay(i)>>
    BY CycleDate
  <1>2. \A i \in Int : DaysIn(i) \in 28..31
    BY DaysInType
  <1>3. \A i \in Int : PaymentDueDate(BillingCycleDate(i, d), p) = due(i)
    <2>1. ASSUME NEW i \in Int
          PROVE  PaymentDueDate(BillingCycleDate(i, d), p) = due(i)
      <3>1. i + 1 \in Int
        OBVIOUS
      <3>2. Before(<<i, cut(i)>>, <<i, pay(i)>>) <=> cut(i) < pay(i)
        BY DEF Before
      <3>3. QED
        BY <1>1, <3>1, <3>2 DEF PaymentDueDate
    <2>2. QED
      BY <2>1
  <1>4. k - 1 \in Int /\ k + 1 \in Int /\ k - 1 + 1 = k
    OBVIOUS
  <1>5. /\ cut(k) \in 1..31 /\ cut(k - 1) \in 1..31
        /\ pay(k) \in 1..31 /\ pay(k - 1) \in 1..31 /\ pay(k + 1) \in 1..31
    BY <1>2, <1>4
  <1>6. Before(<<k, cut(k)>>, due(k)) /\ due(k)[1] <= k + 1
    BY <1>5 DEF Before
  <1>7. ~Before(due(k), due(k - 1))
    BY <1>2, <1>4, <1>5 DEF Before
  <1>8. due(k) = due(k - 1) => 28 <= d /\ d < p
    <2>1. ASSUME due(k) = due(k - 1) PROVE 28 <= d /\ d < p
      <3>1. due(k)[1] = due(k - 1)[1]
        BY <2>1
      <3>2. cut(k) < pay(k) /\ ~(cut(k - 1) < pay(k - 1))
        BY <1>4, <3>1
      <3>3. DaysIn(k) \in 28..31 /\ DaysIn(k - 1) \in 28..31
        BY <1>2, <1>4
      <3>4. QED
        BY <3>2, <3>3
    <2>2. QED
      BY <2>1
  <1>9. BillingCycleDate(k, d)[1] = k
    BY DEF BillingCycleDate
  <1> HIDE DEF cut, pay, due
  <1>10. QED
    BY <1>1, <1>3, <1>4, <1>6, <1>7, <1>8, <1>9

LEMMA CyclesMeetThen ==
    ASSUME CalendarTyped
    PROVE  CyclesMeet
  <1> DEFINE d == card.cutoff
             p == card.payment
             cycle == StatementCycle(today, d)
             due == PaymentDueDate(cycle[2], p)
             previous == PaymentDueDate(cycle[1], p)
  <1>1. IsDate(today) /\ d \in 1..31 /\ p \in 1..31
    BY DEF CalendarTyped
  <1>2. /\ Before(cycle[1], today) /\ ~Before(cycle[2], today)
        /\ \/ StatementCycle(NextDate(today), d) = cycle
           \/ /\ today = cycle[2]
              /\ StatementCycle(NextDate(today), d)[1] = cycle[2]
    BY <1>1, CycleOfTomorrow
  <1>3. PICK k \in Int :
          cycle = <<BillingCycleDate(k - 1, d), BillingCycleDate(k, d)>>
    BY <1>1, CycleEnds
  <1>4. CurrentBillingCycle(d, today) = cycle
    BY <1>1, CycleEnds
  <1>5. /\ cycle[2] = BillingCycleDate(k, d)
        /\ cycle[1] = BillingCycleDate(k - 1, d)
    BY <1>3
  <1>6. /\ Before(cycle[2], due) /\ due[1] <= cycle[2][1] + 1
        /\ ~Before(due, previous)
        /\ due = previous => 28 <= d /\ d < p
    <2> HIDE DEF d, p, cycle
    <2>1. QED
      BY <1>1, <1>5, DueDates
  <1>7. QED
    BY <1>2, <1>4, <1>6 DEF CyclesMeet

LEMMA Divided ==
    ASSUME NEW a \in Nat, NEW n \in Nat, n > 0
    PROVE  /\ a \div n \in Nat /\ a % n \in Nat
           /\ n * (a \div n) + (a % n) = a
  OBVIOUS

LEMMA SumOfEquals ==
    ASSUME NEW q \in Nat, NEW f, NEW n \in Nat, \A i \in 1..n : f[i] = q
    PROVE  SumTo(f, n) = n * q
  <1> DEFINE all == [i \in Nat |-> q]
             S == {m \in Nat : SumTo(all, m) = m * q}
  <1>1. 0 \in S
    BY SumSteps
  <1>2. ASSUME NEW m \in Nat, m \in S PROVE m + 1 \in S
    <2>1. SumTo(all, m) = m * q
      BY <1>2
    <2>2. SumTo(all, m + 1) = SumTo(all, m) + all[m + 1]
      BY SumSteps
    <2>3. all[m + 1] = q
      OBVIOUS
    <2>4. (m + 1) * q = m * q + q
      OBVIOUS
    <2>5. QED
      BY <2>1, <2>2, <2>3, <2>4
  <1> HIDE DEF S
  <1>3. n \in S
    BY <1>1, <1>2, Inductive
  <1>4. \A i \in 1..n : f[i] = all[i]
    OBVIOUS
  <1> HIDE DEF all
  <1>5. SumTo(f, n) = SumTo(all, n)
    BY <1>4, SumSame
  <1>6. QED
    BY <1>3, <1>5 DEF S

LEMMA EndsInOrder ==
    ASSUME NEW a, IsDate(a), NEW b, IsDate(b), ~Before(b, a), NEW d \in 1..31
    PROVE  ~Before(StatementCycle(b, d)[2], StatementCycle(a, d)[2])
  <1> DEFINE cut(i) == IF d <= DaysIn(i) THEN d ELSE DaysIn(i)
             j == IF cut(a[1]) < a[2] THEN a[1] + 1 ELSE a[1]
             k == IF cut(b[1]) < b[2] THEN b[1] + 1 ELSE b[1]
  <1>1. /\ a[1] \in Int /\ a[2] \in 1..31 /\ b[1] \in Int /\ b[2] \in 1..31
        /\ DaysIn(a[1]) \in 28..31 /\ DaysIn(b[1]) \in 28..31
    BY DateType
  <1>2. j \in Int /\ k \in Int /\ j <= k
    <2>1. a[1] < b[1] \/ (a[1] = b[1] /\ a[2] <= b[2])
      BY <1>1 DEF Before
    <2>2. CASE a[1] < b[1]
      BY <1>1, <2>2
    <2>3. CASE a[1] = b[1] /\ a[2] <= b[2]
      BY <1>1, <2>3
    <2>4. QED
      BY <2>1, <2>2, <2>3
  <1>3. /\ StatementCycle(a, d)[2] = BillingCycleDate(j, d)
        /\ StatementCycle(b, d)[2] = BillingCycleDate(k, d)
    BY CycleEnds
  <1> HIDE DEF j, k
  <1>4. /\ IsDate(BillingCycleDate(j, d)) /\ BillingCycleDate(j, d)[1] = j
        /\ IsDate(BillingCycleDate(k, d)) /\ BillingCycleDate(k, d)[1] = k
    BY <1>2, CycleDate DEF BillingCycleDate
  <1>5. CASE j = k
    BY <1>3, <1>4, <1>5, DateType DEF Before
  <1>6. CASE j # k
    BY <1>2, <1>3, <1>4, <1>6 DEF Before
  <1>7. QED
    BY <1>5, <1>6

LEMMA MonthLater ==
    ASSUME NEW m \in Int, NEW x \in 1..31, NEW d \in 1..31
    PROVE  LET this == StatementCycle(Normal(m, x), d)
               next == StatementCycle(Normal(m + 1, x), d)
           IN  /\ ~Before(next[2], this[2])
               /\ x <= 28 => next[1] = this[2]
  <1> DEFINE a == Normal(m, x)
             b == Normal(m + 1, x)
             cut(i) == IF d <= DaysIn(i) THEN d ELSE DaysIn(i)
  <1>1. /\ m + 1 \in Int /\ m + 2 \in Int /\ x \in 1..32 /\ m + 1 + 1 = m + 2
        /\ DaysIn(m) \in 28..31 /\ DaysIn(m + 1) \in 28..31
    BY DaysInType
  <1>2. /\ IsDate(a) /\ IsDate(b)
        /\ a = IF x <= DaysIn(m) THEN <<m, x>>
               ELSE <<m + 1, x - DaysIn(m)>>
        /\ b = IF x <= DaysIn(m + 1) THEN <<m + 1, x>>
               ELSE <<m + 2, x - DaysIn(m + 1)>>
    <2>1. /\ IsDate(Normal(m, x))
          /\ Normal(m, x) = IF x <= DaysIn(m) THEN <<m, x>>
                            ELSE <<m + 1, x - DaysIn(m)>>
      BY <1>1, NormalIs
    <2>2. /\ IsDate(Normal(m + 1, x))
          /\ Normal(m + 1, x) = IF x <= DaysIn(m + 1) THEN <<m + 1, x>>
                                ELSE <<m + 1 + 1, x - DaysIn(m + 1)>>
      BY <1>1, NormalIs
    <2>3. QED
      BY <1>1, <2>1, <2>2
  <1>3. ~Before(b, a)
    BY <1>1, <1>2 DEF Before
  <1>4. ASSUME x <= 28
        PROVE  StatementCycle(b, d)[1] = StatementCycle(a, d)[2]
    <2>1. a = <<m, x>> /\ b = <<m + 1, x>>
      BY <1>1, <1>2, <1>4
    <2> DEFINE j == IF cut(m) < x THEN m + 1 ELSE m
               k == IF cut(m + 1) < x THEN m + 1 + 1 ELSE m + 1
    <2>2. j \in Int /\ k \in Int /\ k - 1 = j
      BY <1>1, <1>4
    <2>3. a[1] = m /\ a[2] = x /\ b[1] = m + 1 /\ b[2] = x
      BY <2>1
    <2> HIDE DEF a, b
    <2>4. StatementCycle(a, d)[2] = BillingCycleDate(j, d)
      BY <1>2, <2>3, CycleEnds
    <2>5. StatementCycle(b, d)[1] = BillingCycleDate(k - 1, d)
      BY <1>2, <2>3, CycleEnds
    <2> HIDE DEF j, k
    <2>6. QED
      BY <2>2, <2>4, <2>5
  <1> HIDE DEF a, b
  <1>5. ~Before(StatementCycle(b, d)[2], StatementCycle(a, d)[2])
    BY <1>2, <1>3, EndsInOrder
  <1>6. QED
    BY <1>4, <1>5 DEF a, b

-----------------------------------------------------------------------------
(* Instalments                                                             *)

LEMMA InstalmentDates ==
    ASSUME NEW date, IsDate(date), NEW months \in Nat, NEW paid \in 0..months
    PROVE  LET p == Instalments(date, months, paid)
               first == Normal(date[1] - paid, date[2])
           IN  /\ IsDate(first) /\ first[1] \in Int /\ first[2] \in 1..31
               /\ date[2] <= 28 => first = <<date[1] - paid, date[2]>>
               /\ p = [i \in 1..months |-> p[i]] /\ Len(p) = months
               /\ \A i \in 1..months :
                    /\ p[i].date = Normal(first[1] + (i - 1), first[2])
                    /\ p[i].paid = (i <= paid)
                    /\ p[i].cents = AmountCents \div months
                                    + (IF i = 1 THEN AmountCents % months
                                                ELSE 0)
  <1> DEFINE p == Instalments(date, months, paid)
             m == date[1] - paid
             first == Normal(m, date[2])
  <1>1. /\ m \in Int /\ date[2] \in 1..31 /\ date[2] \in 1..32
        /\ DaysIn(m) \in 28..31
    BY DateType, DaysInType
  <1>2. /\ IsDate(first)
        /\ first = IF date[2] <= DaysIn(m) THEN <<m, date[2]>>
                   ELSE <<m + 1, date[2] - DaysIn(m)>>
    BY <1>1, NormalIs
  <1>3. first[1] \in Int /\ first[2] \in 1..31
    BY <1>2, DateType
  <1>4. date[2] <= 28 => first = <<m, date[2]>>
    BY <1>1, <1>2
  <1>5. AddMonths(date, -paid) = first
    <2>1. date[1] + (-paid) = m
      BY <1>1, DateType
    <2>2. QED
      BY <2>1 DEF AddMonths
  <1> HIDE DEF first
  <1>6. p = [i \in 1..months |->
               [date  |-> AddMonths(first, i - 1),
                cents |-> AmountCents \div months
                          + (IF i = 1 THEN AmountCents % months ELSE 0),
                paid  |-> i <= paid]]
    BY <1>5 DEF Instalments
  <1> HIDE DEF p
  <1>7. p = [i \in 1..months |-> p[i]] /\ Len(p) = months
    BY <1>6
  <1>8. \A i \in 1..months :
          /\ p[i].date = Normal(first[1] + (i - 1), first[2])
          /\ p[i].paid = (i <= paid)
          /\ p[i].cents = AmountCents \div months
                          + (IF i = 1 THEN AmountCents % months ELSE 0)
    BY <1>6 DEF AddMonths
  <1>9. QED
    BY <1>2, <1>3, <1>4, <1>7, <1>8 DEF p, first

LEMMA InstalmentsSum ==
    ASSUME NEW months \in Nat, months > 0, NEW cents,
           \A i \in 1..months :
             cents[i] = AmountCents \div months
                        + (IF i = 1 THEN AmountCents % months ELSE 0)
    PROVE  SumTo(cents, months) = AmountCents
  <1> DEFINE q == AmountCents \div months
             r == AmountCents % months
             all == [i \in 1..months |-> q]
  <1>1. q \in Nat /\ r \in Nat /\ months * q + r = AmountCents
    BY Divided, BoundsAssumption
  <1>2. \A i \in 1..months : cents[i] = q + (IF i = 1 THEN r ELSE 0)
    OBVIOUS
  <1> HIDE DEF q, r
  <1>3. \A i \in 1..months : all[i] = q
    OBVIOUS
  <1> HIDE DEF all
  <1>4. SumTo(all, months) = months * q
    BY <1>1, <1>3, SumOfEquals
  <1>5. \A i \in 1..months : /\ all[i] \in Int /\ cents[i] \in Int
                             /\ i # 1 => cents[i] = all[i]
    BY <1>1, <1>2, <1>3
  <1>6. 1 \in 1..months /\ cents[1] - all[1] = r
    BY <1>1, <1>2, <1>3
  <1>7. SumTo(cents, months) = SumTo(all, months) + (cents[1] - all[1])
    BY <1>5, <1>6, SumPoint
  <1>8. QED
    BY <1>1, <1>4, <1>6, <1>7

(* What is paid lies before the purchase, what is not does not.            *)
LEMMA InstalmentsOfTheDay ==
    ASSUME NEW date, IsDate(date), NEW months \in Nat, NEW paid \in 0..months,
           NEW i \in 1..months
    PROVE  LET this == Instalments(date, months, paid)[i] IN
           /\ this.paid => Before(this.date, date)
           /\ date[2] <= 28 /\ ~this.paid => ~Before(this.date, date)
  <1> DEFINE this == Instalments(date, months, paid)[i]
             m == date[1] - paid
             x == date[2]
             first == Normal(m, x)
             j == first[1] + (i - 1)
             y == first[2]
  <1>1. /\ date[1] \in Int /\ m \in Int /\ x \in 1..31 /\ x \in 1..32
        /\ DaysIn(m) \in 28..31 /\ i \in Nat /\ i >= 1 /\ paid \in Nat
    BY DateType, DaysInType
  <1>2. /\ first = IF x <= DaysIn(m) THEN <<m, x>>
                   ELSE <<m + 1, x - DaysIn(m)>>
        /\ this.date = Normal(j, y) /\ this.paid = (i <= paid)
        /\ j \in Int /\ y \in 1..31 /\ y \in 1..32
    <2>1. first = IF x <= DaysIn(m) THEN <<m, x>>
                  ELSE <<m + 1, x - DaysIn(m)>>
      BY <1>1, NormalIs
    <2>2. /\ this.date = Normal(j, y) /\ this.paid = (i <= paid)
          /\ first[1] \in Int /\ y \in 1..31
      <3> DEFINE p == Instalments(date, months, paid)
      <3>1. /\ first[1] \in Int /\ first[2] \in 1..31
            /\ \A k \in 1..months :
                 /\ p[k].date = Normal(first[1] + (k - 1), first[2])
                 /\ p[k].paid = (k <= paid)
        BY InstalmentDates
      <3> HIDE DEF p, first
      <3>2. p[i].date = Normal(first[1] + (i - 1), first[2])
        BY <3>1
      <3>3. p[i].paid = (i <= paid)
        BY <3>1, Zenon
      <3>4. QED
        BY <3>1, <3>2, <3>3 DEF p
    <2> HIDE DEF this, first
    <2>3. j \in Int /\ y \in 1..32
      BY <1>1, <2>2
    <2>4. QED
      BY <2>1, <2>2, <2>3
  <1>3. /\ DaysIn(j) \in 28..31
        /\ this.date = IF y <= DaysIn(j) THEN <<j, y>>
                       ELSE <<j + 1, y - DaysIn(j)>>
    BY <1>2, NormalIs, DaysInType
  <1> DEFINE then == this.date
  <1> HIDE DEF then
  <1>4. ASSUME this.paid PROVE Before(then, date)
    <2>1. i <= paid
      BY <1>2, <1>4
    <2>2. CASE x <= DaysIn(m)
      <3>1. j = m + (i - 1) /\ y = x
        BY <1>2, <2>2
      <3>2. j <= date[1] - 1
        BY <1>1, <2>1, <3>1
      <3> HIDE DEF j, y, this
      <3>3. QED
        BY <1>1, <1>2, <1>3, <3>1, <3>2 DEF Before, then
    <2>3. CASE ~(x <= DaysIn(m))
      <3>1. j = m + 1 + (i - 1) /\ y = x - DaysIn(m)
        BY <1>2, <2>3
      <3>2. j <= date[1] /\ y <= 3 /\ y < x
        BY <1>1, <2>1, <2>3, <3>1
      <3> HIDE DEF j, y, this
      <3>3. QED
        BY <1>1, <1>2, <1>3, <3>2 DEF Before, then
    <2>4. QED
      BY <2>2, <2>3
  <1>5. ASSUME x <= 28, ~this.paid PROVE ~Before(then, date)
    <2>1. ~(i <= paid)
      BY <1>2, <1>5
    <2>2. j = m + (i - 1) /\ y = x
      BY <1>1, <1>2, <1>5
    <2>3. j >= date[1] /\ y <= 28
      BY <1>1, <1>5, <2>1, <2>2
    <2> HIDE DEF j, y, this
    <2>4. QED
      BY <1>1, <1>2, <1>3, <2>2, <2>3 DEF Before, then
  <1>6. QED
    BY <1>4, <1>5 DEF then

LEMMA InstalmentsMeet ==
    ASSUME IsDate(today), card.cutoff \in 1..31,
           NEW months \in Nat, months > 0, NEW paid \in 0..months,
           purchase = Instalments(today, months, paid)
    PROVE  InstalmentsInTurn
  <1> DEFINE d == card.cutoff
             Cycle(i) == StatementCycle(purchase[i].date, d)
             first == Normal(today[1] - paid, today[2])
             cents == [i \in 1..months |-> purchase[i].cents]
  <1>1. /\ first[1] \in Int /\ first[2] \in 1..31
        /\ today[2] <= 28 => first[2] <= 28
        /\ Len(purchase) = months
        /\ \A i \in 1..months :
             /\ purchase[i].date = Normal(first[1] + (i - 1), first[2])
             /\ purchase[i].cents = AmountCents \div months
                                    + (IF i = 1 THEN AmountCents % months
                                                ELSE 0)
    <2>1. /\ first[1] \in Int /\ first[2] \in 1..31
          /\ today[2] <= 28 => first = <<today[1] - paid, today[2]>>
      BY InstalmentDates
    <2> DEFINE p == Instalments(today, months, paid)
    <2>2. /\ Len(p) = months
          /\ \A i \in 1..months :
               /\ p[i].date = Normal(first[1] + (i - 1), first[2])
               /\ p[i].cents = AmountCents \div months
                               + (IF i = 1 THEN AmountCents % months ELSE 0)
      BY InstalmentDates
    <2>3. purchase = p
      OBVIOUS
    <2> HIDE DEF p, first
    <2>4. today[2] <= 28 => first[2] <= 28
      BY <2>1
    <2>5. QED
      BY <2>1, <2>2, <2>3, <2>4
  <1>2. SumTo(cents, months) = AmountCents
    <2>1. \A i \in 1..months :
            cents[i] = AmountCents \div months
                       + (IF i = 1 THEN AmountCents % months ELSE 0)
      BY <1>1
    <2> HIDE DEF cents
    <2>2. QED
      BY <2>1, InstalmentsSum
  <1>3. ASSUME NEW i \in 1..(months - 1)
        PROVE  /\ ~Before(Cycle(i + 1)[2], Cycle(i)[2])
               /\ today[2] <= 28 => Cycle(i + 1)[1] = Cycle(i)[2]
    <2> DEFINE j == first[1] + (i - 1)
               y == first[2]
    <2>1. /\ i \in 1..months /\ i + 1 \in 1..months /\ j \in Int
          /\ first[1] + ((i + 1) - 1) = j + 1
      BY <1>1
    <2>2. /\ purchase[i].date = Normal(j, y)
          /\ purchase[i + 1].date = Normal(j + 1, y)
      BY <1>1, <2>1
    <2>3. y \in 1..31 /\ d \in 1..31
      BY <1>1
    <2> HIDE DEF j, y, first, d
    <2>4. /\ ~Before(StatementCycle(Normal(j + 1, y), d)[2],
                     StatementCycle(Normal(j, y), d)[2])
          /\ y <= 28 => StatementCycle(Normal(j + 1, y), d)[1]
                          = StatementCycle(Normal(j, y), d)[2]
      BY <2>1, <2>3, MonthLater
    <2>5. today[2] <= 28 => y <= 28
      BY <1>1 DEF y
    <2>6. QED
      BY <2>2, <2>4, <2>5
  <1>4. \A i \in 1..months :
          /\ purchase[i].paid => Before(purchase[i].date, today)
          /\ today[2] <= 28 /\ ~purchase[i].paid =>
               ~Before(purchase[i].date, today)
    BY InstalmentsOfTheDay
  <1> HIDE DEF first
  <1>5. QED
    BY <1>1, <1>2, <1>3, <1>4 DEF InstalmentsInTurn

(* A purchase is one of today.                                             *)
Bought ==
    purchase # None =>
      \E months \in Terms : \E paid \in 0..months :
        purchase = Instalments(today, months, paid)

CalendarInv == CalendarTyped /\ Bought

LEMMA CalendarStarts == CalendarInit => CalendarInv
  <1> SUFFICES ASSUME CalendarInit PROVE CalendarInv
    OBVIOUS
  <1>1. today = <<FirstMonth, 1>> /\ FirstMonth \in Int
    BY BoundsAssumption DEF CalendarInit, FirstDay
  <1>2. IsDate(today)
    BY <1>1, DaysInType DEF IsDate
  <1>3. QED
    BY <1>2, DaysAssumption
    DEF CalendarInit, CalendarInv, CalendarTyped, Bought

LEMMA CalendarKept ==
    CalendarInv /\ [CalendarNext]_calendarVars => CalendarInv'
  <1> SUFFICES ASSUME CalendarInv, [CalendarNext]_calendarVars
               PROVE  CalendarInv'
    OBVIOUS
  <1>1. CASE NextDay
    <2>1. IsDate(NextDate(today))
      BY CycleOfTomorrow DEF CalendarInv, CalendarTyped
    <2>2. QED
      BY <1>1, <2>1 DEF NextDay, CalendarInv, CalendarTyped, Bought
  <1>2. CASE Later \/ UNCHANGED calendarVars
    <2>1. UNCHANGED <<card, today, purchase>>
      BY <1>2 DEF Later, calendarVars
    <2>2. CalendarTyped'
      BY <2>1 DEF CalendarInv, CalendarTyped, IsDate
    <2>3. Bought'
      BY <2>1 DEF CalendarInv, Bought
    <2>4. QED
      BY <2>2, <2>3 DEF CalendarInv
  <1>3. ASSUME NEW months \in Terms, NEW paid \in 0..months, Buy(months, paid)
        PROVE  CalendarInv'
    <2>1. /\ UNCHANGED <<card, today>>
          /\ purchase' = Instalments(today, months, paid)
      BY <1>3 DEF Buy
    <2>2. CalendarTyped'
      BY <2>1 DEF CalendarInv, CalendarTyped, IsDate
    <2>3. Bought'
      BY <2>1 DEF Bought
    <2>4. QED
      BY <2>2, <2>3 DEF CalendarInv
  <1>4. QED
    BY <1>1, <1>2, <1>3 DEF CalendarNext

-----------------------------------------------------------------------------
(* Stamps of one second                                                    *)

Powers(t, n) == t = [i \in 0..n |-> IF i = 0 THEN 1 ELSE 10 * t[i - 1]]

LEMMA PowersExist ==
    ASSUME NEW n \in Nat
    PROVE  \E t : Powers(t, n)
  <1> DEFINE S == {k \in Nat : \E t : Powers(t, k)}
  <1>1. 0 \in S
    <2>1. Powers([i \in 0..0 |-> 1], 0)
      BY DEF Powers
    <2>2. QED
      BY <2>1
  <1>2. ASSUME NEW k \in Nat, k \in S PROVE k + 1 \in S
    <2>1. PICK s : Powers(s, k)
      BY <1>2
    <2> DEFINE t == [i \in 0..(k + 1) |-> IF i = k + 1 THEN 10 * s[k]
                                                       ELSE s[i]]
    <2>2. \A i \in 0..k : s[i] = IF i = 0 THEN 1 ELSE 10 * s[i - 1]
      BY <2>1 DEF Powers
    <2>3. \A i \in 0..(k + 1) : t[i] = IF i = 0 THEN 1 ELSE 10 * t[i - 1]
      BY <2>2
    <2>4. Powers(t, k + 1)
      BY <2>3 DEF Powers
    <2>5. QED
      BY <2>4
  <1> HIDE DEF S
  <1>3. n \in S
    BY <1>1, <1>2, Inductive
  <1>4. QED
    BY <1>3 DEF S

LEMMA TensSteps ==
    /\ Tens(0) = 1
    /\ \A n \in Nat : Tens(n + 1) = 10 * Tens(n)
  <1> DEFINE t(n) == CHOOSE g : Powers(g, n)
  <1>1. \A n \in Nat : Powers(t(n), n)
    BY PowersExist
  <1>2. \A n \in Nat : Tens(n) = t(n)[n]
    BY DEF Tens, Powers
  <1>3. \A n \in Nat : \A i \in 0..n :
          t(n)[i] = IF i = 0 THEN 1 ELSE 10 * t(n)[i - 1]
    BY <1>1 DEF Powers
  <1> HIDE DEF t
  <1>4. Tens(0) = 1
    BY <1>2, <1>3
  <1>5. ASSUME NEW n \in Nat PROVE Tens(n + 1) = 10 * Tens(n)
    <2>1. \A i \in 0..n : t(n)[i] = t(n + 1)[i]
      <3>1. t(n)[0] = t(n + 1)[0]
        BY <1>3
      <3>2. \A i \in 1..n : t(n)[i - 1] = t(n + 1)[i - 1] =>
                            t(n)[i] = t(n + 1)[i]
        BY <1>3
      <3>3. QED
        BY <3>1, <3>2, SameCourse DEF Alike
    <2>2. t(n + 1)[n + 1] = 10 * t(n + 1)[n]
      BY <1>3
    <2>3. QED
      BY <1>2, <2>1, <2>2
  <1>6. QED
    BY <1>4, <1>5

LEMMA TensType == \A n \in Nat : Tens(n) \in Nat /\ Tens(n) > 0
  <1> DEFINE S == {n \in Nat : Tens(n) \in Nat /\ Tens(n) > 0}
  <1>1. 0 \in S
    BY TensSteps
  <1>2. ASSUME NEW n \in Nat, n \in S PROVE n + 1 \in S
    BY <1>2, TensSteps
  <1> HIDE DEF S
  <1>3. \A n \in Nat : n \in S
    BY <1>1, <1>2, Inductive
  <1>4. QED
    BY <1>3 DEF S

(* A digit is what is left of the digits up to it, once those before are   *)
(* taken away.                                                             *)
LEMMA LastDigit ==
    ASSUME NEW f \in Nat, NEW p \in Nat, p > 0
    PROVE  /\ f \div p \in Nat /\ f \div (10 * p) \in Nat
           /\ (f \div p) % 10 \in 0..9
           /\ f \div p = (10 * (f \div (10 * p))) + ((f \div p) % 10)
  <1>1. f \div p \in Nat
    OBVIOUS
  <1>2. f \div (10 * p) = (f \div p) \div 10
    OBVIOUS
  <1>3. ASSUME NEW q \in Nat
        PROVE  /\ q \div 10 \in Nat /\ q % 10 \in 0..9
               /\ q = (10 * (q \div 10)) + (q % 10)
    OBVIOUS
  <1>4. QED
    BY <1>1, <1>2, <1>3

LEMMA DivisionGrows ==
    ASSUME NEW f \in Nat, NEW g \in Nat, f <= g, NEW p \in Nat, p > 0
    PROVE  f \div p <= g \div p
  OBVIOUS

(* The number of the first i digits.                                       *)
Leading(f, i) == f \div Tens(Precision - i)

LEMMA LeadingSteps ==
    ASSUME NEW f \in Nat, NEW i \in 1..Precision
    PROVE  /\ Leading(f, i) \in Nat /\ Leading(f, i - 1) \in Nat
           /\ Padded(f)[i] \in 0..9
           /\ Leading(f, i) = 10 * Leading(f, i - 1) + Padded(f)[i]
  <1> DEFINE n == Precision - i
             p == Tens(n)
  <1>1. n \in Nat /\ Precision - (i - 1) = n + 1
    BY BoundsAssumption
  <1>2. p \in Nat /\ p > 0 /\ Tens(Precision - (i - 1)) = 10 * p
    BY <1>1, TensType, TensSteps
  <1>3. Padded(f)[i] = (f \div p) % 10
    BY DEF Padded
  <1> HIDE DEF p
  <1>4. /\ f \div p \in Nat /\ f \div (10 * p) \in Nat
        /\ (f \div p) % 10 \in 0..9
        /\ f \div p = (10 * (f \div (10 * p))) + ((f \div p) % 10)
    BY <1>2, LastDigit
  <1>5. Leading(f, i) = f \div p /\ Leading(f, i - 1) = f \div (10 * p)
    BY <1>2 DEF Leading, p
  <1>6. QED
    BY <1>3, <1>4, <1>5

(* Of two numbers the smaller has the smaller digit where they first       *)
(* differ.                                                                 *)
LEMMA FirstDifference ==
    ASSUME NEW f \in Nat, NEW g \in Nat, f < g, g < Tens(Precision)
    PROVE  \E k \in 1..Precision :
             /\ Padded(f)[k] < Padded(g)[k]
             /\ \A i \in 1..(k - 1) : Padded(f)[i] = Padded(g)[i]
  <1>1. Precision \in Nat /\ Tens(0) = 1
    BY BoundsAssumption, TensSteps
  <1>2. Leading(f, 0) = 0 /\ Leading(g, 0) = 0
    <2>1. Tens(Precision) \in Nat /\ Tens(Precision) > 0
      BY <1>1, TensType
    <2>2. f \div Tens(Precision) = 0 /\ g \div Tens(Precision) = 0
      BY <2>1
    <2>3. QED
      BY <1>1, <2>2 DEF Leading
  <1>3. Leading(f, Precision) = f /\ Leading(g, Precision) = g
    BY <1>1 DEF Leading
  <1> DEFINE T == {i \in 0..Precision : Leading(f, i) # Leading(g, i)}
  <1>4. Precision \in T /\ T \subseteq Nat
    BY <1>1, <1>3
  <1>5. PICK k \in T : \A i \in T : k <= i
    BY <1>4, LeastNumber
  <1>6. /\ k \in 1..Precision
        /\ \A i \in 0..(k - 1) : Leading(f, i) = Leading(g, i)
    BY <1>1, <1>2, <1>5
  <1>7. Leading(f, k) <= Leading(g, k)
    <2>1. Tens(Precision - k) \in Nat /\ Tens(Precision - k) > 0
      BY <1>1, <1>6, TensType
    <2>2. QED
      BY <2>1, DivisionGrows DEF Leading
  <1>8. Padded(f)[k] < Padded(g)[k]
    <2>1. Leading(f, k - 1) = Leading(g, k - 1) /\ Leading(f, k) # Leading(g, k)
      BY <1>5, <1>6
    <2>2. /\ Leading(f, k) \in Nat /\ Leading(f, k - 1) \in Nat
          /\ Padded(f)[k] \in 0..9
          /\ Leading(f, k) = 10 * Leading(f, k - 1) + Padded(f)[k]
      BY <1>6, LeadingSteps, Zenon
    <2>3. /\ Leading(g, k) \in Nat /\ Leading(g, k - 1) \in Nat
          /\ Padded(g)[k] \in 0..9
          /\ Leading(g, k) = 10 * Leading(g, k - 1) + Padded(g)[k]
      BY <1>6, LeadingSteps, Zenon
    <2>4. QED
      BY <1>7, <2>1, <2>2, <2>3
  <1>9. ASSUME NEW i \in 1..(k - 1) PROVE Padded(f)[i] = Padded(g)[i]
    <2>1. i \in 1..Precision /\ i \in 0..(k - 1) /\ i - 1 \in 0..(k - 1)
      BY <1>1, <1>6
    <2>2. Leading(f, i) = Leading(g, i) /\ Leading(f, i - 1) = Leading(g, i - 1)
      BY <1>6, <2>1
    <2>3. /\ Leading(f, i) \in Nat /\ Leading(f, i - 1) \in Nat
          /\ Padded(f)[i] \in 0..9
          /\ Leading(f, i) = 10 * Leading(f, i - 1) + Padded(f)[i]
      BY <2>1, LeadingSteps, Zenon
    <2>4. /\ Leading(g, i) \in Nat /\ Leading(g, i - 1) \in Nat
          /\ Padded(g)[i] \in 0..9
          /\ Leading(g, i) = 10 * Leading(g, i - 1) + Padded(g)[i]
      BY <2>1, LeadingSteps, Zenon
    <2>5. Padded(f)[i] = Leading(f, i) - 10 * Leading(f, i - 1)
      BY <2>3
    <2>6. Padded(g)[i] = Leading(g, i) - 10 * Leading(g, i - 1)
      BY <2>4
    <2>7. QED
      BY <2>2, <2>5, <2>6
  <1>10. QED
    BY <1>6, <1>8, <1>9

LEMMA Greatest ==
    ASSUME NEW n \in Nat, NEW T, T \subseteq 1..n, T # {}
    PROVE  Max(T) \in T /\ \A i \in T : i <= Max(T)
  <1> DEFINE D == {n - i : i \in T}
  <1>1. D \subseteq Nat /\ D # {}
    <2>1. \A i \in T : n - i \in Nat
      OBVIOUS
    <2>2. QED
      BY <2>1
  <1>2. PICK x \in D : \A y \in D : x <= y
    BY <1>1, LeastNumber
  <1>3. PICK m \in T : x = n - m
    BY <1>2
  <1>4. ASSUME NEW i \in T PROVE i <= m
    <2>1. n - i \in D
      OBVIOUS
    <2>2. n - m <= n - i
      BY <1>2, <1>3, <2>1
    <2>3. QED
      BY <2>2
  <1>5. Max(T) \in T /\ \A i \in T : Max(T) >= i
    BY <1>4 DEF Max
  <1>6. QED
    BY <1>5

(* The digits of a fraction are its padded ones up to the last that is not *)
(* zero.                                                                   *)
LEMMA DigitsAre ==
    ASSUME NEW f \in Nat
    PROVE  /\ Len(Digits(f)) \in 0..Precision
           /\ DOMAIN Digits(f) = 1..Len(Digits(f))
           /\ \A i \in 1..Len(Digits(f)) :
                Digits(f)[i] = Padded(f)[i] /\ Digits(f)[i] \in 0..9
           /\ \A i \in 1..Precision :
                i > Len(Digits(f)) => Padded(f)[i] = 0
           /\ Len(Digits(f)) > 0 => Padded(f)[Len(Digits(f))] # 0
  <1> DEFINE p == Padded(f)
             I == {i \in 1..Len(p) : NonZero(p[i])}
             last == SelectLastInSeq(p, NonZero)
  <1>1. /\ Precision \in Nat /\ Len(p) = Precision
        /\ p \in [1..Precision -> 0..9]
    <2>1. \A i \in 1..Precision : p[i] \in 0..9
      BY LeadingSteps
    <2>2. QED
      BY <2>1, BoundsAssumption DEF Padded
  <1>2. last = IF I # {} THEN Max(I) ELSE 0
    BY DEF SelectLastInSeq
  <1>3. Digits(f) = SubSeq(p, 1, last)
    BY DEF Digits
  <1> HIDE DEF last, p
  <1>4. I \subseteq 1..Precision
    BY <1>1
  <1>5. /\ last \in 0..Precision
        /\ last > 0 => last \in I
        /\ \A i \in I : i <= last
    <2>1. CASE I = {}
      BY <1>1, <1>2, <2>1
    <2>2. CASE I # {}
      <3>1. Max(I) \in I /\ \A i \in I : i <= Max(I)
        BY <1>1, <1>4, <2>2, Greatest
      <3>2. QED
        BY <1>2, <1>4, <2>2, <3>1
    <2>3. QED
      BY <2>1, <2>2
  <1>6. p \in Seq(0..9)
    BY <1>1
  <1>7. /\ Len(Digits(f)) = last /\ DOMAIN Digits(f) = 1..last
        /\ \A i \in 1..last : Digits(f)[i] = p[i]
    BY <1>1, <1>3, <1>5, <1>6
  <1>8. QED
    BY <1>1, <1>5, <1>7 DEF p, NonZero

LEMMA StampIs ==
    ASSUME NEW f \in Nat, f > 0
    PROVE  /\ Len(Stamp(f)) = Len(Digits(f)) + 2
           /\ Stamp(f)[1] = 46
           /\ \A i \in 1..Len(Digits(f)) : Stamp(f)[i + 1] = 48 + Padded(f)[i]
  <1> DEFINE n == Len(Digits(f))
             body == [i \in DOMAIN Digits(f) |-> 48 + Digits(f)[i]]
  <1>1. /\ n \in Nat /\ DOMAIN Digits(f) = 1..n
        /\ \A i \in 1..n : Digits(f)[i] = Padded(f)[i] /\ Digits(f)[i] \in 0..9
    BY DigitsAre, BoundsAssumption
  <1>2. /\ body \in Seq(Int) /\ Len(body) = n
        /\ \A i \in 1..n : body[i] = 48 + Padded(f)[i]
    BY <1>1
  <1>3. Stamp(f) = <<46>> \o body \o <<90>>
    BY DEF Stamp
  <1> HIDE DEF body, n
  <1>4. /\ Len(Stamp(f)) = n + 2 /\ Stamp(f)[1] = 46
        /\ \A i \in 1..n : Stamp(f)[i + 1] = body[i]
    BY <1>1, <1>2, <1>3
  <1>5. QED
    BY <1>2, <1>4 DEF n

(* Where two fractions first differ both stamps show it, unless the digits *)
(* of the smaller one have ended by then.                                  *)
LEMMA LaterStamp ==
    ASSUME NEW f \in Nat, NEW g \in Nat, f < g, g < Tens(Precision)
    PROVE  \/ TextBefore(Stamp(f), Stamp(g))
           \/ IsPrefix(Digits(f), Digits(g))
  <1> DEFINE a == Len(Digits(f))
             b == Len(Digits(g))
  <1>1. Precision \in Nat
    BY BoundsAssumption
  <1>2. PICK k \in 1..Precision :
          /\ Padded(f)[k] < Padded(g)[k]
          /\ \A i \in 1..(k - 1) : Padded(f)[i] = Padded(g)[i]
    BY FirstDifference
  <1>3. Padded(f)[k] \in 0..9 /\ Padded(g)[k] \in 0..9
    BY LeadingSteps
  <1>4. /\ a \in 0..Precision /\ DOMAIN Digits(f) = 1..a
        /\ \A i \in 1..a : Digits(f)[i] = Padded(f)[i]
        /\ a > 0 => Padded(f)[a] # 0
    BY DigitsAre DEF a
  <1>5. /\ b \in 0..Precision /\ DOMAIN Digits(g) = 1..b
        /\ \A i \in 1..b : Digits(g)[i] = Padded(g)[i]
        /\ \A i \in 1..Precision : i > b => Padded(g)[i] = 0
    BY DigitsAre DEF b
  <1>6. k <= b
    BY <1>1, <1>2, <1>3, <1>5
  <1> HIDE DEF a, b
  <1>7. CASE k <= a
    <2>1. f > 0
      <3>1. ASSUME f = 0 PROVE FALSE
        <4>1. a \in 1..Precision
          BY <1>1, <1>4, <1>7
        <4>2. Tens(Precision - a) \in Nat /\ Tens(Precision - a) > 0
          BY <1>1, <4>1, TensType
        <4>3. Padded(f)[a] = 0
          BY <3>1, <4>1, <4>2 DEF Padded
        <4>4. QED
          BY <1>4, <4>1, <4>3
      <3>2. QED
        BY <3>1
    <2>2. /\ Len(Stamp(f)) = a + 2 /\ Stamp(f)[1] = 46
          /\ \A i \in 1..a : Stamp(f)[i + 1] = 48 + Padded(f)[i]
      BY <2>1, StampIs DEF a
    <2>3. /\ Len(Stamp(g)) = b + 2 /\ Stamp(g)[1] = 46
          /\ \A i \in 1..b : Stamp(g)[i + 1] = 48 + Padded(g)[i]
      <3>1. g > 0
        OBVIOUS
      <3>2. QED
        BY <3>1, StampIs DEF b
    <2>4. k + 1 \in 1..Min({Len(Stamp(f)), Len(Stamp(g))})
      <3>1. Min({a + 2, b + 2}) = IF a + 2 <= b + 2 THEN a + 2 ELSE b + 2
        BY <1>1, <1>4, <1>5, MinOfTwo
      <3>2. QED
        BY <1>1, <1>4, <1>5, <1>6, <1>7, <2>2, <2>3, <3>1
    <2>5. Stamp(f)[k + 1] < Stamp(g)[k + 1]
      <3>1. k \in 1..a /\ k \in 1..b
        BY <1>1, <1>4, <1>5, <1>6, <1>7
      <3>2. /\ Stamp(f)[k + 1] = 48 + Padded(f)[k]
            /\ Stamp(g)[k + 1] = 48 + Padded(g)[k]
        BY <2>2, <2>3, <3>1
      <3>3. QED
        BY <1>2, <1>3, <3>2
    <2>6. ASSUME NEW j \in 1..k PROVE Stamp(f)[j] = Stamp(g)[j]
      <3>1. CASE j = 1
        BY <2>2, <2>3, <3>1
      <3>2. CASE j # 1
        <4>1. /\ j - 1 \in 1..a /\ j - 1 \in 1..b /\ j - 1 \in 1..(k - 1)
              /\ (j - 1) + 1 = j
          BY <1>1, <1>4, <1>5, <1>6, <1>7, <3>2
        <4>2. QED
          BY <1>2, <2>2, <2>3, <4>1
      <3>3. QED
        BY <3>1, <3>2
    <2>7. TextBefore(Stamp(f), Stamp(g))
      BY <2>4, <2>5, <2>6 DEF TextBefore
    <2>8. QED
      BY <2>7
  <1>8. CASE a < k
    <2>1. \A i \in 1..a : Digits(f)[i] = Digits(g)[i]
      BY <1>1, <1>2, <1>4, <1>5, <1>6, <1>8
    <2>2. Len(Digits(f)) = a /\ Len(Digits(g)) = b /\ a <= b
      BY <1>1, <1>4, <1>5, <1>6, <1>8 DEF a, b
    <2>3. IsPrefix(Digits(f), Digits(g))
      BY <1>1, <1>4, <1>5, <2>1, <2>2 DEF IsPrefix
    <2>4. QED
      BY <2>3
  <1>9. QED
    BY <1>1, <1>4, <1>7, <1>8

-----------------------------------------------------------------------------
(* The theorems                                                            *)

(* Every balance is its opening balance and its ledger, for any number of  *)
(* concurrent requests, unless an account edit wrote over it: the rows     *)
(* move by deltas and in one transaction with their entries.               *)
THEOREM LedgerExplains == Spec => []BalanceExplained
  <1>1. AccountInv => BalanceExplained
    BY DEF AccountInv
  <1>2. QED
    BY <1>1, AccountsStart, AccountsKept, PTL DEF Spec

(* Checks on a balance hold when it is written unless it moved meanwhile,  *)
(* for any number of concurrent requests.                                  *)
THEOREM CheckedIsCovered == Spec => []CoveredUnlessRaced
  <1>1. AccountInv => CoveredUnlessRaced
    BY DEF AccountInv
  <1>2. QED
    BY <1>1, AccountsStart, AccountsKept, PTL DEF Spec

(* The tables and the requests hold what they are declared to hold, for    *)
(* any number of requests, amounts and cycles: a projection never owes or  *)
(* allocates a negative amount, whatever snapshot it is computed from.     *)
THEOREM CardTypes == Spec => []TypeOK
  <1>1. CardInv => TypeOK
    BY DEF CardInv, TypeInv
  <1>2. QED
    BY <1>1, CardStarts, CardKept, PTL DEF Spec

(* A statement has been paid what its allocations add up to, whichever     *)
(* request reconciled last and however payments overtook each other,       *)
(* unless a reconciliation wrote from a stale snapshot or a transaction    *)
(* was deleted.                                                            *)
THEOREM PaidAsAllocated == Spec => []PaidIsAllocated
  <1>1. CardInv => PaidIsAllocated
    BY DEF CardInv
  <1>2. QED
    BY <1>1, CardStarts, CardKept, PTL DEF Spec

(* What the statements ask for is owed on the card's account, so that      *)
(* paying it is not refused: payments leave a statement's expenses and the *)
(* ledger of the card by the same amount, whatever else runs.              *)
THEOREM DebtOwed == Spec => []DebtIsOwed
  <1>1. CardInv /\ AccountInv => DebtIsOwed
    <2> SUFFICES ASSUME CardInv, AccountInv,
                        ~stale, ~deleted, ~overwritten["card"],
                        "card" \notin gone
                 PROVE  SumTo(Outstanding(Books), Months) <= balance["card"]
      BY DEF DebtIsOwed
    <2>1. balance["card"] = opening["card"] + ledger["card"]
      BY DEF AccountInv, BalanceExplained, Accounts
    <2>2. /\ opening["card"] \in Nat /\ balance["card"] \in Int
          /\ ledger["card"] \in Int
      BY TypeInvParts DEF CardInv, AccountTypes, Accounts
    <2>3. /\ SumTo(Outstanding(Books), Months) \in Nat
          /\ SumTo(Outstanding(Books), Months) <= ledger["card"]
      BY DebtInLedger DEF Sound
    <2>4. QED
      BY <2>1, <2>2, <2>3
  <1>2. QED
    BY <1>1, CardStarts, CardKept, AccountsStart, AccountsKept, PTL DEF Spec

(* Statements that are those of the transactions stay so: a payment enters *)
(* the allocation that the projection computes when it is recomputed with  *)
(* that payment, and is refused if another payment came before, since the  *)
(* rows it reads then differ.                                              *)
THEOREM StatementsStaySettled == Spec => StaysSettled
  <1> DEFINE Kept == /\ UNCHANGED <<closed, charged>>
                     /\ ~stale' /\ ~deleted'
                     /\ \A r \in Requests : Outdated(r) => UNCHANGED req[r]
                     /\ Settled
                     => Settled'
  <1>1. CardInv /\ CardInv' /\ [Next]_vars => [Kept]_vars
    <2> SUFFICES ASSUME CardInv, CardInv', Next,
                        UNCHANGED <<closed, charged>>, ~stale', ~deleted',
                        \A r \in Requests : Outdated(r) => UNCHANGED req[r],
                        Settled
                 PROVE  Settled'
      OBVIOUS
    <2>1. CASE \/ CloseCycle \/ DeleteCharge \/ DeletePayment
               \/ DeleteAccount \/ DeleteCreditCard
      <3>1. UNCHANGED <<payments, bill, alloc>>
        BY <2>1 DEF CloseCycle, DeleteCharge, DeletePayment, DeleteAccount,
           DeleteCreditCard, statementVars
      <3>2. QED
        BY <3>1, SameSettled
    <2>2. ASSUME NEW r \in Requests,
                 \/ CreateTransaction(r) \/ UpdateAccount(r)
                 \/ GetFinancialPayables(r) \/ PayCreditCardDebt(r)
                 \/ GiveUp(r)
          PROVE  Settled'
      <3>1. CASE Reconcile(r)
        BY <3>1, ReconcileSettles DEF CardInv
      <3>2. CASE ApplyPayment(r)
        <4>1. /\ req[r].stage = "paid" /\ req' = [req EXCEPT ![r] = Idle]
          BY <3>2 DEF ApplyPayment
        <4>2. req'[r] = Idle
          <5>1. RequestTypes
            BY TypeInvParts DEF CardInv
          <5>2. QED
            BY <4>1, <5>1 DEF RequestTypes
        <4>3. ~Outdated(r)
          BY <4>1, <4>2 DEF Idle
        <4>4. QED
          BY <3>2, <4>3, PaymentSettles
      <3>3. CASE \/ CreateTransaction(r) \/ UpdateAccount(r) \/ BeginView(r)
                 \/ BeginPayment(r) \/ ReadTransactions(r) \/ GiveUp(r)
        <4>1. UNCHANGED <<payments, bill, alloc>>
          BY <3>3 DEF CreateTransaction, BeginTransaction, CommitTransaction,
             UpdateAccount, BeginEdit, CommitEdit, BeginView, BeginPayment,
             ReadTransactions, GiveUp, statementVars
        <4>2. QED
          BY <4>1, SameSettled
      <3>4. QED
        BY <2>2, <3>1, <3>2, <3>3 DEF GetFinancialPayables, PayCreditCardDebt
    <2>3. QED
      BY <2>1, <2>2 DEF Next
  <1>2. QED
    BY <1>1, CardStarts, CardKept, PTL DEF Spec, StaysSettled

(* Cycles follow each other without a gap and fall due in their order, on  *)
(* every day from any month on, for every cut-off and payment day up to    *)
(* the 31st and whatever the lengths of the months.                        *)
THEOREM CyclesAlwaysMeet == CalendarSpec => []CyclesMeet
  <1>1. CalendarInv => CyclesMeet
    BY CyclesMeetThen DEF CalendarInv
  <1>2. QED
    BY <1>1, CalendarStarts, CalendarKept, PTL DEF CalendarSpec

(* The instalments of a purchase add up to its price and come to the       *)
(* card's statements in turn, for every day it is bought, every number of  *)
(* instalments and of those already paid, every price and cut-off.         *)
THEOREM InstalmentsComeInTurn == CalendarSpec => []InstalmentsInTurn
  <1>1. CalendarInv => InstalmentsInTurn
    <2> SUFFICES ASSUME CalendarInv, purchase # None
                 PROVE  InstalmentsInTurn
      BY DEF InstalmentsInTurn
    <2>1. PICK months \in Terms :
            \E paid \in 0..months :
              purchase = Instalments(today, months, paid)
      BY DEF CalendarInv, Bought
    <2>2. PICK paid \in 0..months :
            purchase = Instalments(today, months, paid)
      BY <2>1
    <2>3. months \in Nat /\ months > 0
      BY BoundsAssumption
    <2>4. QED
      BY <2>2, <2>3, InstalmentsMeet DEF CalendarInv, CalendarTyped
  <1>2. QED
    BY <1>1, CalendarStarts, CalendarKept, PTL DEF CalendarSpec

(* Of two stamps of one second the later is the greater text, for every    *)
(* precision of the fractions, unless the digits of the earlier one begin  *)
(* those of the later one: they first differ in a digit that the later has *)
(* not lost with its zeros.                                                *)
THEOREM LaterStampsAreGreater == CalendarSpec => StampsInOrder
  <1> DEFINE Ordered == fraction' > fraction =>
                          \/ TextBefore(Stamp(fraction), Stamp(fraction'))
                          \/ IsPrefix(Digits(fraction), Digits(fraction'))
             Fraction == fraction \in Nat
  <1>1. CalendarInit => Fraction
    BY DEF CalendarInit
  <1>2. Fraction /\ [CalendarNext]_calendarVars =>
          Fraction' /\ [Ordered]_calendarVars
    <2> SUFFICES ASSUME Fraction, [CalendarNext]_calendarVars
                 PROVE  Fraction' /\ Ordered
      OBVIOUS
    <2>1. CASE Later
      <3>1. Tens(Precision) \in Nat
        BY BoundsAssumption, TensType
      <3>2. /\ fraction' \in Nat /\ fraction < fraction'
            /\ fraction' < Tens(Precision)
        BY <2>1, <3>1 DEF Later
      <3>3. QED
        BY <3>2, LaterStamp
    <2>2. CASE ~Later
      <3>1. fraction' = 0 \/ fraction' = fraction
        BY <2>2 DEF CalendarNext, NextDay, Buy, calendarVars
      <3>2. fraction' \in Nat /\ ~(fraction' > fraction)
        BY <3>1
      <3>3. QED
        BY <3>2
    <2>3. QED
      BY <2>1, <2>2
  <1>3. QED
    BY <1>1, <1>2, PTL DEF CalendarSpec, StampsInOrder

=============================================================================

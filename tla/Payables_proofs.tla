-------------------------- MODULE Payables_proofs --------------------------
(***************************************************************************)
(* Proofs about Payables for any requests, days, months, limits and zones, *)
(* and about the alerts of what falls due, for any nodes, bills and days.  *)
(***************************************************************************)
EXTENDS Payables, Notifications, FiniteSetTheorems, TLAPS

-----------------------------------------------------------------------------
(* How far a payable goes on                                               *)

(* Every set of numbers has a least one: the intervals below its members   *)
(* are finite sets, among which inclusion is well-founded.                 *)
LEMMA LeastNumber ==
    ASSUME NEW T, T \subseteq Nat, T # {}
    PROVE  \E x \in T : \A y \in T : x <= y
  <1> DEFINE R == StrictSubsetOrdering(Nat)
             F == {0..x : x \in T}
  <1>1. IsWellFoundedOn(R, FiniteSubsetsOf(Nat))
    BY FS_StrictSubsetOrderingWellFounded
  <1>2. F \subseteq FiniteSubsetsOf(Nat) /\ F # {}
    <2>1. ASSUME NEW x \in T PROVE IsFiniteSet(0..x) /\ 0..x \in SUBSET Nat
      BY FS_Interval
    <2>2. QED
      BY <2>1 DEF FiniteSubsetsOf
  <1>3. PICK f \in F : \A g \in F : <<g, f>> \notin R
    BY <1>1, <1>2, WFMin, Zenon
  <1>4. PICK x \in T : f = 0..x
    BY <1>3
  <1>5. ASSUME NEW y \in T, y < x PROVE FALSE
    <2>1. 0..y \subseteq 0..x /\ 0..x # 0..y /\ 0..y \in F
      BY <1>5
    <2>2. <<0..y, 0..x>> \in R
      BY <2>1 DEF StrictSubsetOrdering
    <2>3. QED
      BY <2>1, <2>2, <1>3, <1>4
  <1>6. QED
    BY <1>5

(* The k-th date of a payable.                                             *)
CycleAfter(row, k) == <<row.due[1], row.due[2] + k>>

(* FirstUnpaid counts paid cycles within the limit, and stops only at an   *)
(* unpaid one, at the limit or at the bound.                               *)
LEMMA FirstUnpaidStops ==
    ASSUME NEW row \in Rows, NEW cycles
    PROVE  LET n == FirstUnpaid(row, cycles) IN
             /\ n \in 0..MaxMonth
             /\ \A k \in 0..n - 1 : CycleAfter(row, k) \in cycles
             /\ row.limit = Unlimited \/ n <= row.limit
             /\ \/ n = MaxMonth \/ CycleAfter(row, n) \notin cycles
                \/ row.limit # Unlimited /\ row.limit <= n
  <1> DEFINE P(n) == /\ \A k \in 0..n - 1 : CycleAfter(row, k) \in cycles
                     /\ row.limit = Unlimited \/ n <= row.limit
             T == {m \in 0..MaxMonth : m = MaxMonth \/ ~P(m + 1)}
  <1>1. P(0)
    BY DEF Rows
  <1>2. PICK m \in T : \A y \in T : m <= y
    <2>1. T \subseteq Nat /\ MaxMonth \in T
      BY DatesAssumption
    <2>2. QED
      BY <2>1, LeastNumber
  <1>3. P(m)
    <2>1. CASE m = 0
      BY <2>1, <1>1
    <2>2. CASE m # 0
      <3>1. m - 1 \in 0..MaxMonth /\ m - 1 # MaxMonth /\ ~(m <= m - 1)
        BY <2>2, <1>2, DatesAssumption
      <3>2. P(m - 1 + 1)
        BY <3>1, <1>2
      <3>3. m - 1 + 1 = m
        BY <3>1, <1>2
      <3>4. QED
        BY <3>2, <3>3
    <2>3. QED
      BY <2>1, <2>2
  <1>4. \E n \in 0..MaxMonth : P(n) /\ (n = MaxMonth \/ ~P(n + 1))
    BY <1>2, <1>3
  <1> DEFINE n == FirstUnpaid(row, cycles)
  <1>5. n = CHOOSE i \in 0..MaxMonth : P(i) /\ (i = MaxMonth \/ ~P(i + 1))
    BY DEF FirstUnpaid, CycleAfter
  <1>6. n \in 0..MaxMonth /\ P(n) /\ (n = MaxMonth \/ ~P(n + 1))
    BY <1>4, <1>5
  <1>7. P(n + 1) \/ CycleAfter(row, n) \notin cycles
               \/ (row.limit # Unlimited /\ row.limit <= n)
    <2>1. \A k \in 0..(n + 1) - 1 : k = n \/ k \in 0..n - 1
      BY <1>6, DatesAssumption
    <2>2. row.limit # Unlimited => (n + 1 <= row.limit \/ row.limit <= n)
      BY <1>6, DatesAssumption DEF Rows, Unlimited
    <2>3. QED
      BY <1>6, <2>1, <2>2
  <1>8. QED
    BY <1>6, <1>7

-----------------------------------------------------------------------------
(* Advancing a payable                                                     *)

CycleDates == DueDays \X Months

(* A row a request may hold: its months count from one, and what has no    *)
(* cycle left is completed.                                                *)
Proper(row) ==
    /\ row.live => row.due[2] > 0
    /\ row.limit = 0 => row.status = "COMPLETED"

LEMMA AdvanceRecurrenceRow ==
    ASSUME NEW row \in Rows, Proper(row), NEW n \in Nat,
           row.limit = Unlimited \/ n <= row.limit
    PROVE  LET next == AdvanceRecurrence(row, n) IN
             /\ next \in Rows /\ Proper(next)
             /\ next.live = row.live /\ next.monthly = row.monthly
             /\ next.due = <<row.due[1], row.due[2] + n>>
  <1> DEFINE next == AdvanceRecurrence(row, n)
             limit == IF row.limit = Unlimited THEN Unlimited
                      ELSE row.limit - n
             status == IF row.limit # Unlimited /\ n > 0 /\ row.limit <= n
                       THEN "COMPLETED" ELSE row.status
  <1>1. next = [row EXCEPT !.due = <<row.due[1], row.due[2] + n>>,
                           !.limit = limit, !.status = status]
    BY DEF AdvanceRecurrence
  <1>2. /\ <<row.due[1], row.due[2] + n>> \in Nat \X Nat
        /\ limit \in Nat \cup {Unlimited}
        /\ status \in {"PENDING", "PAID", "COMPLETED"}
    BY DEF Rows, Unlimited
  <1>3. /\ next \in Rows
        /\ next.due = <<row.due[1], row.due[2] + n>>
        /\ next.limit = limit /\ next.status = status
        /\ next.live = row.live /\ next.monthly = row.monthly
    BY <1>1, <1>2 DEF Rows
  <1>4. limit = 0 => status = "COMPLETED"
    BY DEF Rows, Unlimited, Proper
  <1>5. row.live => row.due[2] + n > 0
    BY DEF Rows, Proper
  <1>6. QED
    BY <1>3, <1>4, <1>5 DEF Proper

(* Where a payable is advanced to, no cycle is paid, or nothing is left.   *)
LEMMA AdvanceStops ==
    ASSUME NEW row \in Rows, Proper(row), row.live, row.status = "PENDING",
           NEW cycles, cycles \subseteq CycleDates
    PROVE  LET next == Advance(row, cycles) IN
             /\ next \in Rows /\ Proper(next) /\ next.live
             /\ next.status # "PENDING" \/ next.due \notin cycles
  <1> DEFINE next == Advance(row, cycles)
             n == FirstUnpaid(row, cycles)
  <1>1. CASE row.monthly
    <2>1. next = AdvanceRecurrence(row, n)
      BY <1>1 DEF Advance
    <2>2. /\ n \in Nat /\ (row.limit = Unlimited \/ n <= row.limit)
          /\ \/ n = MaxMonth \/ CycleAfter(row, n) \notin cycles
             \/ row.limit # Unlimited /\ row.limit <= n
      BY FirstUnpaidStops, DatesAssumption
    <2> HIDE DEF n
    <2>3. /\ next \in Rows /\ Proper(next) /\ next.live
          /\ next.due = CycleAfter(row, n)
      BY <2>1, <2>2, AdvanceRecurrenceRow DEF CycleAfter
    <2>4. n = MaxMonth => CycleAfter(row, n) \notin cycles
      BY <2>2, DatesAssumption DEF CycleDates, Months, CycleAfter, Proper, Rows
    <2>5. row.limit # Unlimited /\ row.limit <= n => next.status = "COMPLETED"
      <3>1. row.limit # 0
        BY DEF Proper
      <3>2. row.limit # Unlimited /\ row.limit <= n => n > 0
        BY <3>1, <2>2 DEF Rows
      <3>3. next.status = IF row.limit # Unlimited /\ n > 0 /\ row.limit <= n
                          THEN "COMPLETED" ELSE row.status
        BY <2>1 DEF AdvanceRecurrence, Rows
      <3>4. QED
        BY <3>2, <3>3
    <2>6. QED
      BY <2>2, <2>3, <2>4, <2>5
  <1>2. CASE ~row.monthly /\ row.due \in cycles
    BY <1>2 DEF Advance, Complete, Rows, Proper
  <1>3. CASE ~row.monthly /\ row.due \notin cycles
    BY <1>3 DEF Advance
  <1>4. QED
    BY <1>1, <1>2, <1>3

-----------------------------------------------------------------------------
(* Type correctness                                                        *)

PayStates ==
    [stage : {"read", "computed"}, date : CycleDates, row : Rows, seen : Nat,
     plan : Nat]

InFlight(q) == q.stage \in {"read", "computed"}

(* The rows at hand, and those that requests have computed, are proper.    *)
RowsProper ==
    /\ Proper(payable)
    /\ \A r \in Requests : req[r] # Idle =>
         Proper(req[r].row) /\ req[r].row.live
    /\ \A r \in Requests : req[r].stage = "read" =>
         req[r].row.status = "PENDING"

LEMMA StateCases ==
    ASSUME NEW q \in RequestStates
    PROVE  /\ q = Idle => q.stage = "idle"
           /\ q.stage = "idle" => q = Idle
           /\ InFlight(q) => q \in PayStates
           /\ q.stage = "saving" => q \in [stage : {"saving"}, row : Rows]
           /\ q # Idle => q.row \in Rows
  BY DEF RequestStates, PayStates, InFlight, Idle, CycleDates

LEMMA SavedRow ==
    ASSUME NEW form \in Requested, NEW status \in {"PENDING", "PAID"},
           NEW now \in Nat
    PROVE  LET row == Saved(form, status, now) IN
             /\ row \in Rows /\ Proper(row) /\ row.live
             /\ row.stamp = now /\ row.status = status
             /\ row.due[2] \in Months
  <1> DEFINE limit == NormalLimit(form.monthly, form.limit)
             row == Saved(form, status, now)
  <1>1. /\ form.due \in DueDays \X FirstMonths
        /\ form.limit \in Limits \cup {Unlimited}
    BY DEF Requested
  <1>2. /\ form.due \in Nat \X Nat /\ form.due[2] \in Months
        /\ form.due[2] > 0
    <2>1. PICK d \in DueDays, m \in FirstMonths : form.due = <<d, m>>
      BY <1>1
    <2>2. d \in Nat /\ m \in 1..MaxMonth /\ m \in Nat /\ m > 0
      BY DatesAssumption
    <2>3. QED
      BY <2>1, <2>2 DEF Months
  <1>3. limit \in Nat \cup {Unlimited} /\ limit # 0
    <2>1. limit = form.limit \/ limit = Unlimited
      BY DEF NormalLimit
    <2>2. \A x \in Limits \cup {Unlimited} :
            x \in Nat \cup {Unlimited} /\ x # 0
      BY LimitsAssumption DEF Unlimited
    <2>3. QED
      BY <1>1, <2>1, <2>2
  <1>4. form.monthly \in BOOLEAN
    BY DEF Requested
  <1> HIDE DEF limit
  <1>5. row = [due |-> form.due, monthly |-> form.monthly, limit |-> limit,
               status |-> status, stamp |-> now, live |-> TRUE]
    BY DEF Saved, limit
  <1> HIDE DEF row
  <1>6. row \in Rows
    BY <1>2, <1>3, <1>4, <1>5 DEF Rows
  <1>7. QED
    BY <1>2, <1>3, <1>5, <1>6 DEF Proper, row

LEMMA WrittenRow ==
    ASSUME NEW row \in Rows, Proper(row), payable \in Rows, Proper(payable)
    PROVE  Written(row) \in Rows /\ Proper(Written(row))
  BY DEF Written

LEMMA CycleIsDate == CycleDates \subseteq Dates
  BY DatesAssumption DEF CycleDates, Dates, Months

LEMMA Incremented ==
    ASSUME NEW S, NEW f \in [S -> Nat], NEW x \in S
    PROVE  [f EXCEPT ![x] = @ + 1] \in [S -> Nat]
  OBVIOUS

LEMMA InitTypes == Init => TypeOK /\ RowsProper
  <1> SUFFICES ASSUME Init PROVE TypeOK /\ RowsProper
    OBVIOUS
  <1>1. NoRow \in Rows /\ Proper(NoRow)
    BY DEF NoRow, Rows, Proper, Unlimited
  <1>2. \A r \in Requests : req[r] = Idle /\ req[r].stage # "read"
    BY DEF Init, Idle
  <1>3. req \in [Requests -> RequestStates]
    BY DEF Init, RequestStates
  <1>4. RowsProper
    BY <1>1, <1>2 DEF Init, RowsProper
  <1>5. raced \in BOOLEAN /\ overwritten \in BOOLEAN
    BY Zenon DEF Init
  <1>6. spent \in [Dates -> Nat] /\ paid \subseteq DueDays \X Months
    BY DEF Init
  <1>7. /\ clock \in Nat /\ edits \in 0..MaxEdits /\ pays \in 0..MaxPays
        /\ refunded \subseteq Dates
    BY PayablesBounds DEF Init
  <1>8. payable \in Rows /\ plan \in Rows
    BY <1>1 DEF Init
  <1>9. QED
    BY <1>3, <1>4, <1>5, <1>6, <1>7, <1>8 DEF TypeOK

LEMMA TypesKept ==
    ASSUME TypeOK, RowsProper, [Next]_vars
    PROVE  TypeOK' /\ RowsProper'
  <1> USE DEF TypeOK, RowsProper, boundVars, rowVars, historyVars
  <1>1. CASE CreatePayable
    <2>1. PICK form \in Requested :
            payable' = New(form, clock') /\ plan' = payable'
      BY <1>1 DEF CreatePayable
    <2>2. clock' \in Nat
      BY <1>1 DEF CreatePayable, Tick
    <2>3. payable' \in Rows /\ Proper(payable')
      BY <2>1, <2>2, SavedRow DEF New
    <2>4. QED
      BY <1>1, <2>1, <2>2, <2>3 DEF CreatePayable
  <1>2. ASSUME NEW r \in Requests, BeginPay(r)
        PROVE  TypeOK' /\ RowsProper'
    <2>1. PICK date \in CycleDates :
            req' = [req EXCEPT ![r] =
              [stage |-> "read", date |-> date, row |-> Loaded(clock'),
               seen |-> payable.stamp, plan |-> plan.stamp]]
      BY <1>2 DEF BeginPay, CycleDates
    <2>2. clock' \in Nat /\ pays' \in 0..MaxPays /\ pays' \in Nat
      BY <1>2, PayablesBounds DEF BeginPay, Tick
    <2>3. /\ Loaded(clock') \in Rows /\ Proper(Loaded(clock'))
          /\ Loaded(clock').live /\ Loaded(clock').status = "PENDING"
      BY <1>2, <2>2 DEF BeginPay, Authorized, Loaded, Rows, Proper
    <2>4. payable.stamp \in Nat /\ plan.stamp \in Nat
      BY DEF Rows
    <2>5. req'[r] \in RequestStates /\ req' \in [Requests -> RequestStates]
      BY <2>1, <2>3, <2>4 DEF RequestStates, CycleDates
    <2>6. RowsProper'
      BY <1>2, <2>1, <2>3 DEF BeginPay
    <2>7. QED
      BY <1>2, <2>2, <2>5, <2>6 DEF BeginPay
  <1>3. ASSUME NEW r \in Requests, ReadPaidCycles(r)
        PROVE  TypeOK' /\ RowsProper'
    <2> DEFINE q == req[r]
               next == Advance(q.row, PaidCycles \cup {q.date})
               row == IF next = q.row THEN q.row
                      ELSE [next EXCEPT !.stamp = clock']
    <2>1. q \in PayStates /\ q # Idle /\ q.stage = "read"
      BY <1>3, StateCases DEF ReadPaidCycles, InFlight
    <2>2. next \in Rows /\ Proper(next) /\ next.live
      BY <2>1, AdvanceStops DEF PaidCycles, CycleDates, PayStates
    <2>3. clock' \in Nat
      BY <1>3 DEF ReadPaidCycles, Tick
    <2> HIDE DEF next
    <2>4. row \in Rows /\ Proper(row) /\ row.live
      BY <2>2, <2>3 DEF Rows, Proper
    <2>5. req' = [req EXCEPT ![r] =
                    [q EXCEPT !.stage = "computed", !.row = row]]
      BY <1>3 DEF ReadPaidCycles, next
    <2> HIDE DEF row
    <2>6. /\ [q EXCEPT !.stage = "computed", !.row = row] \in RequestStates
          /\ [q EXCEPT !.stage = "computed", !.row = row].row = row
          /\ [q EXCEPT !.stage = "computed", !.row = row].stage = "computed"
      BY <2>1, <2>4 DEF PayStates, RequestStates, CycleDates
    <2>7. QED
      BY <1>3, <2>3, <2>4, <2>5, <2>6 DEF ReadPaidCycles
  <1>4. ASSUME NEW r \in Requests, CommitPay(r)
        PROVE  TypeOK' /\ RowsProper'
    <2>1. req[r] \in PayStates /\ req[r] # Idle
      BY <1>4, StateCases DEF CommitPay, InFlight
    <2>2. payable' \in Rows /\ Proper(payable')
      BY <1>4, <2>1, WrittenRow
         DEF CommitPay, CreatePaymentCycleAndUpdate, PayStates
    <2>3. paid' \subseteq CycleDates /\ spent' \in [Dates -> Nat]
      <3>1. req[r].date \in CycleDates
        BY <2>1 DEF PayStates
      <3>2. /\ paid' = paid \cup {req[r].date}
            /\ spent' = [spent EXCEPT ![req[r].date] = @ + 1]
        BY <1>4 DEF CommitPay, CreatePaymentCycleAndUpdate
      <3>3. spent \in [Dates -> Nat] /\ paid \subseteq CycleDates
        BY DEF CycleDates
      <3> HIDE DEF TypeOK, RowsProper
      <3>4. paid' \subseteq CycleDates
        BY <3>1, <3>2, <3>3, Zenon
      <3>5. spent' \in [Dates -> Nat]
        BY <3>1, <3>2, <3>3, CycleIsDate, Incremented
      <3>6. QED
        BY <3>4, <3>5
    <2>4. raced' \in BOOLEAN /\ overwritten' \in BOOLEAN
      <3>1. /\ raced' = (raced \/ payable.stamp # req[r].seen)
            /\ overwritten' =
                 (overwritten \/ (Updates(req[r].row.stamp)
                                   /\ req[r].plan # plan.stamp))
        BY <1>4 DEF CommitPay
      <3>2. QED
        BY <3>1, Zenon
    <2>5. req' = [req EXCEPT ![r] = Idle] /\ Idle \in RequestStates
      BY <1>4 DEF CommitPay, RequestStates
    <2>6. Idle.stage # "read"
      BY DEF Idle
    <2>7. QED
      BY <1>4, <2>2, <2>3, <2>4, <2>5, <2>6 DEF CommitPay, CycleDates
  <1>5. ASSUME NEW r \in Requests, GiveUp(r)
        PROVE  TypeOK' /\ RowsProper'
    BY <1>5 DEF GiveUp, Idle, RequestStates
  <1>6. ASSUME NEW r \in Requests, NEW status \in {"PENDING", "PAID"},
               Edit(r, status)
        PROVE  TypeOK' /\ RowsProper'
    <2>1. PICK form \in Requested :
            req' = [req EXCEPT ![r] =
              [stage |-> "saving", row |-> Saved(form, status, clock')]]
      BY <1>6 DEF Edit
    <2>2. clock' \in Nat /\ edits' \in 0..MaxEdits
      BY <1>6, PayablesBounds DEF Edit, Tick
    <2>3. /\ Saved(form, status, clock') \in Rows
          /\ Proper(Saved(form, status, clock'))
          /\ Saved(form, status, clock').live
      BY <2>2, SavedRow
    <2>4. req' \in [Requests -> RequestStates]
      BY <2>1, <2>3 DEF RequestStates
    <2>5. RowsProper'
      BY <1>6, <2>1, <2>3 DEF Edit
    <2>6. QED
      BY <1>6, <2>2, <2>4, <2>5 DEF Edit
  <1>7. ASSUME NEW r \in Requests, CommitUpdate(r)
        PROVE  TypeOK' /\ RowsProper'
    <2>1. req[r] # Idle /\ req[r].row \in Rows
      BY <1>7, StateCases DEF CommitUpdate
    <2>2. payable' \in Rows /\ Proper(payable')
      BY <1>7, <2>1, WrittenRow DEF CommitUpdate
    <2>3. plan' \in Rows /\ raced' \in BOOLEAN /\ overwritten' \in BOOLEAN
      BY <1>7, <2>1 DEF CommitUpdate
    <2>4. req' = [req EXCEPT ![r] = Idle] /\ Idle \in RequestStates
      BY <1>7 DEF CommitUpdate, RequestStates
    <2>5. QED
      BY <1>7, <2>2, <2>3, <2>4 DEF CommitUpdate, Idle
  <1>8. CASE DeletePayable
    <2>1. payable' = [payable EXCEPT !.live = FALSE, !.stamp = clock']
      BY <1>8 DEF DeletePayable
    <2>2. clock' \in Nat
      BY <1>8 DEF DeletePayable, Tick
    <2>3. payable' \in Rows /\ Proper(payable')
      BY <2>1, <2>2 DEF Rows, Proper
    <2>4. QED
      BY <1>8, <2>2, <2>3 DEF DeletePayable
  <1>9. CASE DeletePayment
    <2>1. PICK date \in Dates :
            /\ spent[date] > 0
            /\ spent' = [spent EXCEPT ![date] = @ - 1]
            /\ refunded' = refunded \cup {date}
      BY <1>9 DEF DeletePayment
    <2>2. spent' \in [Dates -> Nat]
      BY <2>1
    <2>3. QED
      BY <1>9, <2>1, <2>2 DEF DeletePayment
  <1>10. CASE UNCHANGED vars
    BY <1>10 DEF vars
  <1>11. QED
    BY <1>1, <1>2, <1>3, <1>4, <1>5, <1>6, <1>7, <1>8, <1>9, <1>10
       DEF Next, PaySteps, EditSteps, BeginUpdateAccountPayable,
           BeginUpdateTransaction

(* Types: the values of every variable, for any bounds.                    *)
THEOREM TypeCorrect == Spec => []TypeOK
  <1>1. TypeOK /\ RowsProper /\ [Next]_vars => (TypeOK /\ RowsProper)'
    BY TypesKept
  <1>2. QED
    BY <1>1, InitTypes, PTL DEF Spec

-----------------------------------------------------------------------------
(* One payment of a cycle                                                  *)

LEMMA SettledOnceKept ==
    ASSUME TypeOK, SettledOnce, [Next]_vars
    PROVE  SettledOnce'
  <1> USE DEF SettledOnce, boundVars, rowVars, historyVars
  <1>1. ASSUME NEW r \in Requests, CommitPay(r)
        PROVE  SettledOnce'
    <2> DEFINE date == req[r].date
    <2>1. /\ date \notin paid /\ paid' = paid \cup {date}
          /\ spent' = [spent EXCEPT ![date] = @ + 1]
          /\ refunded' = refunded
      BY <1>1 DEF CommitPay, IsPaid, CreatePaymentCycleAndUpdate
    <2>2. spent \in [Dates -> Nat]
      BY DEF TypeOK
    <2> HIDE DEF date
    <2>3. ASSUME NEW d \in Dates
          PROVE  /\ spent'[d] <= 1
                 /\ spent'[d] = 1 => d \in paid'
                 /\ d \in paid' => spent'[d] = 1 \/ d \in refunded'
      <3>1. CASE d = date
        <4>1. spent[d] = 0 /\ spent'[d] = 1
          BY <2>1, <2>2, <3>1
        <4>2. QED
          BY <4>1, <2>1, <3>1
      <3>2. CASE d # date
        BY <2>1, <2>2, <3>2
      <3>3. QED
        BY <3>1, <3>2
    <2>4. QED
      BY <2>3
  <1>2. CASE DeletePayment
    <2>1. PICK date \in Dates :
            /\ spent[date] > 0
            /\ spent' = [spent EXCEPT ![date] = @ - 1]
            /\ refunded' = refunded \cup {date}
      BY <1>2 DEF DeletePayment
    <2>2. spent \in [Dates -> Nat] /\ paid' = paid
      BY <1>2 DEF TypeOK, DeletePayment
    <2>3. QED
      BY <2>1, <2>2
  <1>3. CASE UNCHANGED <<paid, spent, refunded>>
    BY <1>3
  <1>4. QED
    BY <1>1, <1>2, <1>3
       DEF Next, vars, PaySteps, EditSteps, CreatePayable, DeletePayable,
           BeginPay, ReadPaidCycles, GiveUp, CommitUpdate, Edit,
           BeginUpdateAccountPayable, BeginUpdateTransaction

(* However many requests pay at a time, a cycle has one payment, and a     *)
(* paid cycle has it unless its user deleted it (PayAccountPayable).       *)
THEOREM CyclesSettledOnce == Spec => []SettledOnce
  <1>1. Init => SettledOnce
    BY DEF Init, SettledOnce
  <1>2. TypeOK /\ SettledOnce /\ [Next]_vars => SettledOnce'
    BY SettledOnceKept
  <1>3. QED
    BY <1>1, <1>2, TypeCorrect, PTL DEF Spec

-----------------------------------------------------------------------------
(* What the list shows can be paid                                         *)

LEMMA ListedDate ==
    ASSUME TypeOK, NEW today, NEW d \in GetPayables(today)
    PROVE  /\ d = payable.due \/ /\ payable.monthly /\ d[1] = payable.due[1]
                                 /\ payable.due[2] <= d[2]
           /\ d \in Nat \X Nat /\ d \notin paid
  <1>1. d \in Scheduled(payable) /\ d \notin paid
    BY DEF GetPayables, Listed
  <1>2. payable.due \in Nat \X Nat
    BY DEF TypeOK, Rows
  <1>3. CASE ~payable.monthly
    BY <1>1, <1>2, <1>3 DEF Scheduled
  <1>4. CASE payable.monthly
    <2>1. d \in {payable.due[1]} \X Months /\ d[2] >= payable.due[2]
      BY <1>1, <1>4 DEF Scheduled
    <2>2. Months \subseteq Nat
      BY DatesAssumption DEF Months
    <2>3. QED
      BY <1>1, <1>2, <1>4, <2>1, <2>2
  <1>5. QED
    BY <1>3, <1>4

LEMMA ListedPayable == TypeOK => ListedCanBePaid
  <1> SUFFICES ASSUME TypeOK, NEW today \in Months, NEW shift \in Shifts,
                      NEW d \in GetPayables(today)
               PROVE  /\ IsValidCycle(payable, Shown(d, shift)) <=> shift = 0
                      /\ d \notin paid
    BY DEF ListedCanBePaid
  <1>1. /\ d = payable.due \/ /\ payable.monthly /\ d[1] = payable.due[1]
                              /\ payable.due[2] <= d[2]
        /\ d \in Nat \X Nat /\ d \notin paid
    BY ListedDate
  <1>2. shift \in Nat /\ payable.due \in Nat \X Nat
    BY PayablesBounds DEF TypeOK, Rows
  <1>3. PICK dayNumber \in Nat, month \in Nat : d = <<dayNumber, month>>
    BY <1>1
  <1>4. PICK first \in Nat, due \in Nat : payable.due = <<first, due>>
    BY <1>2
  <1>5. first = dayNumber /\ due <= month /\ (due = month \/ payable.monthly)
    BY <1>1, <1>3, <1>4
  <1>6. Shown(d, shift) = <<dayNumber - shift, month>>
    BY <1>3 DEF Shown
  <1>7. IsValidCycle(payable, Shown(d, shift)) <=>
          \/ dayNumber - shift = first /\ month = due
          \/ payable.monthly /\ dayNumber - shift = first /\ month > due
    BY <1>4, <1>6 DEF IsValidCycle
  <1>8. dayNumber - shift = first <=> shift = 0
    BY <1>2, <1>5
  <1>9. QED
    BY <1>1, <1>5, <1>7, <1>8

(* What the list shows is unpaid, and can be paid as it is shown exactly   *)
(* where the shown date is the stored one.                                 *)
THEOREM ListsWhatCanBePaid == Spec => []ListedCanBePaid
  BY ListedPayable, TypeCorrect, PTL

-----------------------------------------------------------------------------
(* Stamps                                                                  *)

(* Stamps tell requests apart: a row that changed since a request read it  *)
(* has a younger stamp than the one the request saw, and what a request    *)
(* will write has a younger one still.                                     *)
StampedRequest(q, row, saved, now, count) ==
    /\ InFlight(q) => /\ 0 < q.seen /\ q.seen <= row /\ q.plan <= saved
                      /\ q.seen < q.row.stamp /\ q.row.stamp <= now
    /\ q.stage = "saving" => count > 0 /\ q.row.stamp <= now

Stamped ==
    /\ plan.stamp <= payable.stamp /\ payable.stamp <= clock
    /\ payable.live => payable.stamp > 0
    /\ payable.stamp = 0 => paid = {}
    /\ \A r \in Requests :
         StampedRequest(req[r], payable.stamp, plan.stamp, clock, edits)

LEMMA StampedLater ==
    ASSUME NEW q \in RequestStates,
           NEW row \in Nat, NEW saved \in Nat, NEW now \in Nat,
           NEW count \in Nat, StampedRequest(q, row, saved, now, count),
           NEW row2 \in Nat, NEW saved2 \in Nat, NEW now2 \in Nat,
           NEW count2 \in Nat, row <= row2, saved <= saved2, now <= now2,
           count <= count2
    PROVE  StampedRequest(q, row2, saved2, now2, count2)
  <1>1. /\ InFlight(q) => q.seen \in Nat /\ q.plan \in Nat
        /\ q # Idle => q.row.stamp \in Nat
        /\ q = Idle => ~InFlight(q) /\ q.stage # "saving"
    BY StateCases DEF PayStates, Rows, InFlight
  <1>2. QED
    BY <1>1 DEF StampedRequest

LEMMA IdleStamped ==
    ASSUME NEW row, NEW saved, NEW now, NEW count
    PROVE  StampedRequest(Idle, row, saved, now, count)
  BY DEF StampedRequest, Idle, InFlight

LEMMA InitStamped == Init => Stamped
  BY IdleStamped DEF Init, Stamped, NoRow

(* A step in which stamps only grow ...                                    *)
StampsGrow ==
    /\ payable.stamp <= payable'.stamp /\ plan.stamp <= plan'.stamp
    /\ clock <= clock' /\ edits <= edits'
    /\ plan'.stamp <= payable'.stamp /\ payable'.stamp <= clock'
    /\ payable'.live => payable'.stamp > 0
    /\ payable'.stamp = 0 => paid' = {}

(* ... and what a request holds of them, after it.                         *)
StampedNext(q) ==
    StampedRequest(q, payable'.stamp, plan'.stamp, clock', edits')

LEMMA StampedStep ==
    ASSUME TypeOK, TypeOK', Stamped, StampsGrow,
           \A r \in Requests : req'[r] = req[r] \/ StampedNext(req'[r])
    PROVE  Stamped'
  <1>1. /\ payable.stamp \in Nat /\ plan.stamp \in Nat /\ clock \in Nat
        /\ payable'.stamp \in Nat /\ plan'.stamp \in Nat /\ clock' \in Nat
        /\ edits \in Nat /\ edits' \in Nat
        /\ req \in [Requests -> RequestStates]
    BY PayablesBounds DEF TypeOK, Rows
  <1>2. ASSUME NEW x \in Requests
        PROVE  StampedNext(req'[x])
    <2>1. CASE req'[x] = req[x]
      <3>1. StampedRequest(req[x], payable.stamp, plan.stamp, clock, edits)
        BY DEF Stamped
      <3>2. req[x] \in RequestStates
        BY <1>1
      <3>3. StampedNext(req[x])
        BY <1>1, <3>1, <3>2, StampedLater DEF StampsGrow, StampedNext
      <3>4. QED
        BY <2>1, <3>3
    <2>2. QED
      BY <2>1
  <1>3. QED
    BY <1>2 DEF Stamped, StampsGrow, StampedNext

LEMMA ReplaceRequest ==
    ASSUME TypeOK, NEW r \in Requests, NEW q, req' = [req EXCEPT ![r] = q],
           StampedNext(q)
    PROVE  \A x \in Requests : req'[x] = req[x] \/ StampedNext(req'[x])
  BY DEF TypeOK

LEMMA StampedKept ==
    ASSUME TypeOK, RowsProper, Stamped, [Next]_vars
    PROVE  Stamped'
  <1> USE DEF boundVars, rowVars, historyVars
  <1>a. TypeOK'
    BY TypesKept
  <1>0. /\ payable \in Rows /\ plan \in Rows /\ clock \in Nat /\ edits \in Nat
        /\ payable.stamp \in Nat /\ plan.stamp \in Nat
        /\ plan.stamp <= payable.stamp /\ payable.stamp <= clock
        /\ payable.live => payable.stamp > 0
        /\ payable.stamp = 0 => paid = {}
        /\ \A r \in Requests :
             /\ req[r] \in RequestStates
             /\ StampedRequest(req[r], payable.stamp, plan.stamp, clock, edits)
    BY PayablesBounds DEF TypeOK, Rows, Stamped
  <1>b. \A r \in Requests :
             /\ InFlight(req[r]) => req[r].seen \in Nat /\ req[r].plan \in Nat
             /\ req[r] # Idle => req[r].row \in Rows /\ req[r].row.stamp \in Nat
    BY <1>0, StateCases DEF Rows, PayStates
  <1>1. CASE CreatePayable
    <2>1. PICK form \in Requested :
            payable' = New(form, clock') /\ plan' = payable'
      BY <1>1 DEF CreatePayable
    <2>2. /\ clock' = clock + 1 /\ payable.stamp = 0
          /\ UNCHANGED <<paid, req, edits>>
      BY <1>1 DEF CreatePayable, Tick, NoRow
    <2>3. payable'.stamp = clock'
      BY <1>0, <2>1, <2>2, SavedRow DEF New
    <2>4. StampsGrow
      BY <1>0, <2>1, <2>2, <2>3 DEF StampsGrow
    <2>5. QED
      BY <1>a, <2>2, <2>4, StampedStep
  <1>2. ASSUME NEW r \in Requests, BeginPay(r)
        PROVE  Stamped'
    <2>1. PICK date \in CycleDates :
            req' = [req EXCEPT ![r] =
              [stage |-> "read", date |-> date, row |-> Loaded(clock'),
               seen |-> payable.stamp, plan |-> plan.stamp]]
      BY <1>2 DEF BeginPay, CycleDates
    <2>2. /\ clock' = clock + 1 /\ UNCHANGED <<payable, plan, paid, edits>>
          /\ payable.live
      BY <1>2 DEF BeginPay, Tick, Authorized
    <2>3. Loaded(clock').stamp = clock'
      BY <1>0 DEF Loaded, Rows
    <2> DEFINE q == [stage |-> "read", date |-> date, row |-> Loaded(clock'),
                     seen |-> payable.stamp, plan |-> plan.stamp]
    <2>4. StampedNext(q)
      BY <1>0, <2>2, <2>3 DEF StampedRequest, StampedNext
    <2> HIDE DEF q
    <2>5. req' = [req EXCEPT ![r] = q]
      BY <2>1 DEF q
    <2>6. StampsGrow
      BY <1>0, <2>2 DEF StampsGrow
    <2>7. \A x \in Requests : req'[x] = req[x] \/ StampedNext(req'[x])
      BY <2>4, <2>5, ReplaceRequest
    <2>8. QED
      BY <1>a, <2>6, <2>7, StampedStep
  <1>3. ASSUME NEW r \in Requests, ReadPaidCycles(r)
        PROVE  Stamped'
    <2> DEFINE q == req[r]
               next == Advance(q.row, PaidCycles \cup {q.date})
               row == IF next = q.row THEN q.row
                      ELSE [next EXCEPT !.stamp = clock']
               new == [q EXCEPT !.stage = "computed", !.row = row]
    <2>1. q \in PayStates /\ q # Idle /\ q.stage = "read" /\ InFlight(q)
      BY <1>0, <1>3, StateCases DEF ReadPaidCycles, InFlight
    <2>2. next \in Rows
      BY <2>1, AdvanceStops
         DEF PaidCycles, CycleDates, PayStates, RowsProper, TypeOK
    <2>3. /\ UNCHANGED <<payable, plan, paid, edits>>
          /\ clock' = IF next = q.row THEN clock ELSE clock + 1
      BY <1>3 DEF ReadPaidCycles, Tick
    <2> HIDE DEF next
    <2>4. row.stamp = IF next = q.row THEN q.row.stamp ELSE clock'
      BY <2>2 DEF Rows
    <2>5. req' = [req EXCEPT ![r] = new]
      BY <1>3 DEF ReadPaidCycles, next
    <2> HIDE DEF row
    <2>6. /\ new.row = row /\ new.seen = q.seen
          /\ new.plan = q.plan /\ new.stage = "computed"
      BY <2>1 DEF PayStates
    <2>7. /\ 0 < q.seen /\ q.seen <= payable.stamp /\ q.plan <= plan.stamp
          /\ q.seen < row.stamp /\ row.stamp <= clock' /\ clock <= clock'
      BY <1>0, <1>b, <2>1, <2>3, <2>4 DEF StampedRequest
    <2> HIDE DEF q, new
    <2>8. StampedNext(new)
      BY <2>3, <2>6, <2>7 DEF StampedRequest, StampedNext
    <2>9. StampsGrow
      BY <1>0, <2>3, <2>7 DEF StampsGrow
    <2>10. \A x \in Requests : req'[x] = req[x] \/ StampedNext(req'[x])
      BY <2>5, <2>8, ReplaceRequest
    <2>11. QED
      BY <1>a, <2>9, <2>10, StampedStep
  <1>4. ASSUME NEW r \in Requests, CommitPay(r)
        PROVE  Stamped'
    <2>1. /\ InFlight(req[r]) /\ req[r] # Idle
          /\ payable' = Written(req[r].row)
          /\ UNCHANGED <<plan, clock, edits>>
          /\ req' = [req EXCEPT ![r] = Idle]
      BY <1>4, StateCases
         DEF CommitPay, CreatePaymentCycleAndUpdate, InFlight, Idle
    <2>2. /\ payable.stamp <= payable'.stamp /\ payable'.stamp <= clock
          /\ payable'.stamp \in Nat /\ 0 < payable'.stamp
      BY <1>0, <1>b, <2>1 DEF Written, Updates, StampedRequest
    <2>3. StampsGrow
      BY <1>0, <2>1, <2>2 DEF StampsGrow
    <2>4. \A x \in Requests : req'[x] = req[x] \/ StampedNext(req'[x])
      BY <2>1, IdleStamped, ReplaceRequest DEF StampedNext
    <2>5. QED
      BY <1>a, <2>3, <2>4, StampedStep
  <1>5. ASSUME NEW r \in Requests, GiveUp(r)
        PROVE  Stamped'
    <2>1. /\ UNCHANGED <<payable, plan, paid, clock, edits>>
          /\ req' = [req EXCEPT ![r] = Idle]
      BY <1>5 DEF GiveUp
    <2>2. StampsGrow
      BY <1>0, <2>1 DEF StampsGrow
    <2>3. \A x \in Requests : req'[x] = req[x] \/ StampedNext(req'[x])
      BY <2>1, IdleStamped, ReplaceRequest DEF StampedNext
    <2>4. QED
      BY <1>a, <2>2, <2>3, StampedStep
  <1>6. ASSUME NEW r \in Requests, NEW status \in {"PENDING", "PAID"},
               Edit(r, status)
        PROVE  Stamped'
    <2>1. PICK form \in Requested :
            req' = [req EXCEPT ![r] =
              [stage |-> "saving", row |-> Saved(form, status, clock')]]
      BY <1>6 DEF Edit
    <2>2. /\ clock' = clock + 1 /\ edits' = edits + 1
          /\ UNCHANGED <<payable, plan, paid>>
      BY <1>6 DEF Edit, Tick
    <2>3. Saved(form, status, clock').stamp = clock'
      BY <1>0, <2>2, SavedRow
    <2> DEFINE q == [stage |-> "saving", row |-> Saved(form, status, clock')]
    <2>4. StampedNext(q)
      BY <1>0, <2>2, <2>3 DEF StampedRequest, StampedNext, InFlight
    <2> HIDE DEF q
    <2>5. req' = [req EXCEPT ![r] = q]
      BY <2>1 DEF q
    <2>6. StampsGrow
      BY <1>0, <2>2 DEF StampsGrow
    <2>7. \A x \in Requests : req'[x] = req[x] \/ StampedNext(req'[x])
      BY <2>4, <2>5, ReplaceRequest
    <2>8. QED
      BY <1>a, <2>6, <2>7, StampedStep
  <1>7. ASSUME NEW r \in Requests, CommitUpdate(r)
        PROVE  Stamped'
    <2>1. /\ req[r] # Idle /\ req[r].stage = "saving"
          /\ payable' = Written(req[r].row)
          /\ plan' = IF Updates(req[r].row.stamp) THEN req[r].row ELSE plan
          /\ UNCHANGED <<paid, clock, edits>>
          /\ req' = [req EXCEPT ![r] = Idle]
      BY <1>7 DEF CommitUpdate, Idle
    <2>2. /\ payable.stamp <= payable'.stamp /\ payable'.stamp <= clock
          /\ plan.stamp <= plan'.stamp /\ plan'.stamp <= payable'.stamp
          /\ payable'.live => payable'.stamp > 0
          /\ payable'.stamp = 0 => payable.stamp = 0
      BY <1>0, <1>b, <2>1 DEF Written, Updates, StampedRequest
    <2>3. StampsGrow
      BY <1>0, <2>1, <2>2 DEF StampsGrow
    <2>4. \A x \in Requests : req'[x] = req[x] \/ StampedNext(req'[x])
      BY <2>1, IdleStamped, ReplaceRequest DEF StampedNext
    <2>5. QED
      BY <1>a, <2>3, <2>4, StampedStep
  <1>8. CASE DeletePayable
    <2>1. /\ payable' = [payable EXCEPT !.live = FALSE, !.stamp = clock']
          /\ clock' = clock + 1 /\ UNCHANGED <<plan, paid, req, edits>>
      BY <1>8 DEF DeletePayable, Tick
    <2>2. payable'.stamp = clock' /\ payable'.live = FALSE
      BY <1>0, <2>1 DEF Rows
    <2>3. StampsGrow
      BY <1>0, <2>1, <2>2 DEF StampsGrow
    <2>4. QED
      BY <1>a, <2>1, <2>3, StampedStep
  <1>9. CASE DeletePayment
    BY <1>9 DEF DeletePayment, Stamped
  <1>10. CASE UNCHANGED vars
    BY <1>10 DEF vars, Stamped
  <1>11. QED
    BY <1>1, <1>2, <1>3, <1>4, <1>5, <1>6, <1>7, <1>8, <1>9, <1>10
       DEF Next, PaySteps, EditSteps, BeginUpdateAccountPayable,
           BeginUpdateTransaction

-----------------------------------------------------------------------------
(* Waiting at a paid cycle                                                 *)

(* What a payment has computed does not wait at a paid cycle ...           *)
Stopped(q) == q.row.status # "PENDING" \/ q.row.due \notin paid \cup {q.date}

(* ... and this stays so while the row it read is the one in the table:    *)
(* another payment would have replaced it, or lost to it, a race.          *)
NoneWaits ==
    /\ StuckOnlyAfterRace
    /\ ~raced /\ payable.live =>
         \A r \in Requests :
            req[r].stage = "computed" /\ req[r].seen = payable.stamp =>
                Stopped(req[r])

LEMMA NoneWaitsKept ==
    ASSUME TypeOK, RowsProper, Stamped, NoneWaits, [Next]_vars
    PROVE  NoneWaits'
  <1> USE DEF boundVars, rowVars, historyVars
  <1>0. /\ payable \in Rows /\ payable.stamp \in Nat /\ clock \in Nat
        /\ payable.stamp <= clock /\ edits \in Nat
        /\ payable.stamp = 0 => paid = {}
        /\ req \in [Requests -> RequestStates]
        /\ \A r \in Requests : req[r].stage = "computed" =>
             /\ req[r] \in PayStates /\ req[r].seen \in Nat
             /\ req[r].row \in Rows /\ req[r].row.stamp \in Nat
             /\ req[r].seen <= payable.stamp /\ req[r].seen < req[r].row.stamp
    BY StateCases, PayablesBounds
       DEF TypeOK, Rows, Stamped, StampedRequest, InFlight, PayStates
  <1>1. CASE CreatePayable
    <2>1. PICK form \in Requested :
            payable' = New(form, clock') /\ plan' = payable'
      BY <1>1 DEF CreatePayable
    <2>2. /\ clock' = clock + 1 /\ payable.stamp = 0
          /\ UNCHANGED <<paid, req, edits, raced>>
      BY <1>1 DEF CreatePayable, Tick, NoRow
    <2>3. payable'.stamp = clock'
      BY <1>0, <2>1, <2>2, SavedRow DEF New
    <2>4. paid' = {}
      BY <1>0, <2>2
    <2>5. \A r \in Requests :
            req'[r].stage = "computed" => req'[r].seen # payable'.stamp
      BY <1>0, <2>2, <2>3
    <2>6. QED
      BY <2>4, <2>5 DEF NoneWaits, StuckOnlyAfterRace
  <1>2. ASSUME NEW r \in Requests, BeginPay(r)
        PROVE  NoneWaits'
    <2>1. /\ UNCHANGED <<payable, plan, paid, edits, raced>>
          /\ \A x \in Requests :
               req'[x] = req[x] \/ req'[x].stage = "read"
      BY <1>0, <1>2 DEF BeginPay
    <2>2. QED
      BY <2>1 DEF NoneWaits, StuckOnlyAfterRace, Stopped
  <1>3. ASSUME NEW r \in Requests, ReadPaidCycles(r)
        PROVE  NoneWaits'
    <2> DEFINE q == req[r]
               next == Advance(q.row, PaidCycles \cup {q.date})
               row == IF next = q.row THEN q.row
                      ELSE [next EXCEPT !.stamp = clock']
               new == [q EXCEPT !.stage = "computed", !.row = row]
    <2>1. q \in PayStates /\ q # Idle /\ q.stage = "read"
      BY <1>0, <1>3, StateCases DEF ReadPaidCycles, InFlight
    <2>2. /\ next \in Rows
          /\ next.status # "PENDING" \/ next.due \notin paid \cup {q.date}
      BY <2>1, AdvanceStops
         DEF PaidCycles, CycleDates, PayStates, RowsProper, TypeOK
    <2> HIDE DEF next
    <2>3. row.status = next.status /\ row.due = next.due
      BY <2>2 DEF Rows
    <2>4. /\ req' = [req EXCEPT ![r] = new]
          /\ UNCHANGED <<payable, plan, paid, edits, raced>>
      BY <1>3 DEF ReadPaidCycles, next
    <2> HIDE DEF row
    <2>5. new.row = row /\ new.date = q.date
      BY <2>1 DEF PayStates
    <2> HIDE DEF q, new
    <2>6. \A x \in Requests :
            req'[x] = req[x] \/ /\ req'[x].row.status # "PENDING"
                                   \/ req'[x].row.due \notin
                                        paid \cup {req'[x].date}
      BY <1>0, <2>2, <2>3, <2>4, <2>5
    <2>7. QED
      BY <2>4, <2>6 DEF NoneWaits, StuckOnlyAfterRace, Stopped
  <1>4. ASSUME NEW r \in Requests, CommitPay(r)
        PROVE  NoneWaits'
    <2> DEFINE q == req[r]
    <2>1. /\ q.stage = "computed"
          /\ payable' = Written(q.row) /\ paid' = paid \cup {q.date}
          /\ ~raced' => ~raced /\ payable.stamp = q.seen
          /\ req' = [req EXCEPT ![r] = Idle]
          /\ UNCHANGED <<plan, edits>>
      BY <1>4 DEF CommitPay, CreatePaymentCycleAndUpdate
    <2>2. CASE raced' \/ ~payable.live
      <3>1. ~payable.live => payable' = payable
        BY <2>1 DEF Written, Updates
      <3>2. raced' \/ ~payable'.live
        BY <2>2, <3>1
      <3>3. QED
        BY <3>2 DEF NoneWaits, StuckOnlyAfterRace
    <2>3. CASE ~raced' /\ payable.live
      <3>1. payable' = q.row /\ Stopped(q)
        BY <1>0, <2>1, <2>3 DEF Written, Updates, NoneWaits
      <3>2. payable'.status = "PENDING" => payable'.due \notin paid'
        BY <2>1, <3>1 DEF Stopped
      <3>3. ASSUME NEW x \in Requests, req'[x].stage = "computed"
            PROVE  req'[x].seen # payable'.stamp
        <4>1. req'[x] = req[x]
          BY <1>0, <2>1, <3>3 DEF Idle
        <4>2. req[x].seen <= payable.stamp /\ payable.stamp < q.row.stamp
          BY <1>0, <2>1, <2>3, <3>3, <4>1
        <4>3. QED
          BY <1>0, <2>1, <3>1, <3>3, <4>1, <4>2
      <3>4. QED
        BY <3>2, <3>3 DEF NoneWaits, StuckOnlyAfterRace
    <2>4. QED
      BY <2>2, <2>3
  <1>5. ASSUME NEW r \in Requests, GiveUp(r)
        PROVE  NoneWaits'
    <2>1. /\ UNCHANGED <<payable, plan, paid, edits, raced>>
          /\ \A x \in Requests :
               req'[x] = req[x] \/ req'[x].stage = "idle"
      BY <1>0, <1>5 DEF GiveUp, Idle
    <2>2. QED
      BY <2>1 DEF NoneWaits, StuckOnlyAfterRace, Stopped
  <1>6. ASSUME NEW r \in Requests, NEW status \in {"PENDING", "PAID"},
               Edit(r, status)
        PROVE  NoneWaits'
    <2>1. /\ UNCHANGED <<payable, plan, paid, raced>>
          /\ edits' = edits + 1
          /\ \A x \in Requests :
               req'[x] = req[x] \/ req'[x].stage = "saving"
      BY <1>0, <1>6 DEF Edit
    <2>2. edits' > 0
      BY <1>0, <2>1
    <2>3. QED
      BY <2>1, <2>2 DEF NoneWaits, StuckOnlyAfterRace, Stopped
  <1>7. ASSUME NEW r \in Requests, CommitUpdate(r)
        PROVE  NoneWaits'
    <2> DEFINE row == req[r].row
    <2>1. /\ req[r].stage = "saving" /\ payable' = Written(row)
          /\ UNCHANGED <<paid, edits>>
          /\ req' = [req EXCEPT ![r] = Idle]
          /\ IF Updates(row.stamp) THEN plan' = row
             ELSE UNCHANGED <<plan, raced>>
      BY <1>7 DEF CommitUpdate
    <2>2. edits > 0 /\ row.stamp \in Nat
      BY <1>0, <2>1, StateCases DEF Stamped, StampedRequest, Rows, Idle
    <2>3. \A x \in Requests :
            req'[x].stage = "computed" => req'[x] = req[x]
      BY <1>0, <2>1 DEF Idle
    <2>4. CASE Updates(row.stamp)
      <3>1. payable' = row /\ plan' = row /\ payable.stamp < row.stamp
        BY <2>1, <2>4 DEF Written, Updates
      <3>2. \A x \in Requests :
              req'[x].stage = "computed" => req'[x].seen # payable'.stamp
        BY <1>0, <2>2, <2>3, <3>1
      <3>3. QED
        BY <2>1, <2>2, <3>1, <3>2 DEF NoneWaits, StuckOnlyAfterRace
    <2>5. CASE ~Updates(row.stamp)
      <3>1. UNCHANGED <<payable, plan, paid, edits, raced>>
        BY <2>1, <2>5 DEF Written
      <3>2. QED
        BY <2>3, <3>1 DEF NoneWaits, StuckOnlyAfterRace, Stopped
    <2>6. QED
      BY <2>4, <2>5
  <1>8. CASE DeletePayable
    <2>1. payable'.live = FALSE
      BY <1>0, <1>8 DEF DeletePayable, Rows
    <2>2. QED
      BY <2>1 DEF NoneWaits, StuckOnlyAfterRace
  <1>9. CASE DeletePayment
    BY <1>9 DEF DeletePayment, NoneWaits, StuckOnlyAfterRace, Stopped
  <1>10. CASE UNCHANGED vars
    BY <1>10 DEF vars, NoneWaits, StuckOnlyAfterRace, Stopped
  <1>11. QED
    BY <1>1, <1>2, <1>3, <1>4, <1>5, <1>6, <1>7, <1>8, <1>9, <1>10
       DEF Next, PaySteps, EditSteps, BeginUpdateAccountPayable,
           BeginUpdateTransaction

(* A payable waits at a cycle that is already paid only after two payments *)
(* at a time, or when its user set it back there                           *)
(* (advanceAccountPayableToFirstUnpaidCycle).                              *)
THEOREM WaitsOnlyAfterRace == Spec => []StuckOnlyAfterRace
  <1> DEFINE IInv == TypeOK /\ RowsProper /\ Stamped /\ NoneWaits
  <1>1. Init => IInv
    BY InitTypes, InitStamped
       DEF Init, NoneWaits, StuckOnlyAfterRace, NoRow
  <1>2. IInv /\ [Next]_vars => IInv'
    BY TypesKept, StampedKept, NoneWaitsKept
  <1>3. IInv => StuckOnlyAfterRace
    BY DEF NoneWaits
  <1>4. QED
    BY <1>1, <1>2, <1>3, PTL DEF Spec

-----------------------------------------------------------------------------
(* No cycle is passed over unpaid                                          *)

(* `row` is the payable `from` after some of its cycles, all of them paid. *)
Advanced(from, row, cycles) ==
    /\ row.monthly = from.monthly
    /\ row.status = "PENDING" \/ (row.status = "COMPLETED" /\ row.limit = 0)
    /\ row.limit = 0 => row.status = "COMPLETED"
    /\ from.monthly =>
         /\ row.due[1] = from.due[1] /\ from.due[2] <= row.due[2]
         /\ \A m \in Nat : from.due[2] <= m /\ m < row.due[2] =>
              <<from.due[1], m>> \in cycles
         /\ IF from.limit = Unlimited THEN row.limit = Unlimited
            ELSE /\ row.limit # Unlimited
                 /\ row.limit + row.due[2] = from.limit + from.due[2]
    /\ ~from.monthly =>
         /\ row.due = from.due
         /\ row.status = "COMPLETED" => row.due \in cycles

LEMMA AdvancedMore ==
    ASSUME NEW from, NEW row, NEW cycles, NEW more, cycles \subseteq more,
           Advanced(from, row, cycles)
    PROVE  Advanced(from, row, more)
  BY DEF Advanced

(* Going on to the first unpaid cycle passes paid ones only.               *)
LEMMA AdvanceAdvances ==
    ASSUME NEW from \in Rows, NEW row \in Rows, NEW cycles,
           row.status = "PENDING", Advanced(from, row, cycles)
    PROVE  Advanced(from, Advance(row, cycles), cycles)
  <1> DEFINE next == Advance(row, cycles)
             n == FirstUnpaid(row, cycles)
  <1>1. CASE from.monthly
    <2>1. next = AdvanceRecurrence(row, n)
      BY <1>1 DEF Advance, Advanced
    <2>2. /\ n \in Nat /\ (row.limit = Unlimited \/ n <= row.limit)
          /\ \A k \in 0..n - 1 : CycleAfter(row, k) \in cycles
      BY FirstUnpaidStops, DatesAssumption
    <2> HIDE DEF n
    <2> DEFINE limit == IF row.limit = Unlimited THEN Unlimited
                        ELSE row.limit - n
               status == IF row.limit # Unlimited /\ n > 0 /\ row.limit <= n
                         THEN "COMPLETED" ELSE row.status
    <2>4. /\ next.due = <<row.due[1], row.due[2] + n>>
          /\ next.limit = limit /\ next.status = status
          /\ next.monthly = row.monthly
      BY <2>1 DEF AdvanceRecurrence, Rows
    <2>5. /\ row.limit \in Nat \cup {Unlimited} /\ row.due \in Nat \X Nat
          /\ from.limit \in Nat \cup {Unlimited} /\ from.due \in Nat \X Nat
          /\ row.limit # 0
      BY DEF Rows, Advanced
    <2>6. \A m \in Nat : from.due[2] <= m /\ m < row.due[2] + n =>
            <<from.due[1], m>> \in cycles
      <3>1. SUFFICES ASSUME NEW m \in Nat, from.due[2] <= m,
                            m < row.due[2] + n, row.due[2] <= m
                     PROVE  <<from.due[1], m>> \in cycles
        BY <1>1, <2>5 DEF Advanced
      <3>2. m - row.due[2] \in 0..n - 1
        BY <2>2, <2>5, <3>1
      <3>3. CycleAfter(row, m - row.due[2]) = <<from.due[1], m>>
        BY <1>1, <2>5 DEF CycleAfter, Advanced
      <3>4. QED
        BY <2>2, <3>2, <3>3
    <2>7. status = "PENDING" \/ (status = "COMPLETED" /\ limit = 0)
      BY <2>2, <2>5 DEF Unlimited
    <2>8. limit = 0 => status = "COMPLETED"
      BY <2>2, <2>5 DEF Unlimited
    <2>9. IF from.limit = Unlimited THEN limit = Unlimited
          ELSE /\ limit # Unlimited
               /\ limit + (row.due[2] + n) = from.limit + from.due[2]
      BY <1>1, <2>2, <2>5 DEF Advanced, Unlimited
    <2>10. row.due[1] = from.due[1] /\ from.due[2] <= row.due[2] + n
      BY <1>1, <2>2, <2>5 DEF Advanced
    <2> HIDE DEF limit, status, next
    <2>11. next.monthly = from.monthly
      BY <2>4 DEF Advanced
    <2>12. Advanced(from, next, cycles)
      BY <1>1, <2>4, <2>6, <2>7, <2>8, <2>9, <2>10, <2>11 DEF Advanced
    <2>13. QED
      BY <2>12 DEF next
  <1>2. CASE ~from.monthly /\ row.due \in cycles
    <2>1. next = [row EXCEPT !.status = "COMPLETED", !.limit = 0]
      BY <1>2 DEF Advance, Advanced, Complete
    <2>2. /\ next.status = "COMPLETED" /\ next.limit = 0
          /\ next.due = row.due /\ next.monthly = row.monthly
      BY <2>1 DEF Rows
    <2> HIDE DEF next
    <2>3. Advanced(from, next, cycles)
      BY <1>2, <2>2 DEF Advanced
    <2>4. QED
      BY <2>3 DEF next
  <1>3. CASE ~from.monthly /\ row.due \notin cycles
    BY <1>3 DEF Advance, Advanced
  <1>4. QED
    BY <1>1, <1>2, <1>3

(* The payable, and what payments compute from the row as its user last    *)
(* saved it, is that row after paid cycles.                                *)
Carried(q) ==
    InFlight(q) /\ q.plan = plan.stamp =>
        Advanced(plan, q.row, paid \cup {q.date})

PlanKept ==
    plan.status = "PENDING" /\ ~overwritten =>
        /\ Advanced(plan, payable, paid)
        /\ \A r \in Requests : Carried(req[r])

(* A step that leaves what the user saved as it is ...                     *)
LEMMA PlanStep ==
    ASSUME PlanKept, plan' = plan, paid \subseteq paid',
           overwritten => overwritten',
           plan.status = "PENDING" /\ ~overwritten' =>
             /\ Advanced(plan, payable', paid')
             /\ \A r \in Requests : req'[r] = req[r] \/ Carried(req[r])'
    PROVE  PlanKept'
  <1> SUFFICES ASSUME plan.status = "PENDING", ~overwritten'
               PROVE  /\ Advanced(plan, payable', paid')
                      /\ \A r \in Requests : Carried(req[r])'
    BY DEF PlanKept
  <1>1. ASSUME NEW r \in Requests PROVE Carried(req[r])'
    <2>1. CASE req'[r] = req[r]
      <3>1. Carried(req[r])
        BY DEF PlanKept
      <3>2. paid \cup {req[r].date} \subseteq paid' \cup {req[r].date}
        OBVIOUS
      <3>3. QED
        BY <2>1, <3>1, <3>2, AdvancedMore DEF Carried
    <2>2. QED
      BY <2>1
  <1>2. QED
    BY <1>1

(* ... and one that saves another row, which no payment has read.          *)
LEMMA PlanSaved ==
    ASSUME TypeOK, Stamped, payable' \in Rows, Proper(payable'),
           payable'.status = "PENDING" => plan' = payable',
           plan'.status = payable'.status,
           payable'.stamp \in Nat, plan.stamp < plan'.stamp,
           \A r \in Requests : req'[r] = req[r] \/ req'[r] = Idle
    PROVE  PlanKept'
  <1> SUFFICES ASSUME plan'.status = "PENDING"
               PROVE  /\ Advanced(plan', payable', paid')
                      /\ \A r \in Requests : Carried(req[r])'
    BY DEF PlanKept
  <1>1. Advanced(payable', payable', paid')
    BY DEF Advanced, Proper, Rows
  <1>2. ASSUME NEW r \in Requests PROVE Carried(req[r])'
    <2>1. CASE req'[r] = Idle
      BY <2>1 DEF Carried, InFlight, Idle
    <2>2. CASE req'[r] = req[r]
      <3>1. InFlight(req[r]) =>
              req[r].plan \in Nat /\ req[r].plan <= plan.stamp
        BY StateCases DEF TypeOK, Stamped, StampedRequest, PayStates
      <3>2. InFlight(req[r]) => req[r].plan # plan'.stamp
        BY <3>1 DEF TypeOK, Rows
      <3>3. QED
        BY <2>2, <3>2 DEF Carried
    <2>3. QED
      BY <2>1, <2>2
  <1>3. QED
    BY <1>1, <1>2

LEMMA SameButStamp ==
    ASSUME NEW from, NEW row \in Rows, NEW other \in Rows, NEW cycles,
           Advanced(from, row, cycles),
           other.due = row.due, other.monthly = row.monthly,
           other.limit = row.limit, other.status = row.status
    PROVE  Advanced(from, other, cycles)
  BY DEF Advanced

LEMMA PlanKeptStep ==
    ASSUME TypeOK, RowsProper, Stamped, PlanKept, [Next]_vars
    PROVE  PlanKept'
  <1> USE DEF boundVars, rowVars, historyVars
  <1>a. TypeOK' /\ RowsProper' /\ Stamped'
    BY TypesKept, StampedKept
  <1>0. /\ payable \in Rows /\ plan \in Rows /\ clock \in Nat
        /\ payable.stamp \in Nat /\ plan.stamp \in Nat
        /\ payable' \in Rows /\ payable'.stamp \in Nat /\ Proper(payable')
        /\ plan.stamp <= payable.stamp /\ payable.stamp <= clock
        /\ req \in [Requests -> RequestStates]
    BY <1>a DEF TypeOK, Rows, Stamped, RowsProper
  <1>1. CASE CreatePayable
    <2>1. /\ plan' = payable' /\ clock' = clock + 1 /\ req' = req
          /\ \E form \in Requested : payable' = New(form, clock')
      BY <1>1 DEF CreatePayable, Tick
    <2>2. payable'.stamp = clock'
      BY <1>0, <2>1, SavedRow DEF New
    <2>3. QED
      BY <1>0, <2>1, <2>2, PlanSaved
  <1>2. ASSUME NEW r \in Requests, BeginPay(r)
        PROVE  PlanKept'
    <2>1. PICK date \in CycleDates :
            req' = [req EXCEPT ![r] =
              [stage |-> "read", date |-> date, row |-> Loaded(clock'),
               seen |-> payable.stamp, plan |-> plan.stamp]]
      BY <1>2 DEF BeginPay, CycleDates
    <2>2. /\ UNCHANGED <<payable, plan, paid, overwritten>>
          /\ clock' \in Nat
      BY <1>0, <1>2 DEF BeginPay, Tick
    <2>3. /\ Loaded(clock') \in Rows
          /\ Loaded(clock').due = payable.due
          /\ Loaded(clock').monthly = payable.monthly
          /\ Loaded(clock').limit = payable.limit
          /\ Loaded(clock').status = payable.status
      BY <1>0, <2>2 DEF Loaded, Rows
    <2> DEFINE q == [stage |-> "read", date |-> date, row |-> Loaded(clock'),
                     seen |-> payable.stamp, plan |-> plan.stamp]
    <2>4. q.row = Loaded(clock') /\ q.date = date
      OBVIOUS
    <2> HIDE DEF q
    <2>5. ASSUME Advanced(plan, payable, paid)
          PROVE  Advanced(plan, q.row, paid \cup {q.date})
      <3>1. Advanced(plan, payable, paid \cup {q.date})
        BY <2>5, AdvancedMore
      <3>2. QED
        BY <1>0, <2>3, <2>4, <3>1, SameButStamp
    <2>6. req' = [req EXCEPT ![r] = q]
      BY <2>1 DEF q
    <2>7. ASSUME plan.status = "PENDING", ~overwritten'
          PROVE  /\ Advanced(plan, payable', paid')
                 /\ \A x \in Requests : req'[x] = req[x] \/ Carried(req[x])'
      <3>1. Advanced(plan, payable, paid)
        BY <2>2, <2>7 DEF PlanKept
      <3>2. \A x \in Requests : req'[x] = req[x] \/ req'[x] = q
        BY <1>0, <2>6
      <3>3. QED
        BY <2>2, <2>5, <3>1, <3>2 DEF Carried
    <2>8. QED
      BY <2>2, <2>7, PlanStep
  <1>3. ASSUME NEW r \in Requests, ReadPaidCycles(r)
        PROVE  PlanKept'
    <2> DEFINE q == req[r]
               next == Advance(q.row, PaidCycles \cup {q.date})
               row == IF next = q.row THEN q.row
                      ELSE [next EXCEPT !.stamp = clock']
               new == [q EXCEPT !.stage = "computed", !.row = row]
    <2>1. /\ q \in PayStates /\ q # Idle /\ q.stage = "read" /\ InFlight(q)
          /\ q.row \in Rows /\ q.row.status = "PENDING"
      BY <1>0, <1>3, StateCases
         DEF ReadPaidCycles, InFlight, RowsProper, PayStates
    <2>2. next \in Rows
      BY <2>1, AdvanceStops
         DEF PaidCycles, CycleDates, PayStates, RowsProper, TypeOK
    <2>3. Advanced(plan, q.row, paid \cup {q.date}) =>
            Advanced(plan, next, paid \cup {q.date})
      BY <1>0, <2>1, AdvanceAdvances DEF PaidCycles
    <2>4. /\ UNCHANGED <<payable, plan, paid, overwritten>>
          /\ req' = [req EXCEPT ![r] = new] /\ clock' \in Nat
      BY <1>0, <1>3 DEF ReadPaidCycles, Tick
    <2> HIDE DEF next
    <2>5. /\ row \in Rows /\ row.due = next.due /\ row.limit = next.limit
          /\ row.monthly = next.monthly /\ row.status = next.status
      BY <2>2, <2>4 DEF Rows
    <2> HIDE DEF row
    <2>6. /\ new.row = row /\ new.date = q.date /\ new.plan = q.plan
          /\ InFlight(new)
      BY <2>1 DEF PayStates, InFlight
    <2> HIDE DEF q, new
    <2>7. Carried(q) => Carried(new)
      BY <2>1, <2>2, <2>3, <2>5, <2>6, SameButStamp DEF Carried
    <2>8. ASSUME plan.status = "PENDING", ~overwritten'
          PROVE  /\ Advanced(plan, payable', paid')
                 /\ \A x \in Requests : req'[x] = req[x] \/ Carried(req[x])'
      <3>1. Advanced(plan, payable, paid) /\ Carried(q)
        BY <2>4, <2>8 DEF PlanKept, q
      <3>2. \A x \in Requests : req'[x] = req[x] \/ req'[x] = new
        BY <1>0, <2>4
      <3>3. QED
        BY <2>4, <2>7, <3>1, <3>2 DEF Carried
    <2>9. QED
      BY <2>4, <2>8, PlanStep
  <1>4. ASSUME NEW r \in Requests, CommitPay(r)
        PROVE  PlanKept'
    <2> DEFINE q == req[r]
    <2>1. /\ InFlight(q) /\ plan' = plan
          /\ payable' = Written(q.row) /\ paid' = paid \cup {q.date}
          /\ req' = [req EXCEPT ![r] = Idle]
      BY <1>4 DEF CommitPay, CreatePaymentCycleAndUpdate, InFlight
    <2>2. /\ overwritten => overwritten'
          /\ Updates(q.row.stamp) /\ q.plan # plan.stamp => overwritten'
      BY <1>4, Zenon DEF CommitPay
    <2>3. \A x \in Requests : req'[x] = req[x] \/ Carried(req[x])'
      BY <1>0, <2>1 DEF Carried, InFlight, Idle
    <2>4. ASSUME plan.status = "PENDING", ~overwritten'
          PROVE  Advanced(plan, payable', paid')
      <3>1. Advanced(plan, payable, paid) /\ Carried(q)
        BY <2>2, <2>4 DEF PlanKept
      <3>2. CASE Updates(q.row.stamp)
        BY <2>1, <2>2, <2>4, <3>1, <3>2 DEF Carried, Written
      <3>3. CASE ~Updates(q.row.stamp)
        <4>1. payable' = payable
          BY <2>1, <3>3 DEF Written
        <4>2. QED
          BY <2>1, <3>1, <4>1, AdvancedMore
      <3>4. QED
        BY <3>2, <3>3
    <2>5. QED
      BY <2>1, <2>2, <2>3, <2>4, PlanStep
  <1>5. ASSUME NEW r \in Requests, GiveUp(r)
        PROVE  PlanKept'
    <2>1. /\ UNCHANGED <<payable, plan, paid, overwritten>>
          /\ req' = [req EXCEPT ![r] = Idle]
      BY <1>5 DEF GiveUp
    <2>2. \A x \in Requests : req'[x] = req[x] \/ Carried(req[x])'
      BY <1>0, <2>1 DEF Carried, InFlight, Idle
    <2>3. QED
      BY <2>1, <2>2, PlanStep DEF PlanKept
  <1>6. ASSUME NEW r \in Requests, NEW status \in {"PENDING", "PAID"},
               Edit(r, status)
        PROVE  PlanKept'
    <2>1. /\ UNCHANGED <<payable, plan, paid, overwritten>>
          /\ \A x \in Requests :
               req'[x] = req[x] \/ req'[x].stage = "saving"
      BY <1>0, <1>6 DEF Edit
    <2>2. \A x \in Requests : req'[x] = req[x] \/ Carried(req[x])'
      BY <2>1 DEF Carried, InFlight
    <2>3. QED
      BY <2>1, <2>2, PlanStep DEF PlanKept
  <1>7. ASSUME NEW r \in Requests, CommitUpdate(r)
        PROVE  PlanKept'
    <2> DEFINE row == req[r].row
    <2>1. /\ payable' = Written(row) /\ paid' = paid
          /\ req' = [req EXCEPT ![r] = Idle]
      BY <1>7 DEF CommitUpdate
    <2>2. CASE Updates(row.stamp)
      <3>1. payable' = row /\ plan' = row /\ payable.stamp < row.stamp
        BY <1>7, <2>1, <2>2 DEF CommitUpdate, Written, Updates
      <3>2. plan.stamp < plan'.stamp
        BY <1>0, <3>1
      <3>3. \A x \in Requests : req'[x] = req[x] \/ req'[x] = Idle
        BY <1>0, <2>1
      <3>4. QED
        BY <1>0, <3>1, <3>2, <3>3, PlanSaved
    <2>3. CASE ~Updates(row.stamp)
      <3>1. UNCHANGED <<payable, plan, paid, overwritten>>
        BY <1>7, <2>1, <2>3 DEF CommitUpdate, Written
      <3>2. \A x \in Requests : req'[x] = req[x] \/ Carried(req[x])'
        BY <1>0, <2>1 DEF Carried, InFlight, Idle
      <3>3. QED
        BY <3>1, <3>2, PlanStep DEF PlanKept
    <2>4. QED
      BY <2>2, <2>3
  <1>8. CASE DeletePayable
    <2>1. /\ payable' = [payable EXCEPT !.live = FALSE, !.stamp = clock']
          /\ UNCHANGED <<plan, paid, req, overwritten>>
      BY <1>8 DEF DeletePayable
    <2>2. payable' \in Rows
      BY <1>0, <2>1 DEF Rows
    <2>3. /\ payable'.due = payable.due /\ payable'.monthly = payable.monthly
          /\ payable'.limit = payable.limit
          /\ payable'.status = payable.status
      BY <1>0, <2>1 DEF Rows
    <2>4. Advanced(plan, payable, paid) => Advanced(plan, payable', paid')
      BY <1>0, <2>1, <2>2, <2>3, SameButStamp
    <2>5. QED
      BY <2>1, <2>4, PlanStep DEF PlanKept
  <1>9. CASE DeletePayment
    BY <1>9 DEF DeletePayment, PlanKept, Carried
  <1>10. CASE UNCHANGED vars
    BY <1>10 DEF vars, PlanKept, Carried
  <1>11. QED
    BY <1>1, <1>2, <1>3, <1>4, <1>5, <1>6, <1>7, <1>8, <1>9, <1>10
       DEF Next, PaySteps, EditSteps, BeginUpdateAccountPayable,
           BeginUpdateTransaction

LEMMA PlanInvariant ==
    Spec => [](TypeOK /\ RowsProper /\ Stamped /\ PlanKept)
  <1> DEFINE IInv == TypeOK /\ RowsProper /\ Stamped /\ PlanKept
  <1>1. Init => IInv
    <2>1. Init => PlanKept
      <3>1. Advanced(NoRow, NoRow, {})
        BY DEF Advanced, NoRow, Unlimited
      <3>2. QED
        BY <3>1 DEF Init, PlanKept, Carried, InFlight, Idle
    <2>2. QED
      BY <2>1, InitTypes, InitStamped
  <1>2. IInv /\ [Next]_vars => IInv'
    BY TypesKept, StampedKept, PlanKeptStep
  <1>3. QED
    BY <1>1, <1>2, PTL DEF Spec

LEMMA NothingForgottenState == TypeOK /\ PlanKept => NothingForgotten
  <1> SUFFICES ASSUME TypeOK, payable.live, plan.status = "PENDING",
                      Advanced(plan, payable, paid),
                      NEW today \in Months, NEW d \in Scheduled(plan),
                      d[2] <= today, d \notin paid
               PROVE  d \in GetPayables(today)
    BY DEF PlanKept, NothingForgotten
  <1>0. /\ payable.due \in Nat \X Nat /\ plan.due \in Nat \X Nat
        /\ payable.limit \in Nat \cup {Unlimited}
        /\ plan.limit \in Nat \cup {Unlimited}
        /\ payable.monthly = plan.monthly
    BY DEF TypeOK, Rows, Advanced
  <1>1. CASE ~plan.monthly
    <2>1. d = payable.due /\ payable.status = "PENDING"
      BY <1>1 DEF Advanced, Scheduled
    <2>2. QED
      BY <1>0, <1>1, <2>1 DEF GetPayables, Listed, Scheduled
  <1>2. CASE plan.monthly
    <2>1. PICK m \in Months : d = <<plan.due[1], m>>
      BY <1>2 DEF Scheduled
    <2>2. /\ plan.due[2] <= m /\ m <= today /\ m \in Nat
          /\ plan.limit # Unlimited => m - plan.due[2] < plan.limit
      <3>1. m \in Nat /\ d[2] = m
        BY <2>1, DatesAssumption DEF Months
      <3>2. d[2] >= plan.due[2]
        BY <1>2 DEF Scheduled
      <3>3. plan.limit # Unlimited => d[2] - plan.due[2] < plan.limit
        BY <1>2 DEF Scheduled
      <3>4. QED
        BY <1>0, <3>1, <3>2, <3>3
    <2>3. /\ payable.due[1] = plan.due[1]
          /\ \A k \in Nat : plan.due[2] <= k /\ k < payable.due[2] =>
               <<plan.due[1], k>> \in paid
      BY <1>2 DEF Advanced
    <2>4. payable.due[2] <= m
      BY <1>0, <2>1, <2>2, <2>3
    <2>5. IF plan.limit = Unlimited THEN payable.limit = Unlimited
          ELSE /\ payable.limit # Unlimited
               /\ payable.limit + payable.due[2] = plan.limit + plan.due[2]
      BY <1>2 DEF Advanced
    <2>6. payable.limit # Unlimited => m - payable.due[2] < payable.limit
      BY <1>0, <2>2, <2>5
    <2>7. payable.status = "PENDING"
      <3>1. payable.limit # 0
        BY <1>0, <2>2, <2>4, <2>6 DEF Unlimited
      <3>2. QED
        BY <3>1 DEF Advanced
    <2>8. d \in Scheduled(payable) /\ d[2] <= today
      BY <1>0, <1>2, <2>1, <2>2, <2>3, <2>4, <2>6 DEF Scheduled
    <2>9. QED
      BY <2>7, <2>8 DEF GetPayables, Listed
  <1>3. QED
    BY <1>1, <1>2

(* No debt is forgotten: every cycle of the payable as its user saved it   *)
(* is paid, or listed once it is due, whatever other payments did at the   *)
(* time (PayAccountPayable, manualFinancialPayables).                      *)
THEOREM NoDebtForgotten == Spec => []NothingForgotten
  BY PlanInvariant, NothingForgottenState, PTL

(* A payable that its payments settled is not counted as an expense beside *)
(* them (isCompletedAccountPayable).                                       *)
THEOREM ExpenseCountedOnce == Spec => []CountedOnce
  <1>1. PlanKept => CountedOnce
    BY DEF PlanKept, Advanced, CountedOnce, CountsAsExpense
  <1>2. QED
    BY <1>1, PlanInvariant, PTL

-----------------------------------------------------------------------------
(* Alerts                                                                  *)

LEMMA MaxOf ==
    ASSUME NEW T, T \subseteq Nat, T # {}, NEW top \in Nat,
           \A x \in T : x <= top
    PROVE  Max(T) \in T /\ \A x \in T : x <= Max(T)
  <1> DEFINE Above(S) == {x \in Nat : \A y \in S : y <= x}
  <1>1. PICK b \in Above(T) : \A x \in Above(T) : b <= x
    <2>1. Above(T) \subseteq Nat /\ top \in Above(T)
      OBVIOUS
    <2> HIDE DEF Above
    <2>2. QED
      BY <2>1, LeastNumber
  <1>2. b \in Nat /\ \A x \in T : x <= b
    BY <1>1
  <1>3. b \in T
    <2> SUFFICES ASSUME b \notin T PROVE FALSE
      OBVIOUS
    <2>1. PICK x \in T : TRUE
      OBVIOUS
    <2>2. b > 0 /\ b - 1 \in Nat
      BY <1>2, <2>1
    <2>3. \A y \in T : y <= b - 1
      BY <1>2, <2>2
    <2>4. b - 1 \in Above(T)
      BY <2>2, <2>3
    <2> HIDE DEF Above
    <2>5. b <= b - 1
      BY <1>1, <2>4
    <2>6. QED
      BY <1>2, <2>5
  <1>4. QED
    BY <1>2, <1>3 DEF Max

Copies == [stamp : Nat, read : BOOLEAN]

(* Stamps have an end, although there may be any number of desktops.       *)
StampsEnd(a) ==
    \E top \in Nat : \A n \in Nodes : alerts[n][a].stamp <= top

(* Of a read copy every newer one is read.                                 *)
NewerRead(a) ==
    \A n, o \in Nodes :
        alerts[n][a].read /\ alerts[o][a].stamp > alerts[n][a].stamp =>
            alerts[o][a].read

AlertsInv ==
    /\ alerts \in [Nodes -> [Alerts -> Copies]]
    /\ \A n \in Nodes, a \in Alerts :
         alerts[n][a].stamp = 0 => ~alerts[n][a].read
    /\ \A a \in Alerts : StampsEnd(a) /\ (a \in recreated \/ NewerRead(a))

LEMMA NowIsLater ==
    ASSUME AlertsInv, NEW a \in Alerts
    PROVE  /\ Now(a) \in Nat /\ Now(a) > 0
           /\ \A n \in Nodes : alerts[n][a].stamp < Now(a)
  <1> DEFINE T == {alerts[n][a].stamp : n \in Nodes}
  <1>1. \A n \in Nodes : alerts[n][a] \in Copies /\ alerts[n][a].stamp \in Nat
    BY DEF AlertsInv, Copies
  <1>2. T \subseteq Nat /\ alerts[Cloud][a].stamp \in T
    BY <1>1 DEF Nodes
  <1>3. PICK end \in Nat : \A n \in Nodes : alerts[n][a].stamp <= end
    BY DEF AlertsInv, StampsEnd
  <1>4. \A x \in T : x <= end
    BY <1>3
  <1> HIDE DEF T
  <1>5. Max(T) \in T /\ \A x \in T : x <= Max(T)
    BY <1>2, <1>4, MaxOf
  <1>6. Now(a) = 1 + Max(T)
    BY DEF Now, T
  <1>7. \A n \in Nodes : alerts[n][a].stamp <= Max(T)
    BY <1>5 DEF T
  <1> DEFINE top == Max(T)
  <1>8. top \in Nat
    BY <1>2, <1>5
  <1> HIDE DEF top
  <1>9. Now(a) = 1 + top /\ \A n \in Nodes : alerts[n][a].stamp <= top
    BY <1>6, <1>7 DEF top
  <1>10. QED
    BY <1>1, <1>8, <1>9

(* A node's copy of one alert is replaced.                                 *)
LEMMA CopyReplaced ==
    ASSUME AlertsInv, NEW n, NEW a, NEW copy \in Copies,
           alerts' = [alerts EXCEPT ![n][a] = copy],
           recreated \subseteq recreated',
           n \in Nodes /\ a \in Alerts =>
             /\ copy.stamp = 0 => ~copy.read
             /\ alerts[n][a].read => copy.read \/ a \in recreated'
             /\ a \in recreated' \/ NewerRead(a)'
    PROVE  /\ AlertsInv'
           /\ \A m \in Nodes, b \in Alerts :
                alerts[m][b].read => alerts'[m][b].read \/ b \in recreated'
  <1>1. /\ alerts \in [Nodes -> [Alerts -> Copies]]
        /\ \A m \in Nodes, b \in Alerts :
             alerts'[m][b] = IF m = n /\ b = a THEN copy ELSE alerts[m][b]
    BY DEF AlertsInv
  <1>2. alerts' \in [Nodes -> [Alerts -> Copies]]
    BY DEF AlertsInv
  <1>3. copy.stamp \in Nat /\ \A m \in Nodes, b \in Alerts :
          alerts[m][b].stamp \in Nat
    BY <1>1 DEF Copies
  <1>4. \A m \in Nodes, b \in Alerts :
          alerts'[m][b].stamp = 0 => ~alerts'[m][b].read
    BY <1>1 DEF AlertsInv
  <1>5. ASSUME NEW b \in Alerts PROVE StampsEnd(b)'
    <2>1. PICK top \in Nat : \A m \in Nodes : alerts[m][b].stamp <= top
      BY DEF AlertsInv, StampsEnd
    <2> DEFINE more == top + copy.stamp
    <2>2. more \in Nat /\ top <= more /\ copy.stamp <= more
      BY <1>3
    <2>3. \A m \in Nodes : alerts'[m][b].stamp <= more
      BY <1>1, <1>3, <2>1, <2>2
    <2> HIDE DEF more
    <2>4. QED
      BY <2>2, <2>3 DEF StampsEnd
  <1>6. ASSUME NEW b \in Alerts PROVE b \in recreated' \/ NewerRead(b)'
    <2>1. CASE b = a /\ n \in Nodes
      BY <2>1
    <2>2. CASE ~(b = a /\ n \in Nodes)
      <3>1. \A m \in Nodes : alerts'[m][b] = alerts[m][b]
        BY <1>1, <2>2
      <3>2. b \in recreated' \/ NewerRead(b)
        BY DEF AlertsInv
      <3>3. QED
        BY <3>1, <3>2 DEF NewerRead
    <2>3. QED
      BY <2>1, <2>2
  <1>7. QED
    BY <1>1, <1>2, <1>4, <1>5, <1>6 DEF AlertsInv

(* Nothing happens to the alerts.                                          *)
LEMMA AlertsStay ==
    ASSUME AlertsInv, UNCHANGED <<alerts, recreated>>
    PROVE  /\ AlertsInv'
           /\ \A m \in Nodes, b \in Alerts :
                alerts[m][b].read => alerts'[m][b].read \/ b \in recreated'
  BY DEF AlertsInv, StampsEnd, NewerRead

AlertsStep ==
    /\ AlertsInv'
    /\ \A m \in Nodes, b \in Alerts :
         alerts[m][b].read => alerts'[m][b].read \/ b \in recreated'

LEMMA CreateKeeps ==
    ASSUME AlertsInv, NEW k \in Checks, Create(k)
    PROVE  AlertsStep
  <1>1. \E n, a :
          /\ Inserted(n, a)
          /\ recreated' = IF /\ alerts[n][a] = NoAlert
                             /\ \E o \in Nodes : alerts[o][a] # NoAlert
                          THEN recreated \cup {a} ELSE recreated
    BY Zenon DEF Create
  <1>2. PICK n, a :
          /\ alerts' = [alerts EXCEPT ![n][a] =
                          IF alerts[n][a] = NoAlert THEN NewAlert(a)
                                                    ELSE alerts[n][a]]
          /\ recreated' = IF /\ alerts[n][a] = NoAlert
                             /\ \E o \in Nodes : alerts[o][a] # NoAlert
                          THEN recreated \cup {a} ELSE recreated
    BY <1>1 DEF Inserted
  <1> DEFINE copy == IF alerts[n][a] = NoAlert THEN NewAlert(a)
                                               ELSE alerts[n][a]
  <1>3. CASE n \in Nodes /\ a \in Alerts
    <2>1. /\ Now(a) \in Nat /\ Now(a) > 0
          /\ \A o \in Nodes : alerts[o][a].stamp < Now(a)
      BY <1>3, NowIsLater
    <2>2. \A o \in Nodes : /\ alerts[o][a] \in Copies
                           /\ alerts[o][a].stamp = 0 => ~alerts[o][a].read
      BY <1>3 DEF AlertsInv
    <2>3. NewAlert(a) = [stamp |-> Now(a), read |-> FALSE]
      BY DEF NewAlert
    <2>4. CASE alerts[n][a] = NoAlert
      <3>1. /\ copy = [stamp |-> Now(a), read |-> FALSE] /\ copy \in Copies
            /\ alerts' = [alerts EXCEPT ![n][a] = copy]
        BY <1>2, <2>1, <2>3, <2>4 DEF Copies
      <3> HIDE DEF copy
      <3>2. ~alerts[n][a].read /\ copy.stamp # 0
        BY <2>1, <2>4, <3>1 DEF NoAlert
      <3>3. a \in recreated' \/ NewerRead(a)'
        <4>1. ASSUME a \notin recreated' PROVE NewerRead(a)'
          <5>1. \A o \in Nodes : alerts[o][a] = NoAlert
            BY <1>2, <2>4, <4>1
          <5>2. \A o \in Nodes : ~alerts'[o][a].read
            <6>1. \A o \in Nodes :
                    alerts'[o][a] = IF o = n THEN copy ELSE alerts[o][a]
              BY <1>3, <3>1 DEF AlertsInv
            <6>2. ~copy.read
              BY <3>1
            <6>3. QED
              BY <5>1, <6>1, <6>2 DEF NoAlert
          <5>3. QED
            BY <5>2 DEF NewerRead
        <4>2. QED
          BY <4>1
      <3>4. recreated \subseteq recreated'
        BY <1>2
      <3>5. /\ copy \in Copies /\ alerts' = [alerts EXCEPT ![n][a] = copy]
            /\ copy.stamp = 0 => ~copy.read
            /\ alerts[n][a].read => copy.read \/ a \in recreated'
        BY <3>1, <3>2
      <3>6. QED
        BY <3>3, <3>4, <3>5, CopyReplaced DEF AlertsStep
    <2>5. CASE alerts[n][a] # NoAlert
      <3>1. copy = alerts[n][a]
        BY <2>5
      <3>2. alerts' = alerts /\ recreated' = recreated
        BY <1>2, <2>5, <3>1 DEF AlertsInv
      <3>3. QED
        BY <3>2, AlertsStay DEF AlertsStep
    <2>6. QED
      BY <2>4, <2>5
  <1>4. CASE ~(n \in Nodes /\ a \in Alerts)
    <2>1. alerts' = alerts
      BY <1>2, <1>4 DEF AlertsInv
    <2>2. recreated \subseteq recreated'
      BY <1>2
    <2>3. QED
      BY <2>1, <2>2 DEF AlertsStep, AlertsInv, StampsEnd, NewerRead
  <1>5. QED
    BY <1>3, <1>4

LEMMA MarkKeeps ==
    ASSUME AlertsInv, NEW n \in Nodes, NEW a \in Alerts, MarkAsRead(n, a)
    PROVE  AlertsStep
  <1> DEFINE copy == [stamp |-> Now(a), read |-> TRUE]
  <1>1. /\ alerts' = [alerts EXCEPT ![n][a] = copy]
        /\ recreated' = recreated
    BY DEF MarkAsRead
  <1>2. /\ Now(a) \in Nat /\ Now(a) > 0
        /\ \A o \in Nodes : alerts[o][a].stamp < Now(a)
        /\ \A o \in Nodes : alerts[o][a] \in Copies
    BY NowIsLater DEF AlertsInv
  <1>3. copy \in Copies /\ copy.read /\ copy.stamp = Now(a)
    BY <1>2 DEF Copies
  <1> HIDE DEF copy
  <1>4. a \in recreated' \/ NewerRead(a)'
    <2>1. a \in recreated \/ NewerRead(a)
      BY DEF AlertsInv
    <2>2. \A o \in Nodes :
            alerts'[o][a] = IF o = n THEN copy ELSE alerts[o][a]
      BY <1>1 DEF AlertsInv
    <2>3. ASSUME NewerRead(a) PROVE NewerRead(a)'
      <3>1. ASSUME NEW m \in Nodes, NEW o \in Nodes, alerts'[m][a].read,
                   alerts'[o][a].stamp > alerts'[m][a].stamp
            PROVE  alerts'[o][a].read
        <4>1. CASE o = n
          BY <1>3, <2>2, <4>1
        <4>2. CASE o # n /\ m = n
          <5>1. alerts[o][a].stamp > Now(a) /\ alerts[o][a].stamp \in Nat
            BY <1>2, <1>3, <2>2, <3>1, <4>2 DEF Copies
          <5>2. QED
            BY <1>2, <5>1
        <4>3. CASE o # n /\ m # n
          BY <2>2, <2>3, <3>1, <4>3 DEF NewerRead
        <4>4. QED
          BY <4>1, <4>2, <4>3
      <3>2. QED
        BY <3>1 DEF NewerRead
    <2>4. QED
      BY <1>1, <2>1, <2>3
  <1>5. copy.stamp # 0 /\ recreated \subseteq recreated'
    BY <1>1, <1>2, <1>3
  <1>6. QED
    BY <1>1, <1>3, <1>4, <1>5, CopyReplaced DEF AlertsStep

LEMMA SynchroniseKeeps ==
    ASSUME AlertsInv, NEW d \in Desktops, NEW a \in Alerts, Synchronise(d, a)
    PROVE  AlertsStep
  <1>1. PICK from \in {Cloud, d}, to \in {Cloud, d} :
          /\ alerts[from][a].stamp > alerts[to][a].stamp
          /\ alerts' = [alerts EXCEPT ![to][a] = alerts[from][a]]
          /\ recreated' = recreated
    BY DEF Synchronise
  <1> DEFINE copy == alerts[from][a]
  <1>2. from \in Nodes /\ to \in Nodes
    BY DEF Nodes
  <1>3. \A o \in Nodes :
          /\ alerts[o][a] \in Copies /\ alerts[o][a].stamp \in Nat
          /\ alerts[o][a].stamp = 0 => ~alerts[o][a].read
    BY DEF AlertsInv, Copies
  <1>4. \A o \in Nodes :
          alerts'[o][a] = IF o = to THEN copy ELSE alerts[o][a]
    BY <1>1, <1>2 DEF AlertsInv
  <1>5. a \in recreated \/ NewerRead(a)
    BY DEF AlertsInv
  <1>6. alerts[to][a].read => copy.read \/ a \in recreated'
    BY <1>1, <1>2, <1>5 DEF NewerRead
  <1>7. a \in recreated' \/ NewerRead(a)'
    <2>1. ASSUME NewerRead(a) PROVE NewerRead(a)'
      <3>1. ASSUME NEW m \in Nodes, NEW o \in Nodes, alerts'[m][a].read,
                   alerts'[o][a].stamp > alerts'[m][a].stamp
            PROVE  alerts'[o][a].read
        <4> DEFINE m1 == IF m = to THEN from ELSE m
                   o1 == IF o = to THEN from ELSE o
        <4>1. /\ alerts'[m][a] = alerts[m1][a] /\ m1 \in Nodes
              /\ alerts'[o][a] = alerts[o1][a] /\ o1 \in Nodes
          BY <1>2, <1>4
        <4> HIDE DEF m1, o1
        <4>2. QED
          BY <2>1, <3>1, <4>1 DEF NewerRead
      <3>2. QED
        BY <3>1 DEF NewerRead
    <2>2. QED
      BY <1>1, <1>5, <2>1
  <1>8. /\ copy \in Copies
        /\ copy.stamp = 0 => ~copy.read
        /\ recreated \subseteq recreated'
        /\ alerts' = [alerts EXCEPT ![to][a] = copy]
    BY <1>1, <1>2, <1>3
  <1> HIDE DEF copy
  <1>9. QED
    BY <1>2, <1>6, <1>7, <1>8, CopyReplaced DEF AlertsStep

LEMMA AlertsKept == AlertsInv /\ [AlertsNext]_alertVars => AlertsStep
  <1> SUFFICES ASSUME AlertsInv, [AlertsNext]_alertVars PROVE AlertsStep
    OBVIOUS
  <1>1. CASE UNCHANGED <<alerts, recreated>>
    BY <1>1, AlertsStay DEF AlertsStep
  <1>2. ASSUME NEW k \in Checks, Create(k) PROVE AlertsStep
    BY <1>2, CreateKeeps
  <1>3. ASSUME NEW n \in Nodes, NEW a \in Alerts, MarkAsRead(n, a)
        PROVE  AlertsStep
    BY <1>3, MarkKeeps
  <1>4. ASSUME NEW d \in Desktops, NEW a \in Alerts, Synchronise(d, a)
        PROVE  AlertsStep
    BY <1>4, SynchroniseKeeps
  <1>5. ASSUME NEW k \in Checks, \/ \E n \in Nodes : BeginCheck(k, n)
                                 \/ ReadStatements(k) \/ EndCheck(k)
                                 \/ FailCheck(k)
        PROVE  UNCHANGED <<alerts, recreated>>
    BY <1>5 DEF BeginCheck, ReadStatements, EndCheck, FailCheck
  <1>6. ASSUME \/ \E b \in Bills : Pay(b)
               \/ \E s \in Statements : DeleteAccount(s)
               \/ NextDay \/ UNCHANGED alertVars
        PROVE  UNCHANGED <<alerts, recreated>>
    BY <1>6 DEF Pay, DeleteAccount, NextDay, alertVars
  <1>7. QED
    BY <1>1, <1>2, <1>3, <1>4, <1>5, <1>6 DEF AlertsNext, CheckSteps

LEMMA AlertsStart == AlertsInit => AlertsInv
  <1> SUFFICES ASSUME AlertsInit PROVE AlertsInv
    OBVIOUS
  <1>1. NoAlert \in Copies /\ NoAlert.stamp = 0 /\ ~NoAlert.read
    BY DEF NoAlert, Copies
  <1>2. alerts = [n \in Nodes |-> [a \in Alerts |-> NoAlert]]
    BY DEF AlertsInit
  <1>3. \A n \in Nodes, a \in Alerts : alerts[n][a] = NoAlert
    BY <1>2
  <1>4. \A a \in Alerts : StampsEnd(a) /\ NewerRead(a)
    <2>1. \A x \in {0} : x <= 0 /\ x \in Nat
      OBVIOUS
    <2>2. QED
      BY <1>1, <1>3, <2>1 DEF StampsEnd, NewerRead
  <1>5. QED
    BY <1>1, <1>2, <1>3, <1>4 DEF AlertsInv

(* What the user has read stays read, through any number of checks at a    *)
(* time, marks and synchronisations between any number of desktops: of a   *)
(* copy that is read every newer one is read, and only a newer one         *)
(* replaces it.                                                            *)
THEOREM ReadMarksStay == AlertsSpec => ReadStaysRead
  <1> DEFINE Kept == \A n \in Nodes, a \in Alerts :
                       alerts[n][a].read =>
                         alerts'[n][a].read \/ a \in recreated'
  <1>1. AlertsInv /\ [AlertsNext]_alertVars => AlertsInv' /\ Kept
    BY AlertsKept DEF AlertsStep
  <1>2. QED
    BY <1>1, AlertsStart, PTL DEF AlertsSpec, ReadStaysRead

=============================================================================

--------------------------- MODULE Notifications ---------------------------
(***************************************************************************)
(* Alerts about bills that fall due: account payables and card statements. *)
(*                                                                         *)
(* The server and every desktop run the same check by a ticker, and again  *)
(* after each change of a transaction.  An alert's identifier is its bill  *)
(* and the day, so that repeating the check adds nothing.  Alerts are rows *)
(* that synchronise by Last Write Wins: the same alert is made on several  *)
(* nodes, each unread and with its own stamp.                              *)
(*                                                                         *)
(* A bill is open until it is paid; a payable's next due date is another   *)
(* bill.  Bills are the same on every node; messages are left out, and so  *)
(* is the owner: the check reads the rows of all.                          *)
(***************************************************************************)
EXTENDS Integers, FiniteSetsExt

CONSTANTS
    Cloud, Desktops,
    CheckRequests, \* checks started by a request, on whatever node
    Payables, Statements,
    Overdue,       \* bills past their day; the others are due on the last
    Ahead,         \* how many days ahead a bill is due (4 in the code)
    MaxDay,        \* bound: the last day
    MaxReads,      \* bound: alerts marked as read
    MaxFaults      \* bound: checks that fail for the store's sake

Nodes == {Cloud} \cup Desktops
Bills == Payables \cup Statements
Days == 1..MaxDay
Alerts == Bills \X Days
Checks == Nodes \cup CheckRequests     \* a node's worker is named as the node

ASSUME NamesAssumption ==
    /\ Cloud \notin Desktops /\ Nodes \cap CheckRequests = {}
    /\ Payables \cap Statements = {} /\ Overdue \subseteq Bills
ASSUME DaysAssumption ==
    /\ Ahead \in Nat /\ MaxDay \in Nat
    /\ MaxReads \in Nat /\ MaxFaults \in Nat

VARIABLES
    day,           \* today
    open,          \* the unpaid bills
    orphans,       \* statements whose account was deleted
    alerts,        \* each node's alerts: stamp (0: no row) and read mark
    check,         \* each check that runs: node, its today, what is left
    reads, faults,
    recreated      \* history: alerts made again, after another node's copy

bills == <<day, open, orphans>>
bounds == <<reads, faults>>
alertVars == <<bills, alerts, check, bounds, recreated>>

NoCheck == [stage |-> "idle"]
NoAlert == [stamp |-> 0, read |-> FALSE]

AlertsInit ==
    /\ day = 1
    /\ open = Bills /\ orphans = {}
    /\ alerts = [n \in Nodes |-> [a \in Alerts |-> NoAlert]]
    /\ check = [k \in Checks |-> NoCheck]
    /\ reads = 0 /\ faults = 0
    /\ recreated = {}

-----------------------------------------------------------------------------
(* The check                                                               *)

Due(b) == IF b \in Overdue THEN 0 ELSE MaxDay

(* Mutant of IsDue: a bill that is past its day is no longer due.          *)
IsDueAhead(b, today) == Due(b) < today + Ahead /\ Due(b) >= today

(* date < dueBefore, and the same of payment_due_date                      *)
IsDue(b, today) == Due(b) < today + Ahead

DueOf(some, today) == {b \in some \cap open : IsDue(b, today)}

(* GetDueAccountPayables, GetDueCreditCardStatements                       *)
DueAccountPayables(today) == DueOf(Payables, today)
DueCreditCardStatements(today) == DueOf(Statements, today)

(* CheckDueNotifications: the open payables are read first.  A node's      *)
(* worker checks its own store, a request the store it came to.            *)
BeginCheck(k, n) ==
    /\ check[k] = NoCheck
    /\ k \in Nodes => n = k
    /\ check' = [check EXCEPT ![k] =
                   [stage |-> "payables", node |-> n, today |-> day,
                    todo |-> DueAccountPayables(day)]]
    /\ UNCHANGED <<bills, alerts, bounds, recreated>>

(* The clock, as far as an alert's copies can tell: past all their stamps. *)
Now(a) == 1 + Max({alerts[n][a].stamp : n \in Nodes})

(* NewNotification                                                         *)
NewAlert(a) == [stamp |-> Now(a), read |-> FALSE]

(* Mutant of Inserted: the row is replaced.                                *)
InsertedOver(n, a) == alerts' = [alerts EXCEPT ![n][a] = NewAlert(a)]

(* ON CONFLICT DO NOTHING, INSERT OR IGNORE                                *)
Inserted(n, a) ==
    alerts' = [alerts EXCEPT ![n][a] =
                 IF @ = NoAlert THEN NewAlert(a) ELSE @]

(* CreateIfNotExists, one bill after the other.                            *)
Create(k) ==
    /\ check[k] # NoCheck
    /\ \E b \in check[k].todo :
         LET n == check[k].node
             a == <<b, check[k].today>>
         IN  /\ Inserted(n, a)
             /\ check' = [check EXCEPT ![k].todo = @ \ {b}]
             /\ recreated' =
                  IF /\ alerts[n][a] = NoAlert
                     /\ \E o \in Nodes : alerts[o][a] # NoAlert
                  THEN recreated \cup {a} ELSE recreated
    /\ UNCHANGED <<bills, reads, faults>>

(* A due statement whose account is gone has no name to scan.              *)
Unreadable(today) == DueCreditCardStatements(today) \cap orphans # {}

(* GetDueCreditCardStatements, after the payables; it fails whole.         *)
ReadStatements(k) ==
    LET today == check[k].today
    IN  /\ check[k].stage = "payables" /\ check[k].todo = {}
        /\ check' = [check EXCEPT ![k] =
                       IF Unreadable(today) THEN NoCheck
                       ELSE [@ EXCEPT !.stage = "statements",
                                      !.todo = DueCreditCardStatements(today)]]
        /\ UNCHANGED <<bills, alerts, bounds, recreated>>

EndCheck(k) ==
    /\ check[k].stage = "statements" /\ check[k].todo = {}
    /\ check' = [check EXCEPT ![k] = NoCheck]
    /\ UNCHANGED <<bills, alerts, bounds, recreated>>

(* The store is unavailable, or the node stops: the rest is left for the   *)
(* next check.                                                             *)
FailCheck(k) ==
    /\ check[k] # NoCheck
    /\ faults < MaxFaults /\ faults' = faults + 1
    /\ check' = [check EXCEPT ![k] = NoCheck]
    /\ UNCHANGED <<bills, alerts, reads, recreated>>

-----------------------------------------------------------------------------
(* What happens around it                                                  *)

(* MarkAsRead                                                              *)
MarkAsRead(n, a) ==
    /\ alerts[n][a] # NoAlert /\ ~alerts[n][a].read
    /\ reads < MaxReads /\ reads' = reads + 1
    /\ alerts' = [alerts EXCEPT ![n][a] = [stamp |-> Now(a), read |-> TRUE]]
    /\ UNCHANGED <<bills, check, faults, recreated>>

(* The newer row of two copies, as lwwUpsertSQL leaves it in either place. *)
Synchronise(d, a) ==
    \E from, to \in {Cloud, d} :
        /\ alerts[from][a].stamp > alerts[to][a].stamp
        /\ alerts' = [alerts EXCEPT ![to][a] = alerts[from][a]]
        /\ UNCHANGED <<bills, check, bounds, recreated>>

(* A bill is paid; a statement's account is deleted.                       *)
Pay(b) ==
    /\ b \in open
    /\ open' = open \ {b}
    /\ UNCHANGED <<day, orphans, alerts, check, bounds, recreated>>

DeleteAccount(s) ==
    /\ s \notin orphans
    /\ orphans' = orphans \cup {s}
    /\ UNCHANGED <<day, open, alerts, check, bounds, recreated>>

NextDay ==
    /\ day < MaxDay
    /\ day' = day + 1
    /\ UNCHANGED <<open, orphans, alerts, check, bounds, recreated>>

CheckSteps(k) == Create(k) \/ ReadStatements(k) \/ EndCheck(k)

AlertsNext ==
    \/ \E k \in Checks, n \in Nodes : BeginCheck(k, n)
    \/ \E k \in Checks : CheckSteps(k) \/ FailCheck(k)
    \/ \E n \in Nodes, a \in Alerts : MarkAsRead(n, a)
    \/ \E d \in Desktops, a \in Alerts : Synchronise(d, a)
    \/ \E b \in Bills : Pay(b)
    \/ \E s \in Statements : DeleteAccount(s)
    \/ NextDay

(* startNotificationWorker: a check at the start and by the ticker; a      *)
(* check that runs makes its next statement.                               *)
Fairness ==
    /\ \A n \in Nodes : WF_alertVars(BeginCheck(n, n))
    /\ \A k \in Checks : WF_alertVars(CheckSteps(k))

AlertsSpec == AlertsInit /\ [][AlertsNext]_alertVars
FairSpec == AlertsSpec /\ Fairness

-----------------------------------------------------------------------------
(* Properties                                                              *)

(* What the user has read stays read on every node that shows it read,     *)
(* through repeated checks and synchronisation (CreateIfNotExists,         *)
(* MarkAsRead), unless another node made the same alert again.             *)
ReadStaysRead ==
    [][\A n \in Nodes, a \in Alerts :
         alerts[n][a].read => alerts'[n][a].read \/ a \in recreated']_alertVars

(* Every due bill has the alert of the day, or is a statement kept back by *)
(* one whose account was deleted.                                          *)
Alerted(n) ==
    \A b \in open :
        Due(b) < day + Ahead =>
            \/ alerts[n][<<b, day>>] # NoAlert
            \/ b \in Statements /\ Unreadable(day)

(* Whatever checks failed, every node comes back to where each open bill   *)
(* that is due has the alert of the day (CheckDueNotifications), except    *)
(* for statements while that of a deleted account is due.                  *)
DueIsAlerted == \A n \in Nodes : []<>Alerted(n)
=============================================================================

----------------------------- MODULE Calendar -----------------------------
(***************************************************************************)
(* The program's arithmetic on dates and stamps: billing cycles and due    *)
(* dates of a card, the instalments of a purchase without interest (MSI),  *)
(* and the text by which SQLite compares the stamps of rows.               *)
(*                                                                         *)
(* The days of a year or so pass one by one; on each of them something may *)
(* be bought on the card.  A date is a pair of its month, counted from     *)
(* year 0 (12 * year + month - 1), and its day.  On the first day the time *)
(* of the day goes on as well, in fractions of one second.                 *)
(***************************************************************************)
EXTENDS Integers, Sequences, SequencesExt, FiniteSetsExt, Sums

CONSTANTS
    Cutoffs,       \* cut-off days of the card that are tried
    PaymentDays,   \* its payment days
    FirstMonth,    \* the month the calendar starts in
    MaxMonths,     \* bound: months the days run through
    Terms,         \* numbers of instalments
    AmountCents,   \* what the purchase costs
    Precision      \* digits of a fraction of a second (9 in the code)

ASSUME DaysAssumption ==
    Cutoffs \subseteq 1..31 /\ PaymentDays \subseteq 1..31
ASSUME BoundsAssumption ==
    /\ FirstMonth \in Nat /\ MaxMonths \in Nat /\ Precision \in Nat
    /\ Terms \subseteq Nat \ {0, 1} /\ AmountCents \in Nat

VARIABLES
    card,          \* cut-off and payment day
    today, fraction,
    purchase       \* the instalments of what was bought; None before that

calendarVars == <<card, today, fraction, purchase>>

None == <<>>

-----------------------------------------------------------------------------
(* Dates                                                                   *)

Leap(year) == year % 4 = 0 /\ (year % 100 = 0 => year % 400 = 0)

(* first.AddDate(0, 1, -1).Day()                                           *)
DaysIn(month) ==
    LET m == (month % 12) + 1
    IN  CASE m = 2 -> IF Leap(month \div 12) THEN 29 ELSE 28
          [] m \in {4, 6, 9, 11} -> 30
          [] OTHER -> 31

Before(a, b) == a[1] < b[1] \/ (a[1] = b[1] /\ a[2] < b[2])

(* time.Date, AddDate(0, months, 0): days past the month's end run on into *)
(* the next.                                                               *)
Normal(month, day) ==
    IF day <= DaysIn(month) THEN <<month, day>>
    ELSE <<month + 1, day - DaysIn(month)>>

AddMonths(date, months) == Normal(date[1] + months, date[2])

(* Mutant of BillingCycleDate: the day is not cut to the month.            *)
BillingCycleDateNormal(month, day) == Normal(month, day)

BillingCycleDate(month, day) == <<month, Min({day, DaysIn(month)})>>

(* statementCycleForDate: the last day before the cycle, and its own last. *)
StatementCycle(date, cutoff) ==
    LET this == BillingCycleDate(date[1], cutoff)
        end  == IF Before(this, date)
                THEN BillingCycleDate(date[1] + 1, cutoff) ELSE this
    IN  <<BillingCycleDate(end[1] - 1, cutoff), end>>

(* currentBillingCycle, where a store keeps no statements.                 *)
CurrentBillingCycle(cutoff, now) ==
    LET this == BillingCycleDate(now[1], cutoff)
    IN  IF Before(this, now)
        THEN <<this, BillingCycleDate(now[1] + 1, cutoff)>>
        ELSE <<BillingCycleDate(now[1] - 1, cutoff), this>>

(* paymentDueDate                                                          *)
PaymentDueDate(end, day) ==
    LET due == BillingCycleDate(end[1], day)
    IN  IF Before(end, due) THEN due ELSE BillingCycleDate(end[1] + 1, day)

-----------------------------------------------------------------------------
(* Instalments                                                             *)

(* Mutant of Instalments: the plan starts on the day it is entered.        *)
InstalmentsFromToday(date, months, paid) ==
    [i \in 1..months |->
        [date  |-> AddMonths(date, i - 1),
         cents |-> AmountCents \div months
                   + (IF i = 1 THEN AmountCents % months ELSE 0),
         paid  |-> i <= paid]]

(* projectMSITransactions: the instalments that were paid before the       *)
(* purchase is entered lie in the past.                                    *)
Instalments(date, months, paid) ==
    LET first == AddMonths(date, -paid)
    IN  [i \in 1..months |->
            [date  |-> AddMonths(first, i - 1),
             cents |-> AmountCents \div months
                       + (IF i = 1 THEN AmountCents % months ELSE 0),
             paid  |-> i <= paid]]

-----------------------------------------------------------------------------
(* Stamps                                                                  *)

(* 10^n                                                                    *)
Tens(n) == LET t[i \in 0..n] == IF i = 0 THEN 1 ELSE 10 * t[i - 1] IN t[n]

Padded(f) == [i \in 1..Precision |-> (f \div Tens(Precision - i)) % 10]

NonZero(digit) == digit # 0

(* Mutant of Digits: zeros are cut in front, as from a number.             *)
DigitsUnpadded(f) ==
    LET first == SelectInSeq(Padded(f), NonZero)
    IN  IF first = 0 THEN <<>> ELSE SubSeq(Padded(f), first, Precision)

(* timeValue: RFC3339Nano cuts the zeros at the end of the fraction.       *)
Digits(f) == SubSeq(Padded(f), 1, SelectLastInSeq(Padded(f), NonZero))

(* The text after the seconds, as character codes: point, digits, Z.       *)
Stamp(f) ==
    IF f = 0 THEN <<90>>
    ELSE <<46>> \o [i \in DOMAIN Digits(f) |-> 48 + Digits(f)[i]] \o <<90>>

(* excluded.updated_at > updated_at, in SQLite: the text decides.          *)
TextBefore(s, t) ==
    \E i \in 1..Min({Len(s), Len(t)}) :
        s[i] < t[i] /\ \A j \in 1..(i - 1) : s[j] = t[j]

-----------------------------------------------------------------------------
(* The days                                                                *)

FirstDay == <<FirstMonth, 1>>
NextDate(date) == Normal(date[1], date[2] + 1)

CalendarInit ==
    /\ card \in [cutoff : Cutoffs, payment : PaymentDays]
    /\ today = FirstDay /\ fraction = 0
    /\ purchase = None

NextDay ==
    /\ purchase = None
    /\ NextDate(today)[1] < FirstMonth + MaxMonths
    /\ today' = NextDate(today) /\ fraction' = 0
    /\ UNCHANGED <<card, purchase>>

Later ==
    /\ today = FirstDay /\ purchase = None
    /\ fraction' \in (fraction + 1)..(Tens(Precision) - 1)
    /\ UNCHANGED <<card, today, purchase>>

(* CreateTransaction with msi, the paid ones checked against it            *)
(* (normalizePaidInstallments).                                            *)
Buy(months, paid) ==
    /\ purchase = None /\ fraction = 0
    /\ paid <= months
    /\ purchase' = Instalments(today, months, paid)
    /\ UNCHANGED <<card, today, fraction>>

CalendarNext ==
    \/ NextDay
    \/ Later
    \/ \E months \in Terms : \E paid \in 0..months : Buy(months, paid)

CalendarSpec == CalendarInit /\ [][CalendarNext]_calendarVars

-----------------------------------------------------------------------------
(* Properties                                                              *)

(* Whatever the lengths of the months, cycles follow each other without a  *)
(* gap: a day belongs to its own cycle, the next day to the same or to the *)
(* one that starts there; both computations of the cycle agree; and each   *)
(* cycle falls due after its end, in that month or the next, and after the *)
(* cycle before it, or together with it where the cut-off is the 28th or   *)
(* later and the payment day later still (a February).                     *)
CyclesMeet ==
    LET cycle    == StatementCycle(today, card.cutoff)
        next     == StatementCycle(NextDate(today), card.cutoff)
        due      == PaymentDueDate(cycle[2], card.payment)
        previous == PaymentDueDate(cycle[1], card.payment)
    IN  /\ Before(cycle[1], today) /\ ~Before(cycle[2], today)
        /\ next = cycle \/ (today = cycle[2] /\ next[1] = cycle[2])
        /\ CurrentBillingCycle(card.cutoff, today) = cycle
        /\ Before(cycle[2], due) /\ due[1] <= cycle[2][1] + 1
        /\ ~Before(due, previous)
        /\ due = previous => 28 <= card.cutoff /\ card.cutoff < card.payment

(* The instalments add up to the price and come to the card's statements   *)
(* in turn, one each month from the month of the first; only those of a    *)
(* purchase after the 28th may meet in one statement, or skip one.  What   *)
(* is entered as paid lies before the purchase, the next is of its day.    *)
InstalmentsInTurn ==
    LET months == Len(purchase)
        cents == [i \in 1..months |-> purchase[i].cents]
        Cycle(i) == StatementCycle(purchase[i].date, card.cutoff)
    IN  purchase # None =>
        /\ SumTo(cents, months) = AmountCents
        /\ \A i \in 1..(months - 1) :
             /\ ~Before(Cycle(i + 1)[2], Cycle(i)[2])
             /\ today[2] <= 28 => Cycle(i + 1)[1] = Cycle(i)[2]
        /\ \A i \in 1..months :
             /\ purchase[i].paid => Before(purchase[i].date, today)
             /\ today[2] <= 28 /\ ~purchase[i].paid =>
                  ~Before(purchase[i].date, today)

(* Of two stamps of one second the later is the greater text, so that the  *)
(* newer row wins in SQLite (lwwUpsertSQL), unless the earlier fraction is *)
(* the beginning of the later one: .5 is put after .52, and 0 after all.   *)
StampsInOrder ==
    [][fraction' > fraction =>
         \/ TextBefore(Stamp(fraction), Stamp(fraction'))
         \/ IsPrefix(Digits(fraction), Digits(fraction'))]_calendarVars
=============================================================================

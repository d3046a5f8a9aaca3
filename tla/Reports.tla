-------------------------------- MODULE Reports --------------------------------
(***************************************************************************)
(* functions/src/reports.js: what a report says about customers' payments. *)
(*                                                                         *)
(* A report changes nothing, but unlike every other callable it is not one *)
(* transaction: its revenue section reads the daily summaries and then,    *)
(* some time later, the payments.  Whatever is posted in between is in one *)
(* of its figures and not in the other.                                    *)
(***************************************************************************)
EXTENDS Finance

VARIABLE report  \* the revenue section being put together: its first read

NoReport == [open |-> FALSE, from |-> 1, to |-> 1, revenue |-> 0, at |-> 0]

ReportsInit == report = NoReport

-----------------------------------------------------------------------------
\* requirePeriod: first and last day, both included; the first is not in the future.
ReportPeriods == {p \in Days \X Days : p[1] <= day /\ p[1] <= p[2]}

\* sumSummaries: netCustomerPaymentsUgx.
NetCustomerPayments(from, to) ==
    SumFunction([d \in from..to |-> daily[d].payments - daily[d].paymentReversals])

\* A payment document stands for its entry: it was received on the entry's day, and
\* reversePayment marks both reversed.
PaymentsIn(from, to) ==
    {i \in EntryNumbers : ledger[i].type = "customer_payment" /\ ledger[i].day \in from..to}

AmountOf(entries) == SumOver(LAMBDA i : ledger[i].amount, entries)

\* paymentsByMethod, its methods added up: a reversed payment is not in the net.
NetOf(payments) == AmountOf({i \in payments : ledger[i].posted})

ReadSummaries(from, to) ==
    /\ ~report.open
    /\ report' = [open |-> TRUE, from |-> from, to |-> to,
                  revenue |-> NetCustomerPayments(from, to), at |-> Len(ledger)]
    /\ UNCHANGED financeVars

\* The section is complete; its net is NetOf(PaymentsIn(from, to)) as it is now.
ReadPayments ==
    /\ report.open
    /\ report' = NoReport
    /\ UNCHANGED financeVars

ReportsStep ==
    \/ \E p \in ReportPeriods : ReadSummaries(p[1], p[2])
    \/ ReadPayments

-----------------------------------------------------------------------------
(* Properties *)

ReversalsOf(payments) ==
    {j \in EntryNumbers : ledger[j].type = "reversal" /\ ledger[j].reversalOf \in payments}

\* The two figures of a revenue section differ by exactly three things, whatever is
\* posted or reversed between its two reads and whichever day it falls on: payments
\* taken after the first read; reversals of the period's payments that the first
\* figure missed (made later, or after the period); and reversals it counted that
\* are of payments from outside the period.
ReportsAddUp ==
    report.open =>
        LET payments == PaymentsIn(report.from, report.to)
            taken == {i \in payments : i > report.at}
            counted == {j \in 1..report.at :
                           /\ ledger[j].type = "reversal"
                           /\ ledger[j].reversalOfType = "customer_payment"
                           /\ ledger[j].day \in report.from..report.to}
        IN  NetOf(payments) = report.revenue
                              + AmountOf(taken)
                              - AmountOf(ReversalsOf(payments) \ counted)
                              + AmountOf(counted \ ReversalsOf(payments))
=============================================================================

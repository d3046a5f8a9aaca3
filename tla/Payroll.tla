------------------------------- MODULE Payroll -------------------------------
(***************************************************************************)
(* functions/src/payroll.js and losses.js: payrolls from preparation to    *)
(* payment, reversal and lock; loss incidents, the recoveries scheduled    *)
(* for them and other salary deductions.                                   *)
(*                                                                         *)
(* A payroll is prepared from what is true when it is prepared and paid    *)
(* from those figures later: between the two, incidents are decided and    *)
(* cancelled, other payrolls take the same deductions, and allowances are  *)
(* planned elsewhere.  Every callable is one serializable transaction.     *)
(*                                                                         *)
(* An employee has the salary version now in force; a payroll is for a     *)
(* slot, one frequency and period.  Nobody acts on their own pay.          *)
(***************************************************************************)
EXTENDS Allowances

CONSTANTS
    Slots,          \* <<frequency, period>> payrolls are created for
    Basics,         \* basic salaries callers enter
    Bonuses,        \* amounts of other earnings
    CapPercent,     \* policy.maxDeductionPercentOfGross
    Losses,         \* amounts of losses, recoveries and deductions
    Instalments,    \* amounts to take per payroll
    MaxPayrolls,    \* bound: payrolls
    MaxEarnings,    \* bound: other earnings on a payroll
    MaxIncidents,   \* bound: loss incidents
    MaxDeductions   \* bound: salary deductions

ASSUME PayrollAssumption ==
    /\ Basics \subseteq Nat /\ Bonuses \subseteq Amount /\ Losses \subseteq Amount /\ Instalments \subseteq Amount
    /\ CapPercent \in 0..100
    /\ Slots # {}
    /\ MaxPayrolls \in Nat /\ MaxEarnings \in Nat
    /\ MaxIncidents \in Nat /\ MaxDeductions \in Nat

VARIABLES
    incidents,   \* loss_incidents
    deductions   \* salary_deductions

lossVars == <<incidents, deductions>>
payVars == <<salaries, attendance, allowances, payrolls, incidents, deductions>>

Frequencies == {slot[1] : slot \in Slots}
PayrollNumbers == 1..MaxPayrolls
DeductionNumbers == 1..MaxDeductions

Salary == [exists: BOOLEAN, active: BOOLEAN, basic: Nat, frequency: Frequencies]

Incident == [staff: Staff \cup {None}, amount: Amount,
             status: {"reported", "under_review", "approved", "rejected", "recovery_scheduled",
                      "partially_recovered", "recovered", "cancelled"},
             approved: Nat, recovered: Nat, outstanding: Nat, cancelledOutstanding: Nat,
             deduction: Nat]   \* deductionId, 0 if none

Deduction == [staff: Staff, incident: Nat,   \* lossIncidentId, 0 if none
              total: Amount, instalment: Amount, recovered: Nat, remaining: Nat,
              status: {"pending_approval", "active", "completed", "rejected", "cancelled"},
              applied: [PayrollNumbers -> Nat]]  \* its unreversed application, by payroll

Earning == [staff: Staff, amount: Amount]

PayItem == [allowances: SUBSET (1..MaxAllowances), takes: [DeductionNumbers -> Nat], net: Nat]

PayrollStatuses == {"draft", "prepared", "pending_review", "approved", "paid", "locked", "cancelled"}

-----------------------------------------------------------------------------
(* Salary profiles *)

SetSalaryProfile(w, active, basic, frequency) ==
    LET next == [exists |-> TRUE, active |-> active, basic |-> basic, frequency |-> frequency]
    IN  /\ salaries[w] # next
        /\ salaries' = [salaries EXCEPT ![w] = next]
        /\ UNCHANGED <<financeVars, allowanceVars, payrolls, lossVars>>

-----------------------------------------------------------------------------
(* Calculation *)

Least(m, n) == IF m < n THEN m ELSE n

\* The period the one day of the model falls in.
PeriodOfDay == 1

\* The allowances payroll p would pay employee w: approved, unpaid, above zero, of a
\* day in its period.
AllowancesFor(p, w) ==
    {k \in DOMAIN allowances : /\ payrolls[p].slot[2] = PeriodOfDay
                               /\ allowances[k].staff = w /\ allowances[k].status = "approved"
                               /\ allowances[k].approvedAmount > 0}

EarningsFor(earnings, w) ==
    SumFunction([e \in {n \in DOMAIN earnings : earnings[n].staff = w} |-> earnings[e].amount])

Gross(p, earnings, w) ==
    LET basic == IF salaries[w].active THEN salaries[w].basic ELSE 0
    IN  basic + ApprovedIn(AllowancesFor(p, w))
              + EarningsFor(earnings, w)

Untaken(p, d) == deductions[d].applied[p] = 0

\* dueDeductions: active, something left, not taken by this payroll; a recovery
\* only while its incident stands and has something outstanding.
Due(p, w, d) ==
    /\ d \in DOMAIN deductions
    /\ deductions[d].staff = w /\ deductions[d].status = "active"
    /\ deductions[d].remaining > 0 /\ Untaken(p, d)
    /\ LET q == deductions[d].incident
       IN  q # 0 => incidents[q].status # "cancelled" /\ incidents[q].outstanding > 0

Planned(d) ==
    LET q == deductions[d].incident
        left == IF q = 0 THEN deductions[d].remaining
                ELSE Least(deductions[d].remaining, incidents[q].outstanding)
    IN  Least(deductions[d].instalment, left)

\* payFor: what is left of the capped share of gross after deductions 1..d, the
\* oldest first, each taking its instalment or what is left.
LeftAfter(p, earnings, w) ==
    LET left[d \in 0..MaxDeductions] ==
            IF d = 0 THEN (Gross(p, earnings, w) * CapPercent) \div 100
            ELSE IF Due(p, w, d) THEN left[d - 1] - Least(Planned(d), left[d - 1])
            ELSE left[d - 1]
    IN  left

ItemFor(p, earnings, w) ==
    LET left == LeftAfter(p, earnings, w)
    IN  [allowances |-> AllowancesFor(p, w),
         takes |-> [d \in DeductionNumbers |-> left[d - 1] - left[d]],
         net |-> Gross(p, earnings, w) - (left[0] - left[MaxDeductions])]

\* Employees of the frequency with something to be paid.
OnPayroll(p, earnings) ==
    {w \in Staff : /\ salaries[w].exists /\ salaries[w].frequency = payrolls[p].slot[1]
                   /\ \/ salaries[w].active /\ salaries[w].basic > 0
                      \/ AllowancesFor(p, w) # {}
                      \/ EarningsFor(earnings, w) > 0}

\* calculate: the items of payroll p, worked out from what is true now, replace
\* the old ones; it is prepared again, its review and approval forgotten.
Calculate(p, earnings) ==
    LET items == [w \in OnPayroll(p, earnings) |-> ItemFor(p, earnings, w)]
    IN  /\ payrolls' = [payrolls EXCEPT ![p] =
              [@ EXCEPT !.status = "prepared", !.reviewed = FALSE,
                        !.items = items, !.earnings = earnings,
                        !.total = SumFunction([w \in DOMAIN items |-> items[w].net])]]
        /\ UNCHANGED <<financeVars, salaries, allowanceVars, lossVars>>

-----------------------------------------------------------------------------
(* Payrolls before payment *)

NotPayroll == UNCHANGED <<financeVars, salaries, allowanceVars, lossVars>>

\* The key of the slot is taken until its payroll is cancelled.
SlotFree(slot) == \A p \in DOMAIN payrolls : payrolls[p].slot = slot => payrolls[p].status = "cancelled"

CreatePayroll(slot) ==
    /\ Len(payrolls) < MaxPayrolls
    /\ SlotFree(slot)
    /\ payrolls' = Append(payrolls,
          [slot |-> slot, status |-> "draft", reviewed |-> FALSE, items |-> << >>,
           earnings |-> << >>, total |-> 0, txn |-> 0])
    /\ NotPayroll

PreparePayroll(p) ==
    /\ payrolls[p].status \in {"draft", "prepared"}
    /\ Calculate(p, payrolls[p].earnings)

CorrectPayroll(p) ==
    /\ payrolls[p].status \in {"prepared", "pending_review", "approved"}
    /\ Calculate(p, payrolls[p].earnings)

AddPayrollEarning(p, w, n) ==
    /\ payrolls[p].status = "prepared"
    /\ w \in DOMAIN payrolls[p].items
    /\ Len(payrolls[p].earnings) < MaxEarnings
    /\ Calculate(p, Append(payrolls[p].earnings, [staff |-> w, amount |-> n]))

RemovePayrollEarning(p, e) ==
    /\ payrolls[p].status = "prepared"
    /\ Calculate(p, RemoveAt(payrolls[p].earnings, e))

\* submit, review, return and approve.
UpdatePayrollStatus(p, action) ==
    LET pay == payrolls[p]
        becomes(status, reviewed) ==
            payrolls' = [payrolls EXCEPT ![p].status = status, ![p].reviewed = reviewed]
    IN  /\ \/ /\ action = "submit" /\ pay.status = "prepared" /\ DOMAIN pay.items # {}
              /\ becomes("pending_review", pay.reviewed)
           \/ /\ action = "review" /\ pay.status = "pending_review" /\ ~pay.reviewed
              /\ becomes("pending_review", TRUE)
           \/ /\ action = "return" /\ pay.status = "pending_review"
              /\ becomes("prepared", FALSE)
           \/ /\ action = "approve" /\ pay.status = "pending_review" /\ pay.reviewed
              /\ becomes("approved", TRUE)
        /\ NotPayroll

\* The items stop being current and the slot is free again.
CancelPayroll(p) ==
    /\ payrolls[p].status \in {"draft", "prepared", "pending_review", "approved"}
    /\ payrolls' = [payrolls EXCEPT ![p].status = "cancelled"]
    /\ NotPayroll

LockPayroll(p) ==
    /\ payrolls[p].status = "paid"
    /\ payrolls' = [payrolls EXCEPT ![p].status = "locked"]
    /\ NotPayroll

-----------------------------------------------------------------------------
(* Payment and its reversal *)

AllowancesOf(p) == UNION {item.allowances : item \in ItemsOf(p)}
TakeOf(p, d) == SumFunction([w \in DOMAIN payrolls[p].items |-> payrolls[p].items[w].takes[d]])
TakenBy(p) == {d \in DOMAIN deductions : TakeOf(p, d) > 0}
RecoveryOf(p, q) == SumFunction([d \in {n \in TakenBy(p) : deductions[n].incident = q} |-> TakeOf(p, d)])

\* What the payroll was prepared from still holds when it is paid.
StillDue(p) ==
    /\ \A k \in AllowancesOf(p) : allowances[k].status = "approved"
    /\ \A d \in TakenBy(p) : /\ deductions[d].status = "active"
                             /\ deductions[d].remaining >= TakeOf(p, d) /\ Untaken(p, d)
    /\ \A q \in DOMAIN incidents : RecoveryOf(p, q) > 0 =>
          incidents[q].status # "cancelled" /\ incidents[q].outstanding >= RecoveryOf(p, q)

IncidentStatus(inc, scheduled) ==
    IF inc.status = "cancelled" THEN "cancelled"
    ELSE IF inc.approved > 0 /\ inc.outstanding = 0 THEN "recovered"
    ELSE IF inc.recovered > 0 THEN "partially_recovered"
    ELSE IF scheduled THEN "recovery_scheduled" ELSE "approved"

\* The incident after n more (or, below zero, less) of it was recovered.
Recovered(inc, n, scheduled) ==
    LET next == [inc EXCEPT !.recovered = @ + n, !.outstanding = @ - n]
    IN  [next EXCEPT !.status = IncidentStatus(next, scheduled)]

\* One entry pays the whole payroll; with nothing to pay out, none is posted.
PayPayroll(r, p, a) ==
    LET total == payrolls[p].total
        txn == IF total > 0 THEN NextNumber ELSE 0
    IN  /\ payrolls[p].status = "approved" /\ DOMAIN payrolls[p].items # {}
        /\ StillDue(p)
        /\ IF total > 0 THEN PayOut(r, "payroll_payment", total, a, p) ELSE NothingToPay(r)
        /\ allowances' = [k \in DOMAIN allowances |->
              IF k \notin AllowancesOf(p) THEN allowances[k]
              ELSE [allowances[k] EXCEPT !.status = "paid", !.via = "payroll", !.txn = txn,
                                         !.payroll = p]]
        /\ deductions' = [d \in DOMAIN deductions |->
              IF d \notin TakenBy(p) THEN deductions[d]
              ELSE LET n == TakeOf(p, d)
                   IN  [deductions[d] EXCEPT
                           !.recovered = @ + n, !.remaining = @ - n, !.applied[p] = n,
                           !.status = IF deductions[d].remaining = n THEN "completed" ELSE "active"]]
        /\ incidents' = [q \in DOMAIN incidents |->
              IF RecoveryOf(p, q) = 0 THEN incidents[q]
              ELSE Recovered(incidents[q], RecoveryOf(p, q), TRUE)]
        /\ payrolls' = [payrolls EXCEPT ![p].status = "paid", ![p].txn = txn]
        /\ UNCHANGED <<salaries, attendance>>

GivenBack(p) == {d \in TakenBy(p) : deductions[d].applied[p] > 0}

\* Mutant: a cancelled incident gets nothing back.
GivesBackToStanding(p, q) ==
    {d \in GivenBack(p) : deductions[d].incident = q /\ incidents[q].status # "cancelled"}

GivesBackTo(p, q) == {d \in GivenBack(p) : deductions[d].incident = q}

\* A paid payroll that is not locked goes back to approved: its entry is reversed,
\* its allowances are unpaid, what it took is given back, even to a deduction or an
\* incident cancelled since.
ReversePayrollPayment(p) ==
    /\ payrolls[p].status = "paid"
    /\ IF payrolls[p].txn # 0 THEN ReverseEntry(payrolls[p].txn) ELSE UNCHANGED financeVars
    /\ allowances' = [k \in DOMAIN allowances |->
          IF /\ k \in AllowancesOf(p)
             /\ allowances[k].status = "paid" /\ allowances[k].payroll = p
          THEN UnpaidAgain(k) ELSE allowances[k]]
    /\ deductions' = [d \in DOMAIN deductions |->
          IF d \notin GivenBack(p) THEN deductions[d]
          ELSE LET n == deductions[d].applied[p]
               IN  [deductions[d] EXCEPT
                       !.recovered = @ - n, !.remaining = @ + n, !.applied[p] = 0,
                       !.status = IF @ = "completed" THEN "active" ELSE @]]
    /\ incidents' = [q \in DOMAIN incidents |->
          LET back == GivesBackTo(p, q)
          IN  IF back = {} THEN incidents[q]
              ELSE Recovered(incidents[q], -SumFunction([d \in back |-> deductions[d].applied[p]]),
                             deductions[Max(back)].status # "cancelled")]
    /\ payrolls' = [payrolls EXCEPT ![p].status = "approved", ![p].txn = 0]
    /\ UNCHANGED <<salaries, attendance>>

-----------------------------------------------------------------------------
(* Loss incidents *)

NotLosses == UNCHANGED <<financeVars, salaries, allowanceVars, payrolls>>

\* w = None: nobody is linked to the loss.
CreateLossIncident(w, n) ==
    /\ Len(incidents) < MaxIncidents
    /\ incidents' = Append(incidents,
          [staff |-> w, amount |-> n, status |-> "reported", approved |-> 0, recovered |-> 0,
           outstanding |-> 0, cancelledOutstanding |-> 0, deduction |-> 0])
    /\ UNCHANGED deductions /\ NotLosses

ReviewLossIncident(q) ==
    /\ incidents[q].status = "reported"
    /\ incidents' = [incidents EXCEPT ![q].status = "under_review"]
    /\ UNCHANGED deductions /\ NotLosses

Undecided(q) == incidents[q].status \in {"reported", "under_review"}

\* recovery = 0: the business bears the loss.
ApproveLossIncident(q, recovery) ==
    /\ Undecided(q)
    /\ recovery <= incidents[q].amount
    /\ recovery > 0 => incidents[q].staff # None
    /\ incidents' = [incidents EXCEPT ![q].status = "approved", ![q].approved = recovery,
                                      ![q].outstanding = recovery]
    /\ UNCHANGED deductions /\ NotLosses

RejectLossIncident(q) ==
    /\ Undecided(q)
    /\ incidents' = [incidents EXCEPT ![q].status = "rejected"]
    /\ UNCHANGED deductions /\ NotLosses

Stoppable(d) == deductions[d].status \in {"active", "pending_approval"}

NewDeduction(w, q, total, instalment, status) ==
    [staff |-> w, incident |-> q, total |-> total, instalment |-> instalment, recovered |-> 0,
     remaining |-> total, status |-> status, applied |-> [p \in PayrollNumbers |-> 0]]

ScheduleLossRecovery(q, instalment) ==
    LET inc == incidents[q]
    IN  /\ Len(deductions) < MaxDeductions
        /\ inc.status \in {"approved", "partially_recovered"}
        /\ inc.deduction # 0 => ~Stoppable(inc.deduction)
        /\ inc.outstanding > 0
        /\ instalment <= inc.outstanding
        /\ deductions' = Append(deductions,
              NewDeduction(inc.staff, q, inc.outstanding, instalment, "active"))
        /\ incidents' = [incidents EXCEPT
              ![q].status = IF inc.recovered > 0 THEN "partially_recovered" ELSE "recovery_scheduled",
              ![q].deduction = Len(deductions) + 1]
        /\ NotLosses

\* A current item not yet paid takes something from deduction d.
PlannedUnpaid(d) ==
    \E p \in DOMAIN payrolls :
        /\ payrolls[p].status \notin {"paid", "locked", "cancelled"}
        /\ TakeOf(p, d) > 0

\* Its schedule stops; what was recovered stays recorded.
CancelLossIncident(q) ==
    LET inc == incidents[q]
        stops == inc.deduction # 0 /\ Stoppable(inc.deduction)
    IN  /\ inc.status \notin {"rejected", "recovered", "cancelled"}
        /\ stops => ~PlannedUnpaid(inc.deduction)
        /\ deductions' = IF stops THEN [deductions EXCEPT ![inc.deduction].status = "cancelled"]
                         ELSE deductions
        /\ incidents' = [incidents EXCEPT ![q].status = "cancelled",
              ![q].cancelledOutstanding = inc.outstanding, ![q].outstanding = 0]
        /\ NotLosses

-----------------------------------------------------------------------------
(* Other salary deductions *)

CreateSalaryDeduction(w, total, instalment) ==
    /\ Len(deductions) < MaxDeductions
    /\ instalment <= total
    /\ deductions' = Append(deductions, NewDeduction(w, 0, total, instalment, "pending_approval"))
    /\ UNCHANGED incidents /\ NotLosses

DecideSalaryDeduction(d, approve) ==
    /\ deductions[d].status = "pending_approval"
    /\ deductions' = [deductions EXCEPT ![d].status = IF approve THEN "active" ELSE "rejected"]
    /\ UNCHANGED incidents /\ NotLosses

\* The incident of a recovery can be scheduled again, unless it was cancelled.
CancelSalaryDeduction(d) ==
    LET q == deductions[d].incident
    IN  /\ Stoppable(d)
        /\ ~PlannedUnpaid(d)
        /\ deductions' = [deductions EXCEPT ![d].status = "cancelled"]
        /\ incidents' =
              IF q = 0 \/ incidents[q].status = "cancelled" THEN incidents
              ELSE [incidents EXCEPT ![q].deduction = 0, ![q].status =
                       IF incidents[q].recovered > 0 THEN "partially_recovered" ELSE "approved"]
        /\ NotLosses

-----------------------------------------------------------------------------
PayInit ==
    /\ AllowanceInit
    /\ salaries = [w \in Staff |-> [exists |-> FALSE, active |-> FALSE, basic |-> 0,
                                    frequency |-> CHOOSE f \in Frequencies : TRUE]]
    /\ payrolls = << >>
    /\ incidents = << >>
    /\ deductions = << >>

SalaryStep ==
    \E w \in Staff, active \in BOOLEAN, basic \in Basics, frequency \in Frequencies :
        SetSalaryProfile(w, active, basic, frequency)

EarningStep ==
    \E p \in DOMAIN payrolls :
        \/ \E w \in Staff, n \in Bonuses : AddPayrollEarning(p, w, n)
        \/ \E e \in DOMAIN payrolls[p].earnings : RemovePayrollEarning(p, e)

PayrollStep ==
    \/ \E slot \in Slots : CreatePayroll(slot)
    \/ \E p \in DOMAIN payrolls :
          \/ PreparePayroll(p) \/ CorrectPayroll(p) \/ CancelPayroll(p) \/ LockPayroll(p)
          \/ \E action \in {"submit", "review", "return", "approve"} : UpdatePayrollStatus(p, action)
          \/ \E r \in PaymentIds, a \in AccountIds : PayPayroll(r, p, a)
          \/ ReversePayrollPayment(p)

LossStep ==
    \/ \E w \in Staff \cup {None}, n \in Losses : CreateLossIncident(w, n)
    \/ \E q \in DOMAIN incidents :
          \/ ReviewLossIncident(q) \/ RejectLossIncident(q) \/ CancelLossIncident(q)
          \/ \E n \in Losses \cup {0} : ApproveLossIncident(q, n)
          \/ \E n \in Instalments : ScheduleLossRecovery(q, n)
    \/ \E d \in DOMAIN deductions : CancelSalaryDeduction(d)

DeductionStep ==
    \/ \E w \in Staff, total \in Losses, instalment \in Instalments : CreateSalaryDeduction(w, total, instalment)
    \/ \E d \in DOMAIN deductions, approve \in BOOLEAN : DecideSalaryDeduction(d, approve)
    \/ \E d \in DOMAIN deductions : CancelSalaryDeduction(d)

-----------------------------------------------------------------------------
(* Properties *)

PayrollTypeOK ==
    /\ salaries \in [Staff -> Salary]
    /\ \A p \in DOMAIN payrolls :
          /\ payrolls[p].slot \in Slots
          /\ payrolls[p].status \in PayrollStatuses
          /\ payrolls[p].reviewed \in BOOLEAN
          /\ DOMAIN payrolls[p].items \subseteq Staff
          /\ \A w \in DOMAIN payrolls[p].items : payrolls[p].items[w] \in PayItem
          /\ \A e \in DOMAIN payrolls[p].earnings : payrolls[p].earnings[e] \in Earning
          /\ payrolls[p].total \in Nat /\ payrolls[p].txn \in Nat
    /\ \A q \in DOMAIN incidents : incidents[q] \in Incident
    /\ \A d \in DOMAIN deductions : deductions[d] \in Deduction

PaidOut(p) == payrolls[p].status \in {"paid", "locked"}

\* A payroll says paid exactly while one unreversed entry pays out its total (none
\* if it came to nothing).  An allowance is paid by one entry or by one payroll that
\* is paid and lists it, never by both, and an entry for allowances pays exactly
\* the ones that name it.
PayMatchesLedger ==
    /\ \A p \in DOMAIN payrolls :
          IF PaidOut(p) /\ payrolls[p].total > 0
          THEN PaidBy(payrolls[p].txn, "payroll_payment", p, payrolls[p].total)
          ELSE NotPaid(payrolls[p].txn, "payroll_payment", p)
    /\ \A k \in DOMAIN allowances :
          LET paying == {p \in DOMAIN payrolls : PaidOut(p) /\ k \in AllowancesOf(p)}
          IN  paying = IF allowances[k].status = "paid" /\ allowances[k].via = "payroll"
                       THEN {allowances[k].payroll} ELSE {}
    /\ \A i \in EntryNumbers : ledger[i].type = "allowance_payment" =>
          LET batch == {k \in DOMAIN allowances : /\ allowances[k].status = "paid"
                                                  /\ allowances[k].via = "direct"
                                                  /\ allowances[k].txn = i}
          IN  (IF ledger[i].posted THEN ledger[i].amount ELSE 0)
                = ApprovedIn(batch)

\* Nothing is recovered twice or forgotten: whatever payrolls are paid, reversed and
\* paid again and whichever deductions and incidents are cancelled in between, an
\* approved recovery is what was recovered, what is outstanding and what was written
\* off; and what was recovered is what unreversed payrolls took.
RecoveriesAddUp ==
    /\ \A d \in DOMAIN deductions :
          /\ deductions[d].total = deductions[d].recovered + deductions[d].remaining
          /\ deductions[d].remaining >= 0
          /\ deductions[d].recovered = SumFunction(deductions[d].applied)
          /\ \A p \in PayrollNumbers : deductions[d].applied[p] =
                IF p \in DOMAIN payrolls /\ PaidOut(p) THEN TakeOf(p, d) ELSE 0
    /\ \A q \in DOMAIN incidents :
          LET inc == incidents[q]
          IN  /\ inc.approved = inc.recovered + inc.outstanding + inc.cancelledOutstanding
              /\ inc.outstanding >= 0
              /\ inc.recovered =
                    SumFunction([d \in {n \in DOMAIN deductions : deductions[n].incident = q} |->
                                    deductions[d].recovered])
=============================================================================

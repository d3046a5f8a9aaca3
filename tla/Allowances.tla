------------------------------ MODULE Allowances ------------------------------
(***************************************************************************)
(* functions/src/attendance.js and allowances.js: one attendance record    *)
(* per employee for a day, its verification and correction, the allowance  *)
(* it earns, and the payment of allowances outside payroll.                *)
(*                                                                         *)
(* Every callable is one serializable transaction.  Calculating, deciding  *)
(* and cancelling take a batch that succeeds or fails as a whole; here     *)
(* they take one record, a batch being several of them.  Paying a batch    *)
(* posts one entry for all of it and is modelled as such.                  *)
(*                                                                         *)
(* The model has one day.  "absent" stands for an excused absence too.     *)
(* Nobody decides about themselves; the callers here are someone else.     *)
(***************************************************************************)
EXTENDS Payments

CONSTANTS
    Staff,
    AllowanceOf,       \* the daily allowance of each employee's salary version
    RequireClockOut,   \* policy.requireClockOut
    ApprovalRequired,  \* policy.allowanceApprovalRequired
    LateDeductions,    \* deductions a manager takes for lateness
    MaxAllowances      \* bound: allowances

ASSUME AllowanceAssumption ==
    /\ IsFiniteSet(Staff)
    /\ AllowanceOf \in [Staff -> Nat]
    /\ RequireClockOut \in BOOLEAN /\ ApprovalRequired \in BOOLEAN
    /\ LateDeductions \subseteq Amount
    /\ MaxAllowances \in Nat

VARIABLES
    salaries,    \* salary_profiles: the version in force, see Payroll
    attendance,  \* attendance: the record of the day, by employee
    allowances,  \* worker_allowances, in the order they were numbered
    payrolls     \* payroll and payroll_items, see Payroll

allowanceVars == <<attendance, allowances>>

Attendance == [verification: {"none", "pending", "approved", "rejected"},
               arrival: {"on_time", "late", "absent"}, clockedOut: BOOLEAN,
               allowance: Nat]   \* allowanceId, 0 if none

Allowance == [staff: Staff, calculated: Amount, approvedAmount: Nat,
              status: {"calculated", "pending_approval", "approved", "rejected", "paid", "cancelled"},
              via: {"none", "direct", "payroll"},
              txn: Nat,      \* financialTransactionId, 0 if none
              payroll: Nat]  \* number of the payroll that paid it, 0 if none

Open == {"calculated", "pending_approval", "approved"}

-----------------------------------------------------------------------------
(* Payroll items that are current: those of every payroll but the cancelled ones *)

ItemsOf(p) == {payrolls[p].items[w] : w \in DOMAIN payrolls[p].items}
CurrentItems == UNION {ItemsOf(p) : p \in {q \in DOMAIN payrolls : payrolls[q].status # "cancelled"}}

InPayroll(k) == \E item \in CurrentItems : k \in item.allowances

-----------------------------------------------------------------------------
(* Attendance *)

PayUnchanged == UNCHANGED <<salaries, payrolls>>

\* clockedOut: a manager may enter both times at once.
RecordAttendance(w, arrival, clockedOut) ==
    /\ attendance[w].verification = "none"
    /\ arrival = "absent" => ~clockedOut
    /\ attendance' = [attendance EXCEPT ![w] =
          [verification |-> "pending", arrival |-> arrival, clockedOut |-> clockedOut,
           allowance |-> 0]]
    /\ PayUnchanged /\ UNCHANGED <<financeVars, allowances>>

ClockOut(w) ==
    /\ attendance[w].verification = "pending"
    /\ attendance[w].arrival # "absent"
    /\ ~attendance[w].clockedOut
    /\ attendance' = [attendance EXCEPT ![w].clockedOut = TRUE]
    /\ PayUnchanged /\ UNCHANGED <<financeVars, allowances>>

HasClockOut(w) == attendance[w].arrival = "absent" \/ attendance[w].clockedOut

VerifyAttendance(w, approve) ==
    /\ attendance[w].verification = "pending"
    /\ approve /\ RequireClockOut => HasClockOut(w)
    /\ attendance' = [attendance EXCEPT ![w].verification =
                         IF approve THEN "approved" ELSE "rejected"]
    /\ PayUnchanged /\ UNCHANGED <<financeVars, allowances>>

\* A correction, of arrival and clock-out or of no more than times and notes, sends the
\* record back to verification.  An allowance that is open is cancelled, one that is paid
\* or planned in a payroll refuses the correction, and one that was rejected stays linked.
CorrectAttendance(w, arrival, clockedOut) ==
    LET rec == attendance[w]
        k == rec.allowance
        open == k # 0 /\ allowances[k].status \in Open
    IN  /\ rec.verification # "none"
        /\ arrival = "absent" => ~clockedOut
        /\ k # 0 => allowances[k].status # "paid"
        /\ open => ~InPayroll(k)
        /\ attendance' = [attendance EXCEPT ![w] =
              [verification |-> "pending", arrival |-> arrival, clockedOut |-> clockedOut,
               allowance |-> IF open THEN 0 ELSE k]]
        /\ allowances' = IF open THEN [allowances EXCEPT ![k].status = "cancelled"] ELSE allowances
        /\ PayUnchanged /\ UNCHANGED financeVars

-----------------------------------------------------------------------------
(* Allowances *)

\* Mutant: a record that has its allowance earns another.
EligibleAgain(w) ==
    /\ attendance[w].verification = "approved"
    /\ attendance[w].arrival # "absent"
    /\ RequireClockOut => attendance[w].clockedOut
    /\ salaries[w].active /\ AllowanceOf[w] > 0

\* ineligibility(...) = null
Eligible(w) ==
    /\ attendance[w].verification = "approved"
    /\ attendance[w].arrival # "absent"
    /\ attendance[w].allowance = 0
    /\ RequireClockOut => attendance[w].clockedOut
    /\ salaries[w].active /\ AllowanceOf[w] > 0

CalculateAllowance(w) ==
    LET auto == attendance[w].arrival # "late" /\ ~ApprovalRequired
    IN  /\ Eligible(w)
        /\ Len(allowances) < MaxAllowances
        /\ allowances' = Append(allowances,
              [staff |-> w, calculated |-> AllowanceOf[w],
               approvedAmount |-> IF auto THEN AllowanceOf[w] ELSE 0,
               status |-> IF auto THEN "approved" ELSE "calculated",
               via |-> "none", txn |-> 0, payroll |-> 0])
        /\ attendance' = [attendance EXCEPT ![w].allowance = Len(allowances) + 1]
        /\ PayUnchanged /\ UNCHANGED financeVars

\* Full (0), less a deduction that leaves something, or nothing (reject).
Decide(k, deduction, final) ==
    LET n == allowances[k].calculated
    IN  /\ allowances[k].status \in {"calculated", "pending_approval"}
        /\ deduction <= n
        /\ allowances' =
              IF ~final THEN [allowances EXCEPT ![k].status = "pending_approval"]
              ELSE [allowances EXCEPT
                       ![k].status = IF deduction = n THEN "rejected" ELSE "approved",
                       ![k].approvedAmount = n - deduction]
        /\ PayUnchanged /\ UNCHANGED <<financeVars, attendance>>

ReviewAllowance(k, final) ==
    \/ Decide(k, 0, final)
    \/ \E deduction \in LateDeductions :
          deduction < allowances[k].calculated /\ Decide(k, deduction, final)
    \/ Decide(k, allowances[k].calculated, final)

\* What the allowances in S were approved for.
ApprovedIn(S) == SumFunction([k \in S |-> allowances[k].approvedAmount])

\* One entry pays the whole batch.
PayAllowances(r, batch, a) ==
    /\ \A k \in batch : allowances[k].status = "approved" /\ allowances[k].approvedAmount > 0
    /\ \A k \in batch : ~InPayroll(k)
    /\ PayOut(r, "allowance_payment", ApprovedIn(batch), a, 0)
    /\ allowances' = [k \in DOMAIN allowances |->
          IF k \notin batch THEN allowances[k]
          ELSE [allowances[k] EXCEPT !.status = "paid", !.via = "direct", !.txn = NextNumber]]
    /\ PayUnchanged /\ UNCHANGED attendance

\* What an allowance is once its payment is undone.
UnpaidAgain(k) ==
    [allowances[k] EXCEPT !.status = "approved", !.via = "none", !.txn = 0, !.payroll = 0]

\* Puts back the allowances of the batch that still say this entry paid them.
ReverseAllowancePayment(i) ==
    /\ ledger[i].type = "allowance_payment"
    /\ ReverseEntry(i)
    /\ allowances' = [k \in DOMAIN allowances |->
          IF allowances[k].status = "paid" /\ allowances[k].txn = i THEN UnpaidAgain(k)
          ELSE allowances[k]]
    /\ PayUnchanged /\ UNCHANGED attendance

CancelAllowance(k) ==
    LET w == allowances[k].staff
    IN  /\ allowances[k].status \in Open
        /\ ~InPayroll(k)
        /\ allowances' = [allowances EXCEPT ![k].status = "cancelled"]
        /\ attendance' = IF attendance[w].allowance = k
                         THEN [attendance EXCEPT ![w].allowance = 0] ELSE attendance
        /\ PayUnchanged /\ UNCHANGED financeVars

-----------------------------------------------------------------------------
AllowanceInit ==
    /\ attendance = [w \in Staff |-> [verification |-> "none", arrival |-> "absent",
                                      clockedOut |-> FALSE, allowance |-> 0]]
    /\ allowances = << >>

AllowanceStep ==
    \/ \E w \in Staff :
          \/ \E arrival \in {"on_time", "late", "absent"}, clockedOut \in BOOLEAN :
                \/ RecordAttendance(w, arrival, clockedOut)
                \/ CorrectAttendance(w, arrival, clockedOut)
          \/ ClockOut(w)
          \/ \E approve \in BOOLEAN : VerifyAttendance(w, approve)
          \/ CalculateAllowance(w)
    \/ \E k \in DOMAIN allowances :
          \/ \E final \in BOOLEAN : ReviewAllowance(k, final)
          \/ CancelAllowance(k)
    \/ \E batch \in (SUBSET (DOMAIN allowances)) \ {{}}, r \in PaymentIds, a \in AccountIds :
          PayAllowances(r, batch, a)
    \/ \E i \in EntryNumbers : ReverseAllowancePayment(i)

-----------------------------------------------------------------------------
AllowanceTypeOK ==
    /\ attendance \in [Staff -> Attendance]
    /\ \A k \in DOMAIN allowances : allowances[k] \in Allowance

\* A day's work is paid for once: whatever is calculated, cancelled, corrected and
\* paid again, an employee never has two allowances that are open, paid or planned,
\* and the live one is the one the attendance record names.
OneAllowanceADay ==
    \A k \in DOMAIN allowances :
        allowances[k].status \in Open \cup {"paid"} => attendance[allowances[k].staff].allowance = k
=============================================================================

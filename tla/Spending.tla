------------------------------- MODULE Spending -------------------------------
(***************************************************************************)
(* functions/src/expenses.js: expense categories, expenses from draft to   *)
(* paid, and recurring expenses, whose sweep drafts one expense for every  *)
(* due date.  Money moves only when an expense is paid, and comes back     *)
(* only through reverseFinancialTransaction.                               *)
(*                                                                         *)
(* Every callable is one serializable transaction, as in Finance; so is    *)
(* the sweep for each recurring expense (the query before it only selects  *)
(* candidates, and the transaction reads the document again).  Due dates   *)
(* are counted in periods of the frequency; a payment carries the client's *)
(* request id, the other calls are guarded by the status they change.      *)
(***************************************************************************)
EXTENDS Payments

CONSTANTS
    Categories,      \* category ids
    BuiltIn,         \* DEFAULT_CATEGORIES: usable although no document exists
    ExpenseAmounts,  \* amounts callers enter
    MaxExpenses,     \* bound: expenses
    MaxRecurring,    \* bound: recurring expenses
    MaxDue           \* bound: due dates

ASSUME SpendingAssumption ==
    /\ BuiltIn \subseteq Categories
    /\ ExpenseAmounts \subseteq Amount
    /\ MaxExpenses \in Nat /\ MaxRecurring \in Nat /\ MaxDue \in Nat

VARIABLES
    categories,  \* expense_categories: "none", "active" or "inactive"
    expenses,    \* expenses, in the order they were numbered
    recurring,   \* recurring_expenses
    dueKeys,     \* unique_keys/recurring_due_*: <<recurring expense, due date>>
    dueNow       \* the last due date whose reminder time has come

spendingVars == <<categories, expenses, recurring, dueKeys, dueNow>>

DueDates == 1..MaxDue

Expense == [status: {"draft", "pending_review", "approved", "rejected", "paid", "cancelled"},
            amount: Amount, reviewed: BOOLEAN,
            txn: Nat,         \* financialTransactionId, 0 if none
            recurring: Nat,   \* the recurring expense it was drafted for, 0 if none
            due: Nat]         \* its due date, 0 if none

Recurring == [active: BOOLEAN, amount: Amount, category: Categories, nextDue: Nat]

-----------------------------------------------------------------------------
(* Categories *)

InUse(c) == categories[c] = "active"

CreateExpenseCategory(c) ==
    /\ categories[c] = "none"
    /\ categories' = [categories EXCEPT ![c] = "active"]
    /\ UNCHANGED <<financeVars, expenses, recurring, dueKeys, dueNow>>

UpdateExpenseCategory(c, active) ==
    /\ categories[c] \notin {"none", IF active THEN "active" ELSE "inactive"}
    /\ categories' = [categories EXCEPT ![c] = IF active THEN "active" ELSE "inactive"]
    /\ UNCHANGED <<financeVars, expenses, recurring, dueKeys, dueNow>>

-----------------------------------------------------------------------------
(* Expenses *)

NewExpense(status, n, k, d) ==
    [status |-> status, amount |-> n, reviewed |-> FALSE, txn |-> 0, recurring |-> k, due |-> d]

CreateExpense(c, n, submit) ==
    /\ Len(expenses) < MaxExpenses
    /\ InUse(c)
    /\ expenses' = Append(expenses,
          NewExpense(IF submit THEN "pending_review" ELSE "draft", n, 0, 0))
    /\ UNCHANGED <<financeVars, categories, recurring, dueKeys, dueNow>>

Editable(e) == e.status \in {"draft", "pending_review"} /\ ~e.reviewed

\* A change of category must name one that is in use; other details are not modelled.
UpdateExpense(i, n) ==
    /\ Editable(expenses[i])
    /\ n # expenses[i].amount
    /\ expenses' = [expenses EXCEPT ![i].amount = n]
    /\ UNCHANGED <<financeVars, categories, recurring, dueKeys, dueNow>>

\* EXPENSE_ACTIONS: the expense after an action, and whether it is allowed.
StatusAfter(action) ==
    CASE action = "submit" -> "pending_review"
      [] action = "review" -> "pending_review"
      [] action = "approve" -> "approved"
      [] action = "reject" -> "rejected"
      [] action = "cancel" -> "cancelled"

Cancellable == {"draft", "pending_review", "approved"}

Allowed(action, e) ==
    CASE action = "submit" -> e.status = "draft"
      [] action = "review" -> e.status = "pending_review" /\ ~e.reviewed
      [] action = "approve" -> e.status = "pending_review" /\ e.reviewed
      [] action = "reject" -> e.status = "pending_review"
      [] action = "cancel" -> e.status \in Cancellable

UpdateExpenseStatus(i, action) ==
    /\ Allowed(action, expenses[i])
    /\ expenses' = [expenses EXCEPT ![i].status = StatusAfter(action),
                                    ![i].reviewed = @ \/ action = "review"]
    /\ UNCHANGED <<financeVars, categories, recurring, dueKeys, dueNow>>

PayExpense(r, i, a) ==
    /\ expenses[i].status = "approved"
    /\ PayOut(r, "expense_payment", expenses[i].amount, a, i)
    /\ expenses' = [expenses EXCEPT ![i].status = "paid", ![i].txn = NextNumber]
    /\ UNCHANGED <<categories, recurring, dueKeys, dueNow>>

\* The expense part of reverseFinancialTransaction: paid becomes approved again.
ExpensesAfterReversing(e) ==
    IF e.type = "expense_payment"
    THEN [expenses EXCEPT ![e.about].status = "approved", ![e.about].txn = 0]
    ELSE expenses

-----------------------------------------------------------------------------
(* Recurring expenses *)

CreateRecurringExpense(c, n, due) ==
    /\ Len(recurring) < MaxRecurring
    /\ InUse(c)
    /\ recurring' = Append(recurring, [active |-> TRUE, amount |-> n, category |-> c, nextDue |-> due])
    /\ UNCHANGED <<financeVars, categories, expenses, dueKeys, dueNow>>

\* The next due date may be moved, back to a date already drafted too.
UpdateRecurringExpense(k, active, due) ==
    /\ recurring[k].active # active \/ recurring[k].nextDue # due
    /\ recurring' = [recurring EXCEPT ![k].active = active, ![k].nextDue = due]
    /\ UNCHANGED <<financeVars, categories, expenses, dueKeys, dueNow>>

Undrafted(k) == <<k, recurring[k].nextDue>> \notin dueKeys

\* sweepRecurringExpenses for one recurring expense: a draft for its due date,
\* even if its category is no longer in use.
SweepRecurring(k) ==
    LET due == recurring[k].nextDue
    IN  /\ recurring[k].active
        /\ due <= dueNow
        /\ Undrafted(k)
        /\ Len(expenses) < MaxExpenses
        /\ expenses' = Append(expenses, NewExpense("draft", recurring[k].amount, k, due))
        /\ recurring' = [recurring EXCEPT ![k].nextDue = due + 1]
        /\ dueKeys' = dueKeys \cup {<<k, due>>}
        /\ UNCHANGED <<financeVars, categories, dueNow>>

\* Time passes: the reminder time of the next due date comes.
ReminderTimeComes ==
    /\ dueNow < MaxDue
    /\ dueNow' = dueNow + 1
    /\ UNCHANGED <<financeVars, categories, expenses, recurring, dueKeys>>

-----------------------------------------------------------------------------
SpendingInit ==
    /\ categories = [c \in Categories |-> IF c \in BuiltIn THEN "active" ELSE "none"]
    /\ expenses = << >>
    /\ recurring = << >>
    /\ dueKeys = {}
    /\ dueNow = 0

SpendingStep ==
    \/ \E c \in Categories :
          \/ CreateExpenseCategory(c)
          \/ \E active \in BOOLEAN : UpdateExpenseCategory(c, active)
          \/ \E n \in ExpenseAmounts, submit \in BOOLEAN : CreateExpense(c, n, submit)
          \/ \E n \in ExpenseAmounts, due \in DueDates : CreateRecurringExpense(c, n, due)
    \/ \E i \in DOMAIN expenses :
          \/ \E n \in ExpenseAmounts : UpdateExpense(i, n)
          \/ \E action \in {"submit", "review", "approve", "reject", "cancel"} :
                UpdateExpenseStatus(i, action)
          \/ \E r \in PaymentIds, a \in AccountIds : PayExpense(r, i, a)
    \/ \E k \in DOMAIN recurring :
          \/ \E active \in BOOLEAN, due \in DueDates : UpdateRecurringExpense(k, active, due)
          \/ SweepRecurring(k)
    \/ ReminderTimeComes

-----------------------------------------------------------------------------
(* Properties *)

SpendingTypeOK ==
    /\ categories \in [Categories -> {"none", "active", "inactive"}]
    /\ \A i \in DOMAIN expenses : expenses[i] \in Expense
    /\ \A k \in DOMAIN recurring : recurring[k] \in Recurring
    /\ dueKeys \subseteq (DOMAIN recurring) \X DueDates
    /\ dueNow \in 0..MaxDue

\* Pay, reverse, edit, cancel, pay again: an expense says paid exactly while one
\* unreversed entry pays its present amount, and the money left the ledger once.
ExpensesMatchLedger ==
    \A i \in DOMAIN expenses :
        IF expenses[i].status = "paid"
        THEN PaidBy(expenses[i].txn, "expense_payment", i, expenses[i].amount)
        ELSE NotPaid(expenses[i].txn, "expense_payment", i)

\* However often the sweep runs and however the due date is moved, a due date of
\* a recurring expense is drafted once, and exactly the drafted dates have a key.
DueDatesDraftedOnce ==
    /\ \A i, j \in DOMAIN expenses :
          /\ expenses[i].recurring # 0
          /\ expenses[i].recurring = expenses[j].recurring
          /\ expenses[i].due = expenses[j].due
          => i = j
    /\ dueKeys = {<<expenses[i].recurring, expenses[i].due>> :
                     i \in {j \in DOMAIN expenses : expenses[j].recurring # 0}}
=============================================================================

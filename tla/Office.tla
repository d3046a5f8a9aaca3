-------------------------------- MODULE Office --------------------------------
(***************************************************************************)
(* The departments that move money beside the cashier, over the ledger     *)
(* they share: expenses (Spending), stock (Stock), pay (Payroll with       *)
(* Allowances) and ownership (Dividends with Shares, Owners); who works at *)
(* them (Users) and what they are told (Notices); the reception's records  *)
(* of customers, vehicles and services (Registry); and the reports read    *)
(* meanwhile (Reports).                                                    *)
(*                                                                         *)
(* Each behaviour opens with the money the business has, and in it only    *)
(* some desks are busy (Departments): the interleavings within a desk, and *)
(* of desks that share documents, are all there; desks that meet only in   *)
(* the ledger are each explored beside reverseFinancialTransaction.        *)
(***************************************************************************)
EXTENDS Spending, Stock, Payroll, Dividends, Owners, Notices, Reports

CONSTANTS
    Departments,  \* bound: sets of desks that are busy together
    HiredFor,     \* bound: the frequency of an employee's first salary profile
    Capital,      \* the opening balance
    MaxPayDocuments \* bound: allowances and payrolls together

ASSUME OfficeAssumption == HiredFor \in Frequencies /\ Capital \in Amount

VARIABLE busy

\* Records that no money moves with.
recordVars == <<registryVars, fileVars, noticeVars>>
officeVars == <<financeVars, spendingVars, stockVars, payVars, ownershipVars, userVars,
                recordVars, report, busy>>

OfficeInit ==
    /\ FinanceInit /\ SpendingInit /\ StockInit /\ PayInit /\ SharesInit /\ DividendsInit
    /\ UsersInit /\ RegistryInit /\ OwnersInit /\ NoticesInit /\ ReportsInit
    /\ busy \in Departments

Opened == ledger # << >>

OpenBusiness ==
    /\ ~Opened
    /\ RecordOpeningBalance(Cash, Capital)
    /\ UNCHANGED <<spendingVars, stockVars, payVars, ownershipVars, userVars, recordVars, report, busy>>

\* reverseFinancialTransaction with what it does to the document it paid for; the
\* opening balance, which Finance reverses too, stands here.
ReverseSpending(i) ==
    /\ ledger[i].type # "opening_balance"
    /\ ReverseTransaction(i)
    /\ expenses' = ExpensesAfterReversing(ledger[i])
    /\ purchases' = PurchasesAfterReversing(ledger[i])
    /\ UNCHANGED <<categories, recurring, dueKeys, dueNow, items, movements, suppliers>>
    /\ UNCHANGED <<payVars, ownershipVars, userVars, recordVars, report, busy>>

NextBusinessDay ==
    /\ NextDay
    /\ UNCHANGED <<spendingVars, stockVars, payVars, ownershipVars, userVars, recordVars, report, busy>>

\* Every employee gets a salary profile; it is changed later at the salaries desk.
Hiring == \E w \in Staff, basic \in Basics :
    ~salaries[w].exists /\ SetSalaryProfile(w, TRUE, basic, HiredFor)

PayStep ==
    /\ \/ Hiring
       \/ "allowances" \in busy /\ AllowanceStep /\ UNCHANGED lossVars
       \/ "losses" \in busy /\ LossStep
       \/ "deductions" \in busy /\ DeductionStep
       \/ "earnings" \in busy /\ EarningStep
       \/ "payroll" \in busy /\ PayrollStep
       \/ "salaries" \in busy /\ SalaryStep
    /\ Len(allowances') + Len(payrolls') <= MaxPayDocuments
    \* Bound: allowances are earned in one period, and payrolls of another take none.
    /\ "allowances" \in busy => \A p \in DOMAIN payrolls' : payrolls'[p].slot[2] = PeriodOfDay

AllRegistered == (\A h \in Holders : shareholders[h] # "none") /\ \A c \in Classes : classes[c].exists

\* Bound: the files of shareholders are kept at a desk of their own; here they are blank.
OwnershipStep ==
    \/ Registration({}, {}) /\ UNCHANGED <<registryVars, noticeVars>>
    \/ /\ UNCHANGED recordVars
       /\ \/ ClassStep
          \/ "register" \in busy /\ RegisterChange
          \/ /\ AllRegistered
             /\ \/ "shares" \in busy /\ SharesStep
                \/ "corrections" \in busy /\ CorrectionStep
                \/ "capital" \in busy /\ ContributionStep
                \/ "dividends" \in busy /\ DividendsStep
                \/ "amending" \in busy /\ AmendStep

PeopleStep ==
    \/ "identity" \in busy /\ AccountStep
    \/ "crashes" \in busy /\ CrashStep
    \/ "appointments" \in busy /\ AppointmentStep
    \/ "administration" \in busy /\ AdministrationStep
    \/ "passwords" \in busy /\ (PasswordStep \/ Tick)
    \/ "temporary" \in busy /\ (GrantStep \/ Tick)
    \/ "notices" \in busy /\ \E caller, u \in People, active \in BOOLEAN : SetUserActive(caller, u, active)

RecordsStep ==
    \/ /\ \/ "registry" \in busy /\ ReceptionStep
          \/ "catalogue" \in busy /\ CatalogueStep
       /\ UNCHANGED <<fileVars, noticeVars>>
    \/ "files" \in busy /\ FileStep /\ UNCHANGED <<registryVars, noticeVars>>
    \/ "notices" \in busy /\ NoticesStep /\ UNCHANGED <<registryVars, fileVars>>

\* Customers pay, payments are reversed, and somebody asks for a report.
TakingsStep ==
    \/ (Payments \/ \E i \in EntryNumbers : ReverseCustomerPayment(i)) /\ UNCHANGED report
    \/ ReportsStep

OfficeNext ==
    \/ busy \cap {"people", "registry", "catalogue", "files"} = {} /\ OpenBusiness
    \/ /\ RecordsStep
       /\ UNCHANGED <<financeVars, spendingVars, stockVars, payVars, ownershipVars, userVars, report, busy>>
    \/ /\ "people" \in busy /\ PeopleStep
       /\ UNCHANGED <<financeVars, spendingVars, stockVars, payVars, ownershipVars, recordVars, report, busy>>
    \/ /\ "files" \in busy /\ Registration(OwnerPhones, Identifications)
       /\ UNCHANGED <<spendingVars, stockVars, payVars, userVars, registryVars, noticeVars, report, busy>>
    \/ /\ Opened
       /\ \/ \E i \in EntryNumbers : ReverseSpending(i)
          \/ /\ "spending" \in busy /\ SpendingStep
             /\ UNCHANGED <<stockVars, payVars, ownershipVars, userVars, recordVars, report, busy>>
          \/ /\ "stock" \in busy /\ StockStep
             /\ UNCHANGED <<spendingVars, payVars, ownershipVars, userVars, recordVars, report, busy>>
          \/ /\ "payroll" \in busy /\ PayStep
             /\ UNCHANGED <<spendingVars, stockVars, ownershipVars, userVars, recordVars, report, busy>>
          \/ /\ "ownership" \in busy /\ OwnershipStep
             /\ UNCHANGED <<spendingVars, stockVars, payVars, userVars, report, busy>>
          \/ /\ "takings" \in busy /\ TakingsStep
             /\ UNCHANGED <<spendingVars, stockVars, payVars, ownershipVars, userVars, recordVars, busy>>
          \/ "calendar" \in busy /\ NextBusinessDay

OfficeSpec == OfficeInit /\ [][OfficeNext]_officeVars

-----------------------------------------------------------------------------
(* Properties *)

OfficeTypeOK ==
    /\ SpendingTypeOK /\ StockTypeOK /\ AllowanceTypeOK /\ PayrollTypeOK
    /\ SharesTypeOK /\ DividendsTypeOK

\* Documents and ledger never part: in whatever order documents are paid, their
\* payments reversed, here or at their own desk, and paid again, each says paid
\* exactly while one unreversed entry moved the amount it says.
DocumentsMatchLedger ==
    /\ OfficeTypeOK
    /\ ExpensesMatchLedger
    /\ PurchasesMatchLedger
    /\ PayMatchesLedger
    /\ CapitalMatchesLedger
    /\ DividendsMatchLedger

\* What is earned, due or delivered is booked once: a due date, a day's work, a
\* receipt, a movement of stock.
BookedOnce ==
    /\ DueDatesDraftedOnce
    /\ OneAllowanceADay
    /\ StockMatchesMovements
    /\ ReceiptsMatchPurchases

\* Who owned what on a day is one story, told by the ownership ledger, the holdings
\* and every dividend that stands; and who each of them is, no file of another says.
OwnershipHistoryHolds == HoldingsMatchHistory /\ SnapshotHolds /\ OwnersKnown
=============================================================================

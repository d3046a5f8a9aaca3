# RamosMAX back end in TLA+

RamosMAX Automotive Care is a business-management system for a car wash and garage: customers, jobs, invoices,
payments, loyalty, finance, inventory, pay, shares. Its rules live in Cloud Functions (`functions/src`, plain
JavaScript on Firestore); the Flutter app (`lib`) calls them and may not write the collections itself. This directory
holds TLA+ models of those functions, the TLC configurations that check them on small instances, and TLAPS proofs.

**Contents.** [Inventory](#inventory) · [How the code runs](#how-the-code-runs) · [Modules](#modules) ·
[Runs](#runs) · [Bounds](#bounds) · [Fairness](#fairness) · [Findings](#findings) · [Proofs](#proofs) ·
[Not modelled](#not-modelled) · [Plan](#plan)

## Inventory

| Component (`functions/src`) | State it keeps | Operations | What makes it correct | Status |
|---|---|---|---|---|
| Financial ledger: `finance.js` | accounts with balances and cash awaiting banking; numbered entries; bank deposits; reconciliations; request markers; daily summaries; list of banks | default, new and changed accounts, opening balance, transfer, deposit, reconcile, adjust, reverse; posting and reversing for all other components | balances are the sum of their entries, no overdraft, entries immutable, one reversal each, retries post once, summaries agree with entries | modelled, proved |
| Billing: `billing.js` | invoices, discounts, payments, receipts | create, discount, pay, reverse a payment, credit, cancel | paid amount is the live payments, nothing negative, one invoice per job, one payment per request | modelled, proved |
| Loyalty: `loyalty.js` | points per vehicle, log of points, rewards | earn, redeem, adjust, reverse | points are the sum of the log, one available reward exactly when deserved, nothing reversed twice | modelled, proved |
| Jobs: `jobs.js` | intakes, worker orders | intake, update, assign, reassign, cancel, start / finish | job status follows its orders, one live order and one price per service, an invoiced job is frozen, nothing is deleted | modelled, proved |
| After hours: `after_hours.js` | authorisations, sessions, custody, handovers, discrepancies | authorise, revoke, open, close, submit, receive, review, resolve, sweep | expected cash is what was collected; one open session each; the float is given once; session, handover and discrepancy tell one story; the housekeeping is done in the end | partly: the policy is a constant |
| Expenses: `expenses.js` | categories, expenses, recurring expenses, keys of due dates | save, submit, decide, cancel, pay, recurring sweep | a paid expense has one live entry; one expense per due date | modelled, proved |
| Inventory and purchases: `inventory.js` | items, movements, suppliers, purchases | save, receive, move, approve, pay, reverse | stock is the sum of its movements and never negative; nothing received twice; a paid purchase has its entry | modelled, proved |
| Pay: `payroll.js`, `allowances.js`, `attendance.js`, `losses.js`, `workforce.js` | attendance, allowances, salaries, payrolls, losses, deductions | record, verify, correct, calculate, decide, pay, reverse, lock, cancel | a loss is recovered exactly as far as live payrolls took it; one allowance a day; a paid payroll has its entry | partly: one day, policy a constant |
| Ownership: `shares.js`, `shareholders.js`, `dividends.js` | shareholders and their files, share classes, share transactions, holdings, contributions, dividends, allocations | register, issue, transfer, adjust, decide, reverse, contribute, declare, calculate, approve, pay, cancel | no holding negative on any date; a dividend follows the holdings on its record date, to the shilling; one person per phone, identification and sign-in | partly: policies are read, not changed |
| Users: `user_admin.js`, `session.js`, `access.js`, `passwords.js` | Auth users, profiles, permissions, temporary grants, staff links, throttles | create, change phone, roles and access, deactivate, reset, delete login, sign in, sweep | an administrator always remains; both stores agree where calls neither met nor died; attempts are limited | partly |
| Reception: `operations.js`, `plates.js` | customers, vehicles, services, keys, counters | create, update, activate | one record for each phone, plate and name; copies and counts follow | modelled, proved |
| Notifications: `notify.js` | notices, devices, preferences | notify, register, prune | one notice a window; a push record says what happened | partly |
| Reports: `reports.js` | none | read and add up | figures add up when nothing is recorded meanwhile | partly: the revenue section |
| Callables and schedules: `index.js` | none | | each handler is one call, may die between transactions; sweeps run on schedule | partly |
| Flutter app, rules, `ramosmax-web`, Android / iOS | | | | [not modelled](#not-modelled) |

**How they interact.** Billing, spending, pay, ownership and after hours all post money through one class, `Ledger` in
`finance.js`, inside their own transaction. `reverseFinancialTransaction` changes the document an entry paid for, so the
expense and the purchase depend on it too. Billing reads a completed job and calls loyalty in the transaction of the
payment; after hours hooks into `recordPayment` and `reversePayment`; losses become deductions in payrolls, and
allowances are paid by a payroll or outside it. Users and staff records name each other. Everything is reached
through the callables, triggers and schedules in `index.js`.

**What is hard.** The hazards are listed, each at its line, in `PROJECT.json`. Most are long sequences of legal calls by
several people (pay, bank, reverse, deactivate, cancel, invoice again), retries of calls whose answer was lost, data
kept twice (balance and entries, summary and entries, payroll and deductions, holding and history, unique key and
record, login and profile), values that are clamped or forgiven at a boundary (cash awaiting banking, points already
spent, shares of past dates), and the few calls that are more than one transaction.

## How the code runs

Nearly every callable does its work in one `db.runTransaction`, and Firestore transactions are serializable: the reads
are validated at commit and the function re-run if anything changed. So **one callable is one atomic action**, and
interleaving is interleaving of whole callables. Inside the model:

- A call the code refuses (any `throw` before commit) changes nothing; it is not an action, its condition is a guard.
- A retry with a stored request id returns the stored result and changes nothing: a stutter.
- The caller's permissions are read in the same transaction. Each action is that of a caller who holds them, and, where
  the code forbids acting for oneself, who is somebody else. `Users` models who holds what.
- Audit records are written and never read. They are left out.
- Documents get random ids in the code and numbers from a counter read in the same transaction. The model numbers them
  by their place in a sequence; only identity matters.
- A crash loses a transaction or keeps it whole, so a restart is no action of its own.

Where a call is **not** one transaction, its parts are steps of their own, calls overlap, and one may die in between:

- `createUser` and `changeUserPhone` write Firebase Authentication and Firestore one after the other; signing in and
  `changeOwnPassword` ask one and write the other. `Users` keeps each unfinished call in a lane (`inFlight`) with its
  next step; `CutOff` ends a call anywhere. What the code undoes in a `catch` is a step too.
- The sweeps (`sweepAfterHours`, `sweepTemporaryGrants`, `sweepRecurringExpenses`) read their lists outside any
  transaction and work through them later. In `AfterHours` the reads are separate from the writes; in `Spending` and
  `Users` each document is read again in the transaction that changes it, so the list only selects candidates.
- `notify` reads, creates the document, pushes, prunes devices and records the result, each by itself (`Notices`).
- A report reads one figure after the other (`Reports`).
- The sign-in throttle is read before the attempt and counted after it (`Users`).

## Modules

| Module | What it is | Code |
|---|---|---|
| `Journal` | The promise: an append-only journal of transfers, balances that change only with an entry, by its amount, never below zero | abstract |
| `Ledger` | Pure operators: accounts, entries, and what posting an entry does to the accounts it touches | `finance.js` 187-449 |
| `Finance` | The state machine of `finance.js` | `finance.js` |
| `Loyalty` | Pure operators on the loyalty state of vehicles | `loyalty.js`, `billing.js` 400-421 |
| `Billing` | Billing and loyalty, extending `Finance`: a payment is one step of both | `billing.js`, `loyalty.js` |
| `AfterHours` | Work after hours, extending `Billing`: a payment in a session is one step of all three | `after_hours.js`, `billing.js` |
| `Jobs` | Visits and work: jobs, worker orders, and invoices and prices as they meet them | `jobs.js`, `billing.js` 112-203 and 652-704, `operations.js` 532-608 |
| `Payments` | What the departments share when they move money, on `Finance` | `finance.js` |
| `Spending`, `Stock` | Expenses; stock and purchases | `expenses.js`; `inventory.js` |
| `Allowances`, `Payroll` | Attendance and allowances; with salaries, payrolls, losses and deductions | `attendance.js`, `allowances.js`; `payroll.js`, `losses.js` |
| `Shares`, `Dividends` | The ownership ledger and contributions; with dividends | `shares.js`, `shareholders.js`; `dividends.js` |
| `Owners` | Files of shareholders: unique phones, identifications, sign-ins | `shareholders.js` |
| `Users` | Logins, profiles, access, passwords, throttle | `user_admin.js`, `session.js`, `access.js`, `passwords.js` |
| `Notices` | Notifications in their steps | `notify.js`, `index.js` |
| `Registry` | Customers, vehicles, services | `operations.js`, `plates.js` |
| `Reports` | A report read while payments go on | `reports.js` |
| `Office` | All departments over one ledger, with the people and records they share | `finance.js` 905-1010, `index.js` |
| `MCFinance`, `MCBilling`, `MCJobs`, `MCAfterHours`, `MCOffice`, `MCUsers` | Instances for TLC | |
| `FinanceProofs` | Theorems about `Finance`: ledger, balances and days; the documents beside them; sums and sequences | |
| `BillingProofs` | Theorems about `Billing`: money and requests; amounts, points and rewards | |
| `JobsProofs`, `AfterHoursProofs` | Theorems about the module of that name | |
| `UsersProofs` | Theorems about `Users` and `Registry` | |
| `DeskProofs` | What the desks of expenses, stock and pay keep, and the ledger they share | |
| `OwnershipProofs` | What shares and dividends keep | |
| `OfficeProofs` | Theorems about `Office`: all desks together, notices, files, reports | |

`PROJECT.json` maps each definition to the lines it stands for. The main correspondences:

**Money.**

- **`Commit(accts, entries, e)`** is `Ledger.post` followed by `Ledger.commit`: checks of the entry (`WellFormed`) and of
  the source's balance (`Affordable`), both `_move` calls (`AfterPosting`), the entry with its day, the day's summary.
  `accts` are the accounts as the callable changed them before (`openingBalanceRecorded`, a new account).
- **`Moved`** is `_move`: the balance changes, and for a cash account the cash awaiting banking follows by the rules of
  `AWAITING_CUSTOMER` and `AWAITING_BANKING` and is clamped to the balance.
- **`created`** are the accounts whose document exists. A default account without one reads as new (`defaultAccountData`)
  and is written by the first commit that touches it. `accounts` gives such an account the data it would read as.
- **`listed`** is `settings/payment_accounts`. Only the callables that call `writePaymentAccounts` rewrite it; in
  particular, a payment that creates `bank_1` on the fly does not list it. It stays off the list until the next change of
  an account; cashiers are then offered no bank although there is one, and the payment still finds it.
- **`PaymentGoesTo`** is `resolvePaymentAccount`. A payment method is represented by the default account it stands for.
- **`daily`** keeps the headings the properties are about: customer payments, their reversals, and what went in and out
  of each account. The other headings are increments of the same form.
- `now` is read when a call arrives and stamped on its entries. The model dates a call by the day it commits on. No
  property depends on the order of days, only on entry and summary carrying the same one, which both forms give.
- **`PostFor`** (`Payments`) is the common part of every paying callable: request, active account, post, store; an
  entry's `about` is the number of the document it pays. **`ReverseSpending`** (`Office`) is
  `reverseFinancialTransaction` whole, with `spendingReversal` of the expense or purchase paid.

**Billing and jobs.**

- A job in **`Billing`** is its vehicle, the price of its completed services and how many of them earn points: what
  `createInvoice` copies. `invoiceOf` is `service_intakes.invoiceId`.
- **`loyalty.undone`** are the `unique_keys/loyalty_reversal_*` markers, which payment reversal, invoice cancellation and
  reversal by hand all look up.
- Receipts change together with their payments and have no field of their own in the model. Amounts are shillings;
  `RewardPercent` of a price is rounded half up as in `percentOf`.
- In **`Jobs`**, a worker order is known by its job, its service and how many orders the job had for that service before:
  the code's random id and `orderNumber` carry no more. `lines` is `service_intakes.orders`, the summary that lists and
  screens read; `selected` is `selectedServices`, each service with the price copied by `readSelectedServices`; `history`
  is `assignmentHistory`. `updateServiceIntake` is three actions: it cancels, changes the services (opening a draft or
  not), or only opens. The times of each transition, `completedAt`, notes and worked time follow the status and decide
  nothing. A vehicle, service or worker that is not active only makes the code refuse more.
- Invoices in `Jobs` keep the orders and prices they copied; what happens to their money is in `Billing`, where a job is
  its copy. That an invoice can be cancelled only while nothing is paid is a guard of `Billing`.

**After hours.** `auths`, `sessions`, `custody`, `handovers` and `gaps` (discrepancies) are the collections;
`openSession` is `unique_keys/after_hours_session_*`; a worker's right to take payments is the grant of the
authorisation, by time. `told` counts the notices about an authorisation's end and an open handover, so that
`RemindedOnce` can speak of them. `sweeps` holds what each running sweep has read and not yet worked through.

**Departments.** A status machine of the code is a field `status`, its table of transitions the guards. Stored totals
(`paidUgx`, `outstandingUgx`, `recoveredUgx`, `quantity`) are state, because the properties compare them with what they
total. In `Shares` the totals on shareholders, classes and the register are operators, since `writeBook` writes all of
them from all holdings every time. The share policy is read by each call: any of `Policies`. `NeverNegative` is the
function `neverNegative`: the holding on every day, an entry put in.

**Users.** `logins` and `profiles` are the two stores; `inFlight` the unfinished calls, each with its next step. A call
whose second store is written last and decides nothing (`setUserActive`, `resetUserPassword`) is one step. `crossed`
(whom a call was about that met another or died) and `guesses` are history variables: the code does not have them, the
properties need them. A password is right or wrong. `FreeFor` is the uniqueness of a number in Authentication.

**Records.** Unique keys (`phoneKeys`, `plateKeys`, `nameKeys`, `idKeys`, `signInKeys`) are functions from what is
reserved to whose document it is. A plate or name as written and as reserved (`PlateKey`, `NameKey`, `IdKey`) are two
things, since `plateKey` and `nameKey` drop case and blanks. `outgrown` is a history variable of `Registry`: the customers
whose last change of name found more vehicles than its query returns (`operations.js:241`).

## Runs

Deadlock is not checked (`CHECK_DEADLOCK FALSE`): callers may stop calling at any time, and the bounds end every
behaviour.

| Run | Instance | What it shows |
|---|---|---|
| `finance` | cash, the default bank and one bank created later; amount 1; 4 entries; 2 days; one request | Shape and no overdraft; the list of banks usable; summaries agree with entries; reversals paired; one opening balance; `Journal` implemented; ledger append-only |
| `finance_requests` | cash and the default bank; amounts 1 and 2; 3 entries; 2 reconciliations; two interchangeable requests; counts 0..2 | Deposits, reconciliations and stored results stay in step with the entries made for them; cash awaiting banking within cash |
| `finance_inactive` | one amount, 3 entries | Finding 1 |
| `finance_awaiting` | one amount, 4 entries | Finding 2 |
| `billing` | two jobs of one vehicle, earning 2 points and 1; price 2; three interchangeable payment requests; 3 ledger entries; 4 log entries; 2 invoices; threshold and cost 2 | Everything about invoices, payments, points and rewards |
| `jobs` | one visit of one car, two services, two workers; prices 1 and 2; 3 orders; 2 invoices; 2 assignments of an order | Summary and status follow the orders; one live order and one price for a service; invoiced work frozen; one assignee; nothing deleted |
| `jobs_visits` | two visits of one car; one price; 3 orders | Finding 3 |
| `jobs_prices` | one visit; prices 1 and 2; 2 orders | Finding 4 |
| `after_hours` | one worker, one job of price 2, cash; one authorisation, two sessions, one handover; two payment requests; two sweeps | Custody book, sessions and payments agree; the float is given once; session, handover and discrepancy tell one story; nobody is reminded twice; the housekeeping is done in the end |
| `office` | one person or thing of each kind, two shareholders; opening balance 3; 4 entries | Documents of all departments agree with the ledger; losses are recovered exactly; nothing is booked twice; holdings and dividends follow the ownership ledger; a report's figures differ only by what was recorded meanwhile |
| `office_people` | two administrators, one more person, three numbers, two calls at once, one of them may die; two customers, cars and services, a change of name reaching one car | Access in order; sign-in attempts bounded; reception's records in order; notices pushed once and truthful |
| `users_stores` | the same people; no call dies | Finding 5 |

Each property has a mutant in `PROJECT.json`: a plausible slip in the code, written out in the module as an alternative
operator, that TLC must catch with that property under the run's own configuration. `FinanceTypeOK` is checked in
`finance`; the type invariants of the other modules are the first conjunct of a property of their run
(`BillingTypeOK` of `PaymentsAddUp`, `JobsTypeOK` of `JobMirrorsOrders`, `OfficeTypeOK` of `DocumentsMatchLedger`,
`UsersTypeOK` of `AccessInOrder`, `RegistryTypeOK` of `RegistryInOrder`). `AfterHoursTypeOK` is proved (`HoursTypeCorrect`)
and not checked in `after_hours`, which it would make twice as long.

`RewardsFollowPoints` assumes that a reward costs no more than the threshold that unlocks it, which is how the
defaults are (200 and 200). `readLoyaltyConfig` accepts any two positive numbers: with a cost above the threshold a
reward is unlocked that nobody can redeem, and the next correction revokes it.

## Bounds

**Finance and billing.** Three entries are enough for an entry, something that depends on it, and the reversal of
either: payment, deposit, refused or allowed reversal. Four are an opening balance, an entry, its reversal and the
attempt to reverse it again, or an opening balance that is reversed and recorded again; what longer histories could add
is covered by the theorems, which bound nothing. Two amounts are the least that tell "all of it" from "part of it"
(partial payments, wrong-size adjustments, clamping). In `billing`, one job earns exactly what unlocks a reward and the
other less, so that the reward can be used on the second invoice, given back, and its points already spent when the
first payment is reversed; four log entries cover earn, redeem, shortfall or restoration, and one correction by hand. Two
invoices cover both "two jobs" and "one job invoiced again". The merchant accounts of mobile money behave as `cash`
does without the awaiting amount and as banks do without the list, and are left empty in the instances; the proofs cover
any set of them.

**Jobs.** Three orders of two services are a service dropped, added again and done beside another; two assignments are
an order passed on; two invoices are one cancelled and its job invoiced again; two prices tell a copied price from
today's. One visit is enough there: visits share nothing except the guard of `CreateServiceIntake`, which `jobs_visits`
exercises with two.

**After hours.** `Windows` has one window and time two moments, inside it and after it; `WarnBefore` and `RemindAfter`
are one moment, so that a warning, an expiry and a reminder can all be due. Two sessions under one authorisation are the
least in which the float could be given twice. `Counted` is a count that differs from what one payment or the float
leaves and equals what they make together. `Methods` is cash: a payment by bank touches no custody and is in `billing`.
Customers' loyalty is off (no job earns points), since it meets a session nowhere.

**Office.** The departments share the ledger and little else. So that the product of all of them need not be explored,
`busy` is chosen once at the start from `Departments`: which desks act together in a behaviour.
`Desks` in `MCOffice` puts together what shares documents: payroll with each of allowances, losses, deductions, and
salaries with earnings; shares with each of the register and capital, corrections, dividends over days, dividends being
amended. Expenses, stock, the files of shareholders, and takings with the report are each explored alone. Every one
with money of its own runs beside `ReverseSpending` (`reverseFinancialTransaction` is no department's). `PeopleDesks`
does the same for people: account calls with administration, account calls dying, passwords with calls dying,
appointments with temporary access, notices, reception, catalogue. Further:

- `Capital` 3 and amounts 1 and 2 make some payments fail for want of money; `MaxEntries` 4 is the opening balance,
  a payment, its reversal and a second payment.
- `HiredFor`: an employee starts with a monthly salary, others are set at the salaries desk. `MaxPayDocuments` 3 and, at
  the allowance desk, payrolls of one period: an allowance, a payroll that takes it and one that competes for it.
  `MaxPayrolls` 2 with `Slots` of two frequencies and two periods: the same period again, and a later one that takes a
  remainder. A loss of 2 is recovered in instalments of 1 under a cap of 50 %.
- `PaidInto`: contributions are paid into cash. `DividendsOf`: dividends are on the shares of all classes, of which there
  is one. A dividend of 1 over two shareholders leaves a remainder. `MaxShareTxns` 2, on any of two days, in either order.
- `MaxDue` 1: one due date, swept any number of times. `MaxMovements` 3: a receipt, an issue, a correction.
- `MaxCalls` 2 account calls at once, `MaxCutOffs` 1 of them dying. `Clerks`, `NewRoles`, `Roles`, `Tried` and
  `Grantable` name who makes accounts, the roles handed out, the number that is guessed at and the windows granted. Two
  administrators are the least who can demote each other.
- A tick of `clock` stands for the throttle window; no attempt spans one (an attempt takes seconds, the window minutes).
- `Notified` are one notice that may be muted and one that may not, of one record and one window each; `MaxNotifiers` 2
  calls at once, `MaxLost` 1 that dies or cannot write.
- `CopyLimit`, the 200 of the code, is 1 in `office_people`: of two vehicles of one customer a change of name reaches
  either, and the next change, after one is sold, reaches all there are. One phone in `Registry` is shared by two
  customers; the theorem covers any set and any limit. Files of shareholders are blank away from their desk.

Symmetry is used for request ids, services and workers, which are compared for equality and nothing else, in runs
without liveness properties.

## Fairness

Nearly every action is the choice of a person, and nothing is assumed of people. What the system does by itself are the
scheduled sweeps (`index.js:241-257`): recurring expenses daily at 06:00, temporary grants and after hours every 15
minutes, whatever happened to the invocations before. `AfterHoursSpec` therefore has `WF_allVars(SweepStep)`: while some
invocation has something left to do, one does some of it. That does not assume that an invocation finishes.
`SweepDies` ends one anywhere, between its claim of a handover and the reminder too, and only requires that another is
alive: the next invocation, 15 minutes later.

`HousekeepingDone` is what follows. An authorisation past its window is marked expired, although revoking and the sweep
compete; and a handover left open too long is claimed for its reminder unless it is counted first, although sweeps
overlap, hold stale lists and die. It is not said that the reminder arrives: a sweep that dies after its claim takes it
along, which is the price of never reminding twice.

## Findings

1. **Money in an inactive account** (`finance_inactive`). `docs/FINANCE.md:45-47`: deactivation needs a zero balance "so
   money can never be hidden in an inactive account". The check is made when the account is deactivated only. A customer
   pays by bank, the money is transferred to cash, the empty bank is deactivated, and the transfer is reversed:
   `postReversal` does not ask whether the account is active, and the inactive bank holds the money.
2. **Cash awaiting banking that nobody collected** (`finance_awaiting`). The comment at `finance.js:267-270` and
   `docs/FINANCE.md:150` define it as cash collected from customers and not yet taken to a bank. The rule at
   `finance.js:273` follows every transfer between cash and a bank in both directions, so cash drawn from a bank counts as
   takings. So does an opening float that was deposited and whose deposit is reversed, although a float "is not
   takings" (`docs/FINANCE.md:158`): the deposit took nothing off the waiting amount, the reversal adds all of it.
3. **Two open visits of one vehicle** (`jobs_visits`). `docs/SERVICES.md:74`: "a vehicle has at most **one open
   intake**", a rule that line 68 says both `createServiceIntake` and `updateServiceIntake` enforce. Only the first looks for
   an open visit. The work of a job is done, the vehicle's next visit begins, and a service is added to the first job:
   `intakeUpdate` derives its status from its orders and it is open again, beside the second.
4. **A price that changes during a visit** (`jobs_prices`). `docs/SERVICES.md:28` and `:79`: a price snapshot is stored, so
   that "later price changes never rewrite a visit that has started". When the services of a job are changed,
   `readSelectedServices` reads all of them again (`jobs.js:256`) and the whole snapshot is replaced (`jobs.js:284`): a
   service that stays, and may be finished, gets today's price.
5. **A login deleted under its profile** (`users_stores`). `user_admin.js:404`: a refused `createUser` deletes "an orphan
   Auth account we created a moment ago". A form is submitted twice. The first call makes the login; the second finds it
   without a profile, adopts it and makes the profile; the transaction of the first finds the profile, is refused, and
   deletes the login. The person has a profile and cannot sign in. Two crossing calls of `changeUserPhone` also leave
   the stores different, although "Both change together" (`user_admin.js:485`).

Seen on the way, without a run:

- *After hours.* Authorising a later window replaces the temporary grants of an authorisation still in force. Overlapping
  sweeps may both warn of an ending authorisation (`after_hours.js:943-949`); `RemindedOnce` allows one warning each.
- *Expenses.* When a due date's key exists, `sweepRecurringExpenses` does not advance the date (`expenses.js:472`): a
  recurring expense moved back to a date already generated is stuck there.
- *Stock.* An item given by hand the SKU that the counter gives next makes automatic numbering fail for good
  (`inventory.js:200-203`).
- *Pay.* Reversing the payment of a payroll after its loss incident was cancelled leaves a cancelled incident with an
  amount outstanding. Cancelling an incident cancels only the deduction it names; an older one that a reversal made
  active again stays.
- *Ownership.* `adjustShares` with `adjustCommitment` changes the commitment of the holding but not what the issue says
  is outstanding. Reversing a contribution of somebody who left makes them owe again, although an exit needs that nothing
  is (`docs/SHAREHOLDERS.md:33`). `updateDividend` after a calculation accepts unchanged details as a change.
- *Users.* `changeOwnPassword` while an administrator resets the password can leave the temporary password in force with
  `mustChangePassword` false. `resetUserPassword` refused at its second check has replaced the password already.
  `updateUserProfile` checks the caller's rights outside its transaction. `requireAnotherActiveAdmin` is implied by the
  checks before it: the caller is another, live administrator.
- *Reception.* "A vehicle only references an existing, active customer" (`operations.js:16`), but a customer made
  inactive keeps their vehicles. The alternative phone "must be different" from the main one, but is compared only when
  both are sent. A change of name reaches 200 vehicles at most (`operations.js:239-242`). Two diplomatic plates,
  "CD 12 345" and "CD 123 45", have the same key (`plates.js`).
- *Jobs.* A draft opened after all its work is finished has no `completedAt`.
- *Notices.* The window of a notice's id is `floor(now / window)`: a repeat across its edge is sent twice. A call that
  dies between document and push leaves "pending" for good, and a retry is skipped as a duplicate. A failed removal of
  dead devices records a push that arrived as failed (`notify.js:185`); `NoticesHold` speaks of both.
- *Reports.* A reversal counts on its own day in the revenue and on the payment's day in the totals by method, so the two
  figures of one report need not agree; `ReportsAddUp` says by how much they may differ.

## Proofs

The runs check small instances; the theorems hold for every value of the constants, for any number of accounts,
vehicles, jobs, people, staff, shareholders, entries and days, and for any bound. Each is of the form *Spec ⇒ □Inv* or *Spec ⇒ □[A]*,
proved from an inductive invariant: it holds initially, every step keeps it, it implies the property.

**What is assumed** of constants, in the modules that declare them, and evaluated by TLC in the runs:

| Assumption | Says |
|---|---|
| `AccountAssumption` | cash, mobile money, the default bank and later banks are different accounts; `None` is not one, nor a request |
| `BoundAssumption` | amounts are positive, counts are not negative, bounds are natural numbers and days begin at 1 |
| `BillingAssumption` | jobs have a vehicle, a price and a number of qualifying services; discounts are positive and corrections not zero; `None` is not a vehicle |
| `LoyaltyConfig` | the four settings are positive, the percentage at most 100 (`readLoyaltyConfig`) |
| `JobsAssumption` | services are finitely many; prices and bounds are natural numbers; `None` is not a worker |
| `AfterHoursAssumption` | times, floats and counts are not negative; payments go to the default accounts, since nobody opens others in this model; sweeps are finitely many |
| `UsersAssumption` | who sets the system up is somebody, each with a number of their own (`provision.mjs`); roles are the three of the code; `Unset` is nobody and no number; the window of the throttle is positive |
| `SpendingAssumption`, `StockAssumption` | built-in categories are categories; quantities and amounts are positive, levels and costs not negative; items are finitely many |
| `AllowanceAssumption`, `PayrollAssumption` | allowances, salaries, bonuses and losses are amounts; the cap on deductions is a percentage; staff are finitely many, and there is a period to pay for |
| `SharesAssumption`, `DividendAssumption` | policies are policies, counts and values are positive, contributions go to accounts; shareholders and classes are finitely many; a dividend is for a class or all |
| `OwnersAssumption`, `NoticesAssumption` | an identification has one key, `Absent` is nobody and no key; who is notified is a person, of a type that is |
| `OfficeAssumption` | the opening balance is positive, the first salary profile has a frequency |
| `RegistryAssumption` | a plate or a name has one key; there are finitely many cars; `CopyLimit`, the 200 that a change of name reaches, is a natural number; `Absent` is no record |

**What is proved.**

| Theorem | Property | Says |
|---|---|---|
| `FinanceProofs` `TypeCorrect` | `FinanceTypeOK` | Shape; no balance below zero |
| `AwaitingCorrect` | `AwaitingWithinCash` | Cash awaiting banking is within the cash there is |
| `AppendOnlyCorrect` | `LedgerAppendOnly` | An entry never changes, but for becoming reversed |
| `ReversalsCorrect` | `ReversalsPaired` | An entry and its reversal name each other, undo each other and are a pair |
| `JournalCorrect` | `ImplementsJournal` | `Finance` implements `Journal` |
| `DailyCorrect` | `DailyMatchesLedger` | A day's summary is the sum of what the entries of that day moved |
| `DepositsCorrect` | `DepositsMatchLedger` | A deposit record and its entry stand or fall together |
| `ReconciliationsCorrect` | `ReconciliationsClosedExactly` | A difference is adjusted once, by exactly that difference |
| `RequestsCorrect` | `RequestsPostOnce` | A request posts what its stored result leads to and nothing else |
| `ListedCorrect` | `ListedBanksAcceptPayments` | Banks offered to cashiers accept payments |
| `OpeningsCorrect` | `OpeningBalanceOnce` | One opening balance, standing while the account says so |
| `BillingProofs` `BillingImplementsFinance` | | Every behaviour of `Billing` is one of `Finance` |
| `BillingKeepsJournal` | `ImplementsJournal` | hence of `Journal` |
| `OneInvoiceCorrect` | `OneInvoicePerJob` | A job has one live invoice |
| `RetriesCorrect` | `RetriesPayOnce` | A payment is the stored result of one request |
| `PaymentsMatchLedgerCorrect` | `PaymentsMatchLedger` | A payment is live exactly while its entry stands |
| `PaymentsAddUpCorrect` | `PaymentsAddUp` | The paid amount is the sum of live payments; nothing negative |
| `EarnedCorrect` | `EarnedWhilePaid` | Points are held only for an invoice that stands fully paid |
| `UndoneCorrect` | `UndoneOnce` | No log entry is undone twice |
| `RewardsFollowCorrect` | `RewardsFollowPoints` | One available reward, exactly when the points allow it |
| `RewardsUsedCorrect` | `RewardsUsedOnce` | A reward discounts one invoice |
| `SettledCorrect` | `TotalsSettled` | A total stays once money was taken, a cancelled invoice for good |
| `PointsCorrect` | `PointsImplementJournal` | The points of vehicles are a `Journal` too |
| `JobsProofs` `MirrorsCorrect` | `JobMirrorsOrders` | A job's summary and status follow from its orders |
| `PricedOnceCorrect` | `WorkIsPricedOnce` | One live order and one price for a service of a job |
| `InvoicedWorkCorrect` | `InvoicedWorkFrozen` | What is on an invoice is not worked on any more |
| `OneAssigneeCorrect` | `OneAssignee` | An order is one worker's, and its history ends with them |
| `WorkIsKeptCorrect` | `WorkIsKept` | Orders and their histories are never deleted |
| `AfterHoursProofs` `HoursTypeCorrect` | `AfterHoursTypeOK` | Shape; nobody is expected to hold less than no cash |
| `CustodyCorrect` | `CustodyAddsUp` | A session's running total, its custody book and its live payments tell the same cash |
| `FloatCorrect` | `FloatHandedBack` | A float is out with one session; cash ends in a handover; one open session a worker |
| `StoryCorrect` | `HandoverStory` | Session, handover and discrepancy agree; an adjustment posts the difference, once |
| `RemindedCorrect` | `RemindedOnce` | One reminder of a handover, one warning by each sweep |
| `HoursKeepJournal` | `ImplementsJournal` | Evenings keep the journal too |
| `UsersProofs` `AccessCorrect` | `AccessInOrder` | Profiles, logins, links and grants agree as far as calls neither met nor died |
| `AdministratorCorrect` | a part of `AccessInOrder` | An active administrator always remains |
| `AttemptsCorrect` | `AttemptsBounded` | A number is guessed no oftener than the limit, the calls that overlapped and those cut off |
| `RegistryCorrect` | `RegistryInOrder` | Unique keys, links, counts and copies of reception |
| `OfficeProofs` `DesksHold` | | The inductive invariant of all desks over one ledger |
| `DocumentsNeverPart` | `DocumentsMatchLedger` | A document says paid exactly while one unreversed entry moved what it says |
| `NothingBookedTwice` | `BookedOnce` | A due date, a day's work, a receipt and a movement of stock are booked once |
| `RecoveriesTold` | `RecoveriesAddUp` | What payrolls took is what deductions and incidents say was recovered |
| `OwnershipIsOneStory` | `OwnershipHistoryHolds` | Ownership ledger, holdings, dividends and files tell one story |
| `NoticesTold` | `NoticesHold` | A notice is pushed at most once; its document says what became of it |
| `OfficeAccess` | `AccessInOrder` | Access stays in order when the departments work beside it |
| `ReportsExplained` | `ReportsAddUp` | What a report's two revenue figures differ by |

**Arguments.**

*Finance.* `StepShape` reads off every action that it posts nothing, posts one entry, or marks one entry reversed and posts
its reversal. `MoneyInv` is the type invariant with the bounds of the amounts waiting; types alone are not inductive,
since a balance stays a natural number only because `Affordable` compared it and because a reversal takes from where
its entry went. The refinement follows: `balances` and the list of transfers, as a function of entries, change only
together. `DocumentStep` sorts the steps by what they do to the documents about entries (`EntryAlone`, `Transfers`, `Banks`, `AdjustsFor`,
`Reverting`, `Reconciles`, `Idles`), and each of `DepositsInv`, `ClosingsInv`, `RequestsInv`, `OpeningsInv` is shown to be
kept by each. They say more than the properties: whose entry is whose, so that no second document can name it.

*Sums.* A sum over a set of entries is a fold, which is defined by recursion, and the provers cannot do
induction over data. `Total` and `AmountsOf` are reached another way: `Iterates` says what a fold over all
subsets of a finite set looks like. If two of them differed, there would be a smallest subset on which they do
(`SmallestSubset`, by the library's theorem that the subsets of a finite set are well founded); it is not empty, and taking an
element away gives a smaller one. From this, `AmountsTotal`, `AmountsAdd` and `AmountsSame`: a sum grows by what a
new element adds, and depends on nothing but its elements. `DailyInv` and `TotalsInv` need no more.

*Billing.* `BillInv` is `MoneyInv`, and that invoices have jobs and payments have entries. Every step of `Billing` is a step of
`Finance` or moves no money, so its entries come under the theorems about `Finance`. A payment's entry cannot be
reversed around billing, since `reverseFinancialTransaction` refuses it. `RetryInv` gives each payment its request.

*Invoices, points, rewards.* `BooksStep` sorts the steps of `Billing` into nine kinds: a new invoice (`Adds`), a discount
(`Edits`), a payment (`Pays`) and its reversal (`Unpays`), a reward as discount (`Spends`), a cancellation (`Voids`), points
corrected (`Corrects`), an entry undone by hand (`Undoes`), nothing (`Rests`). `BooksInv` is kept by each, part by part:
`PaperInv` (amounts; paid is the sum of live payments), `LogInv` (a reversal in the log names an earlier line of its vehicle
that is marked undone, and no other does), `FollowInv` (rewards follow the balance), `EarnInv` (which invoice holds which points, by
an entry nobody else holds) and `UseInv` (which invoice uses which reward, by which entry). None is inductive by itself:
reversing a payment takes back the points of its entry, and that they are there to take is `EarnInv`; a cancellation
returns points that may unlock a second reward, and that the first is not available is `UseInv`; the reward used on an
invoice stays as it is in all other steps because what they undo is never a redemption (`Quiet`), as `EarnInv` and the guard
of `reverseLoyaltyEntry` have it. That a
reward costs no more than its threshold is a hypothesis of `RewardsFollowPoints` only, as in the run.

*After hours.* `AfterHours` posts entries of its own (adjustments of discrepancies), so the theorems about money rest on `ByTheBook`,
which is all they need of a step: types, and one entry, a reversal or nothing. `BooksStepped` shows that each step is one of
`Billing` or such an adjustment. `HoursInv` is `BillInv`, the types, and seven parts, each kept by every step, few by themselves:

- `RefsInv`, `KeysInv`: numbers name documents that exist, and a worker's unique key is open exactly for the session it names. A
  payment taken in a session finds it open by that key.
- `FloatsInv`: an authorisation names the session that has its float, whose float is that amount, and all others have
  none. The next session asks that name, not the sessions, whether there is still a float to hand out.
- `EmptyInv`: a session that ended without handover had nothing; what it expected is frozen.
- `CustodyInv`: what a session expects is what its lines in the custody book add up to, is float and collections without
  reversals, and while it is open is the float and its live payments in cash. After closing, a reversal counts as `late` and the book
  stays. `TakingBalances` and `ReturningBalances` follow one amount through the three: a reversal is late or returned, never both.
  A payment's cash is that of its entry, which `BillInv` has.
- `StoryInv`: which session, handover and discrepancy belong together, in both directions, so that a status changed in one has
  exactly one other to change with; and which entry adjusts which discrepancy. What it posted stays what it is, since the
  ledger is append-only here too (`EntryStands`, `PostedStands`).
- `RemindInv`: a handover is held by at most one sweep, only when it was not told of, and is marked from then on; an authorisation was
  told of at most as often as there are sweeps that do not hold it. A sweep that dies only loses what it held.

*Jobs.* `JobsStep` sorts the steps by what they do to orders and jobs. `JobsInv` is what the properties say, with the shapes of
documents and one thing more: orders of a service are numbered without gaps (`Numbered`), so that a new order takes no
other's place.

*Users.* `UsersInv` is the agreement of profiles, logins and links with `StoresInv`: for each unfinished call, where its login
and profile are at its step, that it shares its person and numbers with no other call it has not met, and that the number it
would put back is free. Then every step of a call leaves the stores in agreement or leads to one that does; a call that
met another, or died, is excused and named in `crossed`. An administrator remains because the caller is one, is live and
is not whom the call is about.

*The throttle.* `ThrottleInv` says of each number that every wrong password since the last right one is on record, about to be recorded, or
lost with the call that tried it; and that while a number with too many on record is open, none was recorded since the
clock moved, which is what stops a call that checks the record from letting one more in. The window must be positive for it: with none, a record
would be void when it is written. `UsersTyped` is all it takes from `UsersInv`.

*Reception.* `RegistryInOrder` is inductive by itself. `KeyMoves` says what a step does to unique keys, `CountFollows` what
to counts, `NamesFollow` what a change of name does to the copies. Keys and counts hold whoever has however many vehicles. Copies
are as true as the code makes them: a customer who takes a new name with more than `CopyLimit` vehicles is in `outgrown` until a
later change reaches all of them, and only the copies of those customers may be old. That they have few vehicles *now* would not
be enough: they may have sold the others since.

*The office.* Every department posts to one ledger, so a step of one must keep what the others say of it. `LedgerOK` is what the
ledger of `Finance` promises of single entries. Each desk has an invariant over its documents and the entries of its own types
(`SpendingTypes`, `StockTypes`, `PayTypes`, `OwnershipTypes`), which share none (`DeskTypes`). `Settled(l, t, claims)` is the part they have
in common: of type `t`, the live entries about a document are the one it names, of the amount it claims, or none, if it names none. What
a step does to the ledger is `Books` (one entry), `Unbooks` (entries reversed, each by one reversal) or a batch, and `Beside(T)` says that only
entries of the types in `T` came or went. `DesksBeside` then keeps every desk that has none of them; the desk that moved keeps its own
part by a lemma for each callable; and `DesksNext` joins them over `OfficeNext`. None is inductive by what the properties say:

- `SpendingInv` has besides that a paid expense is the one with an entry, and recurring dates run forward.
- `StockInv` (`CountsHold`, `Received`) has which movement reverses which, and that a received purchase's movements stand, so that nothing
  reverses a receipt behind its purchase; items on a purchase exist.
- `PayInv` has which payroll or entry paid each allowance, in both directions (`AllowancesPaid`: the entry of a batch is worth
  what its allowances were approved for), what each payroll took from each deduction (`DeductionsAddUp`), and what incidents
  recovered through them (`IncidentsAddUp`). Undoing a payroll gives back what its own lines took; that the deduction holds as
  much is that invariant.
- `SharesInv` has that a holding is what the entries in effect add up to on every day (`HistoryHolds`), that nobody held less than nothing on
  any, and that what is paid on an issue is the sum of its live contributions (`PaidAddsUp`).
- `DividendsInv` has that the counts of a dividend are those of its current allocations (`CountsAre`), that its pool is what they get
  and a remainder smaller than their number (`PoolIs`, by `TimesMonotone` on the division), and `SnapshotIs`: who held what on its
  record date, which is locked from then on: an entry that takes effect later in the ownership ledger leaves it as it was.
- `FilesInv` has that keys and files are each other's inverse; `NoticeInv`, of each notice, which call is at work on it and what that call
  knows, so that a second call, which finds the document, never pushes.

*Reports.* `TakingsInv` is what the report needs of ledger and summaries: `DaysInv` (a day's summary is the sum of its payments, and of their
reversals), `ReturnsInv` (a customer's reversed payment has one reversal, of its amount, and a standing one none) and `ReportInv`: the first figure, while
the report is open, is what the entries up to its first read say, however many came since. Every step of every desk is one of three
(`OfficeTakings`): it takes a payment, returns one, or has nothing to do with either (`Apart`), which for a batch of a payroll or a dividend
is a fold over its entries (`BatchAside`). `ReportSays` is then arithmetic on sums of disjoint sets of entries; that reversals are worth what
the reversed payments were is `TotalRenamed`, a sum taken over its elements by other names.

**Only model-checked.** `HousekeepingDone` is liveness under fairness, which is out of the prover's reach. The findings are
counterexamples, which is TLC's task. Every other property of the runs that pass is proved.

## Not modelled

**Beyond the functions.** The Flutter app (`lib`) shows screens and calls callables. Firestore rules decide who reads what;
they deny clients every write the models are about. `ramosmax-web` is a port in progress to Next.js and
Supabase that writes the same rules again in SQL and TypeScript beside an unfinished user interface; the functions are what
runs, and mixing two implementations in one model would be faithful to neither. Of the repository's 45,843 lines of
implementation, `functions/src` has 12,175, of which nearly all that change state are mapped (7,920 lines); the rest are
user interface, generated catalogues, and scripts that set up and try out deployments. Reading the port, two things were
seen that its own project should look into:

- `signIn` verifies a password and then starts a session, two calls; `changeOwnPassword` ends the other sessions in between.
  A sign-in with the old password may then start a session after it (`auth-service.ts`).
- `src/lib/server/push.ts:75-77` and `api/notifications/deliver/route.ts:13-15` say that runs that are retried never send twice;
  `pending_push` and `record_push` (`supabase/migrations/0047_notifications.sql:381-403`) mark a notice after it was sent.

**In the functions.**

- *Assumed*: that Firestore transactions are serializable, and that a callable is the only writer of its collections.
- *Refusals only*: permissions, validation of texts, active flags of things chosen in a form, app check. They narrow what a
  caller may do and change nothing.
- *Carried along*: texts, names, notes, times nothing is decided by, numbering formats, receipts, audit records, copies of
  names on holdings and in the register; previous plates; SKUs and names of stock; the particulars of users, staff and shareholders.
- *Constant*: the policies of after hours, payroll and shareholding, loyalty settings. A policy is read in each transaction;
  changing it is no action, except that ownership reads it afresh.
- *Cut down*: attendance to one day, salaries to the one in force, decisions on allowances to one at a time,
  `accessExpiresAt` (written by a command-line script only), payments without a ledger entry (from before the ledger).
- *Wider or narrower than the code*: a deduction may be taken before its `startsFrom` (`Due` leaves that test out, so that payrolls
  do more than they may); what `Users` reserves to administrators, the code gives to anyone granted the `users.*` permission,
  who can then act on juniors only; `createUser` with `active: false` is a creation followed by `SetUserActive`; the sweeps
  read everything that is due, the code a page of 200 or 400 (the next run takes the rest; only of open handovers does it always
  read the newest 200, so that the promise of a reminder is for no more than that at once).
- *Reports*: one section. The others read and add up in the same way.
- *Apart*: `Jobs` and `Billing` are two models that meet at the invoice; a job in `Billing` is the copy `createInvoice` makes,
  and an invoice in `Jobs` has no money.

## Plan

Done, in this order: the ledger and its promise; billing and loyalty on it; jobs; after hours with its sweep; the departments
over one ledger (`Office`); people, reception, notices, reports; theorems about every safety property the passing runs check.

To come: `Workshop`, which composes `Jobs` and `Billing` at the invoice; the other sections of the report.

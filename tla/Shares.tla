-------------------------------- MODULE Shares --------------------------------
(***************************************************************************)
(* functions/src/shareholders.js and shares.js: shareholders and share     *)
(* classes, the ownership ledger (issues, transfers, adjustments and their *)
(* reversals, posted at once or after approval) and the contributions paid *)
(* for shares.  The dividends that lock record dates are in Dividends.     *)
(*                                                                         *)
(* Every callable is one serializable transaction.  Entries take effect on *)
(* a day that may be past, never future.  The policy is read by each call  *)
(* and may be changed between any two, so a call finds any of Policies.    *)
(* The totals kept on shareholders, classes and the register are written   *)
(* with every holding from all holdings (writeBook): here they are         *)
(* operators on holdings.  The callers are not shareholders themselves,    *)
(* and whoever decides a request is not who made it.                       *)
(***************************************************************************)
EXTENDS Payments

CONSTANTS
    Holders,           \* shareholder ids
    Classes,           \* share class ids
    Policies,          \* share policies in force at some time
    ShareCounts,       \* numbers of shares callers enter
    ShareValues,       \* values per share
    PaidInto,          \* bound: accounts contributions are paid into
    MaxShareTxns,      \* bound: entries of the ownership ledger
    MaxContributions   \* bound: contributions

Policy == [requireApproval: BOOLEAN, allowUnpaid: BOOLEAN, allowPartial: BOOLEAN]

ASSUME SharesAssumption ==
    /\ IsFiniteSet(Holders) /\ IsFiniteSet(Classes)
    /\ Policies \subseteq Policy
    /\ PaidInto \subseteq AccountIds
    /\ ShareCounts \subseteq Amount /\ ShareValues \subseteq Amount
    /\ MaxShareTxns \in Nat /\ MaxContributions \in Nat

VARIABLES
    shareholders,   \* their status; "none": no document
    classes,        \* share_classes
    shareTxns,      \* share_transactions, in the order they were numbered
    holdings,       \* shareholdings, by shareholder and class
    contributions,  \* share_contributions
    dividends,      \* dividends, see Dividends
    allocations     \* dividend_allocations, see Dividends

shareVars == <<shareholders, classes, shareTxns, holdings, contributions>>
dividendVars == <<dividends, allocations>>
ownershipVars == <<shareholders, classes, shareTxns, holdings, contributions, dividends, allocations>>

ShareClass == [exists: BOOLEAN, active: BOOLEAN, value: Nat]
ShareHolding == [shares: Nat, committed: Nat, paid: Nat]

\* An entry changes the shares (moves) and the commitment of each shareholder.
ShareTxn == [type: {"issued", "transferred", "adjusted", "reversal"}, class: Classes,
             moves: [Holders -> Int], commits: [Holders -> Int], effective: Days,
             source: {"none", "account", "prior_record"}, account: AccountIds \cup {None},
             payment: Nat,  \* the payment asked for with an issue
             status: {"pending_approval", "posted", "rejected", "reversed"},
             applied: BOOLEAN, paid: Nat]

Contribution == [holder: Holders, txn: Nat, amount: Amount,
                 entry: Nat,   \* financialTransactionId, 0 for a prior record
                 posted: BOOLEAN]

-----------------------------------------------------------------------------
(* Shareholders and share classes *)

Outstanding(h) == SumFunction([c \in Classes |-> holdings[h][c].committed - holdings[h][c].paid])
TotalShares(h) == SumFunction([c \in Classes |-> holdings[h][c].shares])
Concerns(k, h) == shareTxns[k].moves[h] # 0

CreateShareholder(h) ==
    /\ shareholders[h] = "none"
    /\ shareholders' = [shareholders EXCEPT ![h] = "active"]
    /\ UNCHANGED <<financeVars, classes, shareTxns, holdings, contributions, dividendVars>>

SetShareholderStatus(h, status) ==
    /\ shareholders[h] \notin {"none", status}
    /\ status = "exited" =>
          /\ TotalShares(h) = 0
          /\ Outstanding(h) = 0
          /\ \A k \in DOMAIN shareTxns : Concerns(k, h) => shareTxns[k].status # "pending_approval"
    /\ shareholders' = [shareholders EXCEPT ![h] = status]
    /\ UNCHANGED <<financeVars, classes, shareTxns, holdings, contributions, dividendVars>>

CreateShareClass(c, value) ==
    /\ ~classes[c].exists
    /\ classes' = [classes EXCEPT ![c] = [exists |-> TRUE, active |-> TRUE, value |-> value]]
    /\ UNCHANGED <<financeVars, shareholders, shareTxns, holdings, contributions, dividendVars>>

\* The value is for future issues only.
UpdateShareClass(c, value, active) ==
    LET next == [classes[c] EXCEPT !.value = value, !.active = active]
    IN  /\ classes[c].exists /\ classes[c] # next
        /\ classes' = [classes EXCEPT ![c] = next]
        /\ UNCHANGED <<financeVars, shareholders, shareTxns, holdings, contributions, dividendVars>>

-----------------------------------------------------------------------------
(* Ownership on a day *)

AppliedBy(d) == {k \in DOMAIN shareTxns : shareTxns[k].applied /\ shareTxns[k].effective <= d}

\* holdingsAsOf: the shares of class c that h held at the end of day d.
Held(h, c, d) ==
    SumFunction([k \in {n \in AppliedBy(d) : shareTxns[n].class = c} |-> shareTxns[k].moves[h]])

\* neverNegative: with delta more from that day on, no day ends below zero.
NeverNegative(h, c, effective, delta) ==
    \A d \in Days : Held(h, c, d) + (IF d >= effective THEN delta ELSE 0) >= 0

\* Mutant: the record dates of calculated dividends are not looked up.
RecordDateUnchecked(effective) == TRUE

\* lockedRecordDate, requireRecordDateOpen: no entry takes effect on or before the
\* record date of a calculated dividend.
RecordDateOpen(effective) ==
    \A k \in DOMAIN dividends : dividends[k].recordLocked => effective > dividends[k].record

-----------------------------------------------------------------------------
(* The book *)

Nothing == [h \in Holders |-> 0]
Only(h, n) == [Nothing EXCEPT ![h] = n]

\* The holdings after an entry and a payment towards its commitment.
HoldingsAfter(c, moves, commits, pays) ==
    [h \in Holders |-> [holdings[h] EXCEPT ![c] =
        [shares |-> @.shares + moves[h], committed |-> @.committed + commits[h],
         paid |-> @.paid + pays[h]]]]

\* change: nobody holds less than nothing or has paid more than they committed.
ChangeBook(c, moves, commits, pays) ==
    LET next == HoldingsAfter(c, moves, commits, pays)
    IN  /\ \A h \in Holders : /\ next[h][c].shares >= 0 /\ next[h][c].paid >= 0
                              /\ next[h][c].committed >= next[h][c].paid
        /\ holdings' = next

\* checkPayment: what a payment of n may leave outstanding.
PaymentAllowed(policy, outstanding, n) ==
    /\ n <= outstanding
    /\ n < outstanding => IF n = 0 THEN policy.allowUnpaid ELSE policy.allowPartial

CanReceive(h) == shareholders[h] = "active"
CanTransferOut(h) == shareholders[h] \in {"active", "inactive"}

-----------------------------------------------------------------------------
(* Posting, at once or on approval *)

Receiver(t) == CHOOSE h \in Holders : t.moves[h] > 0
Giver(t) == CHOOSE h \in Holders : t.moves[h] < 0
Committed(t) == SumFunction(t.commits)

\* preparePosting: everything is checked again when the entry is posted.
Postable(t) ==
    /\ RecordDateOpen(t.effective)
    /\ t.type = "issued" => CanReceive(Receiver(t)) /\ classes[t.class].active
    /\ t.type = "transferred" =>
          /\ CanTransferOut(Giver(t)) /\ CanReceive(Receiver(t))
          /\ LET own == holdings[Giver(t)][t.class] IN own.committed = own.paid
    /\ t.type = "adjusted" => \A h \in Holders : t.moves[h] # 0 => shareholders[h] # "exited"
    /\ \A h \in Holders : t.moves[h] < 0 => NeverNegative(h, t.class, t.effective, t.moves[h])

\* The ledger entry for capital paid in, and the contribution that records it;
\* r is the request that posted it.
PaidIn(n, a, r) ==
    [NewEntry("share_capital_contribution", n, None, a) EXCEPT
        !.about = Len(contributions) + 1, !.request = r]

Contributed(h, k, n, source) ==
    Append(contributions, [holder |-> h, txn |-> k, amount |-> n, posted |-> TRUE,
                           entry |-> IF source = "account" THEN NextNumber ELSE 0])

\* The money of an issue comes in, and its contribution is recorded.
TakeContribution(h, k, n, source, a, r) ==
    /\ Len(contributions) < MaxContributions
    /\ contributions' = Contributed(h, k, n, source)
    /\ IF source = "account" THEN Active(a) /\ Post(PaidIn(n, a, r))
       ELSE UNCHANGED <<accounts, created, ledger, daily>>

\* Posts entry t as number k; the payment of an issue is taken with it.
PostShares(t, k, r) ==
    LET n == IF t.type = "issued" THEN t.payment ELSE 0
    IN  /\ Postable(t)
        /\ ChangeBook(t.class, t.moves, t.commits, IF n > 0 THEN Only(Receiver(t), n) ELSE Nothing)
        /\ IF n > 0 THEN TakeContribution(Receiver(t), k, n, t.source, t.account, r)
           ELSE UNCHANGED <<accounts, created, ledger, daily, contributions>>

NewShareTxn(type, c, moves, commits, effective) ==
    [type |-> type, class |-> c, moves |-> moves, commits |-> commits, effective |-> effective,
     source |-> "none", account |-> None, payment |-> 0,
     status |-> "pending_approval", applied |-> FALSE, paid |-> 0]

Posted(t) == [t EXCEPT !.status = "posted", !.applied = TRUE, !.paid = t.payment]

\* submit: pending approval, or posted at once when the policy asks for no approval.
Submit(r, t, policy) ==
    LET k == Len(shareTxns) + 1
    IN  /\ Fresh(r)
        /\ RecordDateOpen(t.effective)
        /\ IF policy.requireApproval
           THEN /\ shareTxns' = Append(shareTxns, t)
                /\ Store(r, "payment", 0)
                /\ UNCHANGED <<accounts, created, ledger, daily, holdings, contributions>>
           ELSE /\ PostShares(t, k, r)
                /\ shareTxns' = Append(shareTxns, Posted(t))
                /\ Store(r, "payment", IF Len(ledger') > Len(ledger) THEN NextNumber ELSE 0)
        /\ UNCHANGED <<deposits, recs, day, listed, shareholders, classes, dividendVars>>

-----------------------------------------------------------------------------
(* Requests *)

IssueShares(r, h, c, n, effective, source, payment, a, policy) ==
    LET committed == n * classes[c].value
    IN  /\ CanReceive(h) /\ classes[c].active
        /\ PaymentAllowed(policy, committed, payment)
        /\ Submit(r, [NewShareTxn("issued", c, Only(h, n), Only(h, committed), effective) EXCEPT
                         !.source = source, !.payment = payment, !.account = a], policy)

TransferShares(r, from, to, c, n, effective, policy) ==
    /\ from # to
    /\ classes[c].exists
    /\ CanTransferOut(from) /\ CanReceive(to)
    /\ holdings[from][c].shares >= n
    /\ Submit(r, NewShareTxn("transferred", c, [Only(from, -n) EXCEPT ![to] = n], Nothing, effective),
              policy)

\* A correction; with adjustCommitment the commitment moves with the shares.
AdjustShares(r, h, c, delta, adjustCommitment, effective, policy) ==
    LET committed == IF adjustCommitment THEN delta * classes[c].value ELSE 0
    IN  /\ classes[c].exists
        /\ shareholders[h] \notin {"none", "exited"}
        /\ Submit(r, NewShareTxn("adjusted", c, Only(h, delta), Only(h, committed), effective), policy)

ApproveShareTransaction(k, policy) ==
    LET t == shareTxns[k]
    IN  /\ t.status = "pending_approval"
        /\ t.type = "issued" => PaymentAllowed(policy, Committed(t), t.payment)
        /\ PostShares(t, k, None)
        /\ shareTxns' = [shareTxns EXCEPT ![k] = Posted(t)]
        /\ UNCHANGED <<deposits, recs, requests, day, listed, shareholders, classes, dividendVars>>

RejectShareTransaction(k) ==
    /\ shareTxns[k].status = "pending_approval"
    /\ shareTxns' = [shareTxns EXCEPT ![k].status = "rejected"]
    /\ UNCHANGED <<financeVars, shareholders, classes, holdings, contributions, dividendVars>>

-----------------------------------------------------------------------------
(* Contributions *)

RecordShareContribution(r, k, n, source, a, policy) ==
    LET t == shareTxns[k]
        h == Receiver(t)
    IN  /\ Fresh(r)
        /\ t.type = "issued" /\ t.status = "posted"
        /\ PaymentAllowed(policy, Committed(t) - t.paid, n)
        /\ shareholders[h] # "exited"
        /\ ChangeBook(t.class, Nothing, Nothing, Only(h, n))
        /\ TakeContribution(h, k, n, source, a, r)
        /\ shareTxns' = [shareTxns EXCEPT ![k].paid = @ + n]
        /\ Store(r, "payment", IF source = "account" THEN NextNumber ELSE 0)
        /\ UNCHANGED <<deposits, recs, day, listed, shareholders, classes, dividendVars>>

\* The money goes out again and the commitment is outstanding again, whatever has
\* become of the shareholder.
ReverseShareContribution(j) ==
    LET c == contributions[j]
    IN  /\ c.posted
        /\ ChangeBook(shareTxns[c.txn].class, Nothing, Nothing, Only(c.holder, -c.amount))
        /\ IF c.entry # 0 THEN ReverseEntry(c.entry) ELSE UNCHANGED financeVars
        /\ contributions' = [contributions EXCEPT ![j].posted = FALSE]
        /\ shareTxns' = [shareTxns EXCEPT ![c.txn].paid = @ - c.amount]
        /\ UNCHANGED <<shareholders, classes, dividendVars>>

-----------------------------------------------------------------------------
(* Reversal of an ownership entry *)

Minus(f) == [h \in Holders |-> -f[h]]

PaidFor(S) == SumFunction([j \in S |-> contributions[j].amount])

LiveContributions(k) == {j \in DOMAIN contributions : contributions[j].txn = k /\ contributions[j].posted}

\* The contributions a reversal of entry k takes back: all that stand.
TakenBack(k) == LiveContributions(k)

\* The mirror image takes effect today, and the live contributions of an issue are
\* reversed with it; nobody who has exited gets shares back.
ReverseShareTransaction(r, k) ==
    LET t == shareTxns[k]
        taken == TakenBack(k)
        back == PaidFor(taken)
        money == {contributions[j].entry : j \in taken} \ {0}
    IN  /\ Fresh(r)
        /\ t.type # "reversal" /\ t.status = "posted"
        /\ RecordDateOpen(day)
        /\ \A h \in Holders : t.moves[h] < 0 => shareholders[h] # "exited"
        /\ ChangeBook(t.class, Minus(t.moves), Minus(t.commits),
                      IF taken = {} THEN Nothing ELSE Only(Receiver(t), -back))
        /\ ReverseAll(money)
        /\ contributions' = [j \in DOMAIN contributions |->
              IF j \in taken THEN [contributions[j] EXCEPT !.posted = FALSE] ELSE contributions[j]]
        /\ shareTxns' = Append([shareTxns EXCEPT ![k].status = "reversed", ![k].paid = 0],
              [NewShareTxn("reversal", t.class, Minus(t.moves), Minus(t.commits), day) EXCEPT
                  !.status = "posted", !.applied = TRUE])
        /\ Store(r, "payment", 0)
        /\ UNCHANGED <<deposits, recs, day, listed, shareholders, classes, dividendVars>>

-----------------------------------------------------------------------------
SharesInit ==
    /\ shareholders = [h \in Holders |-> "none"]
    /\ classes = [c \in Classes |-> [exists |-> FALSE, active |-> FALSE, value |-> 0]]
    /\ shareTxns = << >>
    /\ holdings = [h \in Holders |-> [c \in Classes |-> [shares |-> 0, committed |-> 0, paid |-> 0]]]
    /\ contributions = << >>

\* How money may come in: nothing, into an account, or on record from before.
PaidHow == {<<"none", 0, None>>} \cup ({"account"} \X Amounts \X PaidInto)
                                \cup ({"prior_record"} \X Amounts \X {None})

ClassStep == \E c \in Classes, value \in ShareValues : CreateShareClass(c, value)

RegisterChange ==
    \/ \E h \in Holders, status \in {"active", "inactive", "suspended", "exited"} :
          SetShareholderStatus(h, status)
    \/ \E c \in Classes, value \in ShareValues, active \in BOOLEAN : UpdateShareClass(c, value, active)

SharesStep ==
    \/ /\ Len(shareTxns) < MaxShareTxns
       /\ \E r \in PaymentIds :
             \/ \E c \in Classes, n \in ShareCounts, effective \in 1..day, policy \in Policies :
                   \/ \E h \in Holders, pay \in PaidHow :
                         IssueShares(r, h, c, n, effective, pay[1], pay[2], pay[3], policy)
                   \/ \E from, to \in Holders : TransferShares(r, from, to, c, n, effective, policy)
             \/ \E k \in DOMAIN shareTxns : ReverseShareTransaction(r, k)
    \/ \E k \in DOMAIN shareTxns :
          \/ \E policy \in Policies : ApproveShareTransaction(k, policy)
          \/ RejectShareTransaction(k)

CorrectionStep ==
    /\ Len(shareTxns) < MaxShareTxns
    /\ \E r \in PaymentIds, c \in Classes, n \in ShareCounts, effective \in 1..day,
          policy \in Policies, h \in Holders, up, commitment \in BOOLEAN :
          AdjustShares(r, h, c, IF up THEN n ELSE -n, commitment, effective, policy)

ContributionStep ==
    \/ \E r \in PaymentIds, k \in DOMAIN shareTxns, pay \in PaidHow \ {<<"none", 0, None>>},
          policy \in Policies : RecordShareContribution(r, k, pay[2], pay[1], pay[3], policy)
    \/ \E j \in DOMAIN contributions : ReverseShareContribution(j)

-----------------------------------------------------------------------------
(* Properties *)

SharesTypeOK ==
    /\ shareholders \in [Holders -> {"none", "active", "inactive", "suspended", "exited"}]
    /\ classes \in [Classes -> ShareClass]
    /\ \A k \in DOMAIN shareTxns : shareTxns[k] \in ShareTxn
    /\ holdings \in [Holders -> [Classes -> ShareHolding]]
    /\ \A j \in DOMAIN contributions : contributions[j] \in Contribution

\* Capital paid in is in the ledger while it stands: a contribution into an account
\* is posted exactly while one unreversed entry brought its amount in; and what a
\* holding and an issue say was paid is what the standing contributions add up to.
CapitalMatchesLedger ==
    /\ \A j \in DOMAIN contributions :
          LET c == contributions[j]
          IN  IF c.posted /\ c.entry # 0
              THEN PaidBy(c.entry, "share_capital_contribution", j, c.amount)
              ELSE LiveFor("share_capital_contribution", j) = {}
    /\ \A k \in DOMAIN shareTxns : shareTxns[k].paid = PaidFor(LiveContributions(k))
    /\ \A h \in Holders, c \in Classes : holdings[h][c].paid =
          PaidFor({j \in DOMAIN contributions :
                      /\ contributions[j].posted /\ contributions[j].holder = h
                      /\ shareTxns[contributions[j].txn].class = c})

\* A holding is what the ownership ledger adds up to, and no history of entries,
\* backdated, approved late or reversed, ends any day with less than no shares.
HoldingsMatchHistory ==
    \A h \in Holders, c \in Classes :
        /\ holdings[h][c].shares = Held(h, c, day)
        /\ holdings[h][c].committed =
              SumFunction([k \in {n \in DOMAIN shareTxns : shareTxns[n].applied /\ shareTxns[n].class = c} |->
                              shareTxns[k].commits[h]])
        /\ \A d \in Days : Held(h, c, d) >= 0
=============================================================================

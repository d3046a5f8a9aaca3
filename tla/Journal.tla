------------------------------- MODULE Journal -------------------------------
(***************************************************************************)
(* What the money ledger promises, and nothing else: an append-only        *)
(* journal of transfers between accounts, and balances that change only    *)
(* together with an entry, by exactly its amount, never below zero.        *)
(*                                                                         *)
(* docs/FINANCE.md calls this the reconciliation guarantee (a balance      *)
(* equals the sum of the entries' changes) and the no-overdraft rule.      *)
(* Finance and Billing are checked against it.                             *)
(***************************************************************************)
EXTENDS Integers, Sequences

CONSTANTS Accounts, \* every account there may be
          Outside   \* the world outside the business: money enters and leaves

VARIABLES journal,  \* the entries, oldest first
          balance   \* what each account holds

vars == <<journal, balance>>

Record(x) == /\ x.amount \in Nat \ {0}
             /\ x.from # x.to
             /\ x.from \in Accounts => balance[x.from] >= x.amount
             /\ journal' = Append(journal, x)
             /\ balance' = [a \in Accounts |->
                              IF a = x.from THEN balance[a] - x.amount
                              ELSE IF a = x.to THEN balance[a] + x.amount
                              ELSE balance[a]]

Transfers == [from: Accounts \cup {Outside}, to: Accounts \cup {Outside}, amount: Nat]

Init == /\ journal = << >>
        /\ balance = [a \in Accounts |-> 0]

\* The entry a step appends is the last one of the next journal.
Next == /\ Len(journal') = Len(journal) + 1
        /\ journal'[Len(journal')] \in Transfers
        /\ Record(journal'[Len(journal')])

Spec == Init /\ [][Next]_vars
=============================================================================

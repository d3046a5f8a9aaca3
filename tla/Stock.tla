-------------------------------- MODULE Stock --------------------------------
(***************************************************************************)
(* functions/src/inventory.js: stock items and the movements that change   *)
(* their quantity, suppliers, and purchases from approval to receipt and   *)
(* payment.  Every callable is one serializable transaction; those that    *)
(* move money carry the client's request id, and a retry of another is     *)
(* answered from its stored result (a stutter).                            *)
(*                                                                         *)
(* Names and SKUs (and the keys that keep them unique) and the permission  *)
(* a stock-out of high value needs are not modelled.                       *)
(***************************************************************************)
EXTENDS Payments

CONSTANTS
    Items, Suppliers,
    Quantities,     \* quantities callers enter
    UnitCosts,      \* unit costs on a purchase line
    ReorderLevels,  \* levels at or below which an item is low
    MaxMovements,   \* bound: stock movements
    MaxPurchases    \* bound: purchases

ASSUME StockAssumption ==
    /\ IsFiniteSet(Items)
    /\ Quantities \subseteq Nat \ {0}
    /\ UnitCosts \subseteq Nat
    /\ ReorderLevels \subseteq Nat
    /\ MaxMovements \in Nat /\ MaxPurchases \in Nat

VARIABLES
    items,      \* inventory_items
    movements,  \* stock_movements, in the order they were numbered
    suppliers,  \* suppliers: "none", "active" or "inactive"
    purchases   \* inventory_purchases

stockVars == <<items, movements, suppliers, purchases>>

StockItem == [exists: BOOLEAN, active: BOOLEAN, quantity: Nat, reorder: Nat,
              stockStatus: {"ok", "low", "out_of_stock"}]

MovementTypes == {"stock_in", "usage", "stock_out", "return", "adjustment_in", "adjustment_out"}

Movement == [item: Items, type: MovementTypes \cup {"reversal"}, change: Int,
             after: Nat, posted: BOOLEAN,
             reversalOf: Nat,  \* number of the movement it reverses, 0 if none
             purchase: Nat]    \* number of the purchase it was received on, 0 if none

Lines == [Items -> Quantities \cup {0}]  \* quantity 0: not on the purchase

Purchase == [status: {"pending_approval", "approved", "received", "cancelled"},
             paid: BOOLEAN, total: Nat, lines: Lines, txn: Nat]

-----------------------------------------------------------------------------
(* Movements *)

StockStatusFor(quantity, reorder) ==
    IF quantity = 0 THEN "out_of_stock" ELSE IF quantity <= reorder THEN "low" ELSE "ok"

\* The item after its quantity becomes q.
Holding(item, q) == [item EXCEPT !.quantity = q, !.stockStatus = StockStatusFor(q, item.reorder)]

NewMovement(it, type, change, of, p) ==
    [item |-> it, type |-> type, change |-> change, after |-> items[it].quantity + change,
     posted |-> TRUE, reversalOf |-> of, purchase |-> p]

\* writeMovement: never below zero.
WriteMovement(it, type, change, earlier, of) ==
    LET after == items[it].quantity + change
    IN  /\ after >= 0
        /\ Len(movements) < MaxMovements
        /\ items' = [items EXCEPT ![it] = Holding(@, after)]
        /\ movements' = Append(earlier, NewMovement(it, type, change, of, 0))

CreateInventoryItem(it, reorder, opening) ==
    /\ ~items[it].exists
    /\ items' = [items EXCEPT ![it] =
                    Holding([exists |-> TRUE, active |-> TRUE, quantity |-> 0, reorder |-> reorder,
                             stockStatus |-> "out_of_stock"], opening)]
    /\ IF opening = 0 THEN movements' = movements
       ELSE /\ Len(movements) < MaxMovements
            /\ movements' = Append(movements, NewMovement(it, "stock_in", opening, 0, 0))
    /\ UNCHANGED <<financeVars, suppliers, purchases>>

Relevelled(item, reorder) ==
    [item EXCEPT !.reorder = reorder, !.stockStatus = StockStatusFor(item.quantity, reorder)]

UpdateInventoryItem(it, reorder, active) ==
    /\ items[it].exists
    /\ items[it].reorder # reorder \/ items[it].active # active
    /\ items' = [items EXCEPT ![it] = [Relevelled(@, reorder) EXCEPT !.active = active]]
    /\ UNCHANGED <<financeVars, movements, suppliers, purchases>>

RecordStockMovement(it, type, n) ==
    /\ items[it].exists
    /\ type = "stock_in" => items[it].active
    /\ WriteMovement(it, type, IF type = "stock_in" THEN n ELSE -n, movements, 0)
    /\ UNCHANGED <<financeVars, suppliers, purchases>>

\* A physical count: the difference from the system quantity is moved.
AdjustStock(it, counted) ==
    LET difference == counted - items[it].quantity
    IN  /\ items[it].exists
        /\ difference # 0
        /\ WriteMovement(it, IF difference > 0 THEN "adjustment_in" ELSE "adjustment_out",
                         difference, movements, 0)
        /\ UNCHANGED <<financeVars, suppliers, purchases>>

Reversible(m) == m.type # "reversal" /\ m.posted /\ m.purchase = 0

ReverseStockMovement(i) ==
    /\ Reversible(movements[i])
    /\ WriteMovement(movements[i].item, "reversal", -movements[i].change,
                     [movements EXCEPT ![i].posted = FALSE], i)
    /\ UNCHANGED <<financeVars, suppliers, purchases>>

-----------------------------------------------------------------------------
(* Suppliers *)

CreateSupplier(s) ==
    /\ suppliers[s] = "none"
    /\ suppliers' = [suppliers EXCEPT ![s] = "active"]
    /\ UNCHANGED <<financeVars, items, movements, purchases>>

UpdateSupplier(s, active) ==
    /\ suppliers[s] \notin {"none", IF active THEN "active" ELSE "inactive"}
    /\ suppliers' = [suppliers EXCEPT ![s] = IF active THEN "active" ELSE "inactive"]
    /\ UNCHANGED <<financeVars, items, movements, purchases>>

-----------------------------------------------------------------------------
(* Purchases *)

OnPurchase(p) == {it \in Items : p.lines[it] > 0}

\* A purchase that costs nothing is paid from the start; the purchase of someone
\* who may approve is approved from the start.
CreatePurchase(s, lines, cost, approved) ==
    LET total == cost * SumFunction(lines)
    IN  /\ Len(purchases) < MaxPurchases
        /\ suppliers[s] = "active"
        /\ \E it \in Items : lines[it] > 0
        /\ \A it \in Items : lines[it] > 0 => items[it].exists /\ items[it].active
        /\ purchases' = Append(purchases,
              [status |-> IF approved THEN "approved" ELSE "pending_approval",
               paid |-> total = 0, total |-> total, lines |-> lines, txn |-> 0])
        /\ UNCHANGED <<financeVars, items, movements, suppliers>>

ApprovePurchase(p) ==
    /\ purchases[p].status = "pending_approval"
    /\ purchases' = [purchases EXCEPT ![p].status = "approved"]
    /\ UNCHANGED <<financeVars, items, movements, suppliers>>

WorthCancelling(p) == ~p.paid \/ p.total = 0

CancelPurchase(p) ==
    /\ purchases[p].status \in {"pending_approval", "approved"}
    /\ WorthCancelling(purchases[p])
    /\ purchases' = [purchases EXCEPT ![p].status = "cancelled"]
    /\ UNCHANGED <<financeVars, items, movements, suppliers>>

\* One stock_in for every line, in the order of the lines.
ReceiptsOf(p, order) ==
    [k \in DOMAIN order |-> NewMovement(order[k], "stock_in", purchases[p].lines[order[k]], 0, p)]

\* Delivery: every line goes into stock, whether its item is active or not.
Receive(p) ==
    /\ purchases[p].status = "approved"
    /\ Len(movements) + Cardinality(OnPurchase(purchases[p])) <= MaxMovements
    /\ items' = [it \in Items |-> Holding(items[it], items[it].quantity + purchases[p].lines[it])]
    /\ \E order \in [1..Cardinality(OnPurchase(purchases[p])) -> OnPurchase(purchases[p])] :
          /\ \A it \in OnPurchase(purchases[p]) : \E k \in DOMAIN order : order[k] = it
          /\ movements' = movements \o ReceiptsOf(p, order)
    /\ UNCHANGED suppliers

ReceivePurchase(p) ==
    /\ Receive(p)
    /\ purchases' = [purchases EXCEPT ![p].status = "received"]
    /\ UNCHANGED financeVars

\* Paid in the same transaction; nothing is posted for a total of zero, but then
\* the purchase was paid already.
ReceiveAndPay(r, p, a) ==
    /\ ~purchases[p].paid
    /\ Receive(p)
    /\ PayOut(r, "inventory_purchase_payment", purchases[p].total, a, p)
    /\ purchases' = [purchases EXCEPT ![p].status = "received", ![p].paid = TRUE,
                                      ![p].txn = NextNumber]

Payable(p) == ~p.paid /\ p.status \in {"approved", "received"}

PayPurchase(r, p, a) ==
    /\ Payable(purchases[p])
    /\ PayOut(r, "inventory_purchase_payment", purchases[p].total, a, p)
    /\ purchases' = [purchases EXCEPT ![p].paid = TRUE, ![p].txn = NextNumber]
    /\ UNCHANGED <<items, movements, suppliers>>

\* The purchase part of reverseFinancialTransaction: unpaid again, whatever its status.
PurchasesAfterReversing(e) ==
    IF e.type = "inventory_purchase_payment"
    THEN [purchases EXCEPT ![e.about].paid = FALSE, ![e.about].txn = 0]
    ELSE purchases

-----------------------------------------------------------------------------
StockInit ==
    /\ items = [it \in Items |-> [exists |-> FALSE, active |-> FALSE, quantity |-> 0,
                                  reorder |-> 0, stockStatus |-> "out_of_stock"]]
    /\ movements = << >>
    /\ suppliers = [s \in Suppliers |-> "none"]
    /\ purchases = << >>

StockStep ==
    \/ \E it \in Items :
          \/ \E reorder \in ReorderLevels, n \in Quantities \cup {0} :
                CreateInventoryItem(it, reorder, n)
          \/ \E reorder \in ReorderLevels, active \in BOOLEAN :
                UpdateInventoryItem(it, reorder, active)
          \/ \E type \in {"stock_in", "usage", "stock_out", "return"}, n \in Quantities :
                RecordStockMovement(it, type, n)
          \/ \E n \in Quantities \cup {0} : AdjustStock(it, n)
    \/ \E i \in DOMAIN movements : ReverseStockMovement(i)
    \/ \E s \in Suppliers :
          \/ CreateSupplier(s)
          \/ \E active \in BOOLEAN : UpdateSupplier(s, active)
          \/ \E lines \in Lines, cost \in UnitCosts, approved \in BOOLEAN :
                CreatePurchase(s, lines, cost, approved)
    \/ \E p \in DOMAIN purchases :
          \/ ApprovePurchase(p) \/ CancelPurchase(p) \/ ReceivePurchase(p)
          \/ \E r \in PaymentIds, a \in AccountIds : ReceiveAndPay(r, p, a) \/ PayPurchase(r, p, a)

-----------------------------------------------------------------------------
(* Properties *)

StockTypeOK ==
    /\ items \in [Items -> StockItem]
    /\ \A i \in DOMAIN movements : movements[i] \in Movement
    /\ suppliers \in [Suppliers -> {"none", "active", "inactive"}]
    /\ \A p \in DOMAIN purchases : purchases[p] \in Purchase

\* The movements of an item, oldest first, each starting where the one before ended.
MovementsOf(it) == {i \in DOMAIN movements : movements[i].item = it}

\* The quantity kept in an item is what its movements add up to, its status is the
\* one that quantity has at today's level, and a reversed movement has one mirror.
StockMatchesMovements ==
    /\ \A it \in Items :
          /\ items[it].quantity = SumFunction([i \in MovementsOf(it) |-> movements[i].change])
          /\ items[it].stockStatus = StockStatusFor(items[it].quantity, items[it].reorder)
    /\ \A i \in DOMAIN movements :
          Cardinality({j \in DOMAIN movements : movements[j].reversalOf = i})
             = IF movements[i].posted THEN 0 ELSE 1

\* What a received purchase ordered went into stock once, line by line, and stays
\* in its movements; nothing was received on any other purchase.
ReceiptsMatchPurchases ==
    \A p \in DOMAIN purchases :
        LET receipts == {i \in DOMAIN movements : movements[i].purchase = p}
        IN  IF purchases[p].status = "received"
            THEN /\ \A i \in receipts : movements[i].posted
                 /\ \A it \in Items : purchases[p].lines[it] =
                       SumFunction([i \in receipts \cap MovementsOf(it) |-> movements[i].change])
            ELSE receipts = {}

\* A purchase says paid exactly while one unreversed entry pays its total (or it
\* cost nothing), whether paid before delivery, on delivery or after; and a
\* cancelled purchase has no money out.
PurchasesMatchLedger ==
    \A p \in DOMAIN purchases :
        LET q == purchases[p]
        IN  /\ IF q.paid /\ q.total > 0
               THEN PaidBy(q.txn, "inventory_purchase_payment", p, q.total)
               ELSE NotPaid(q.txn, "inventory_purchase_payment", p)
            /\ q.status = "cancelled" => ~q.paid \/ q.total = 0
=============================================================================

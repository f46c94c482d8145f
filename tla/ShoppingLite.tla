---------------------------- MODULE ShoppingLite ----------------------------
(***************************************************************************)
(* The shop (apps/shopping-lite).  `fit' stands for the products that are  *)
(* of the category and device the question asks for, `scarce' for one of   *)
(* them of which a single unit is left, `other' for those of the secondary *)
(* category if the question has one, and else for those of another         *)
(* category, restricted or incompatible.  A restricted product that need   *)
(* not be avoided is as any other of its category.  Amounts are whole:     *)
(* their rounding to cents is not modelled.                                *)
(***************************************************************************)
EXTENDS AppSession, FiniteSetsExt

Price == [fit |-> 10, other |-> 5, scarce |-> 5]
Products == DOMAIN Price
MaxQuantity == 2    \* bound on the quantities asked for at once
Stock == [fit |-> MaxRequests * MaxQuantity, other |-> MaxRequests * MaxQuantity, scarce |-> 1]
DiscountPercent == 20       \* of the only coupon there is

(* others: how many units of the secondary category are asked for.         *)
(* threshold: the subtotal from which standard shipping is free.           *)
Questions == {
    [quantity |-> 2, others |-> 0, method |-> "express", coupon |-> FALSE,
     threshold |-> 0, fee |-> 0, maxTotal |-> 20],
    [quantity |-> 2, others |-> 0, method |-> "standard", coupon |-> TRUE,
     threshold |-> 20, fee |-> 4, maxTotal |-> 16],
    [quantity |-> 1, others |-> 1, method |-> "standard", coupon |-> FALSE,
     threshold |-> 15, fee |-> 6, maxTotal |-> 15]}

Empty == [p \in Products |-> 0]

Init == \E t \in Questions : Fresh(t, [cart |-> Empty, orders |-> <<>>])

Units(items) == MapThenSumSet(LAMBDA p : items[p], Products)
Subtotal(items) == MapThenSumSet(LAMBDA p : items[p] * Price[p], Products)
ShippingCost(items, method) ==
    IF method = "standard" /\ Subtotal(items) < task.threshold THEN task.fee ELSE 0
Discount(items, coupon) == IF coupon THEN (Subtotal(items) * DiscountPercent) \div 100 ELSE 0

(* Seeded fault: the recorded amounts are taken for granted. *)
EvaluateItems(w) ==
    LET order == w.orders[Len(w.orders)]
    IN  IF /\ w.orders # <<>>
           /\ Units(order.items) = task.quantity + task.others
           /\ order.items["fit"] + order.items["scarce"] = task.quantity
           /\ task.others > 0 => order.items["other"] = task.others
           /\ order.total <= task.maxTotal
           /\ order.method = task.method
        THEN "passed" ELSE "failed"

Evaluate(w) ==
    LET order == w.orders[Len(w.orders)]
    IN  IF /\ w.orders # <<>>
           /\ Units(order.items) = task.quantity + task.others
           /\ order.items["fit"] + order.items["scarce"] = task.quantity
           /\ task.others > 0 => order.items["other"] = task.others
           /\ \A p \in Products : order.items[p] <= Stock[p]
           /\ task.coupon => order.coupon
           /\ order.discount = Discount(order.items, task.coupon)
           /\ order.shipping = ShippingCost(order.items, task.method)
           /\ order.total = Subtotal(order.items) - order.discount + order.shipping
           /\ order.total <= task.maxTotal
           /\ order.method = task.method
        THEN "passed" ELSE "failed"

Request(op, p, q) == [op |-> op, on |-> p, items |-> work.cart, coupon |-> FALSE, quantity |-> q]

Add(p) ==
    /\ work.cart[p] + 1 <= Stock[p]
    /\ Accept(Request("add", p, 1), [work EXCEPT !.cart[p] = @ + 1], FALSE)

(* Seeded fault: the stock is not looked at. *)
SetRegardless(p, q) ==
    Accept(Request("set", p, q), [work EXCEPT !.cart[p] = q], FALSE)

(* A quantity of 0 takes the product out of the cart, as removing it does. *)
SetQuantity(p, q) ==
    /\ q <= Stock[p]
    /\ Accept(Request("set", p, q), [work EXCEPT !.cart[p] = q], FALSE)

Checkout(method, coupon) ==
    /\ work.cart # Empty
    /\ LET items == work.cart
           discount == Discount(items, coupon)
           shipping == ShippingCost(items, method)
           order == [items |-> items, method |-> method, coupon |-> coupon,
                     discount |-> discount, shipping |-> shipping,
                     total |-> Subtotal(items) - discount + shipping]
       IN  Accept([Request("checkout", method, 0) EXCEPT !.coupon = coupon],
                  [cart |-> Empty, orders |-> Append(work.orders, order)], TRUE)

Hydrate(w) == w

Next ==
    \/ \E p \in Products : Add(p) \/ \E q \in 0..MaxQuantity : SetQuantity(p, q)
    \/ \E method \in {"standard", "express"}, coupon \in BOOLEAN : Checkout(method, coupon)
    \/ Complete
    \/ Judge(Evaluate(work))
    \/ Recover(Hydrate(work))

TypeOfWork ==
    /\ \A p \in Products : work.cart[p] \in 0..Stock[p]
    /\ \A i \in DOMAIN work.orders : work.orders[i].total \in Nat

-----------------------------------------------------------------------------
(* The latest order: as much as is asked for, of what fits and of the      *)
(* secondary category, bought by the asked method, with the coupon if and  *)
(* only if it is asked for, for no more than the budget.                   *)
Deserved ==
    LET checkouts == {i \in DOMAIN log : log[i].op = "checkout"}
        bought == log[Max(checkouts)]
        fit == bought.items["fit"]
        other == bought.items["other"]
        scarce == bought.items["scarce"]
        goods == 10 * fit + 5 * scarce + 5 * other
        fee == IF task.method = "express" \/ goods >= task.threshold THEN 0 ELSE task.fee
    IN  /\ checkouts # {}
        /\ fit + scarce = task.quantity /\ scarce <= 1 /\ other = task.others
        /\ bought.on = task.method
        /\ bought.coupon = task.coupon
        /\ (IF task.coupon THEN goods - goods \div 5 ELSE goods) + fee <= task.maxTotal
=============================================================================

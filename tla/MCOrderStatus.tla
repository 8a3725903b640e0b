----------------------------- MODULE MCOrderStatus -----------------------------
(* OrderStatus with one order, and InvoiceAmounts with seven orders of     *)
(* other settings.  A behaviour is one of statuses or one of amounts.      *)
EXTENDS OrderStatus, InvoiceAmounts

CONSTANT ad

Line(price, qty, off, fee) == [price |-> price, qty |-> qty, off |-> off, fee |-> fee, tax |-> 0]
TwoLines == <<Line(3, 2, 2, FALSE), Line(2, 1, 0, FALSE), Line(1, 1, 0, TRUE)>>
OneLine == <<Line(3, 2, 2, FALSE), Line(1, 1, 0, TRUE)>>

(* Product-only invoicing: refunds; a shop that vouches for its refunds;   *)
(* discounts that do not split and odd charges; staff and an override.     *)
Only ==
  [lines |-> TwoLines, shipping |-> 2, tip |-> 0, other |-> 0, included |-> TRUE,
   only |-> TRUE, trust |-> FALSE, noShipping |-> TRUE, noFees |-> TRUE, noOthers |-> TRUE, lenient |-> TRUE,
   surcharge |-> FALSE, inherits |-> FALSE, proven |-> TRUE, accept |-> FALSE, overpaid |-> FALSE, trigger |-> "paid",
   carries |-> TRUE, refunds |-> 2, edits |-> FALSE, cancels |-> FALSE, staff |-> FALSE, amounts |-> {2, 3}, admins |-> {}]
Trusted == [Only EXCEPT !.trust = TRUE, !.edits = TRUE, !.trigger = "fulfilled"]
Odd == [Only EXCEPT !.lines[1].off = 1, !.tip = 1, !.other = 1, !.refunds = 1, !.admins = {ad}]
Watched == [Only EXCEPT !.lines = OneLine, !.proven = FALSE, !.accept = TRUE, !.carries = FALSE, !.edits = TRUE,
                        !.staff = TRUE, !.refunds = 1, !.amounts = {2}, !.admins = {ad}]

(* Strict mode: the same with a recorded shipping charge, and without.     *)
Strict == [Only EXCEPT !.only = FALSE, !.lines[1].off = 0, !.surcharge = TRUE, !.inherits = TRUE, !.edits = TRUE,
                       !.amounts = {1, 2}]
StrictWatched == [Strict EXCEPT !.lines = <<Line(3, 1, 0, FALSE), Line(1, 1, 0, TRUE)>>,
                                !.staff = TRUE, !.refunds = 1, !.admins = {ad}]
StrictOdd == [Strict EXCEPT !.lines[1].tax = 1, !.lines[2].off = 1, !.included = FALSE, !.surcharge = FALSE,
                            !.inherits = FALSE, !.cancels = TRUE, !.refunds = 1, !.admins = {ad}]
Nobody == [Only EXCEPT !.refunds = 0]

MCCases == {Only, Trusted, Odd, Watched, Strict, StrictWatched, StrictOdd, Nobody}

MCInit == /\ AmountsInit
          /\ \/ case = Nobody /\ StatusInit
             \/ /\ case # Nobody
                /\ shop = "open" /\ shopJob = "none" /\ kvOrder = "none" /\ mapping = "none"
                /\ invoice = "none" /\ released = FALSE /\ jobs = <<>>
MCNext == \/ case = Nobody /\ StatusNext /\ UNCHANGED avars
          \/ case # Nobody /\ AmountsNext /\ UNCHANGED svars
MCSpec == MCInit /\ [][MCNext]_<<svars, avars>>
=============================================================================

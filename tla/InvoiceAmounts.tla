----------------------------- MODULE InvoiceAmounts -----------------------------
(***************************************************************************)
(* What the invoice of one order holds.                                    *)
(*                                                                         *)
(* Shopify's order is sold, shipped, refunded and edited; the KiotViet     *)
(* order is created from its state and keeps its lines; an automatic run   *)
(* or an administrator's override plans an invoice from both, reads both   *)
(* again, sends it, and verifies what KiotViet made of it.  Staff change   *)
(* the KiotViet order, the invoice and the stock meanwhile.  Claims, lost  *)
(* answers and second invoices are the subject of InvoiceCreate.           *)
(*                                                                         *)
(* Amounts are whole cents.  Every line is a product of its own.           *)
(* Definitions named Bug... are wrong variants of the one that follows.    *)
(***************************************************************************)
EXTENDS Integers, Sequences, Functions

CONSTANTS
  Cases,  \* an order and its settings: chosen once
  Admins, \* administrators who may override
  None

(* Nothing is sold below zero.                                             *)
SoldLine == [price : Nat, qty : Nat \ {0}, off : Nat, tax : Nat, fee : BOOLEAN]
ASSUME AmountsAssumption ==
  None \notin Admins /\ \A c \in Cases :
    /\ c.admins \subseteq Admins
    /\ c.lines \in Seq(SoldLine) /\ \A i \in DOMAIN c.lines : c.lines[i].off <= c.lines[i].price * c.lines[i].qty
    /\ {c.shipping, c.tip} \subseteq Nat /\ c.other \in Int /\ c.amounts \subseteq Nat

VARIABLES
  case,
  sale,   \* Shopify's order
  order,  \* the KiotViet order
  born,   \* Shopify's order as it was when the KiotViet order was created
  run,    \* the run of planInvoiceRecovery and applyInvoiceRecovery
  seen,   \* the preview each administrator holds
  record, \* invoice_mappings: status and payment_status
  bill,   \* the KiotViet invoice
  stock   \* movements of the branch's stock other than this invoice

avars == <<case, sale, order, born, run, seen, record, bill, stock>>

NoRun == [at |-> "idle", by |-> None, plan |-> None, stock |-> 0]
When(condition, reason) == IF condition THEN {reason} ELSE {}
Greater(x, y) == IF x > y THEN x ELSE y
Less(x, y) == IF x < y THEN x ELSE y
-----------------------------------------------------------------------------
(* The order as placed                                                     *)
L == case.lines
Products == {i \in DOMAIN L : ~L[i].fee}

Net(i) == L[i].price * L[i].qty - L[i].off
AddedTax(i) == IF case.included THEN 0 ELSE L[i].tax
Charged(i) == Net(i) + AddedTax(i)
FeeTotal == SumFunction([i \in DOMAIN L \ Products |-> Charged(i)])
Total == SumFunction([i \in DOMAIN L |-> Charged(i)]) + case.shipping + case.tip + case.other
Adjusted == Total - FeeTotal

(* discountedUnitPriceCents                                                *)
NoPrice == -1
Unit(i) == IF Net(i) < 0 \/ Net(i) % L[i].qty # 0 THEN NoPrice ELSE Net(i) \div L[i].qty
-----------------------------------------------------------------------------
(* Refunds: a refund names units of one line, or money alone (line 0)      *)
Refunded(s, i, types) ==
  LET Units(k) == IF s.refunds[k].line = i /\ s.refunds[k].type \in types THEN s.refunds[k].qty ELSE 0
  IN SumFunction([k \in DOMAIN s.refunds |-> Units(k)])
Money(s) == SumFunction([k \in DOMAIN s.refunds |-> s.refunds[k].amount])
AllTypes == {"cancel", "no_restock", "return"}
Kept(s, i) == L[i].qty - Refunded(s, i, AllTypes) - s.removed[i]  \* current_quantity

FinancialStatus(s) ==
  CASE Money(s) = 0 -> "paid"
    [] Money(s) > 0 /\ Money(s) < Total -> "partially_refunded"
    [] Money(s) > 0 /\ Money(s) >= Total -> "refunded"
Partial(s) == (\E i \in Products : s.shipped[i] > 0) /\ \E i \in Products : s.left[i] > 0

BugInvalid(s, i) == Refunded(s, i, AllTypes) > L[i].qty  \* units removed by an edit are not noticed
Invalid(s, i) ==
  \/ Kept(s, i) # L[i].qty - Refunded(s, i, AllTypes)
  \/ Refunded(s, i, AllTypes) > L[i].qty

(* computeRefundAdjustments.  Fulfillments are read whenever a refund      *)
(* names units.                                                            *)
Ambiguous(s, i) ==
  \/ Invalid(s, i)
  \/ /\ ~case.trust
     /\ \/ Refunded(s, i, {"return"}) > 0
        \/ s.shipped[i] > L[i].qty - Refunded(s, i, {"cancel", "no_restock"})

Remaining(s, i) ==
  IF case.only /\ ~Ambiguous(s, i) THEN L[i].qty - Refunded(s, i, AllTypes) ELSE L[i].qty
Lines(s) == {i \in Products : Remaining(s, i) > 0}

(* Merchandise of the effective lines; rounded where a line's discount     *)
(* does not split into cents.                                              *)
Worth(s) ==
  LET Share(i) == IF Unit(i) # NoPrice THEN Unit(i) * Remaining(s, i)
                  ELSE (2 * Net(i) * Remaining(s, i) + L[i].qty) \div (2 * L[i].qty)
  IN SumFunction([i \in Lines(s) |-> Share(i)])
ListWorth == SumFunction([i \in Products |-> L[i].price * L[i].qty])
-----------------------------------------------------------------------------
(* The KiotViet order: productOnlyLines, plannedOrderPayment,              *)
(* shippingSurcharges                                                      *)
Price(i) == IF case.only /\ Unit(i) # NoPrice THEN Unit(i) ELSE L[i].price

Expected(s) == [i \in Lines(s) |-> [qty |-> Remaining(s, i), price |-> Price(i)]]
Value(lines) == SumFunction([i \in DOMAIN lines |-> lines[i].qty * lines[i].price])

BugPlannedPayment(s) == IF case.only THEN SumFunction([i \in Products |-> Net(i)]) ELSE Adjusted
PlannedPayment(s) == IF case.only THEN Worth(s) ELSE Adjusted
PlannedSurcharge == IF ~case.only /\ case.surcharge THEN case.shipping ELSE 0

IsPaid(s) == FinancialStatus(s) = "paid" \/ (case.only /\ FinancialStatus(s) = "partially_refunded")

CreateOrder ==
  /\ order = None /\ IsPaid(sale) /\ ~sale.cancelled
  /\ case.only => \A i \in Products : ~Ambiguous(sale, i)
  /\ Lines(sale) # {}
  /\ \E total \in {Value(Expected(sale)), Value(Expected(sale)) + PlannedSurcharge} :  \* both occur
       order' = [lines |-> Expected(sale), paid |-> PlannedPayment(sale), surcharge |-> PlannedSurcharge,
                 total |-> total, touched |-> FALSE]
  /\ born' = sale
  /\ UNCHANGED <<case, sale, run, seen, record, bill, stock>>
-----------------------------------------------------------------------------
(* evaluateInvoiceFinancials                                               *)
StatusReasons(s) ==
  When(s.cancelled, "order_cancelled") \cup When(FinancialStatus(s) = "refunded", "not_paid")
    \cup When(Partial(s), "partial_fulfillment")

FeesRefunded(s) == Money(s) > FeeTotal

StrictReasons(s) ==
  When(\E i \in Products : L[i].off > 0, "unsupported_discount")
    \cup When(\E i \in Products : AddedTax(i) > 0, "unsupported_tax")
    \cup When(case.shipping > 0 /\ ~case.surcharge, "unsupported_shipping")
    \cup When(case.shipping > 0 /\ case.surcharge /\ ~case.inherits, "shipping_unverified")
    \cup When(case.tip > 0, "unsupported_tip")
    \cup When(Adjusted # ListWorth + case.shipping, "amount_mismatch")
    \cup When(\E k \in DOMAIN s.refunds : s.refunds[k].line \in Products, "refund_affects_products")
    \cup When(\E k \in DOMAIN s.refunds : s.refunds[k].line = 0 /\ s.refunds[k].amount > 0, "refund_not_allocated")
    \cup When(FeesRefunded(s), "refund_exceeds_fees")

(* evaluateProductOnlyFinancials                                           *)
ProductTax == SumFunction([i \in Products |-> AddedTax(i)])
Placed == SumFunction([i \in Products |-> Net(i)])
Other == Total - (Placed + ProductTax + case.shipping + FeeTotal + case.tip)

BugOverRefunded(s) == Money(s) > Total  \* a refund of merchandise that stays is not noticed
OverRefunded(s) == Money(s) > Greater(0, Total - Worth(s) - ProductTax)

ProductReasons(s) ==
  When(\E i \in Lines(s) : Unit(i) = NoPrice, "discount_not_representable")
    \cup When(ProductTax > 0, "unsupported_tax")
    \cup When(case.shipping > 0 /\ ~case.noShipping, "shipping_not_excluded")
    \cup When(FeeTotal > 0 /\ ~case.noFees, "processing_fee_not_excluded")
    \cup When(case.tip > 0 /\ ~case.noOthers, "unsupported_tip")
    \cup When(Other < 0 \/ (Other > 0 /\ ~(case.noOthers /\ case.lenient)), "amount_mismatch")
    \cup When(\E i \in Products : Ambiguous(s, i), "refund_requires_verification")
    \cup When(OverRefunded(s), "refund_exceeds_excluded_charges")

(* planInvoiceRecovery: the KiotViet order's lines, total and payment      *)
LineReasons(o, expected) ==
  LET common == DOMAIN o.lines \cap DOMAIN expected
  IN When(DOMAIN o.lines # DOMAIN expected, "line_mismatch")
       \cup When(\E i \in common : o.lines[i].qty # expected[i].qty, "quantity_mismatch")
       \cup When(\E i \in common : o.lines[i].price # expected[i].price, "price_mismatch")

ExpectedTotal(s) == IF case.only THEN Worth(s) ELSE ListWorth + case.shipping
TotalReasons(o, expected) ==
  IF case.only
  THEN When(o.surcharge > 0, "kiotviet_order_has_surcharge")
         \cup When(o.total \notin {Value(expected)} \cup When(case.lenient /\ o.surcharge > 0, Value(expected) + o.surcharge),
                   "total_mismatch")
  ELSE When(case.shipping > 0 /\ o.surcharge = 0, "shipping_not_on_kiotviet_order")
         \cup When(o.surcharge \notin {0, case.shipping}, "shipping_mismatch")
         \cup When(o.total \notin {ListWorth + case.shipping, ListWorth + case.shipping - o.surcharge}, "total_mismatch")

Proven(o) == o.paid = 0 \/ case.proven
PaymentReasons(o, s) ==  \* productOnlyPaymentDecision
  IF case.only
  THEN When(o.paid = 0, "kiotviet_payment_missing")
         \cup When(o.paid > Value(o.lines), "prepayment_exceeds_invoice")
         \cup When(0 < o.paid /\ o.paid < Value(o.lines), "prepayment_below_invoice")
         \cup When(o.paid = Value(o.lines) /\ ~Proven(o) /\ ~case.accept, "prepayment_inheritance_unverified")
  ELSE When(o.paid > ExpectedTotal(s), "overpaid") \cup When(~Proven(o), "prepayment_inheritance_unverified")

Reasons(o, s) ==
  StatusReasons(s) \cup (IF case.only THEN ProductReasons(s) ELSE StrictReasons(s))
    \cup LineReasons(o, Expected(s)) \cup TotalReasons(o, Expected(s)) \cup PaymentReasons(o, s)
-----------------------------------------------------------------------------
(* What is sent: by a run, or by an override (buildInvoiceProposal)        *)
Collected(s) == Total - Money(s)
BillTotal(o) == Value(o.lines) + o.surcharge
PaidForGoods(s) == IF case.only THEN Collected(s) ELSE Adjusted
ExtraPayment(o, s) ==
  IF Proven(o) /\ ~case.only THEN Greater(0, Less(BillTotal(o), PaidForGoods(s)) - o.paid) ELSE 0
ShopMerchandise(s) == IF case.only THEN Worth(s) ELSE ListWorth

Differences(o, s) ==
  LET recorded == o.paid + ExtraPayment(o, s)
  IN When(ShopMerchandise(s) # Value(o.lines), "merchandise_difference")
       \cup (IF case.only
             THEN When(Worth(s) # Placed, "cancelled_items_excluded") \cup When(case.shipping > 0, "shipping_excluded")
                    \cup When(FeeTotal > 0, "processing_fee_excluded") \cup When(case.tip > 0, "tip_excluded")
                    \cup When(Other > 0, "other_charges_excluded") \cup When(Collected(s) # Worth(s), "shopify_paid_vs_invoice")
             ELSE When(case.shipping # o.surcharge, "shipping_unrecorded")
                    \cup When(PaidForGoods(s) # recorded, "payment_not_recorded"))
       \cup When(recorded > BillTotal(o), "overpayment") \cup When(recorded < BillTotal(o), "remaining_balance")
       \cup When(~Proven(o), "prepayment_inheritance_unverified")

AutoPlan(o, s) ==
  [order |-> o, sale |-> s, reasons |-> {}, lines |-> o.lines, total |-> ExpectedTotal(s), override |-> FALSE,
   pay |-> IF case.only THEN 0 ELSE ExpectedTotal(s) - o.paid,
   paid |-> IF case.only THEN o.paid ELSE ExpectedTotal(s), differences |-> {}]
OverridePlan(o, s) ==
  [order |-> o, sale |-> s, reasons |-> Reasons(o, s), lines |-> o.lines, total |-> BillTotal(o), override |-> TRUE,
   pay |-> ExtraPayment(o, s), paid |-> o.paid + ExtraPayment(o, s), differences |-> Differences(o, s)]

(* OVERRIDABLE_INVOICE_WARNINGS                                            *)
Overridable ==
  {"unsupported_shipping", "shipping_not_on_kiotviet_order", "shipping_mismatch", "total_mismatch", "amount_mismatch",
   "overpaid", "unsupported_discount", "unsupported_tax", "prepayment_inheritance_unverified",
   "prepayment_below_invoice", "kiotviet_payment_missing"}
    \cup When(case.overpaid, "prepayment_exceeds_invoice")
Allowed(view) == view.reasons \subseteq Overridable /\ (view.order.surcharge > 0 => case.inherits)
-----------------------------------------------------------------------------
(* Shopify's order; nothing reads it once the invoice is sent              *)
AmountsInit ==
  /\ case \in Cases
  /\ sale = [refunds |-> <<>>, cancelled |-> FALSE, shipped |-> [i \in Products |-> 0], back |-> [i \in Products |-> 0],
             left |-> [i \in Products |-> L[i].qty], removed |-> [i \in Products |-> 0]]
  /\ order = None /\ born = None /\ run = NoRun /\ seen = [a \in Admins |-> None]
  /\ record = [status |-> "none", payment |-> None] /\ bill = None /\ stock = 0

SaleOnly == bill = None /\ UNCHANGED <<case, order, born, run, seen, record, bill, stock>>

Ship(i) ==
  /\ sale.left[i] > 0 /\ SaleOnly
  /\ sale' = [sale EXCEPT !.left[i] = @ - 1, !.shipped[i] = @ + 1]

MoneyBack(line, n, type, amount) ==
  /\ Len(sale.refunds) < case.refunds /\ Money(sale) + amount <= Total /\ SaleOnly
  /\ sale' = [sale EXCEPT !.refunds = Append(@, [line |-> line, qty |-> n, type |-> type, amount |-> amount])]

RefundUnits(i, n, type) ==  \* their price, or one cent more
  LET share == (Net(i) * n) \div L[i].qty IN
  /\ Len(sale.refunds) < case.refunds /\ SaleOnly
  /\ \E amount \in {share, share + 1} : \E shipped \in BOOLEAN :
       /\ Money(sale) + amount <= Total
       /\ type = "cancel" => ~shipped
       /\ type = "return" => shipped
       /\ IF shipped THEN sale.shipped[i] - sale.back[i] >= n ELSE sale.left[i] >= n
       /\ sale' = [sale EXCEPT !.refunds = Append(@, [line |-> i, qty |-> n, type |-> type, amount |-> amount]),
                               !.left[i] = IF shipped THEN @ ELSE @ - n, !.back[i] = IF shipped THEN @ + n ELSE @]

Edit(i) ==
  /\ case.edits /\ sale.removed[i] = 0 /\ sale.left[i] > 0 /\ SaleOnly
  /\ sale' = [sale EXCEPT !.left[i] = @ - 1, !.removed[i] = @ + 1]

CancelSale == ~sale.cancelled /\ case.cancels /\ SaleOnly /\ sale' = [sale EXCEPT !.cancelled = TRUE]

SaleChanges ==
  \/ \E i \in Products : Ship(i) \/ Edit(i) \/ \E n \in 1 .. L[i].qty, type \in AllTypes : RefundUnits(i, n, type)
  \/ \E i \in DOMAIN L \ Products : MoneyBack(i, 1, "no_restock", Charged(i))
  \/ \E amount \in case.amounts : MoneyBack(0, 0, "none", amount)
  \/ CancelSale
-----------------------------------------------------------------------------
(* Runs                                                                    *)
RunOnly(new) == run' = new /\ UNCHANGED <<case, sale, order, born, seen, record, bill, stock>>

(* invoiceTriggerDecision                                                  *)
Ready(s) ==
  /\ ~s.cancelled /\ FinancialStatus(s) # "refunded" /\ ~Partial(s)
  /\ case.trigger = "fulfilled" => \A i \in Products : s.left[i] = 0

View(o, s) == [order |-> o, sale |-> s, lines |-> o.lines, pay |-> ExtraPayment(o, s), reasons |-> Reasons(o, s)]

(* The KiotViet order is read, then Shopify's.                             *)
BeginRun ==
  /\ run.at = "idle" /\ order # None /\ bill = None
  /\ \/ Ready(sale) /\ RunOnly([NoRun EXCEPT !.at = "auto", !.plan = [order |-> order, sale |-> sale]])
     \/ \E a \in case.admins : \E goal \in {"preview"} \cup When(seen[a] # None, "submit") :
          RunOnly([NoRun EXCEPT !.at = goal, !.by = a, !.plan = [order |-> order]])

DecideAuto ==  \* staleness: the order changed since the trigger was checked
  /\ run.at = "auto"
  /\ IF sale = run.plan.sale /\ Reasons(run.plan.order, sale) = {}
     THEN RunOnly([run EXCEPT !.at = "stock", !.plan = AutoPlan(run.plan.order, sale)])
     ELSE RunOnly(NoRun)

Preview ==
  /\ run.at = "preview"
  /\ seen' = [seen EXCEPT ![run.by] = View(run.plan.order, sale)]
  /\ run' = NoRun /\ UNCHANGED <<case, sale, order, born, record, bill, stock>>

BugFingerprint(v) == [lines |-> v.lines, pay |-> v.pay, reasons |-> v.reasons]  \* the orders are left out
Fingerprint(v) == v

Submit ==
  /\ run.at = "submit"
  /\ \E now \in {View(run.plan.order, sale)} :
       IF Fingerprint(now) = Fingerprint(seen[run.by]) /\ Allowed(now) /\ now.reasons = seen[run.by].reasons
       THEN RunOnly([run EXCEPT !.at = "stock", !.plan = OverridePlan(run.plan.order, sale)])
       ELSE RunOnly(NoRun)

ReadStock == run.at = "stock" /\ RunOnly([run EXCEPT !.at = "shopify", !.stock = stock])

BugRecheckShopify ==  \* the plan is trusted
  run.at = "shopify" /\ RunOnly([run EXCEPT !.at = "order"])

RecheckShopify ==
  /\ run.at = "shopify"
  /\ RunOnly(IF sale = run.plan.sale THEN [run EXCEPT !.at = "order"] ELSE NoRun)

RecheckOrder ==
  /\ run.at = "order"
  /\ RunOnly(IF order = run.plan.order THEN [run EXCEPT !.at = "send"] ELSE NoRun)

SendInvoice ==
  LET surcharge == IF case.inherits THEN order.surcharge ELSE 0
      value == Value(run.plan.lines)
  IN /\ run.at = "send"
     /\ \E total \in {value, value + surcharge}, rows \in BOOLEAN :
          bill' = [lines |-> run.plan.lines, surcharge |-> surcharge, total |-> total, touched |-> FALSE, completed |-> TRUE,
                   paid |-> run.plan.pay + (IF case.carries THEN order.paid ELSE 0), rows |-> rows]
     /\ run' = [run EXCEPT !.at = "verify"]
     /\ UNCHANGED <<case, sale, order, born, seen, record, stock>>
-----------------------------------------------------------------------------
(* finalizeInvoice                                                         *)
LinesMatch == bill.lines = Expected(run.plan.sale)

TotalMatches ==
  LET p == run.plan IN
  IF case.only /\ ~p.override THEN bill.total = p.total /\ bill.surcharge = 0
  ELSE LET shipping == IF case.only THEN 0 ELSE case.shipping
       IN \/ bill.total = p.total
          \/ shipping > 0 /\ bill.total = p.total - shipping /\ bill.surcharge = shipping

RowsMatch == bill.rows \/ run.plan.order.paid = 0
BugPaidAsPlanned == run.plan.pay <= bill.paid  \* the prepayment is not looked for
PaidAsPlanned == bill.paid = run.plan.paid

Verified ==
  /\ LinesMatch /\ TotalMatches /\ bill.completed /\ stock = run.stock
  /\ run.plan.differences = {}
  /\ (case.only /\ ~run.plan.override) \/ (PaidAsPlanned /\ RowsMatch)

PaymentStatus ==
  CASE run.plan.paid = 0 /\ bill.paid = 0 -> "not_applicable"
    [] case.only /\ ~run.plan.override -> IF PaidAsPlanned /\ bill.rows /\ bill.total = bill.paid THEN "verified" ELSE "mismatch"
    [] OTHER -> IF PaidAsPlanned /\ RowsMatch THEN "verified" ELSE "mismatch"

Verify ==
  /\ run.at = "verify"
  /\ record' = [status |-> IF Verified THEN "created" ELSE "needs_review", payment |-> PaymentStatus]
  /\ run' = [run EXCEPT !.at = "done"]
  /\ UNCHANGED <<case, sale, order, born, seen, bill, stock>>
-----------------------------------------------------------------------------
(* Staff and other sales: one change each                                  *)
StaffOrder ==
  /\ case.staff /\ order # None /\ bill = None /\ ~order.touched
  /\ \/ \E i \in DOMAIN order.lines :
          \/ order' = [order EXCEPT !.touched = TRUE, !.lines[i].price = @ + 1, !.total = @ + order.lines[i].qty]
          \/ order' = [order EXCEPT !.touched = TRUE, !.lines[i].qty = @ + 1, !.total = @ + order.lines[i].price]
     \/ order' = [order EXCEPT !.touched = TRUE, !.paid = @ + 1]
     \/ order' = [order EXCEPT !.touched = TRUE, !.surcharge = @ + 1]
  /\ UNCHANGED <<case, sale, born, run, seen, record, bill, stock>>

StaffBill ==
  /\ case.staff /\ run.at = "verify" /\ ~bill.touched
  /\ \/ \E i \in DOMAIN bill.lines :
          bill' = [bill EXCEPT !.touched = TRUE, !.lines[i].qty = @ + 1, !.lines[i].price = 0]
     \/ bill' = [bill EXCEPT !.touched = TRUE, !.completed = FALSE]
  /\ UNCHANGED <<case, sale, order, born, run, seen, record, stock>>

StockMoves ==
  /\ case.staff /\ run.at \in {"shopify", "verify"}
  /\ stock' = 1 /\ stock = 0
  /\ UNCHANGED <<case, sale, order, born, run, seen, record, bill>>

AmountsNext ==
  \/ CreateOrder \/ SaleChanges
  \/ BeginRun \/ DecideAuto \/ Preview \/ Submit \/ ReadStock \/ RecheckShopify \/ RecheckOrder \/ SendInvoice \/ Verify
  \/ StaffOrder \/ StaffBill \/ StockMoves

AmountsSpec == AmountsInit /\ [][AmountsNext]_avars
-----------------------------------------------------------------------------
Automatic == run.by = None

(* What an automatic run sends is what Shopify shows at its last read: of  *)
(* each product exactly the units that were not refunded or removed, none  *)
(* that was shipped missing, each at the price the customer was charged    *)
(* after discounts (product-only-invoicing.ts:126-216,                     *)
(* kiotviet-invoice-recovery.ts:236-300, 609-612).  Strict mode does not   *)
(* read which units an edit removed.                                       *)
RightUnits ==
  [][run.at = "shopify" /\ run'.at = "order" /\ Automatic /\ (case.only \/ \A i \in Products : sale.removed[i] = 0) =>
       LET lines == run.plan.lines IN
       /\ DOMAIN lines = {i \in Products : Kept(sale, i) > 0}
       /\ \A i \in DOMAIN lines : lines[i].qty = Kept(sale, i) /\ lines[i].price * L[i].qty = Net(i)
       /\ ~case.trust => \A i \in Products : sale.shipped[i] - sale.back[i] <= Kept(sale, i)]_avars

(* An automatic invoice never asks for more than Shopify has collected and *)
(* not refunded, and the payments it ends up with, where KiotViet carries  *)
(* the order's, are its total: no payment is recorded twice                *)
(* (invoice-financials.ts:243-262, kiotviet-invoice-recovery.ts:331-366).  *)
CollectedCoversIt ==
  [][run.at = "shopify" /\ run'.at = "order" /\ Automatic =>
       LET p == run.plan IN
       /\ BillTotal(p.order) <= Collected(sale)
       /\ p.pay + p.order.paid = BillTotal(p.order) /\ p.pay >= 0]_avars

(* An override sends what its administrator saw, from the orders as they   *)
(* were seen, and with the warnings that were approved, whatever staff and *)
(* customers changed between (invoice-override.ts:99-112, 160-180).        *)
OverrideIsSeen ==
  [][run.at \in {"shopify", "order"} /\ run'.at \in {"order", "send"} /\ run'.at # run.at /\ ~Automatic =>
       LET v == seen[run.by] IN
       /\ run.at = "shopify" => v.sale = sale
       /\ run.at = "order" => v.order = order
       /\ v.lines = run.plan.lines /\ v.pay = run.plan.pay /\ v.reasons = run.plan.reasons]_avars

(* A record says created, or its payment verified, only of an invoice that *)
(* is what was charged: the kept units at their price (the list price      *)
(* where an administrator approved a discount strict mode cannot bill)     *)
(* and, outside product-only mode, paid in full; an override with a        *)
(* difference left stays in review (invoice-sync.ts:174-266).  A first     *)
(* surcharge that staff add after the last read may pass unnoticed.        *)
CreatedIsTrue ==
  [][record'.status = "created" =>
       LET s == run.plan.sale IN
       /\ \A i \in Products : Kept(s, i) > 0 /\ (case.only \/ s.removed[i] = 0) =>
            /\ i \in DOMAIN bill.lines /\ bill.lines[i].qty = Kept(s, i)
            /\ bill.lines[i].price * L[i].qty = Net(i) \/ "unsupported_discount" \in run.plan.reasons
       /\ (~case.only \/ record'.payment = "verified") /\ (bill.surcharge > 0 => run.plan.order.surcharge > 0) =>
            bill.paid = Value(bill.lines) + bill.surcharge]_avars

(* The order's creation and the invoice's plan agree to the cent: an order *)
(* that nobody touched, with its units and settings as they were, is       *)
(* invoiced without review unless its discount cannot be split, tax was    *)
(* added, Shopify has refunded some of what the customer keeps (in strict  *)
(* mode: anything), or, in product-only mode, nothing kept costs money     *)
(* (order-sync.ts:218-257, invoice-financials.ts:141-269).                 *)
Plain ==
  /\ \A i \in Products : AddedTax(i) = 0 /\ Unit(i) # NoPrice
  /\ case.proven \/ (case.only /\ case.accept)
  /\ IF case.only THEN /\ case.noShipping /\ case.noFees /\ case.noOthers /\ case.lenient /\ case.other >= 0
                       /\ \E i \in Products : Kept(sale, i) > 0 /\ Net(i) > 0
     ELSE /\ case.tip = 0 /\ case.other = 0 /\ sale.refunds = <<>> /\ \A i \in Products : L[i].off = 0
          /\ case.shipping > 0 => case.surcharge /\ case.inherits
Untouched ==
  /\ order # None /\ ~order.touched /\ ~sale.cancelled /\ ~Partial(sale) /\ sale.removed = born.removed
  /\ \A i \in Products : Kept(sale, i) = Kept(born, i) /\ (case.trust \/ sale.back[i] = 0)
PlainIsInvoiced ==
  Untouched /\ Plain =>
    LET charged == SumFunction([i \in Products |-> Unit(i) * Kept(sale, i)])
    IN Collected(sale) >= charged + order.surcharge => Reasons(order, sale) = {}
=============================================================================

------------------------------ MODULE OrderStatus ------------------------------
(***************************************************************************)
(* Cancellation and completion of one order in Shopify, in KiotViet and in *)
(* order_mappings: cancelShopifyOrder, syncKiotVietOrderStatus and         *)
(* syncKiotVietInvoice run as jobs, in any order and side by side, with    *)
(* the order's creation and the app's own invoice (both reduced to the     *)
(* status they leave; OrderCreate and InvoiceCreate model them).           *)
(*                                                                         *)
(* Definitions named Bug... are wrong variants of the one that follows.    *)
(***************************************************************************)
EXTENDS Naturals, Sequences

CONSTANTS Attempts, Customers, Staff, App  \* Attempts: JOB_MAX_ATTEMPTS; the others: may act

ASSUME StatusAssumption == Attempts \in Nat \ {0} /\ {Customers, Staff, App} \subseteq BOOLEAN

VARIABLES
  shop,     \* Shopify's order: shipped by its staff, fulfilled by this system
  shopJob,  \* Shopify's own job for an orderCancel it accepted
  kvOrder,  \* KiotViet's order: completed by staff, invoiced by this system
  mapping,  \* order_mappings.status, failed = create_failed
  invoice,  \* the invoice_mappings row: a status hasAppInvoice does not count, claimed, or linked to the invoice
  released, \* history: the link of an invoice that was made failed and gave up its claim
  jobs

svars == <<shop, shopJob, kvOrder, mapping, invoice, released, jobs>>
sides == <<shop, shopJob, kvOrder, mapping>>
records == <<mapping, invoice, released>>

hasAppInvoice == invoice # "none"
Linked == mapping \in {"created", "completed", "cancelled"}  \* kiotviet_order_id is set

NewJob(kind) == [kind |-> kind, pc |-> "waiting", left |-> Attempts, shop |-> "open"]

StatusInit ==
  /\ shop = "open" /\ shopJob = "none" /\ kvOrder = "none" /\ mapping = "none" /\ invoice = "none" /\ released = FALSE
  /\ jobs = <<NewJob("create")>>

At(j, kinds, pc) == jobs[j].kind \in kinds /\ jobs[j].pc = pc
Set(j, pc) == [jobs EXCEPT ![j].pc = pc]
GoesTo(j, pc) == jobs' = Set(j, pc)
Done(j) == GoesTo(j, "done")
Review(j) == GoesTo(j, "review")

BugTried(job) == IF job.left > 1 THEN [job EXCEPT !.pc = "waiting", !.left = job.left - 1] ELSE [job EXCEPT !.pc = "done"]  \* the last error is swallowed
Tried(job) == IF job.left > 1 THEN [job EXCEPT !.pc = "waiting", !.left = job.left - 1] ELSE [job EXCEPT !.pc = "failed"]
Retry(j) == jobs' = [jobs EXCEPT ![j] = Tried(jobs[j])]

DoneAnd(j, pc, kind) == jobs' = Append(Set(j, pc), NewJob(kind))  \* the remote system notifies
RetryAnd(j, kind) == jobs' = Append([jobs EXCEPT ![j] = Tried(jobs[j])], NewJob(kind))  \* it did what was asked but the answer was lost
Notice(kind) == jobs' = Append(jobs, NewJob(kind))
-----------------------------------------------------------------------------
(* syncShopifyOrder, as far as the cancellation sees it                    *)
CreateReads(j) ==
  /\ At(j, {"create"}, "waiting")
  /\ jobs' = [jobs EXCEPT ![j].pc = "claim", ![j].shop = shop]
  /\ UNCHANGED <<sides, invoice, released>>

CreateClaims(j) ==
  /\ At(j, {"create"}, "claim")
  /\ IF jobs[j].shop = "cancelled" THEN Done(j) /\ UNCHANGED mapping
     ELSE GoesTo(j, "prepare") /\ mapping' = "pending_create"
  /\ UNCHANGED <<shop, shopJob, kvOrder, invoice, released>>

CreateFails(j) ==
  /\ At(j, {"create"}, "prepare")
  /\ mapping' = "failed" /\ Retry(j)
  /\ UNCHANGED <<shop, shopJob, kvOrder, invoice, released>>

CreateMarks(j) ==
  /\ At(j, {"create"}, "prepare")
  /\ mapping' = "creating" /\ GoesTo(j, "send")
  /\ UNCHANGED <<shop, shopJob, kvOrder, invoice, released>>

CreateSends(j) ==
  /\ At(j, {"create"}, "send")
  /\ kvOrder' = "open" /\ GoesTo(j, "record")
  /\ UNCHANGED <<shop, shopJob, records>>

CreateRecords(j) ==
  /\ At(j, {"create"}, "record")
  /\ mapping' = "created" /\ Done(j)
  /\ UNCHANGED <<shop, shopJob, kvOrder, invoice, released>>

Create(j) == CreateReads(j) \/ CreateClaims(j) \/ CreateFails(j) \/ CreateMarks(j) \/ CreateSends(j) \/ CreateRecords(j)
-----------------------------------------------------------------------------
(* cancelShopifyOrder: Shopify's cancellation goes to KiotViet             *)
BugCancelReads(j) ==  \* an order that is not mapped is none of its business
  /\ At(j, {"cancel"}, "waiting")
  /\ IF Linked THEN GoesTo(j, IF mapping = "cancelled" THEN "record" ELSE "look")
     ELSE IF mapping \in {"pending_create", "creating"} THEN Retry(j) ELSE Done(j)
  /\ UNCHANGED <<sides, invoice, released>>

CancelReads(j) ==
  /\ At(j, {"cancel"}, "waiting")
  /\ IF Linked THEN GoesTo(j, IF mapping = "cancelled" THEN "record" ELSE "look")
     ELSE IF mapping \in {"pending_create", "creating"} THEN Retry(j) ELSE Review(j)
  /\ UNCHANGED <<sides, invoice, released>>

CancelLooks(j) ==  \* cancelKiotVietOrder reads the order first
  /\ At(j, {"cancel"}, "look")
  /\ GoesTo(j, IF kvOrder = "cancelled" THEN "record" ELSE "delete")
  /\ UNCHANGED <<sides, invoice, released>>

CancelDeletes(j) ==
  /\ At(j, {"cancel"}, "delete")
  /\ \/ kvOrder # "cancelled" /\ kvOrder' = "cancelled" /\ (DoneAnd(j, "record", "kvCancelled") \/ RetryAnd(j, "kvCancelled"))
     \/ kvOrder # "open" /\ Retry(j) /\ UNCHANGED kvOrder  \* KiotViet may refuse
  /\ UNCHANGED <<shop, shopJob, records>>

CancelRecords(j) ==
  /\ At(j, {"cancel"}, "record")
  /\ mapping' = "cancelled" /\ Done(j)
  /\ UNCHANGED <<shop, shopJob, kvOrder, invoice, released>>

Cancel(j) == CancelReads(j) \/ CancelLooks(j) \/ CancelDeletes(j) \/ CancelRecords(j)
-----------------------------------------------------------------------------
(* syncKiotVietOrderStatus: a terminal status of KiotViet goes to Shopify  *)
StatusUnmapped(j) ==
  /\ At(j, {"kvCancelled", "kvCompleted", "kvInvoice"}, "waiting") /\ ~Linked
  /\ Review(j)
  /\ UNCHANGED <<sides, invoice, released>>

CancelledReads(j) ==
  /\ At(j, {"kvCancelled"}, "waiting") /\ Linked
  /\ IF mapping = "cancelled" THEN Done(j) ELSE GoesTo(j, "cancel")
  /\ UNCHANGED <<sides, invoice, released>>

ShopifyLooks(j) ==  \* cancelShopifyOrderById reads the order first
  /\ At(j, {"kvCancelled"}, "cancel")
  /\ GoesTo(j, IF shop = "cancelled" THEN "record" ELSE "send")
  /\ UNCHANGED <<sides, invoice, released>>

ShopifyCancelled(j) ==  \* orderCancel is accepted: its answer is a job, whose end nobody reads, and may be lost
  /\ At(j, {"kvCancelled"}, "send")
  /\ \/ shop = "open" /\ shopJob' = "running" /\ (GoesTo(j, "record") \/ Retry(j))
     \/ (shop # "open" \/ shopJob = "running") /\ Retry(j) /\ UNCHANGED shopJob  \* Shopify refuses
  /\ UNCHANGED <<shop, kvOrder, records>>

ShopifyFinishes ==
  /\ shopJob = "running" /\ shop = "open"
  /\ shop' = "cancelled" /\ shopJob' = "none" /\ Notice("cancel")
  /\ UNCHANGED <<kvOrder, records>>

ShopifyGivesUp ==  \* the job fails, and nothing of this system looks
  /\ shopJob = "running" /\ shopJob' = "failed"
  /\ UNCHANGED <<shop, kvOrder, records, jobs>>

CancelledRecords(j) ==
  /\ At(j, {"kvCancelled"}, "record")
  /\ mapping' = "cancelled" /\ Done(j)
  /\ UNCHANGED <<shop, shopJob, kvOrder, invoice, released>>

BugCompletedReads(j) ==  \* any completion is a shipment
  /\ At(j, {"kvCompleted"}, "waiting") /\ Linked
  /\ IF mapping \in {"cancelled", "completed"} THEN Done(j) ELSE GoesTo(j, "fulfil")
  /\ UNCHANGED <<sides, invoice, released>>

CompletedReads(j) ==
  /\ At(j, {"kvCompleted"}, "waiting") /\ Linked
  /\ IF mapping \in {"cancelled", "completed"} \/ hasAppInvoice THEN Done(j) ELSE GoesTo(j, "fulfil")
  /\ UNCHANGED <<sides, invoice, released>>

InvoiceReads(j) ==  \* syncKiotVietInvoice
  /\ At(j, {"kvInvoice"}, "waiting") /\ Linked
  /\ IF hasAppInvoice THEN Done(j) ELSE GoesTo(j, "fulfil")
  /\ UNCHANGED <<sides, invoice, released>>

FulfilLooks(j) ==  \* fulfillShopifyOrderById
  /\ At(j, {"kvCompleted", "kvInvoice"}, "fulfil")
  /\ CASE shop = "cancelled" -> Retry(j)
       [] shop = "open" -> GoesTo(j, "send")
       [] OTHER -> GoesTo(j, "record")
  /\ UNCHANGED <<sides, invoice, released>>

Fulfil(j) ==
  /\ At(j, {"kvCompleted", "kvInvoice"}, "send")
  /\ IF shop = "open" THEN shop' = "fulfilled" /\ (GoesTo(j, "record") \/ Retry(j))
     ELSE Retry(j) /\ UNCHANGED shop
  /\ UNCHANGED <<shopJob, kvOrder, records>>

BugCompletedRecords(j) ==  \* over a cancellation
  /\ At(j, {"kvCompleted", "kvInvoice"}, "record")
  /\ mapping' = IF jobs[j].kind = "kvCompleted" THEN "completed" ELSE mapping
  /\ Done(j)
  /\ UNCHANGED <<shop, shopJob, kvOrder, invoice, released>>

CompletedRecords(j) ==  \* the invoice's tracking leaves the status alone
  /\ At(j, {"kvCompleted", "kvInvoice"}, "record")
  /\ mapping' = IF jobs[j].kind = "kvCompleted" /\ mapping # "cancelled" THEN "completed" ELSE mapping
  /\ Done(j)
  /\ UNCHANGED <<shop, shopJob, kvOrder, invoice, released>>

SyncStatus(j) ==
  \/ StatusUnmapped(j) \/ CancelledReads(j) \/ ShopifyLooks(j) \/ ShopifyCancelled(j) \/ CancelledRecords(j)
  \/ CompletedReads(j) \/ InvoiceReads(j) \/ FulfilLooks(j) \/ Fulfil(j) \/ CompletedRecords(j)
-----------------------------------------------------------------------------
(* The app's own invoice: claimed, posted, and linked when it is read back *)
InvoiceClaimed ==
  /\ App /\ mapping = "created" /\ kvOrder = "open" /\ invoice = "none"
  /\ invoice' = "claimed"
  /\ UNCHANGED <<sides, released, jobs>>

InvoicePosted ==  \* the row stays claimed: the answer, or what is read back, may be lost
  /\ invoice = "claimed" /\ kvOrder = "open"
  /\ kvOrder' = "invoiced"
  /\ jobs' = jobs \o <<NewJob("kvCompleted"), NewJob("kvInvoice")>>
  /\ UNCHANGED <<shop, shopJob, records>>

InvoiceRefused ==  \* by KiotViet, or before it is asked: nothing was made
  /\ invoice = "claimed" /\ kvOrder # "invoiced"
  /\ invoice' = "none"
  /\ UNCHANGED <<sides, released, jobs>>

InvoiceLinked ==
  /\ invoice = "claimed" /\ kvOrder = "invoiced"
  /\ invoice' = "linked"
  /\ UNCHANGED <<sides, released, jobs>>

LinkFails ==  \* finalizeInvoice throws: the row is failed, as if nothing was made
  /\ invoice = "claimed" /\ kvOrder = "invoiced"
  /\ invoice' = "none" /\ released' = TRUE
  /\ UNCHANGED <<sides, jobs>>

LinkClaimed ==  \* a later recovery finds the invoice and claims the failed row
  /\ invoice = "none" /\ kvOrder = "invoiced"
  /\ invoice' = "claimed"
  /\ UNCHANGED <<sides, released, jobs>>

CustomerCancels ==
  /\ Customers /\ shop = "open" /\ shop' = "cancelled" /\ Notice("cancel")
  /\ UNCHANGED <<shopJob, kvOrder, records>>

CustomerReceives ==
  /\ Customers /\ shop = "open" /\ shop' = "shipped"
  /\ UNCHANGED <<shopJob, kvOrder, records, jobs>>

ShipmentUndone ==  \* the fulfillment is cancelled in Shopify
  /\ Customers /\ shop \in {"shipped", "fulfilled"} /\ shop' = "open"
  /\ UNCHANGED <<shopJob, kvOrder, records, jobs>>

StaffCancels ==
  /\ Staff /\ kvOrder = "open" /\ kvOrder' = "cancelled" /\ Notice("kvCancelled")
  /\ UNCHANGED <<shop, shopJob, records>>

StaffCompletes ==
  /\ Staff /\ kvOrder = "open" /\ kvOrder' = "completed"
  /\ jobs' = jobs \o <<NewJob("kvCompleted"), NewJob("kvInvoice")>>
  /\ UNCHANGED <<shop, shopJob, records>>

Outside ==
  \/ InvoiceClaimed \/ InvoicePosted \/ InvoiceRefused \/ InvoiceLinked \/ LinkFails \/ LinkClaimed
  \/ ShopifyFinishes \/ ShopifyGivesUp
  \/ CustomerCancels \/ CustomerReceives \/ ShipmentUndone \/ StaffCancels \/ StaffCompletes

Job(j) == Create(j) \/ Cancel(j) \/ SyncStatus(j)

StatusNext == Outside \/ \E j \in DOMAIN jobs : Job(j)

StatusSpec == StatusInit /\ [][StatusNext]_svars
-----------------------------------------------------------------------------
(* No side stays cancelled alone unnoticed.  Once every job has ended      *)
(* well, KiotViet's order is cancelled exactly when the mapping is, and a  *)
(* cancelled order of Shopify is recorded; what is recorded is cancelled   *)
(* in Shopify too, except when Shopify accepted orderCancel and has not    *)
(* finished or could not: the code records the acceptance                  *)
(* (order-sync.ts:821-845, 904-942, shopify/orders.ts:7-24).  A failed job *)
(* or a review tells a person.                                             *)
Settled == \A j \in DOMAIN jobs : jobs[j].pc = "done"
NoSilentDisagreement ==
  Settled /\ kvOrder # "none" =>
    /\ kvOrder = "cancelled" <=> mapping = "cancelled"
    /\ shop = "cancelled" => mapping = "cancelled"
    /\ mapping = "cancelled" => shop = "cancelled" \/ shopJob # "none"

(* Shopify is not told that an order shipped because this app invoiced it  *)
(* (invoice-sync.ts:321), as long as the link of that invoice never failed *)
(* after it was made (kiotviet-invoice-recovery.ts:552, 576-584).          *)
InvoiceIsNoShipment == [][shop' = "fulfilled" => shop = "fulfilled" \/ kvOrder # "invoiced" \/ released]_svars
=============================================================================

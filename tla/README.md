# Verification of the Shopify – KiotViet synchronization

The program keeps a Shopify shop and a KiotViet retail system in step: products,
stock, customers, orders, invoices and refunds. Its core logic is what happens
*between* its HTTP calls: rows of PostgreSQL decide which of several queue jobs may
cause an effect at a remote system that offers no reliable idempotency, and no
database transaction is open while a request is on its way. This directory models
that logic in TLA+, checks it with TLC and proves with TLAPS all safety properties of its
passing runs but one, for any number of participants and, in the invoices, for any lines and sums.

Paths below are relative to `src/` of the repository.

## 1. Inventory

| Component | State it keeps | Operations | What is hard | What makes it correct |
| --- | --- | --- | --- | --- |
| Order creation `lib/sync/order-sync.ts` | `order_mappings` row: `status`, `kiotviet_order_id`, `claim_token`, `claimed_at`, `sync_status` | `runShopifyOrderSync`: claim, verify, prepare, mark, POST, record | awaits between claim, mark, POST and record; lost answers; leases; crashes | at most one KiotViet order, no request forgotten, permanent links |
| Order recovery `lib/recovery/shopify-order-recovery.ts` | same row (optimistic, by `updated_at`) | plan, apply link, apply reset | acts on a plan made before HTTP calls and a person's answer | never undoes or replaces a link, never resets a moving row |
| Return refund `lib/sync/return-sync.ts` | `refund_mappings` row, attempt number, BullMQ job ids | `syncKiotVietReturn`, `processClaimedReturn`, `reconcileKiotVietReturns` | money moves; late answers; kept job ids; verify window | at most one refund, never hidden, settled for good |
| Order status and cancellation `lib/sync/order-sync.ts` | linked `order_mappings` row | `cancelShopifyOrder`, `syncKiotVietOrderStatus` | races with creation, settled states must not be reopened | a cancelled order ends cancelled or in front of a person |
| KiotViet invoices `lib/sync/invoice-sync.ts`, `lib/recovery/kiotviet-invoice-recovery.ts` | `invoice_mappings` row (`pending`, `creating`, `blocked`, `failed`, `needs_review`, linked) | claim with the order, send with the order or on its own, verify, finalize, operator override | two writers (order job, invoice job), lookup that cannot prove absence | at most one invoice, `needs_review` is never overwritten |
| Fulfillment-triggered invoices `lib/sync/fulfillment-invoice.ts` | one permanent `sync_jobs` outbox row per order, `invoice_check_at` | admit, enqueue, minute reconciliation | lost Redis hand-over, webhook missed or early | an eligible order gets one invoice job in the end |
| Invoice index `lib/kiotviet/invoice-index.ts` | index rows; generation, `scanned_count`, lease | page reads, guarded checkpoint, rebuild, lookup | remote list changes while it is paged; lookups write without the lease | "no invoice" is only said of a covered range |
| Inventory sync `lib/sync/inventory-sync.ts` | `inventory_mappings`, session lock, held conflicts | refresh, deduction guard, compare-and-set, read-back | customers buy while it runs; notifications out of order | stock that was sold is not restored |
| Inventory reconciliation `lib/sync/reconciliation.ts`, `repositories/inventory-reconciliation.ts` | chain id and page in `sync_jobs` | admit, page, continue | retry of a page that already handed over | one open chain, no page twice |
| Job queue `lib/queue/*.ts`, `src/worker.ts`, `src/scheduler.ts` | BullMQ jobs, `sync_jobs` audit rows | enqueue, take, retry, fail, schedule | two stores (Redis, PostgreSQL); ids that are kept | accepted work runs or is visible |
| Webhook ingress `app/api/**`, `repositories/webhooks.ts` | `webhook_events` with UNIQUE webhook id | verify, store, enqueue | redelivery between store and enqueue | stored events are queued |
| Settings gate `lib/settings`, `lib/sync/sync-settings.ts` | `system_settings` | read at enqueue and at run | changes while jobs wait | a disabled direction writes nothing |
| Product, category, media sync | product mappings, batch progress | upserts | long batches, partial failure | idempotent upserts |
| Mappings, customers, sellers, branches | mapping tables, caches | lookup or create | duplicate creation of a customer | UNIQUE rows |
| Line items, payments, invoicing rules | none (pure) | amounts, adjustments | rounding, partial refunds | sums agree |
| Remote clients, tokens | cached tokens | HTTP with retries | which calls may be repeated | a non-idempotent call is not |
| Conflicts, notifications, logs; admin console; scripts, migrations | reports, sessions, schema | | | |

Interaction: webhooks, the scheduler and the admin console put jobs into BullMQ;
`lib/queue/worker.ts` dispatches them to the sync modules, which share nothing but
rows of PostgreSQL and the two remote systems. A job may run at the same time as
another job of the same entity (create and update webhooks, a retry, a redelivered
job of a dead worker, a recovery job). Every protocol therefore has the same shape:
short transaction (claim) – reads – conditional UPDATE (mark) – one HTTP request –
conditional UPDATE (record).

`PROJECT.json` lists each component with its sources and status, and under
`hazards` each place in the code that a test would hardly reach.

## 2. Modules

| Module | Content | Composed in |
| --- | --- | --- |
| `AtMostOnce` | Abstract promise of every protocol with an outside effect: a request leaves only when all earlier ones are known to have had no effect or were waived; one existing result is linked, once | `OrderCreate`, `ReturnRefund`, `InvoiceCreate` refine it |
| `OrderCreate` | Creation and recovery of the KiotViet order of one Shopify order | `MCOrderCreate`, `OrderProofs` |
| `OrderStatus` | Cancellation and completion of one order in both systems | `MCOrderStatus`, `OrderProofs` |
| `ReturnRefund` | Refund of one KiotViet return, its jobs and its scheduler | `MCReturnRefund`, `ReturnRefundProofs` |
| `InvoiceCreate` | `invoice_mappings`: at most one invoice of an order | `MCInvoiceCreate`, `InvoiceCreateProofs` |
| `InvoiceAmounts` | What that invoice bills, and when it is refused or reviewed | `MCOrderStatus`, `OrderProofs` |
| `InvoiceIndex` | The local index of KiotViet invoices and the proof of absence | `MCInvoiceIndex`, `InvoiceIndexProofs` |
| `InvoiceOutbox` | How an order gets its automatic invoice job | `MCInvoiceOutbox`, `InvoiceOutboxProofs` |
| `InventorySync` | Pushing the stock of a product to Shopify | `MCInventorySync`, `ProductProofs` |
| `Reconcile` | Chains of inventory reconciliation pages | `MCReconcile`, `ReconcileProofs` |
| `JobQueue` | Webhook event, audit row and queue job | `MCJobQueue`, `JobQueueProofs` |
| `ProductSync` | Products, variant families, mappings and hashes | `MCProductSync`, `ProductProofs` |
| `ProductMedia` | Images of one Shopify product | `MCProductSync`, `ProductProofs` |

Definitions named `Bug…` are wrong on purpose: each is a plausible mistake in the
definition below it, and shows that a property can fail when the code is changed.

**Environments.** What happens around a protocol (how many workers, who intervenes, what
fails and how often) would multiply if it were left open all at once. The modules
`Inv…`, `JobQueue` and `Reconcile` therefore have a variable `env`, chosen in `Init` from
the constant `Environments` and never changed (`ProductSync`: `scene` and `Scenarios`,
`ProductMedia`: `bounds` and `MediaBounds`); each MC module defines its set of records, one
per question worth asking. `MCOrderCreate` and
`MCReturnRefund` do the same from outside (`Allowed'`), so that the modules with proofs
stay as they are. `MCOrderStatus` and `MCProductSync` put two independent
specifications side by side: a behaviour is one of the first or one of the second.

### OrderCreate

One instance is one Shopify order. `status, kvId, claimToken, syncStatus` are columns
of `order_mappings`; `expired` abstracts `claimed_at` (older than the 15-minute lease
of `pending_create`, or than the 5-minute window of `creating`). `kv` is what KiotViet
knows: a request is `sent`, then `refused`, `lost`, or lands `hidden` (the search does
not list it yet) and later `listed`. `pc, ref, openRead` are the local state of each
attempt, `opc, oref, fresh` that of each recovery run; `fresh` abstracts the comparison
of `updated_at` and is cleared by every write.

| Code | Actions |
| --- | --- |
| fresh Shopify read, `order-sync.ts:520` | `Begin` |
| claim transaction (advisory lock, SELECT, decision) | `ClaimSeesLink`, `ClaimSeesCreating`, `ClaimStops`, `ClaimInvalid`, `ClaimDecides` |
| its INSERT or UPDATE | `ClaimWrites`, `ClaimInsertFails` |
| `recordUnclaimedFailure` | `RecordInvalid` |
| `updateMappedOrder` | `UpdateMapped` |
| `createMappedOrder`: prepare, mark, POST, answer, record | `PrepareFails`, `MarkCreating`, `ClaimLost`, `Send`, `ReplyCreated`, `ReplyRejected`, `ReplyUncertain`, `RecordMapping` |
| `verifyUncertainOrder` | `VerifyFinds`, `VerifyMisses`, `LinkFound`, `MissRetried`, `MissReviewed` |
| `planOrderRecovery`, `applyOrderRecovery` | `PlanReads` … `PlanStops`, `ApplyLink`, `ApplyReset` |

The claim transaction is two steps because that is what it is to a writer that does
not take its advisory lock: `mark_creating` can commit between its SELECT and its
UPDATE. Abstracted: mapping, customer, product and stock lookups succeed or fail;
a write whose failure the code ignores (`.catch(() => undefined)`) and a read that fails
without a write are a `Crash`; a `setState` failing in the rejected path ends like
`ReplyUncertain`; the client's own re-send after 401 or 429 is part of the one `sent`,
since those answers say that nothing was done; a token request that fails after the row
was marked is `sent` then `lost`. The recovery script's "active job" test is
`\A p : pc[p] = "idle"`.

### ReturnRefund

One instance is one return. `status, claimToken, attempts, refundId` are columns of
`refund_mappings`, `leaseOver` abstracts `claimed_at`, `sentAt` (by which claim) and
`sentLate` abstract `sent_at`.
Claim *n* is the one with `attempt_count` *n*; its token and its request carry the same
number. `jobs, tries, since, job` are BullMQ's: job 0 is `kiotviet-return-<id>`, job *n* is
`kiotviet-return-<id>-a<n>`, and a job id that is known, finished or not, cannot be
added again. `request` is what became of each `refundCreate`.

| Code | Actions |
| --- | --- |
| BullMQ | `Take`, `End`, `Retry`, `Crash` (redelivery) |
| reads and claim transaction of `syncKiotVietReturn` | `ReadsFail`, `ClaimSettled`, `ClaimBusy`, `Claim` |
| `processClaimedReturn`: existing refunds | `CheckFindsOne`, `CheckNeedsPerson`, `CheckFindsNone`, `Link`, `Review`, `UnseenEarly`, `UnseenLate` |
| validation | `ValidatePasses`, `ValidateReviews`, `ValidateRejects` |
| mark, `refundCreate`, record | `Mark`, `MarkLost`, `Send`, `ReplyMade`, `ReplyRejected`, `ReplyUncertain`, `Record` |
| `setState`, catch block | `SetState`, `LetGo`, `Release`, `StepFails`, `RecordFails` |
| `reconcileKiotVietReturns` | `QueueNew`, `QueueStuck` |

Shopify's `@idempotent` key is *not* relied on: the properties hold without it. Not in
the model: the listing window and its cursor, several returns of one order (other
refunds only show as "needs a person"), the operator's SQL in `docs/refund-sync.md`.

### OrderStatus

Each job is a record with its kind, place and attempts left; `shop`, `kvOrder`, `mapping` are the
order in Shopify, in KiotViet and in `order_mappings`. `orderCancel` is answered with a job
that Shopify runs later (`shopJob`): the code records the acceptance and reads neither `done`
nor the job's end. `invoice` is the `invoice_mappings` row, as `hasAppInvoice` reads it;
`released` remembers that the link of a made invoice failed.

| Code | Actions |
| --- | --- |
| `syncShopifyOrder`, as far as it concerns the rest | `CreateReads` … `CreateRecords` |
| `cancelShopifyOrder`, `cancelKiotVietOrder` | `CancelReads`, `CancelLooks`, `CancelDeletes`, `CancelRecords` |
| `syncKiotVietOrderStatus` cancelled, `cancelShopifyOrderById` | `CancelledReads`, `ShopifyLooks`, `ShopifyCancelled` (accepted, refused, or its answer lost), `CancelledRecords` |
| Shopify's own job | `ShopifyFinishes`, `ShopifyGivesUp` |
| the same completed, `syncKiotVietInvoice`, `fulfillShopifyOrderById` | `CompletedReads`, `InvoiceReads`, `FulfilLooks`, `Fulfil`, `CompletedRecords` |
| worker: retry, review | `Retry`, `RetryAnd`, `Review` |
| the app's invoice: claim, POST, refusal, link, failed link, next recovery | `InvoiceClaimed`, `InvoicePosted`, `InvoiceRefused`, `InvoiceLinked`, `LinkFails`, `LinkClaimed` |
| customers, staff | `CustomerCancels`, `CustomerReceives`, `ShipmentUndone`, `StaffCancels`, `StaffCompletes` |

### InvoiceCreate

`status, invoice, token, old` are columns of the `invoice_mappings` row; `current` is the set
of runs whose planned `updated_at` is still the row's (every write empties it, as `fresh` in
`OrderCreate`). A token names the request sent under it and the invoice that request
makes; `request` is what became of it. `closed` are the fulfillment jobs that ended in
`manual_review`: neither the queue nor the rescan repeats them for the same trigger state
(`fulfillment-invoice.ts:119-131, 156-162, 170`).

| Code | Actions |
| --- | --- |
| `planInvoiceRecovery` | `PlanReads`, `PlanLinks`, `PlanCreates`, `PlanResets`, `PlanRetries` (the job fails and is repeated), `PlanReviews` (with `recordBlocked`; the job ends before a person) |
| the rescan's admission | a run not in `closed` may begin; `Reopened` |
| `applyInvoiceRecovery`: claim, checks, mark, POST, answer | `ApplyReset`, `Claim`, `ClaimRefused`, `CheckLinks`, `CheckBlocks`, `CheckFails`, `CheckPasses`, `Mark`, `Send`, `AnswerCreated`, `AnswerRejected`, `AnswerUncertain` |
| `settleUncertainInvoice`, `finalizeInvoice` | `SettleReviews`, `SettleLinks`, `SettleGivesUp`, `Finalize`, `FinalizeFails` |
| `verifyOrderInvoice` | `VerifyReads`, `VerifyFinds`, `VerifyReviews`, `VerifyRetries`, `VerifyFinalizes` |
| the order job with `makeInvoice` | `OrderClaims`, `OrderBlocksInvoice`, `OrderPrepareFails`, `OrderMarks`, `OrderSends`, `OrderAnswered`, `OrderCreated`, `OrderRejected`, `OrderUncertain`, `OrderFound`, `OrderReset` |
| staff, KiotViet, crashes, time | `StaffInvoice`, `StaffCancels`, `KiotViet`, `Crash`, `OrderCrash`, `ClaimAges` |

### InvoiceAmounts

One order with its lines, refunds, edits and shipments in whole cents. The pure functions
of `product-only-invoicing.ts`, `invoice-financials.ts` and `invoice-override.ts` are
operators over it, used by the steps that call them: `CreateOrder`, `BeginRun`, `DecideAuto`
(plan), `Preview`, `Submit` (override), `ReadStock`, `RecheckShopify`, `RecheckOrder`, `SendInvoice`,
`Verify`. Shopify's order (`Ship`, `MoneyBack`, `RefundUnits`, `Edit`, `CancelSale`), the
KiotViet order and invoice (`StaffOrder`, `StaffBill`) and the stock (`StockMoves`) change in
between.

### InvoiceIndex

An invoice is its id; the clock is the number of invoices issued. `st` is
`kiotviet_invoice_index_state` (generation, scanned count, last id, remote total, confirmed
as of), `indexed` the table, `lease` its owner. KiotViet's list is a set of ids; the position
of an invoice in it is the number of invoices listed before it (`Older`, `Newer`), a page is
the invoices at `PageSize` consecutive positions (`Ascending`, `Descending`).

| Code | Actions |
| --- | --- |
| `withInvoiceIndexLease` | `Acquire`, `LeaseExpires`, `Release` |
| `advanceInvoiceIndex` | `TakeClock`, `ReadPage`, `Save`, `NoProgress`, `Mismatch`, `GiveUp` |
| `repositionIndex`, `resetIndex` | `Probe`, `Reposition`, `ResetIndex` |
| `ensureIndexFresh`, `startRefresh` | `Reuse`, `Join`, `Queue`, `Fetch`, `StartRefresh`, `Deliver` |
| `findKiotVietInvoicesForOrder` | `Snapshot`, `Judge`, `Scan`, `Reread`, `Fails` |
| KiotViet | `Issue`, `Delete` |

### InvoiceOutbox

`row` are the `sync_jobs` rows of one order (status, attempts, trigger state, whether the
queue job was recorded), `job` is the queue job of each row.

| Code | Actions |
| --- | --- |
| `requestFulfillmentInvoice` from events, rescan, index job | `Notify`, `Rescan`, `Readmit`, `ReadSettings`, `ReadLive`, `RequestBlocked`, `ParkForGood`, `Admit`, `Park` |
| `dispatchInvoiceOutbox` | `Dispatch`, `List`, `Add`, `MarkQueued` |
| `processFulfillmentInvoice` in its worker | `Take`, `Start`, `StartRefused`, `ReadTrigger`, `RunBlocked`, `IndexUsable`, `Defer`, `IndexMissing`, `PlanNone` … `PlanCreates`, `Apply`, `ApplyUnknown`, `Stock`, `Report`, `Finish` |
| `app/api/admin/jobs/[id]` | `RetryReads`, `RetryClaims`, `RetryQueues`, `RetryFails`, `CancelRow`, `ResolveRow` |
| order, settings, index, time, faults | `OrderChanges`, `SettingsChange`, `IndexFails`, `IndexRecovers`, `CheckDue`, `Die`, `Wipe` |

### InventorySync

One SKU at the one active Shopify location; `kiot` is the on-hand of each branch with its
version, `verified` the newest snapshot that counts, `open` the conflicts, `run` the local
state of each run, `late` the sets whose caller gave up and that Shopify may still execute.
`crossed` is history: a branch became enabled when a run of another one was past reading
its mapping.

| Code | Actions |
| --- | --- |
| `withInventoryLock` | `TakeLock`, `Refused`, `Leave` |
| `syncInventoryNotificationLocked` | `ReadStock`, `ReadMapping`, `AutoMap`, `InsertMapping`, `InsertConflicts`, `ReadExisting`, `ReadLevel`, `Activate`, `Compare`, `Flag`, `File`, `Write`, `WriteStale`, `ReadBack`, `Snapshot`, `Close` |
| administrators | `PutBranch` (`PUT /api/admin/branches`: enables or disables any branch, without a check), `Resolve`, `Ignore` |
| customers, KiotViet | `Buy`, `Reflect`, `Change` |
| a failed request or a dead process; the lock's connection lost while `work()` goes on; a set executed late | `Abort`, `LoseSession`, `Land` |

### JobQueue and Reconcile

`JobQueue`: `Deliver`, `Replay`, `RetryRow` (who asks), `CreateRow`, `AddJob`, `Attach`, `Replaced`
(`enqueueJob`), `Take`, `Start`, `Gate`, `Ignore`, `RunJob`, `MarkProcessed`, `Report`,
`MarkFailed`, `Finish` (`src/worker.ts` and `processSyncJob`), `CancelRow`, `ResolveRow`, `Toggle`
(administrators), `LoseCaller`, `Stall` (faults).

`Reconcile`: `Admission` with `OpenTo` and `HandedOff` (`admitInventoryReconciliation`), `AddNew`,
`AddKnown`, `AddFails`, `AddAnswerLost`, `Attach` (publication), `Tick`, `StartChain`,
`RetryReads`, `RetryAdmits`, `RetryCancels` (who asks), `FindRow`, `CreateRow`, `OwnRow`, `Start`,
`Admit`, `Scan`, `ReadFails`, `NextPage`, `Report`, `Finish`, `Crash`.

### ProductSync and ProductMedia

A product's content is one version number; a Shopify product is a record of its SKUs and
of the versions its product and each variant show. Every write to Shopify or PostgreSQL
is a step and may fail; the reads in front of them are one step.

| Code | Actions |
| --- | --- |
| job of a product: reads, skip, plan | `Take`, `FetchFails`, `Fetch`, `PlanRefused`, `PlanSkips`, `PlanWrites` |
| `lib/shopify/products.ts` | `Create`, `SetNew`, `CreateAgain` (a creation is executed, its answer lost, and the client sends it again), `SetGroup`, `Collapse`, `WriteProduct`, `WriteVariant`, `Media`, `Retire`, `CallRefused` |
| identity first, hash last | `Checkpoint`, `Checkpointed`, `Cleaned`, `CheckpointRefused`, `Mark`, `Save`, `SaveRefused`, `Stock` |
| `syncDeletedKiotVietProducts` | `ReferenceDone`, `ReferenceUnknown`, `ReferenceUnclear`, `Reference`, `Drop`, `Forget` |
| `ensureProductMapping`, backfill | `MapperReads`, `EnsureReads`, `MapperWrites` |
| `syncShopifyProductMedia` | `Start`, `ReadSame`, `ReadPending`, `ReadOther`, `DeleteAll`, `DeleteFails`, `AppendOne`, `SaveIds`, `VerifyReady`, `VerifyFails`, `Fill`, `Return`, `Interrupt` |
| KiotViet, Shopify, staff | `Edit`, `Withdraw`, `Offer`, `Delete`; `ChangeImages`, `Process`, `StaffEdit` |

A job may fail or lose its worker at every step. What such an interruption leaves is noted
in fields no step reads: `lost` (a listing nothing leads to), `half` (a listing written
without a row, or with the marker of other content), `stale` (a row that still holds the
hash of what was there before). They are written again by whatever writes the listing or
the row next, and name the exceptions of `NoOrphan` and `QuietAgrees` (section 5).

## 3. Properties and runs

| Run | Distinct states | Shows |
| --- | --- | --- |
| `order_create_all` | 318,091 | `ClaimInv` (no request repeated blindly, none forgotten, links real, and what the code relies on between two awaits), `ImplementsAtMostOnce`, `UncertainIsResolved`; no attempt outlives its claim |
| `order_create_stall` | violation | finding 1 |
| `order_status_all` | 805,695 | statuses: `NoSilentDisagreement`, `InvoiceIsNoShipment`; amounts: `RightUnits`, `CollectedCoversIt`, `OverrideIsSeen`, `CreatedIsTrue`, `PlainIsInvoiced` |
| `return_refund_safety` | 1,148,886 | `RefundInv` (at most one refund, none hidden, all real), `SettledStays`, `ImplementsAtMostOnce`, for two runs that may stall, crash and get late answers |
| `return_refund_fair` | 726,460 | `NoMoneyAfterReview`; `UnknownIsResolved` while no worker dies, `UnknownIsPursued` when one does |
| `invoice_create_all` | 312,714 | `InvoiceInv`, `ImplementsAtMostOnce`, `MadeIsFound` |
| `invoice_index_all` | 390,575 | `IndexIsTrue`, `AbsenceIsProof`, `CatchesUp` |
| `invoice_outbox_all` | 586,228 | `RunsAreSingle`, `OutcomeIsKept`, `OrderIsServed` |
| `inventory_sync_all` | 764,473 | `HeldIsNotRaised`, `StockGoesForward`, `NoSharedWrite`, `Converges` |
| `job_queue_all` | 357,658 | `RecordsAgree`, `DisabledIsObeyed`, `StoredIsSettled` |
| `reconcile_all` | 338,015 | `OneChain`, `PageOnce`, `ChainsFinish` |
| `product_sync_all` | 1,083,577 | products: `OwnerKept`, `NoOrphan`, `QuietAgrees`; images: `SourcesAreTrue`, `SuccessIsShown` |

Several properties are conjunctions of named parts: `ClaimInv`, `RefundInv` and `InvoiceInv`
contain the type invariant and the safety properties of their protocol, each a theorem of
its own for the first two; `IndexIsTrue`, `AbsenceIsProof`, `RunsAreSingle`,
`OrderIsServed`, `RecordsAgree` and `ChainsFinish` are pairs or triples of related promises.
Properties whose premise names the environment (`env.admins = {}`, `deleted = 0`, …) say for
which circumstances the code keeps them; what happens in the others is in section 5.

**Bounds.** Two attempts, runs or workers are enough for every race the code guards
against, which are all between a holder and one other job; where there are proofs, they
remove the bound. The environments are:

- `OrderCreate`: two attempts with a lost one; two and a recovery run; one, a recovery run,
  staff and a lost attempt. Two tokens allow a second request after the first.
- `ReturnRefund`: two runs, three claims, two tries of a job, one fault and one crash in the
  safety run; the fair run has two workers with up to 12 claims, one worker that dies, or
  both with three claims. `AttemptCap` (10 in the code) and `MaxTries` (`JOB_MAX_ATTEMPTS`) are
  reduced so that both are reached; `LongTries` is the number of failures after which
  `retryDelay` is longer than the 10-minute verify window, 3 in the code.
- `OrderStatus`: one order, two attempts per job, customers, staff, the app, and one
  `orderCancel` job of Shopify that may fail.
  `InvoiceAmounts`: seven orders (`MCCases`) of one or two products and a fee line, with
  discounts that split or do not, up to two refunds of several types, edits in both modes,
  shipments, added tax, both invoicing modes and both triggers.
- `InvoiceCreate`: an order created together with its invoice, staff and a lost answer; a run
  beside an operator and staff, for an order already there and one not created yet; two
  runs that may outlive their claim. Two requests, up to three tokens. Where `MadeIsFound` is
  asked, one process dies at most: what a second death does to the job is in `InvoiceOutbox`.
- `InvoiceIndex`: pages of two, up to five invoices; two maintenance runs with a deletion
  and a reset; two lookups beside one; a newest-first scan of two pages.
- `InvoiceOutbox`: two attempts per row, two or three versions of the order; one outage, one
  lost queue, processes that die once, and twice (the queue hands a job out again after the
  first death and fails it after the second), an administrator who retries or cancels.
- `InventorySync`: stock up to 3, two sales, two branches, both strategies, one abort, two
  edits of mappings, one lost session or late set.
- `JobQueue`: one event, two jobs, two attempts, one lost handler, up to three deaths of
  workers (two are what one job can take), one settings change. `Reconcile`: two pages, two
  chains, one fault of each kind; administrators who also retry a row whose job is still to
  run (`hasty`), and ones who wait for its end.
- `ProductSync`: families of two and three, two products of one SKU, content and sale that
  come back, up to three changes, one fault or crash at any step, one creation sent again.
  `ProductMedia`: two images, one change, one fault or edit.

**Fairness.** Weak fairness of each attempt that does not die (BullMQ re-runs failed and
orphaned jobs, an HTTP call ends after its time limit), of schedulers and of time. Nothing
is assumed of Shopify, staff or operators, nor of KiotViet, except that in `InvoiceCreate`
a request is answered or lost in the end and a read that is repeated for ever succeeds at
some time, and that in `InventorySync` the invoices of sales are made, late sets are
executed or dropped and administrators answer held conflicts. Strong fairness stands where something
is available again and again without staying so, because the code comes back to it for
ever: a session lock that others take too (`InventorySync`), and the minute calls of
dispatch, rescan and index job (`InvoiceOutbox`). `InvoiceCreate` assumes less of repetition:
a fulfillment job that failed is begun again (its retries, then the rescan, which waits
longer each time, a day at most), one that ended in review is not, an order without a
trigger has no rescan, and `MadeIsFound` counts a job before a person as an end; strong
fairness is left only for the lookup that finds the invoice and for its read-back.
`OrderCreate`'s `Begin` is fair: jobs of the order are assumed to keep coming. An order whose
answer was lost in the last try of its last job stays `creating` and flagged `uncertain`
until the next webhook or the recovery script; `order_create_all` says nothing of it. `ReturnRefund` assumes no such thing: its jobs,
their tries and the scheduler's cap are modelled, and `UnknownIsPursued` says what a dying
worker can cost.

**Deadlock.** `OrderCreate` and `InventorySync` are checked for deadlock. Elsewhere everything
may have been done (a settled return with all its jobs finished, bounds used up), so the
configurations disable the check.

## 4. Findings

1. `order_create_stall` – *two create requests for one order.* The claim UPDATE
   (`order-sync.ts:569`) names only the order. When an attempt still prepares after its
   15-minute lease, its `mark_creating` (which takes no advisory lock) can commit between
   the SELECT and the UPDATE of the attempt that takes over; the UPDATE turns `creating`
   back into `pending_create`, and both attempts send. The comment at `order-sync.ts:74`
   says a `creating` row is never re-sent blindly. Stalling is not exotic: the prepare
   phase makes several KiotViet and Shopify calls with retries and one POST per new
   customer. Repeating `status` and `claimed_at` in the UPDATE's WHERE, or `FOR UPDATE`
   in the SELECT, closes it.

## 5. Known divergences

Places where the code does less than a comment or document says, or than one would wish.
They were met while modelling; unless a module says otherwise it contains the code's
behaviour, and the properties are stated for the circumstances in which it keeps its
promise.

Orders and returns:

- An order cancelled between the fresh read and the POST is still created
  (`order-sync.ts:520, 778`; `docs/order-inventory-sync.md:57` says such orders are not). The
  cancellation job repairs it: `NoSilentDisagreement`.
- `orderCancel` is answered with a job (`shopify/orders.ts:11-23`); the code records the
  cancellation when it is accepted and never reads the job's end (`order-sync.ts:932-933`).
  When Shopify does not finish it, KiotViet and the mapping say cancelled and Shopify does
  not, and no job, row or person is told. `NoSilentDisagreement` excepts exactly that.
- The first job of a return has no attempt number in its id and finished jobs are kept, so
  a return whose first job used up its tries before a claim is never run again
  (`return-sync.ts:315`; the comment at 299-300 says a finished job never blocks the next
  attempt).

Invoices:

- *The app's own invoice may be read as a shipment.* The answer to the invoice POST is lost, a
  recovery finds the invoice, claims the `creating` row as `pending`
  (`kiotviet-invoice-recovery.ts:541-559`) and `finalizeInvoice` throws, for instance because
  its GET fails; `release("failed", …)` (580) leaves a row that `hasAppInvoice` does not count
  (`invoice-sync.ts:322-327`). The webhook of the order the invoice completed then fulfils the
  Shopify order, which the comment at `invoice-sync.ts:321`, `docs/order-inventory-sync.md:111`
  and `docs/fulfillment-invoices.md:30` rule out. `OrderStatus` contains it (`LinkFails`);
  `InvoiceIsNoShipment` is stated for links that never failed (`released`). Releasing a claim
  that was taken to link to `creating`, its former state, closes it. What follows for the
  invoice is in `InvoiceCreate` (`FinalizeFails`): the lookup finds it.
- A worker that dies twice in one job leaves the outbox row `processing`: BullMQ hands a job
  out again once (`maxStalledCount` is 1) and fails it the second time, `src/worker.ts:13-60` has
  no listener for that, and both admission (`fulfillment-invoice.ts:123-125`) and rescan
  (160-161) leave a `processing` row alone. The order waits for an administrator.
  `ReadyIsServed` and `DeferralEnds` except such a row (`Abandoned`).
- A fulfillment job that meets an attempt of unknown outcome ends in `manual_review`, also
  when KiotViet lists the invoice a moment later: the rescan does not begin it again for the
  same trigger state (`fulfillment-invoice.ts:156-162`). `MadeIsFound` counts that as an end.
- One deletion and one new invoice between two requests leave the count as it was, so a
  lookup may claim completeness it does not have (`invoices.ts:139`, comment 95-97).
- The second job of a deferred state that uses up its attempts is not admitted again
  (`fulfillment-invoice.ts:126`); an administrator's retry of a row whose job still has
  attempts can leave it failed (`jobs/[id]/route.ts:67-71`); a queued job that Redis lost is
  never queued again (`fulfillment-invoice.ts:138-139`).
- When Redis loses its jobs while a caller of `dispatchInvoiceOutbox` stands between its
  SELECT and its `add` (`fulfillment-invoice.ts:134-138`), the caller adds the job of a row
  again whose first job another caller had added and a worker already runs: two runs of one
  order, or a state evaluated twice. `OneRun` and `NotRepeated` are stated for a Redis that
  keeps its jobs.
- Strict mode does not look at `current_quantity` (`invoice-financials.ts:64-70`): units that an
  edit removed, when no refund names them, are invoiced. `RightUnits` and `CreatedIsTrue` are
  stated for product-only mode and for lines without removed units.
- A total that equals the expected one passes whatever the surcharge
  (`invoice-sync.ts:190-193`; the comment at 185-186 says the surcharge must match the
  expected shipping exactly). A surcharge that staff add to an order that had none, after the
  last read, is then not noticed where KiotViet reports the total without it;
  `CreatedIsTrue` leaves it out.
- An order whose kept units cost nothing always goes to review in product-only mode
  (`kiotviet_payment_missing`, `product-only-invoicing.ts:254`); `PlainIsInvoiced` leaves it out.
- An override whose discount and other
  charges cancel out may be called created; the preview's fingerprint stands on `updatedAt`
  and total of Shopify's order.

Stock and jobs:

- `PUT /api/admin/branches` enables any branch at any time without a check
  (`branches/route.ts:35-45`). Two branches may also map themselves onto one location at once:
  `INSERT … WHERE NOT EXISTS` (`inventory-sync.ts:145-152`) keeps out only rows that are
  committed, the session lock is per branch and product, and the table has no constraint on
  the location (`001_initial.sql:21-26`), so the first stock events of two branches both insert
  an enabled row, against the comment at 149, and both go on to write. A run
  reads `shared_branches` once (`inventory-sync.ts:117-127`), so a branch enabled after that is
  written beside it until the run ends; later runs hold the location as shared.
  `NoSharedWrite` and `HeldIsNotRaised` except these runs (`crossed`); `Converges` is stated for
  behaviours in which one branch has the location in the end.
- When the connection of the session lock is lost, PostgreSQL frees the lock and `work()`
  goes on (`inventory-lock.ts:5-13`); a set that timed out may be executed after the unlock.
  Its `changeFromQuantity` limits the harm, but a run may then overwrite a newer stock that
  happens to equal what it compared with: `StockGoesForward` and `HeldIsNotRaised` are stated
  until one of the two happens, `Converges` also beyond it.
- One active location and a constant safety stock are modelled.
- A customer who buys between the write and its read-back makes the run fail without a new
  baseline: the last verified quantity stays the baseline, and where there is none, or it
  does not exceed what is left, the next run restores what was sold
  (`inventory-sync.ts:246-256`, `sync-settings.ts:13-14`).
- A handler that dies between storing the event and queueing its job loses it: the
  redelivery is answered as a duplicate (`shopify/webhooks.ts:79`, `kiotviet/webhooks.ts:78`).
  A job whose worker dies twice is failed by the queue with no listener
  (`src/worker.ts:13-60`), and its event stays `received`. `StoredIsSettled` says that these
  two, and nothing else, leave an event unsettled (`NeverQueued`, `DiedTwice`).
- Rows of scheduler jobs are created outside the admission lock (`src/worker.ts:24`), and a
  process that dies between admission and add leaves an active row that keeps later chains
  out (`queues.ts:39`).
- "Audit rows cover the entire chain" (`repositories/inventory-reconciliation.ts:9`) is not
  so when an administrator retries a `pending` or `failed` row whose job is still to run:
  the route queues a second job and sets the old row to `cancelled` without removing the old
  job (`jobs/[id]/route.ts:76-86`; `row-actions.tsx` offers Retry for both). The old job then
  runs without an active row, and two chains may scan at a time. `OneChain` is stated for
  administrators who do not, and for runs without scheduler jobs, dead processes and lost
  answers of the queue, which leave jobs without a row as well; `PageOnce` only excludes
  the lost answers.

Products and images:

- Two jobs of one new product may create two Shopify products; of two overlapping writers
  the slower one may leave content that is not that of the hash; a run that overlaps a
  deletion may revive the product.
- A creation whose answer is lost is sent again: `productCreate` is called without
  `nonIdempotent` (`products.ts:94-102`), so `shopifyGraphql` repeats it after a timeout, a
  network failure or a 5xx (`graphql.ts:20-26, 38-41`). A first request that was executed
  leaves a product without SKU and mapping, which the comment at `products.ts:117` calls
  unfindable. A creating `productSet` (`products.ts:291-304`) is repeated in the same way: the
  second product has the SKUs, so later jobs find two and end before a person. A worker that
  dies between `productCreate` and its checkpoint, or a clean-up that Shopify refuses
  (`products.ts:54-68`), leaves the same nameless product. `NoOrphan` excepts these (`lost`).
- An interruption between a write to Shopify and the row or marker that follows it is
  repaired by the retry, unless KiotViet has meanwhile returned to what it was: then the
  retry is skipped by the old hash (`kiotviet-product-sync.ts:119`; also when a family member
  is offered again before the row of its withdrawal was archived), or the old marker lets
  it skip the variants (`products.ts:283-290`), and Shopify shows the edit that was undone. A
  product without a row that is revived or collapsed and then withdrawn stays as the
  interruption left it. `QuietAgrees` excepts these (`stale`, `half`), until the product is
  written again.
- A mapper may map a product withdrawn meanwhile; and it may write what it read before a
  failed creation deleted that Shopify product, over the row of the one created next, which
  nothing leads to if that job fails too (`NoOrphan` and `QuietAgrees` speak of scenarios
  without such a mapper); a deletion by code of a SKU used again
  archives the successor when the first product was never mapped.
- Clean-up after a partly recorded family leaves a row that names a deleted product; an
  interrupted collapse of an unmapped product leaves one without SKU (`NoOrphan` excepts it).
- A changed SKU of a product leads to a second Shopify product (not modelled).
- An image replaced in place before its URL was remembered, by the metafield and by every
  run that will write it, passes for the upload (`StaffEdit` leaves this out).

## 6. Proofs

All theorems hold for any number of participants, tokens, jobs, pages, retries, crashes and
faults, and for every set of environments. They use the assumptions on constants that each
module names, and two hypotheses, each said with its reason below: `~Stalls` and
`NoStallBesideReset`. What else a property presupposes (`OneWriter`, `~crossed`, `cuts = 0`,
`~released`, …) is written in the property itself, which the runs check as it stands. In every proof module the invariant comes first, then a
lemma per class of steps, then the theorems; action properties and the refinements of
`AtMostOnce` follow from the invariant and a look at each action.

`OrderProofs`: `TypeCorrect`; under `~Stalls`, `ClaimsAreSafe` (`Spec => []ClaimInv`)
and from it `NeverResent`, `NeverForgotten`, `LinksAreReal`, `LinkNeverChanges`, and
`OrderedOnce`, the refinement of `AtMostOnce`. `ClaimInv` strengthens the properties by
what the code relies on between two awaits: `Exclusion` (a token has one owner, the lock
one holder, one attempt can send), `DecisionHolds` (the row read by a claim transaction
is still claimable when it writes), `SendIsSafe` (a token is unsent before its POST and
its row says `creating`, unless somebody linked the order), `ExpiredIsIdle` (a lease that
ran out belongs to no running attempt) and `CandidatesAreReal` (an id about to be linked
exists). `DecisionHolds` and `ExpiredIsIdle` are exactly what finding 1 breaks, which is
why the theorems need `~Stalls`.

Its second part is about `OrderStatus`: `StatusIsSafe` (`StatusSpec => []StatusInv`) and from it
`CancellationsAgree` (`NoSilentDisagreement`) and `InvoiceShipsNothing`
(`InvoiceIsNoShipment`), for any number of jobs and tries, without hypothesis.
`NoSilentDisagreement` speaks of the end only; what holds on the way is
`CancellationsAreKept`: a side that is cancelled is recorded, or a job for it has not ended
well. A job ends well only where it records or finds the record, so that needs
`JobsTellTruth` (who records a cancellation has seen it on the other side) and
`CreatesFirst` (nothing is linked before the creation has ended, which therefore cannot
write over a cancellation). Of Shopify, a recorded cancellation only
knows that it holds or was accepted (`Asked`), which is all `CancellationsAgree` promises
there. `InvoicesWait` says that the jobs of a completion exist only once KiotViet's order is
past `open`, and do not get past `hasAppInvoice` while the app's invoice stands and no link
of it has failed. `StepKeeps` shows what one step may do to jobs and statuses; each action's
lemma shows that it does just that.

Its third part is about the sending half of an administrator's override (`InvoiceAmounts`):
`OverridesAreSeen` (`OverrideIsSeen`) rests on `OverrideInv`, which says that a plan between
submission and sending is, field by field, what the administrator's preview shows.

Its last part is about the amounts of every invoice, for any lines, prices, refunds and
settings that `AmountsAssumption` allows (amounts are whole cents, a discount is at most its
line's price): `UnitsAreRight` (`RightUnits`), `NothingUncollected` (`CollectedCoversIt`),
`CreatedStaysTrue` (`CreatedIsTrue`) and `PlainOrdersPass` (`PlainIsInvoiced`). Sums over lines
and refunds are the library's `SumFunction`, a fold over a finite set. Its recursion is
unfolded by `SumSteps`, and what the amounts need of addition (`SumStep`, `SumEqual`, `SumLess`,
`SumJoin`, `SumPlus`) follows by `OneByOne`, an induction over the subsets of a finite set
stated with a set in place of a predicate and proved from the least cardinality of a
counterexample. `AmountsInv` says where the units of a line are
(`SaleOK`: left, shipped, removed and refunded ones add up, and nothing came back that was
not shipped), that a plan is what its two reads say, an automatic one without a reason and an
override with approved ones (`PlanOK`), that an order nobody touched is as it was created
(`BornOK`), and what KiotViet may have made of what was sent (`BillOK`). `OnlyClear` and
`StrictClear` draw from the absence of every reason what the two modes promise: in
product-only mode the KiotViet order's lines are the kept units at their discounted price and
its payment is their sum, in strict mode lines, surcharge and payment are those of the placed
order, and neither is more than Shopify has collected and not refunded. `OnlyPlain` and
`StrictPlain` are the way back: what the creation wrote, read again, raises no reason.
`VerifiedUnits` and `VerifiedPaid` follow a plan through `finalizeInvoice`.

`ReturnRefundProofs`: `TypeCorrect`, `RefundsAreSafe` (`Spec => []RefundInv`) and from it
`NeverRefundedTwice`, `MoneyNeverHides`, `RefundsAreReal`, `SettledForGood` and
`RefundedAtMostOnce`; *no assumption on stalls*, since every write of the row is fenced by
the token. `RefundInv` adds that claims are distinct (`ClaimsAreDistinct`), that a claim's
request stands where its run stands (`RequestsFollowRuns`), that a request about to leave
is alone (`SendIsSafe`), that nothing else has an effect while a run waits with its token
in the row (`AwaitIsAlone`), and that runs which still hold the row are right about its
status (`BeliefsHold`). The proof classifies the steps: `EndsFenced` shows that all
actions which end a run do one fenced write (`FencedWrite`), `Closing` that such a write
keeps the invariant, `Moving` the same of steps that only move a run; `Claim`, `Mark`,
`Send` and Shopify's answers have a lemma each. `NothingAfterReview` needs `~Stalls`: a run
suspended between mark and request may send after another run gave the return to a person.

`InvoiceCreateProofs`: `InvoicesAreSafe` (`Spec => []InvoiceInv`) and `InvoicedOnce`, the
refinement of `AtMostOnce`. Of what `InvoiceInv` adds, `SendersExclude` is the heart: one run at
a time may send, and none while a request is outstanding. It needs to know why no other run
gets that far: `OutstandingShows` (a request that may have an effect leaves no claimable row,
unless KiotViet already lists the invoice, which the lookup then finds), `UnlistedIsHeld` (who
waits or sends still has the row), `OrderIsFirst` (the order job is done before anybody else
looks), `ResetIsDue` (an operator's reset acts on a row old enough). The last is where
`NoStallBesideReset` comes in: a reset takes a `creating` row older than five minutes for
abandoned, so a run that sleeps longer than that in the middle of its request can send
after it. The theorems are about environments that do not have both; the runs have each.

`ProductProofs`: `PushesAreSafe` (`Spec => []PushInv`) and from it `SoldStaysSold`
(`HeldIsNotRaised`), `StockIsFresh` (`StockGoesForward`) and `PushesAlone` (`NoSharedWrite`). A run
reads mapping, stock, level and newest snapshot before it waits for Shopify; `PushInv` says
that it may still rely on them when it writes, until the circumstances the properties
except: its session lock (`Locked`, until a session is lost), the only enabled branch of the
location (`WritesAlone`, until a branch was enabled beside it), the snapshot it compared with
(`Compared`, under both), a stock no older than the one last written (`NotesAreFresh`).
Branches are enabled, disabled and map themselves at any time in these proofs.

Its second part is about `ProductMedia`, with no hypothesis: `MediaInv` gives `SourcesStayTrue`
(`SourcesAreTrue`) and `SuccessWasSeen` (`SuccessIsShown`). It says that ids of images stay
unlike however many runs upload, and only staff replace a processed image (`Images`), and that
what is remembered of an image is its source, both in the metafield (`Agrees(sources, media)`)
and in what each run that uploads is about to write there (`UploadsOK`).

Its third part is about `ProductSync`. `OwnersAreKept` (`OwnerKept`, any number of workers and
mappers) follows from what a step may do to the rows (`RowMoves`: write one whose SKU is free or
the product's own, archive some, or note what an interrupted job left).
`NothingIsForgotten` is `NoOrphan`, in the scenarios
the property speaks of: one worker, no mapper beside it, and any families, faults, deaths,
creations sent again and changes in KiotViet, for every listing that is not one of the
exceptions (`lost`, `half`; `Lone` in the proof). A worker decides on what it read some awaits ago, and an
interrupted one leaves its work to a later job, so the property alone is far from inductive.
`CatalogInv` says which rows and listings can be found (`RowsOK`, `ListingsOK`), what a worker
knows of the listing it works on at each step (`Plans`, `Writes`), that a listing whose SKUs were
taken away has a row until it is withdrawn (`Covers`), that outside of families a row is alone
on its listing (`Standalone`), and that jobs ask for existing products (`JobsOK`). It was
checked by TLC as an invariant, on more scenarios than the run has, before it was proved: one
lemma per action, each with one step per conjunct.

`JobQueueProofs`: `RecordsAreSafe` (`Spec => []RecordsInv`) and from it `RecordsStayTrue`
(`RecordsAgree`) and `DisabledIsSkipped` (`DisabledIsObeyed`). Every job has a row of its own and an
active job one worker (`Placed`); a caller between creating a row and adding its job is the
only one who will (`Told`); a delivery that goes on to queue is the first of its event
(`FirstIsQueued`); a worker past the gate saw the direction enabled (`Obeyed`).

`ReconcileProofs`: `ChainsAreSafe` (`Spec => []ReconcileInv`) and from it `PagesRunOnce`
(`PageOnce`) and `ChainsExclude` (`OneChain`). `PageInv` says that rows of a page older than the
newest are settled, that is, without job, holder or published id; it needs `NewRows` (a row
just added is one process's until it is attached). `ChainInv` says that every job that may
run has an active row, which shows its attempt, and that the active rows are of one chain:
the admission lock reads exactly these rows. That a page has a newest row is the lemma
`Least`, which the library's well-founded induction gives without an operator parameter.

`InvoiceOutboxProofs`: `OutboxIsSafe` (`Spec => []OutboxInv`) and from it `RunsStaySingle`
(`RunsAreSingle`) and `OutcomesAreKept` (`OutcomeIsKept`, no hypothesis on the environment). The
unique index gives `OneOpen`; that one unfinished row means one run needs `Single` (an active
job has one worker and its row is `processing`), and that no state is evaluated twice needs
`Counted`: the attempts of a row are those of its job, so a row that used them up is never
run again, and admission may leave it out of its WHERE.

`InvoiceIndexProofs`: `IndexIsSafe` (`Spec => []IndexInv`) and from it `IndexStaysTrue`
(`IndexIsTrue`) and `AbsenceIsProven` (`AbsenceIsProof`), with no hypothesis. Its first part is
about the list: positions grow with ids, a page holds the ids of an interval, so a page that
begins with the checkpoint's last invoice has no gap behind it (`NoGap`), and one that ends
the list leaves nothing there (`NoRest`), although invoices were deleted and appended since
the checkpoint was saved. Its second part is about time: a page is saved after other runs
may have moved the checkpoint, rebuilt it or searched for it, and a write is guarded by
generation and count alone. `Sound` is what makes that enough: *every* checkpoint anybody
still remembers stays true of the index, since the index only loses what KiotViet lost, so
it does not matter whose page is saved. `KnownHolds`, `ScanHas` and `ProofHolds` carry what a
lookup holds of the invoices that existed when it began to its answer; while nothing is
deleted the list is `1..issued` (`Gapless`), and a count is a position.

Only model-checked: `QuietAgrees` of `ProductSync` (what holds when all jobs ended well
depends on the history of each content hash), every liveness property (liveness under
fairness is out of the reach of the installed provers) and the violation of finding 1.

## 7. Not modelled

- Customer synchronization: one lookup-or-create per order without a lock; `OrderCreate`
  lets it succeed or fail. Two orders of a new customer without a phone may create it twice.
- Categories (collections), field mapping, single-variant prices, the batches of a full
  synchronization and their progress counters.
- The listing window of the returns cursor, and two returns of one order (each is one
  instance of `ReturnRefund`; other refunds only show as "needs a person").
- Matching of SKUs, currency conversion and tax rates in order lines; tracking numbers.
- The in-process mode without Redis, priorities, heartbeats and the daily clean-up.
- Sellers, branches, tokens and HTTP clients: cached lookups and I/O. What the
  non-idempotent mode of the client promises is in the send and reply actions.
- Conflicts (other than held stock), notifications, logs, dashboards, authentication, the
  console's pages, migrations and one-off scripts: no state another component decides on.

## 8. Plan

Done: the claim protocols with `AtMostOnce`, statuses, amounts, index, outbox, stock, queue,
reconciliation, products and images; the proofs of section 6. Next:

1. `QuietAgrees`: an invariant that says which interrupted job will repair which row.
2. Two returns of one order: two instances of `ReturnRefund` over shared refundable amounts.
3. Product batches, categories and customers.

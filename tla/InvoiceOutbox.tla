----------------------------- MODULE InvoiceOutbox -----------------------------
(***************************************************************************)
(* How one Shopify order gets its automatic invoice job: events, the       *)
(* minute rescan and the invoice index job call requestFulfillmentInvoice, *)
(* which admits an audit row (the outbox in sync_jobs); dispatch turns     *)
(* pending rows into queue jobs; workers run processFulfillmentInvoice.    *)
(*                                                                         *)
(* What the plan and its application do to the invoice is InvoiceCreate;   *)
(* here a run ends in an invoice, an unknown outcome, a transient or a     *)
(* final refusal.  Stock after invoicing is InventorySync.  The order is   *)
(* synchronized and the trigger enabled; times are the states due, soon    *)
(* and never of invoice_check_at.                                          *)
(*                                                                         *)
(* Definitions named Bug... are wrong variants of the one that follows.    *)
(***************************************************************************)
EXTENDS Naturals, Sequences

CONSTANTS
  Callers, Workers, Admins,
  Attempts,    \* JOB_MAX_ATTEMPTS
  Environments \* workers, admins: those that act; floor: the order has an invoice
               \*   id floor; the other fields bound how often an event happens

Bounded == {"change", "settings", "fault", "outage", "stall", "wipe", "retry", "edit"}

ASSUME OutboxAssumption ==
  /\ Attempts \in Nat \ {0}
  /\ Workers \cap (Callers \cup Admins) = {}
  /\ \A e \in Environments :
       /\ e.workers \subseteq Workers /\ e.admins \subseteq Admins /\ e.floor \in BOOLEAN
       /\ \A b \in Bounded : e[b] \in Nat

VARIABLES
  env,     \* the environment of the behaviour, chosen once
  order,   \* Shopify: version and trigger decision
  settings, \* version of the orders settings
  index,   \* the invoice index is usable
  inv,     \* invoice_mappings: none, blocked, deferred, creating, invoiced
  checkAt, \* order_mappings.invoice_check_at
  row,     \* sync_jobs rows of the order
  job,     \* queue job invoice-<row> of each row
  proc,    \* local state of callers, workers and administrators
  used     \* how often each bounded event happened

state == <<order, settings, index, inv, checkAt, row, job, proc, used>>
vars == <<env, state>>
world == <<order, settings, index>>

Use(e) == used[e] < env[e] /\ used' = [used EXCEPT ![e] = @ + 1]

Procs == Callers \cup Workers \cup Admins
Idle == [pc |-> "idle", row |-> 0, order |-> [ver |-> 0, decision |-> "waiting"], settings |-> 0, fresh |-> FALSE, seen |-> "none"]
NoJob == [state |-> "none", made |-> 0, max |-> Attempts, stalled |-> FALSE]
Decisions == {"waiting", "partial", "ready", "blocked"}

Init ==
  /\ env \in Environments
  /\ order = [ver |-> 0, decision |-> "waiting"] /\ settings = 0 /\ index = TRUE
  /\ inv = "none" /\ checkAt = "due"
  /\ row = <<>> /\ job = <<>>
  /\ proc = [x \in Procs |-> Idle]
  /\ used = [e \in Bounded |-> 0]

Goto(x, pc) == proc' = [proc EXCEPT ![x].pc = pc]
Leave(x) == proc' = [proc EXCEPT ![x] = Idle]
Same == UNCHANGED <<world, used>>
-----------------------------------------------------------------------------
(* sync_jobs as the queries see it                                         *)
BugUnfinished(r) == row[r].status = "pending"  \* a row that is being run does not count
Unfinished(r) == row[r].status \in {"pending", "processing"}  \* invoice_job_active_order_idx
Retried(r) == row[r].status = "failed" /\ row[r].attempts < Attempts

BugEvaluated(r, s) == row[r].status \in {"completed", "skipped"} /\ row[r].state = s  \* a reviewed state is tried again
Evaluated(r, s) == row[r].status \in {"manual_review", "completed", "skipped"} /\ row[r].state = s

InvoiceKnown == inv = "invoiced"

(* recordBlocked: never over an invoice or an unknown outcome              *)
BugBlocked(stage) == inv' = IF inv = "invoiced" THEN inv ELSE stage  \* over an unknown outcome
Blocked(stage) == inv' = IF inv \in {"none", "blocked", "deferred"} THEN stage ELSE inv
-----------------------------------------------------------------------------
(* requestFulfillmentInvoice                                               *)
Call(c, pc, fresh) ==
  /\ proc[c].pc = "idle"
  /\ proc' = [proc EXCEPT ![c] = [Idle EXCEPT !.pc = pc, !.fresh = fresh]]

Notify(c) ==  \* a fulfillment or order event
  /\ Call(c, "settings", FALSE)
  /\ UNCHANGED <<inv, checkAt, row, job>> /\ Same

Dispatch(c) ==  \* reconcileFulfillmentInvoices begins with it
  /\ Call(c, "list", FALSE)
  /\ UNCHANGED <<inv, checkAt, row, job>> /\ Same

Rescan(c) ==
  /\ checkAt = "due" /\ ~InvoiceKnown
  /\ ~\E r \in DOMAIN row : Unfinished(r) \/ Retried(r)
  /\ checkAt' = "soon"
  /\ Call(c, "settings", FALSE)
  /\ UNCHANGED <<inv, row, job>> /\ Same

BugReadmit(c) ==  \* the deferred order is requested like any other
  /\ index /\ inv = "deferred"
  /\ Call(c, "settings", FALSE)
  /\ UNCHANGED <<inv, checkAt, row, job>> /\ Same

Readmit(c) ==  \* readmitIndexDeferredInvoices, with a new retryKey
  /\ index /\ inv = "deferred"
  /\ Call(c, "settings", TRUE)
  /\ UNCHANGED <<inv, checkAt, row, job>> /\ Same

ReadSettings(c) ==  \* and the mapping
  /\ proc[c].pc = "settings"
  /\ checkAt' = IF InvoiceKnown THEN "never" ELSE checkAt
  /\ proc' = [proc EXCEPT ![c] = IF InvoiceKnown THEN Idle ELSE [@ EXCEPT !.pc = "live", !.settings = settings]]
  /\ UNCHANGED <<inv, row, job>> /\ Same

ReadLive(c) ==
  /\ proc[c].pc = "live"
  /\ proc' = [proc EXCEPT ![c] = IF order.decision = "waiting" THEN Idle
                                 ELSE [@ EXCEPT !.pc = IF order.decision = "ready" THEN "admit" ELSE "block", !.order = order]]
  /\ UNCHANGED <<inv, checkAt, row, job>> /\ Same

RequestBlocked(c) ==
  /\ proc[c].pc = "block"
  /\ Blocked("blocked")
  /\ IF proc[c].order.decision = "blocked" THEN Goto(c, "parkForGood") ELSE Leave(c)
  /\ UNCHANGED <<checkAt, row, job>> /\ Same

ParkForGood(c) ==
  /\ proc[c].pc = "parkForGood"
  /\ checkAt' = "never"
  /\ Leave(c)
  /\ UNCHANGED <<inv, row, job>> /\ Same

(* The triggerState; a retryKey makes it different from every other.       *)
TriggerState(x) == <<proc[x].order.ver, proc[x].settings, IF proc[x].fresh THEN Len(row) + 1 ELSE 0>>

Admit(c) ==  \* INSERT ... WHERE NOT EXISTS ... ON CONFLICT DO NOTHING
  /\ proc[c].pc = "admit"
  /\ IF \E r \in DOMAIN row : Unfinished(r) \/ Retried(r) \/ Evaluated(r, TriggerState(c))
     THEN UNCHANGED <<row, job>>
     ELSE /\ row' = Append(row, [state |-> TriggerState(c), status |-> "pending", attempts |-> 0, queued |-> FALSE])
          /\ job' = Append(job, NoJob)
  /\ Goto(c, "park")
  /\ UNCHANGED <<inv, checkAt>> /\ Same

Park(c) ==
  /\ proc[c].pc = "park"
  /\ checkAt' = "soon"
  /\ Goto(c, "list")
  /\ UNCHANGED <<inv, row, job>> /\ Same

(* dispatchInvoiceOutbox: the order has at most one pending row            *)
Outbox == {r \in DOMAIN row : row[r].status = "pending" /\ ~row[r].queued}

List(c) ==
  /\ proc[c].pc = "list"
  /\ IF Outbox = {} THEN Leave(c)
     ELSE \E r \in Outbox : proc' = [proc EXCEPT ![c].pc = "add", ![c].row = r]
  /\ UNCHANGED <<inv, checkAt, row, job>> /\ Same

Add(c) ==  \* the queue keeps a job it has
  /\ proc[c].pc = "add"
  /\ job' = [job EXCEPT ![proc[c].row] = IF @.state = "none" THEN [NoJob EXCEPT !.state = "waiting"] ELSE @]
  /\ Goto(c, "queued")
  /\ UNCHANGED <<inv, checkAt, row>> /\ Same

BugMarkQueued(c) ==  \* the row is marked before the job is added
  /\ proc[c].pc = "add"
  /\ row' = [row EXCEPT ![proc[c].row].queued = TRUE]
  /\ Goto(c, "queued")
  /\ UNCHANGED <<inv, checkAt, job>> /\ Same

MarkQueued(c) ==
  /\ proc[c].pc = "queued"
  /\ row' = [row EXCEPT ![proc[c].row].queued = TRUE]
  /\ Leave(c)
  /\ UNCHANGED <<inv, checkAt, job>> /\ Same

Request(c) ==
  \/ ReadSettings(c) \/ ReadLive(c) \/ RequestBlocked(c) \/ ParkForGood(c)
  \/ Admit(c) \/ Park(c) \/ List(c) \/ Add(c) \/ MarkQueued(c)
-----------------------------------------------------------------------------
(* A worker runs the job: processFulfillmentInvoice                        *)
Take(w, r) ==
  /\ proc[w].pc = "idle" /\ r \in DOMAIN job /\ job[r].state = "waiting"
  /\ job' = [job EXCEPT ![r].state = "active"]
  /\ proc' = [proc EXCEPT ![w] = [Idle EXCEPT !.pc = "start", !.row = r]]
  /\ UNCHANGED <<inv, checkAt, row>> /\ Same

Start(w) ==
  /\ proc[w].pc = "start" /\ \A r \in DOMAIN row : r # proc[w].row => ~Unfinished(r)
  /\ row' = [row EXCEPT ![proc[w].row].status = "processing", ![proc[w].row].attempts = job[proc[w].row].made + 1]
  /\ Goto(w, "read")
  /\ UNCHANGED <<inv, checkAt, job>> /\ Same

StartRefused(w) ==  \* by the unique index
  /\ proc[w].pc = "start" /\ \E r \in DOMAIN row : r # proc[w].row /\ Unfinished(r)
  /\ Goto(w, "threw")
  /\ UNCHANGED <<inv, checkAt, row, job>> /\ Same

ReadTrigger(w) ==
  /\ proc[w].pc = "read"
  /\ proc' = [proc EXCEPT ![w].settings = settings, ![w].order = order,
                ![w].pc = IF order.decision = "waiting" THEN "completed" ELSE IF order.decision = "ready" THEN "index" ELSE "blocked"]
  /\ UNCHANGED <<inv, checkAt, row, job>> /\ Same

RunBlocked(w) ==
  /\ proc[w].pc = "blocked"
  /\ Blocked("blocked")
  /\ Goto(w, "completed")
  /\ UNCHANGED <<checkAt, row, job>> /\ Same

IndexUsable(w) ==  \* or not needed; a deferral is consumed
  /\ proc[w].pc = "index" /\ (index \/ env.floor)
  /\ inv' = IF inv = "deferred" THEN "blocked" ELSE inv
  /\ Goto(w, "plan")
  /\ UNCHANGED <<checkAt, row, job>> /\ Same

Defer(w) ==
  /\ proc[w].pc = "index" /\ ~index /\ ~env.floor /\ inv \in {"none", "blocked", "deferred"}
  /\ Blocked("deferred")
  /\ Goto(w, "completed")
  /\ UNCHANGED <<checkAt, row, job>> /\ Same

IndexMissing(w) ==  \* an attempt that may have sent its request keeps its retries
  /\ proc[w].pc = "index" /\ ~index /\ ~env.floor /\ inv \notin {"none", "blocked", "deferred"} /\ Use("fault")
  /\ Goto(w, "failed")
  /\ UNCHANGED <<world, inv, checkAt, row, job>>

PlanNone(w) ==  \* the invoice exists; its stock is pushed
  /\ proc[w].pc = "plan" /\ InvoiceKnown
  /\ Goto(w, "completed")
  /\ UNCHANGED <<inv, checkAt, row, job>> /\ Same

PlanTransient(w) ==  \* order_not_synced, invoice_in_flight, invoice_lookup_incomplete or a failed read
  /\ proc[w].pc = "plan" /\ Use("fault")
  /\ Goto(w, "failed")
  /\ UNCHANGED <<world, inv, checkAt, row, job>>

PlanRefuses(w) ==
  /\ proc[w].pc = "plan" /\ ~InvoiceKnown
  /\ Blocked("blocked")
  /\ Goto(w, "manual_review")
  /\ UNCHANGED <<checkAt, row, job>> /\ Same

PlanCreates(w) ==
  /\ proc[w].pc = "plan" /\ ~InvoiceKnown
  /\ Goto(w, IF settings = proc[w].settings THEN "apply" ELSE "manual_review")
  /\ UNCHANGED <<inv, checkAt, row, job>> /\ Same

Apply(w) ==
  /\ proc[w].pc = "apply"
  /\ inv' = "invoiced"
  /\ Goto(w, "stock")
  /\ UNCHANGED <<checkAt, row, job>> /\ Same

ApplyUnknown(w) ==  \* an order that has an invoice is not claimed
  /\ proc[w].pc = "apply" /\ ~InvoiceKnown /\ Use("fault")
  /\ inv' = "creating"
  /\ Goto(w, "failed")
  /\ UNCHANGED <<world, checkAt, row, job>>

Stock(w) ==  \* and the invoice's own checks
  /\ proc[w].pc = "stock"
  /\ \E end \in {"completed", "failed", "manual_review"} : Goto(w, end)
  /\ UNCHANGED <<inv, checkAt, row, job>> /\ Same

Report(w) ==
  /\ proc[w].pc \in {"completed", "failed", "manual_review"}
  /\ row' = [row EXCEPT ![proc[w].row].status = proc[w].pc]
  /\ Goto(w, CASE proc[w].pc = "completed" -> "returned" [] proc[w].pc = "failed" -> "threw" [] OTHER -> "gaveUp")
  /\ UNCHANGED <<inv, checkAt, job>> /\ Same

Finish(w) ==
  /\ proc[w].pc \in {"returned", "threw", "gaveUp"}
  /\ LET j == job[proc[w].row] IN
     job' = [job EXCEPT ![proc[w].row].made = @ + 1,
               ![proc[w].row].state = CASE j.state # "active" -> j.state  \* wiped meanwhile
                                        [] j.state = "active" /\ proc[w].pc = "returned" -> "completed"
                                        [] j.state = "active" /\ proc[w].pc = "threw" /\ j.made + 1 < j.max -> "waiting"
                                        [] OTHER -> "failed"]
  /\ Leave(w)
  /\ UNCHANGED <<inv, checkAt, row>> /\ Same

TakeAny(w) == \E r \in DOMAIN job : Take(w, r)
Run(w) ==
  \/ Start(w) \/ StartRefused(w) \/ ReadTrigger(w) \/ RunBlocked(w) \/ IndexUsable(w) \/ Defer(w) \/ IndexMissing(w)
  \/ PlanNone(w) \/ PlanTransient(w) \/ PlanRefuses(w) \/ PlanCreates(w)
  \/ Apply(w) \/ ApplyUnknown(w) \/ Stock(w) \/ Report(w) \/ Finish(w)
-----------------------------------------------------------------------------
(* An administrator retries or cancels a row: jobs/[id]                    *)
RetryReads(a, r) ==
  /\ proc[a].pc = "idle" /\ r \in DOMAIN row /\ Use("retry")
  /\ job[r].state \in {"none", "failed", "completed"}
  /\ proc' = [proc EXCEPT ![a] = [Idle EXCEPT !.pc = "claim", !.row = r, !.seen = job[r].state]]
  /\ UNCHANGED <<world, inv, checkAt, row, job>>

RetryClaims(a) ==
  /\ proc[a].pc = "claim"
  /\ IF \E r \in DOMAIN row : Unfinished(r) THEN Leave(a) /\ UNCHANGED row
     ELSE /\ row' = [row EXCEPT ![proc[a].row].status = "pending", ![proc[a].row].queued = TRUE]
          /\ Goto(a, "retry")
  /\ UNCHANGED <<inv, checkAt, job>> /\ Same

RetryQueues(a) ==
  /\ proc[a].pc = "retry" /\ job[proc[a].row].state = proc[a].seen
  /\ job' = [job EXCEPT ![proc[a].row] =
               IF @.state = "none" THEN [NoJob EXCEPT !.state = "waiting", !.max = 1] ELSE [@ EXCEPT !.state = "waiting"]]
  /\ Leave(a)
  /\ UNCHANGED <<inv, checkAt, row>> /\ Same

RetryFails(a) ==  \* the job's state changed, or Redis failed
  /\ proc[a].pc = "retry" /\ job[proc[a].row].state # proc[a].seen
  /\ row' = [row EXCEPT ![proc[a].row].status = IF @ = "pending" THEN "failed" ELSE @]
  /\ Leave(a)
  /\ UNCHANGED <<inv, checkAt, job>> /\ Same

CancelRow(r) ==
  /\ r \in DOMAIN row /\ row[r].status # "cancelled" /\ Use("edit")
  /\ row' = [row EXCEPT ![r].status = "cancelled"]
  /\ job' = IF row[r].queued /\ job[r].state # "active" THEN [job EXCEPT ![r] = NoJob] ELSE job
  /\ UNCHANGED <<world, inv, checkAt, proc>>

ResolveRow(r) ==
  /\ r \in DOMAIN row /\ row[r].status = "manual_review" /\ Use("edit")
  /\ row' = [row EXCEPT ![r].status = "completed"]
  /\ UNCHANGED <<world, inv, checkAt, job, proc>>

Retry(a) == RetryClaims(a) \/ RetryQueues(a) \/ RetryFails(a)
-----------------------------------------------------------------------------
(* Outside                                                                 *)
OrderChanges ==
  /\ Use("change") /\ order.decision # "blocked"  \* cancelled and refunded orders stay so
  /\ \E d \in Decisions : order' = [ver |-> order.ver + 1, decision |-> d]
  /\ UNCHANGED <<settings, index, inv, checkAt, row, job, proc>>

SettingsChange ==
  /\ Use("settings") /\ settings' = settings + 1
  /\ UNCHANGED <<order, index, inv, checkAt, row, job, proc>>

IndexFails ==
  /\ index /\ Use("outage") /\ index' = FALSE
  /\ UNCHANGED <<order, settings, inv, checkAt, row, job, proc>>

IndexRecovers ==
  /\ ~index /\ index' = TRUE
  /\ UNCHANGED <<order, settings, inv, checkAt, row, job, proc, used>>

CheckDue ==
  /\ checkAt = "soon" /\ checkAt' = "due"
  /\ UNCHANGED <<world, inv, row, job, proc, used>>

Die(x) ==  \* a process; its job is handed out once more
  /\ proc[x].pc # "idle" /\ Use("stall")
  /\ job' = IF x \notin Workers THEN job ELSE
       [job EXCEPT ![proc[x].row].stalled = TRUE,
                   ![proc[x].row].state = CASE @ # "active" -> @ [] @ = "active" /\ job[proc[x].row].stalled -> "failed" [] OTHER -> "waiting"]
  /\ Leave(x)
  /\ UNCHANGED <<world, inv, checkAt, row>>

Wipe ==  \* Redis loses its data
  /\ Use("wipe")
  /\ job' = [r \in DOMAIN job |-> NoJob]
  /\ UNCHANGED <<world, inv, checkAt, row, proc>>

Step ==
  \/ \E c \in Callers : Notify(c) \/ Dispatch(c) \/ Rescan(c) \/ Readmit(c) \/ Request(c)
  \/ \E w \in env.workers : TakeAny(w) \/ Run(w)
  \/ \E a \in env.admins : Retry(a) \/ \E r \in DOMAIN row : RetryReads(a, r)
  \/ \E r \in DOMAIN row : env.admins # {} /\ (CancelRow(r) \/ ResolveRow(r))
  \/ OrderChanges \/ SettingsChange \/ IndexFails \/ IndexRecovers \/ CheckDue \/ Wipe
  \/ \E x \in Procs : Die(x)

Next == Step /\ UNCHANGED env

Spec == Init /\ [][Next]_vars

(* The minute schedulers keep calling dispatch, rescan and the index job,  *)
(* each of them again and again; requests and jobs that do not die go on.  *)
FairSpec ==
  /\ Spec
  /\ SF_state(\E c \in Callers : Dispatch(c))
  /\ SF_state(\E c \in Callers : Rescan(c))
  /\ SF_state(\E c \in Callers : Readmit(c))
  /\ WF_state(\E c \in Callers : Request(c))
  /\ WF_state(\E w \in env.workers : TakeAny(w) \/ Run(w))
  /\ WF_state(IndexRecovers) /\ WF_state(CheckDue)
-----------------------------------------------------------------------------
(* Two workers never evaluate or invoice the order at the same time,       *)
(* however often it is requested, rescanned or retried                     *)
(* (fulfillment-invoice.ts:79-80: "at most one active invoice job per      *)
(* order").  A person who cancels the row of a running job can cause it,   *)
(* and so can Redis when it loses a job that a caller is about to add      *)
(* again: environments with edit = 0 and wipe = 0 have neither.            *)
Working(w) == proc[w].pc \in {"read", "blocked", "index", "plan", "apply", "stock"}
OneRun == env.edit = 0 /\ env.wipe = 0 => \A v, w \in Workers : Working(v) /\ Working(w) => v = w

(* A state that was evaluated is not evaluated again: no two jobs of the   *)
(* same order and settings version end in review or complete, as long as   *)
(* no worker dies in a job, no person retries one and Redis keeps its jobs *)
(* (fulfillment-invoice.ts:36-40).                                         *)
Ended(r) == row[r].status \in {"manual_review", "completed", "skipped"}
NotRepeated ==
  env.admins = {} /\ env.stall = 0 /\ env.wipe = 0 => \A r, q \in DOMAIN row : Ended(r) /\ Ended(q) /\ row[r].state = row[q].state => r = q

(* A row whose job is gone: its workers died twice, which the queue does   *)
(* not hand out again and nobody records, while the row still looks like   *)
(* one that is run or retried.  It keeps every caller from admitting       *)
(* another (fulfillment-invoice.ts:123-125, 160-161, src/worker.ts:13-60). *)
Abandoned(r) == used["stall"] > 1 /\ job[r].state = "failed" /\ (Unfinished(r) \/ Retried(r))

(* An order that stays ready is invoiced or put before a person, whatever  *)
(* events are lost and attempts fail, and although processes die; but two  *)
(* deaths of workers in one job abandon its row and with it the order.  As *)
(* long as its index is usable, Redis keeps its jobs and no administrator  *)
(* interferes: for the last two, and for the abandoned row, see the        *)
(* README's known divergences (fulfillment-invoice.ts:101, 150-167).       *)
ReadyIsServed ==
  env.outage + env.wipe = 0 /\ env.admins = {} /\ <>[](order.decision = "ready") =>
    <>(inv = "invoiced" \/ \E r \in DOMAIN row : row[r].status = "manual_review" \/ Abandoned(r))

(* A deferral ends once the index is back, as long as Redis keeps its      *)
(* jobs, no administrator interferes and no row is abandoned               *)
(* (fulfillment-invoice.ts:174).                                           *)
DeferralEnds ==
  inv = "deferred" /\ env.wipe = 0 /\ env.admins = {} ~>
    inv # "deferred" \/ order.decision # "ready" \/ \E r \in DOMAIN row : Abandoned(r)

(* Both together: the outbox serves its order.                             *)
OrderIsServed == ReadyIsServed /\ DeferralEnds

(* One run at a time, and none twice for a state: the first two.           *)
RunsAreSingle == OneRun /\ NotRepeated

(* Whatever jobs and requests overlap, repeat or are cancelled, none of    *)
(* them makes an unknown outcome look like an order nothing was sent for   *)
(* (fulfillment-invoice.ts:45-48, 258-266).                                *)
OutcomeIsKept == [][(inv \in {"creating", "invoiced"}) => (inv' \in {inv, "invoiced"})]_vars
=============================================================================

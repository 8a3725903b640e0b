------------------------------- MODULE JobQueue -------------------------------
(***************************************************************************)
(* From a webhook delivery to a finished job.                              *)
(*                                                                         *)
(* Three records describe one piece of work and are written one after the  *)
(* other: the event (webhook_events), the audit row (sync_jobs) and the    *)
(* queue job (BullMQ in Redis).  HTTP handlers write the first two and add *)
(* the job; workers run jobs, retry them and report to all three.          *)
(*                                                                         *)
(* The queue is external: it hands a waiting job to one worker, recovers a *)
(* job of a dead worker once and fails it the second time.                 *)
(* What a job does is one step that succeeds, fails for now or fails for   *)
(* good.  Priorities, delays and the heartbeat are left out.               *)
(*                                                                         *)
(* Definitions named Bug... are wrong variants of the one that follows.    *)
(***************************************************************************)
EXTENDS Naturals, Sequences

CONSTANTS
  Events, Callers, Workers,
  Attempts,    \* JOB_MAX_ATTEMPTS
  None,
  Environments \* callers, workers, admins (administrators replay, retry and cancel),
               \*   rows (jobs), lost (handlers), stalls (dead workers), toggles
               \*   (settings changes): bounds

ASSUME QueueAssumption ==
  /\ Attempts \in Nat \ {0} /\ None \notin Events
  /\ \A e \in Environments :
       /\ e.callers \subseteq Callers /\ e.workers \subseteq Workers /\ e.admins \in BOOLEAN
       /\ {e.rows, e.lost, e.stalls, e.toggles} \subseteq Nat

VARIABLES
  env,      \* the environment of the behaviour, chosen once
  event,    \* status of each webhook event
  row,      \* audit rows
  job,      \* queue jobs
  enabled,  \* the direction of these jobs is enabled
  caller, worker,  \* local state of handlers and workers
  done,     \* how often an event was applied
  answered, \* events whose delivery got a 200
  lost, stalls, toggles

bounds == <<lost, stalls, toggles>>
state == <<event, row, job, enabled, caller, worker, done, answered, bounds>>
vars == <<env, state>>

Free == [pc |-> "idle", event |-> None, row |-> 0, old |-> 0]
Off == [pc |-> "idle", job |-> 0, ok |-> FALSE]
Settled == {"processed", "ignored", "failed"}

Init ==
  /\ env \in Environments
  /\ event = [e \in Events |-> "none"] /\ row = <<>> /\ job = <<>>
  /\ enabled = TRUE
  /\ caller = [c \in Callers |-> Free] /\ worker = [w \in Workers |-> Off]
  /\ done = [e \in Events |-> 0] /\ answered = {}
  /\ lost = 0 /\ stalls = 0 /\ toggles = 0
-----------------------------------------------------------------------------
(* Handlers: receive...Webhook, webhooks/[id], jobs/[id] and enqueueJob.   *)
OnlyCaller == UNCHANGED <<enabled, worker, done, bounds>>

BugDeliver(c, e) ==  \* every delivery is queued
  /\ caller[c].pc = "idle"
  /\ event' = [event EXCEPT ![e] = IF @ = "none" THEN "received" ELSE @]
  /\ caller' = [caller EXCEPT ![c] = [Free EXCEPT !.pc = "row", !.event = e]]
  /\ UNCHANGED <<row, job, answered>> /\ OnlyCaller

(* The first delivery of an event is stored and queued; ON CONFLICT DO     *)
(* NOTHING makes the others duplicates, which are only acknowledged.       *)
Deliver(c, e) ==
  /\ caller[c].pc = "idle"
  /\ \/ /\ event[e] = "none"
        /\ event' = [event EXCEPT ![e] = "received"]
        /\ caller' = [caller EXCEPT ![c] = [Free EXCEPT !.pc = "row", !.event = e]]
        /\ UNCHANGED answered
     \/ /\ event[e] # "none" /\ e \notin answered
        /\ answered' = answered \cup {e}
        /\ UNCHANGED <<event, caller>>
  /\ UNCHANGED <<row, job>> /\ OnlyCaller

Replay(c, e) ==  \* POST /api/admin/webhooks/[id]
  /\ caller[c].pc = "idle" /\ event[e] # "none" /\ Len(row) < env.rows
  /\ caller' = [caller EXCEPT ![c] = [Free EXCEPT !.pc = "row", !.event = e]]
  /\ UNCHANGED <<event, row, job, answered>> /\ OnlyCaller

RetryRow(c, r) ==  \* POST /api/admin/jobs/[id] retry
  /\ caller[c].pc = "idle" /\ r \in DOMAIN row /\ Len(row) < env.rows
  /\ caller' = [caller EXCEPT ![c] = [Free EXCEPT !.pc = "row", !.event = row[r].event, !.old = r]]
  /\ UNCHANGED <<event, row, job, answered>> /\ OnlyCaller

(* jobsRepository.create                                                   *)
CreateRow(c) ==
  /\ caller[c].pc = "row"
  /\ row' = Append(row, [event |-> caller[c].event, status |-> "pending", attempts |-> 0, queued |-> 0])
  /\ caller' = [caller EXCEPT ![c].pc = "add", ![c].row = Len(row) + 1]
  /\ UNCHANGED <<event, job, answered>> /\ OnlyCaller

AddJob(c) ==
  /\ caller[c].pc = "add"
  /\ job' = Append(job, [row |-> caller[c].row, event |-> caller[c].event, state |-> "waiting", made |-> 0, stalled |-> FALSE])
  /\ caller' = [caller EXCEPT ![c].pc = "attach"]
  /\ UNCHANGED <<event, row, answered>> /\ OnlyCaller

Attach(c) ==
  /\ caller[c].pc = "attach"
  /\ row' = [row EXCEPT ![caller[c].row].queued = CHOOSE j \in DOMAIN job : job[j].row = caller[c].row]
  /\ caller' = [caller EXCEPT ![c] = IF @.old = 0 THEN Free ELSE [@ EXCEPT !.pc = "replaced"]]
  /\ answered' = answered \cup {caller[c].event}
  /\ UNCHANGED <<event, job>> /\ OnlyCaller

Replaced(c) ==
  /\ caller[c].pc = "replaced"
  /\ row' = [row EXCEPT ![caller[c].old].status = "cancelled"]
  /\ caller' = [caller EXCEPT ![c] = Free]
  /\ UNCHANGED <<event, job, answered>> /\ OnlyCaller

(* The process dies, or PostgreSQL or Redis fails: the answer is a 503.    *)
LoseCaller(c) ==
  /\ caller[c].pc # "idle" /\ lost < env.lost
  /\ lost' = lost + 1
  /\ caller' = [caller EXCEPT ![c] = Free]
  /\ UNCHANGED <<event, row, job, enabled, worker, done, answered, stalls, toggles>>

(* jobs/[id] cancel: an active job cannot be removed and keeps running.    *)
CancelRow(r) ==
  /\ r \in DOMAIN row /\ row[r].status # "cancelled"
  /\ row' = [row EXCEPT ![r].status = "cancelled"]
  /\ job' = [j \in DOMAIN job |-> IF j = row[r].queued /\ job[j].state # "active" THEN [job[j] EXCEPT !.state = "removed"] ELSE job[j]]
  /\ UNCHANGED <<event, enabled, caller, worker, done, answered, bounds>>

ResolveRow(r) ==
  /\ r \in DOMAIN row /\ row[r].status = "manual_review"
  /\ row' = [row EXCEPT ![r].status = "completed"]
  /\ UNCHANGED <<event, job, enabled, caller, worker, done, answered, bounds>>

Toggle ==
  /\ toggles < env.toggles /\ toggles' = toggles + 1
  /\ enabled' = ~enabled
  /\ worker' = [w \in Workers |-> IF worker[w].pc = "idle" THEN worker[w] ELSE [worker[w] EXCEPT !.ok = TRUE]]
  /\ UNCHANGED <<event, row, job, caller, done, answered, lost, stalls>>
-----------------------------------------------------------------------------
(* Workers: src/worker.ts around processSyncJob.                           *)
J(w) == job[worker[w].job]
OnlyWorker == UNCHANGED <<enabled, caller, answered, bounds>>
Goto(w, pc) == worker' = [worker EXCEPT ![w].pc = pc]

Take(w, j) ==
  /\ worker[w].pc = "idle" /\ j \in DOMAIN job /\ job[j].state = "waiting"
  /\ job' = [job EXCEPT ![j].state = "active"]
  /\ worker' = [worker EXCEPT ![w] = [pc |-> "start", job |-> j, ok |-> enabled]]
  /\ UNCHANGED <<event, row, done>> /\ OnlyWorker

Start(w) ==
  /\ worker[w].pc = "start"
  /\ row' = [row EXCEPT ![J(w).row].status = "processing", ![J(w).row].attempts = J(w).made + 1]
  /\ Goto(w, "gate")
  /\ UNCHANGED <<event, job, done>> /\ OnlyWorker

BugGate(w) ==  \* retries are not gated
  /\ worker[w].pc = "gate"
  /\ Goto(w, IF enabled \/ J(w).made > 0 THEN "run" ELSE "ignore")
  /\ UNCHANGED <<event, row, job, done>> /\ OnlyWorker

(* skipDisabledJob reads the settings each time a job runs                 *)
Gate(w) ==
  /\ worker[w].pc = "gate"
  /\ Goto(w, IF enabled THEN "run" ELSE "ignore")
  /\ UNCHANGED <<event, row, job, done>> /\ OnlyWorker

BugIgnore(w) ==  \* a skipped job ends like any other
  /\ worker[w].pc = "ignore"
  /\ event' = [event EXCEPT ![J(w).event] = "processed"]
  /\ Goto(w, "skip")
  /\ UNCHANGED <<row, job, done>> /\ OnlyWorker

Ignore(w) ==
  /\ worker[w].pc = "ignore"
  /\ event' = [event EXCEPT ![J(w).event] = "ignored"]
  /\ Goto(w, "skip")
  /\ UNCHANGED <<row, job, done>> /\ OnlyWorker

RunJob(w) ==
  /\ worker[w].pc = "run"
  /\ \/ done' = [done EXCEPT ![J(w).event] = @ + 1] /\ Goto(w, "mark")
     \/ Goto(w, "retryable") /\ UNCHANGED done
     \/ Goto(w, "manual") /\ UNCHANGED done
  /\ UNCHANGED <<event, row, job>> /\ OnlyWorker

MarkProcessed(w) ==
  /\ worker[w].pc = "mark"
  /\ event' = [event EXCEPT ![J(w).event] = "processed"]
  /\ Goto(w, "complete")
  /\ UNCHANGED <<row, job, done>> /\ OnlyWorker

(* The last write to the audit row, then the queue is told.                *)
Report(w, pc, status) ==
  /\ worker[w].pc = pc
  /\ row' = [row EXCEPT ![J(w).row].status = status]
  /\ Goto(w, IF pc = "failed" THEN "thrown" ELSE IF pc = "review" THEN "unrecoverable" ELSE "returned")
  /\ UNCHANGED <<event, job, done>> /\ OnlyWorker

BugMarkFailed(w) ==  \* only an unrecoverable failure is reported
  /\ worker[w].pc \in {"retryable", "manual"}
  /\ event' = IF worker[w].pc = "manual" THEN [event EXCEPT ![J(w).event] = "failed"] ELSE event
  /\ Goto(w, IF worker[w].pc = "manual" THEN "review" ELSE "failed")
  /\ UNCHANGED <<row, job, done>> /\ OnlyWorker

MarkFailed(w) ==
  /\ worker[w].pc \in {"retryable", "manual"}
  /\ event' = [event EXCEPT ![J(w).event] = "failed"]
  /\ Goto(w, IF worker[w].pc = "manual" THEN "review" ELSE "failed")
  /\ UNCHANGED <<row, job, done>> /\ OnlyWorker

BugFinish(w) ==  \* a job that needs review is retried like any other
  /\ worker[w].pc \in {"returned", "thrown", "unrecoverable"}
  /\ job' = [job EXCEPT ![worker[w].job].made = @ + 1,
               ![worker[w].job].state = IF worker[w].pc = "returned" THEN "completed"
                                        ELSE IF J(w).made + 1 < Attempts THEN "waiting" ELSE "failed"]
  /\ worker' = [worker EXCEPT ![w] = Off]
  /\ UNCHANGED <<event, row, done>> /\ OnlyWorker

Finish(w) ==
  /\ worker[w].pc \in {"returned", "thrown", "unrecoverable"}
  /\ job' = [job EXCEPT ![worker[w].job].made = @ + 1,
               ![worker[w].job].state = IF worker[w].pc = "returned" THEN "completed"
                                        ELSE IF worker[w].pc = "thrown" /\ J(w).made + 1 < Attempts THEN "waiting" ELSE "failed"]
  /\ worker' = [worker EXCEPT ![w] = Off]
  /\ UNCHANGED <<event, row, done>> /\ OnlyWorker

(* The process of a worker dies; the queue notices (maxStalledCount 1).    *)
Stall(w) ==
  /\ worker[w].pc # "idle" /\ stalls < env.stalls
  /\ stalls' = stalls + 1
  /\ job' = [job EXCEPT ![worker[w].job].stalled = TRUE, ![worker[w].job].state = IF @ = "active" /\ ~J(w).stalled THEN "waiting" ELSE "failed"]
  /\ worker' = [worker EXCEPT ![w] = Off]
  /\ UNCHANGED <<event, row, enabled, caller, done, answered, lost, toggles>>

Call(c) == CreateRow(c) \/ AddJob(c) \/ Attach(c) \/ Replaced(c)
Work(w) ==
  \/ Start(w) \/ Gate(w) \/ Ignore(w) \/ RunJob(w) \/ MarkProcessed(w) \/ MarkFailed(w) \/ Finish(w)
  \/ Report(w, "skip", "skipped") \/ Report(w, "complete", "completed")
  \/ Report(w, "failed", "failed") \/ Report(w, "review", "manual_review")
TakeAny(w) == \E j \in DOMAIN job : Take(w, j)

Unattended ==
  \/ Toggle
  \/ \E c \in env.callers : Call(c) \/ LoseCaller(c) \/ \E e \in Events : Deliver(c, e)
  \/ \E w \in env.workers : TakeAny(w) \/ Work(w) \/ Stall(w)

Admin ==
  /\ env.admins
  /\ \/ \E c \in env.callers, e \in Events : Replay(c, e)
     \/ \E c \in env.callers, r \in DOMAIN row : RetryRow(c, r)
     \/ \E r \in DOMAIN row : CancelRow(r) \/ ResolveRow(r)

Next ==
  /\ Unattended \/ Admin
  /\ UNCHANGED env

Spec == Init /\ [][Next]_vars

(* Handlers and workers that do not die go on, and the queue serves its    *)
(* jobs.                                                                   *)
FairSpec ==
  /\ Spec
  /\ \A c \in Callers : WF_state(c \in env.callers /\ Call(c))
  /\ \A w \in Workers : WF_state(w \in env.workers /\ (TakeAny(w) \/ Work(w)))
-----------------------------------------------------------------------------
(* A job whose direction was disabled all the time since a worker took it  *)
(* is never applied, whenever it was queued: retries, webhook replays and  *)
(* admin retries are gated like first runs                                 *)
(* (worker.ts:152-175, docs/order-inventory-sync.md:36).                   *)
DisabledIsObeyed == [][\A w \in Workers : worker[w].pc = "run" /\ worker'[w].pc = "mark" => worker[w].ok]_vars

(* An event is shown as processed only if it was applied: neither a        *)
(* skipped, a failed nor a recovered job may turn it to processed          *)
(* (worker.ts:172-174, 423-424; src/worker.ts:42-50).                    *)
ProcessedIsApplied == \A e \in Events : event[e] = "processed" => done[e] > 0

(* A job waits for an attempt only while its audit row says so: a job that *)
(* ended completed, skipped or in review is not run again, even if the row *)
(* was resolved, retried or cancelled meanwhile (src/worker.ts:36-50);   *)
(* only a job recovered from a dead worker may repeat reported work.       *)
RowTellsJob ==
  \A j \in DOMAIN job : job[j].state = "waiting" /\ ~job[j].stalled
    => row[job[j].row].status \in {"pending", "failed", "cancelled"}

(* What the code leaves behind for an administrator.  A handler lost       *)
(* between storing the event and queueing its job: every later delivery of *)
(* it is a duplicate, which is acknowledged and queues nothing             *)
(* (shopify/webhooks.ts:79).  And a job whose worker died a second time:   *)
(* the queue fails it, and nothing listens for that (src/worker.ts:13-60). *)
NeverQueued(e) == lost > 0 /\ (\A c \in Callers : caller[c].event # e) /\ \A j \in DOMAIN job : job[j].event # e
DiedTwice(e) == stalls > 1 /\ \E j \in DOMAIN job : job[j].event = e /\ job[j].stalled /\ job[j].state = "failed"

(* An event whose delivery was stored ends processed, ignored or failed,   *)
(* whatever handlers and workers die, unless its handler died before the   *)
(* job was queued or its worker died twice: those two, and no other        *)
(* sequence of losses, leave it `received` for good.                       *)
StoredIsSettled ==
  \A e \in Events : event[e] = "received" /\ ~env.admins ~>
    event[e] \in Settled \/ NeverQueued(e) \/ DiedTwice(e)

(* An event is queued once, however often the provider delivers it         *)
(* (repositories/webhooks.ts:14-17, shopify/webhooks.ts:79); only an       *)
(* administrator adds further jobs.                                        *)
Delivered == ~env.admins => \A r, q \in DOMAIN row : row[r].event = row[q].event => r = q

(* Event, audit row and queue job agree.                                   *)
RecordsAgree == ProcessedIsApplied /\ RowTellsJob /\ Delivered
=============================================================================

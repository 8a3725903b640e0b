------------------------------- MODULE Reconcile -------------------------------
(***************************************************************************)
(* Inventory reconciliation: a chain of jobs, one per page of KiotViet's   *)
(* inventory list.  The hourly scheduler adds root jobs that get their     *)
(* audit row (sync_jobs) from the worker; administrators start or repeat   *)
(* chains through enqueueJob; a page's job publishes the next page before  *)
(* it reports its own errors.  admitInventoryReconciliation, a transaction *)
(* under one advisory lock, lets only the chain of the oldest active row   *)
(* go on.                                                                  *)
(*                                                                         *)
(* What a page does to stock is InventorySync; the settings gate and the   *)
(* event log are in JobQueue.  A chain is named after its root row.  Rows  *)
(* from before chains existed (legacy-inventory) are left out.             *)
(*                                                                         *)
(* Definitions named Bug... are wrong variants of the one that follows.    *)
(***************************************************************************)
EXTENDS Naturals, Sequences

CONSTANTS
  Workers, Admins,
  Pages,       \* pages of the inventory list
  Environments \* workers, attempts (JOB_MAX_ATTEMPTS), hasty (administrators also retry rows
               \*   whose job is still to run) and bounds: tick and request (chains started
               \*   or retried), readFail, queueFail, lostAnswer, crash (faults)

ASSUME ReconcileAssumption ==
  /\ Pages \in Nat \ {0} /\ Workers \cap Admins = {}
  /\ \A e \in Environments :
       /\ e.workers \subseteq Workers /\ e.attempts \in Nat \ {0} /\ e.hasty \in BOOLEAN
       /\ {e.tick, e.request, e.readFail, e.queueFail, e.lostAnswer, e.crash} \subseteq Nat

VARIABLES
  env,    \* the environment of the behaviour, chosen once
  row,    \* audit rows in the order of created_at
  job,    \* queue jobs
  proc,   \* local state of each worker and administrator request
  scanned, \* ghost: pages <<chain, page>> whose items were synchronized
  used     \* how often each bounded event happened

state == <<row, job, proc, scanned, used>>
vars == <<env, state>>

Bounded == {"tick", "request", "readFail", "queueFail", "lostAnswer", "crash"}
Use(e) == used[e] < env[e] /\ used' = [used EXCEPT ![e] = @ + 1]

Procs == Workers \cup Admins
Idle == [pc |-> "idle", job |-> 0, row |-> 0, errors |-> "none", old |-> 0]

Init ==
  /\ env \in Environments
  /\ row = <<>> /\ job = <<>>
  /\ proc = [x \in Procs |-> Idle]
  /\ scanned = {}
  /\ used = [e \in Bounded |-> 0]
-----------------------------------------------------------------------------
(* admitInventoryReconciliation                                            *)
Active(r) ==
  \/ row[r].status \in {"pending", "processing"}
  \/ row[r].status = "failed" /\ row[r].attempts < row[r].max
ActiveRows == {r \in DOMAIN row : Active(r)}
Oldest == CHOOSE r \in ActiveRows : \A q \in ActiveRows : r <= q

BugOpenTo(chain) == TRUE  \* chains do not exclude each other
OpenTo(chain) == ActiveRows # {} => row[Oldest].chain = chain

BugHandedOff(chain, page) == FALSE  \* a retried parent hands its next page off again
(* A page already handed off; a failed publication does not count.         *)
HandedOff(chain, page) ==
  \E r \in DOMAIN row :
    /\ row[r].chain = chain /\ row[r].page = page
    /\ ~(row[r].status = "manual_review" /\ row[r].attempts = 0 /\ row[r].queued = 0)

NewRow(chain, page) ==
  [chain |-> chain, page |-> page, status |-> "pending", attempts |-> 0, max |-> env.attempts, queued |-> 0]

Stay(x, pc) == proc' = [proc EXCEPT ![x].pc = pc]
Quiet == UNCHANGED <<scanned, used>>

(* After the job was published, or not: the page's own errors decide.      *)
Outcome(x) == IF x \in Admins THEN IF proc[x].old = 0 THEN "idle" ELSE "cancel" ELSE proc[x].errors

(* enqueueJob: admission of a page of a chain (0: a new chain)             *)
Admission(x, chain, page) ==
  /\ LET c == IF chain = 0 THEN Len(row) + 1 ELSE chain
     IN IF OpenTo(c) /\ (page > 0 => ~HandedOff(c, page))
        THEN /\ row' = Append(row, NewRow(c, page))
             /\ proc' = [proc EXCEPT ![x].pc = "add", ![x].row = Len(row) + 1]
        ELSE UNCHANGED row /\ Stay(x, Outcome(x))
  /\ UNCHANGED <<job, scanned>>

(* BullMQ: page jobs have an id made of chain and page, and the job that   *)
(* has it already is returned instead of a new one.                        *)
JobOf(r) == {j \in DOMAIN job : row[r].page > 0 /\ job[j].chain = row[r].chain /\ job[j].page = row[r].page}
NewJob(r) ==
  [row |-> r, chain |-> row[r].chain, page |-> row[r].page, max |-> env.attempts, made |-> 0, state |-> "waiting", stalled |-> FALSE]

(* enqueueJob throws: the request or the job's attempt fails.              *)
Refuse(x) == proc' = [proc EXCEPT ![x] = IF x \in Admins THEN Idle ELSE [@ EXCEPT !.pc = "retry"]]

AddNew(x) ==
  /\ proc[x].pc = "add" /\ JobOf(proc[x].row) = {}
  /\ job' = Append(job, NewJob(proc[x].row))
  /\ Stay(x, "attach")
  /\ UNCHANGED row /\ Quiet

AddKnown(x) ==  \* deduplicated: the new audit row is completed
  /\ proc[x].pc = "add" /\ JobOf(proc[x].row) # {}
  /\ row' = [row EXCEPT ![proc[x].row].status = "completed"]
  /\ Stay(x, Outcome(x))
  /\ UNCHANGED job /\ Quiet

BugAddFails(x) ==  \* the admission is not released
  /\ proc[x].pc = "add" /\ Use("queueFail")
  /\ Refuse(x)
  /\ UNCHANGED <<row, job, scanned>>

AddFails(x) ==  \* Redis refuses the job: the admission is released
  /\ proc[x].pc = "add" /\ Use("queueFail")
  /\ row' = [row EXCEPT ![proc[x].row].status = "manual_review"]
  /\ Refuse(x)
  /\ UNCHANGED <<job, scanned>>

AddAnswerLost(x) ==  \* the same, but Redis took the job
  /\ proc[x].pc = "add" /\ JobOf(proc[x].row) = {} /\ Use("lostAnswer")
  /\ job' = Append(job, NewJob(proc[x].row))
  /\ row' = [row EXCEPT ![proc[x].row].status = "manual_review"]
  /\ Refuse(x)
  /\ UNCHANGED scanned

Attach(x) ==
  /\ proc[x].pc = "attach"
  /\ row' = [row EXCEPT ![proc[x].row].queued = CHOOSE j \in DOMAIN job : job[j].row = proc[x].row]
  /\ Stay(x, Outcome(x))
  /\ UNCHANGED job /\ Quiet

Publish(x) == AddNew(x) \/ AddKnown(x) \/ AddFails(x) \/ AddAnswerLost(x) \/ Attach(x)
-----------------------------------------------------------------------------
(* Who starts chains                                                       *)
Tick ==  \* scheduler.ts: a job without audit row, one attempt
  /\ Use("tick")
  /\ job' = Append(job, [row |-> 0, chain |-> 0, page |-> 0, max |-> 1, made |-> 0, state |-> "waiting", stalled |-> FALSE])
  /\ UNCHANGED <<row, proc, scanned>>

StartChain(a) ==  \* POST /api/admin/sync/inventory, /reconcile
  /\ proc[a].pc = "idle" /\ Use("request")
  /\ Admission(a, 0, 0)

RetryReads(a, r) ==  \* POST /api/admin/jobs/[id] retry
  /\ proc[a].pc = "idle" /\ r \in DOMAIN row /\ Use("request")
  /\ env.hasty \/ ~Active(r)
  /\ proc' = [proc EXCEPT ![a] = [Idle EXCEPT !.pc = "again", !.old = r]]
  /\ UNCHANGED <<row, job, scanned>>

RetryAdmits(a) ==
  /\ proc[a].pc = "again"
  /\ Admission(a, row[proc[a].old].chain, row[proc[a].old].page)
  /\ UNCHANGED used

RetryCancels(a) ==  \* the row that was retried
  /\ proc[a].pc = "cancel"
  /\ row' = [row EXCEPT ![proc[a].old].status = "cancelled"]
  /\ proc' = [proc EXCEPT ![a] = Idle]
  /\ UNCHANGED job /\ Quiet

Administrator(a) ==
  \/ StartChain(a) \/ RetryAdmits(a) \/ RetryCancels(a) \/ Publish(a)
  \/ \E r \in DOMAIN row : RetryReads(a, r)
-----------------------------------------------------------------------------
(* A worker runs a job                                                     *)
J(w) == job[proc[w].job]

Take(w, j) ==
  /\ proc[w].pc = "idle" /\ j \in DOMAIN job /\ job[j].state = "waiting"
  /\ job' = [job EXCEPT ![j].state = "active"]
  /\ proc' = [proc EXCEPT ![w] = [Idle EXCEPT !.pc = "row", !.job = j]]
  /\ UNCHANGED row /\ Quiet

FindRow(w) ==  \* the job's audit row, known to the job or by the job's id
  /\ proc[w].pc = "row"
  /\ \/ J(w).row # 0 /\ UNCHANGED job
     \/ /\ J(w).row = 0
        /\ \E r \in DOMAIN row : row[r].queued = proc[w].job /\ job' = [job EXCEPT ![proc[w].job].row = r]
  /\ Stay(w, "start")
  /\ UNCHANGED row /\ Quiet

CreateRow(w) ==
  /\ proc[w].pc = "row" /\ J(w).row = 0
  /\ ~\E r \in DOMAIN row : row[r].queued = proc[w].job
  /\ row' = Append(row, NewRow(Len(row) + 1, 0))
  /\ proc' = [proc EXCEPT ![w].pc = "own", ![w].row = Len(row) + 1]
  /\ UNCHANGED job /\ Quiet

OwnRow(w) ==
  /\ proc[w].pc = "own"
  /\ row' = [row EXCEPT ![proc[w].row].queued = proc[w].job]
  /\ Stay(w, "row")
  /\ UNCHANGED job /\ Quiet

Start(w) ==
  /\ proc[w].pc = "start"
  /\ row' = [row EXCEPT ![J(w).row].status = "processing", ![J(w).row].max = J(w).max, ![J(w).row].attempts = J(w).made + 1]
  /\ Stay(w, "admit")
  /\ UNCHANGED job /\ Quiet

MyChain(w) == row[J(w).row].chain

Admit(w) ==
  /\ proc[w].pc = "admit"
  /\ Stay(w, IF OpenTo(MyChain(w)) THEN "scan" ELSE "none")
  /\ UNCHANGED <<row, job>> /\ Quiet

ReadFails(w) ==  \* no page, or one that makes no progress
  /\ proc[w].pc = "scan" /\ Use("readFail")
  /\ Stay(w, "retry")
  /\ UNCHANGED <<row, job, scanned>>

BugScan(w) ==  \* a page with errors ends before it hands the next page off
  /\ proc[w].pc = "scan"
  /\ scanned' = scanned \cup {<<MyChain(w), row[J(w).row].page>>}
  /\ \E e \in {"none", "retry", "manual"} :
       proc' = [proc EXCEPT ![w].errors = e, ![w].pc = IF e = "none" /\ row[J(w).row].page + 1 < Pages THEN "publish" ELSE e]
  /\ UNCHANGED <<row, job, used>>

(* Errors of single products are collected.                                *)
Scan(w) ==
  /\ proc[w].pc = "scan"
  /\ scanned' = scanned \cup {<<MyChain(w), row[J(w).row].page>>}
  /\ \E e \in {"none", "retry", "manual"} :
       proc' = [proc EXCEPT ![w].errors = e, ![w].pc = IF row[J(w).row].page + 1 < Pages THEN "publish" ELSE e]
  /\ UNCHANGED <<row, job, used>>

NextPage(w) ==
  /\ proc[w].pc = "publish"
  /\ Admission(w, MyChain(w), row[J(w).row].page + 1)
  /\ UNCHANGED used

Report(w, pc, status) ==
  /\ proc[w].pc = pc
  /\ row' = [row EXCEPT ![J(w).row].status = status]
  /\ proc' = [proc EXCEPT ![w].pc = "reported", ![w].errors = pc]
  /\ UNCHANGED job /\ Quiet

Finish(w) ==
  /\ proc[w].pc = "reported"
  /\ job' = [job EXCEPT ![proc[w].job].made = @ + 1,
               ![proc[w].job].state = IF proc[w].errors = "none" THEN "completed"
                                      ELSE IF proc[w].errors = "retry" /\ J(w).made + 1 < J(w).max THEN "waiting" ELSE "failed"]
  /\ proc' = [proc EXCEPT ![w] = Idle]
  /\ UNCHANGED row /\ Quiet

(* A process dies; its job is handed out once more.                        *)
Crash(x) ==
  /\ proc[x].pc # "idle" /\ Use("crash")
  /\ job' = [j \in DOMAIN job |-> IF j # proc[x].job THEN job[j]
               ELSE [job[j] EXCEPT !.stalled = TRUE, !.state = IF job[j].stalled THEN "failed" ELSE "waiting"]]
  /\ proc' = [proc EXCEPT ![x] = Idle]
  /\ UNCHANGED <<row, scanned>>

TakeAny(w) == \E j \in DOMAIN job : Take(w, j)
Work(w) ==
  \/ FindRow(w) \/ CreateRow(w) \/ OwnRow(w) \/ Start(w) \/ Admit(w)
  \/ ReadFails(w) \/ Scan(w) \/ NextPage(w) \/ Publish(w)
  \/ Report(w, "none", "completed") \/ Report(w, "retry", "failed") \/ Report(w, "manual", "manual_review")
  \/ Finish(w)

Step ==
  \/ Tick
  \/ \E a \in Admins : Administrator(a)
  \/ \E w \in env.workers : TakeAny(w) \/ Work(w)
  \/ \E x \in Procs : Crash(x)

Next == Step /\ UNCHANGED env

Spec == Init /\ [][Next]_vars

(* Requests and jobs that do not die go on; the queue serves its jobs.     *)
FairSpec ==
  /\ Spec
  /\ \A a \in Admins : WF_state(RetryAdmits(a) \/ RetryCancels(a) \/ Publish(a))
  /\ \A w \in Workers : WF_state(w \in env.workers /\ (TakeAny(w) \/ Work(w)))
-----------------------------------------------------------------------------
Scanning == {MyChain(w) : w \in {x \in Workers : proc[x].pc \in {"scan", "publish"}}}

(* Two chains never scan the inventory at the same time                    *)
(* (inventory-reconciliation.ts:9-10: "Audit rows cover the entire chain,  *)
(* including delayed retries and queued pages. Admission is serialized     *)
(* across scheduler, API, and worker processes."): it holds for chains     *)
(* administrators start, through delayed retries and refused publications. *)
(* It needs a row for every job that may run: scheduler jobs get theirs    *)
(* late, a dead process or a lost answer leaves a job without an active    *)
(* row, and so does retrying a row whose job is still to run.              *)
RowsCoverJobs == {env.tick, env.crash, env.lostAnswer} = {0} /\ ~env.hasty
OneChain == RowsCoverJobs => \A c, d \in Scanning : c = d

(* A page after the first runs for one audit row of its chain: another row *)
(* never ran and never will, whoever retries the parent or the page itself,*)
(* as long as a refused publication was refused                            *)
(* (inventory-reconciliation.ts:35-36).                                    *)
PageOnce == env.lostAnswer = 0 =>
  \A r, q \in DOMAIN row :
    r # q /\ row[r].page > 0 /\ row[r].chain = row[q].chain /\ row[r].page = row[q].page
      => \E s \in {r, q} : ~Active(s) /\ row[s].attempts = 0

(* A failing product does not end the chain: the page after each scanned   *)
(* page is scanned too (reconciliation.ts:39-43).                          *)
Faultless == {env.readFail, env.queueFail, env.lostAnswer, env.crash} = {0}
ChainGoesOn ==
  Faultless => []<>(\A s \in scanned : s[2] + 1 < Pages => <<s[1], s[2] + 1>> \in scanned)

(* A chain that was admitted ends: when nobody starts another one, no      *)
(* audit row stays active and keeps every later chain out                  *)
(* (queues.ts:72-75, test "releases an admission when queue publication    *)
(* fails").                                                                *)
AdmissionsEnd == env.crash = 0 => <>[](ActiveRows = {})

(* A chain goes on to its last page, and ends: both of the above.          *)
ChainsFinish == ChainGoesOn /\ AdmissionsEnd
=============================================================================

------------------------- MODULE InvoiceOutboxProofs -------------------------
(***************************************************************************)
(* Theorems about InvoiceOutbox: one run of an order at a time, no state   *)
(* evaluated twice, and no outcome forgotten, for any number of callers,   *)
(* workers, administrators, attempts, changes, faults and deaths.          *)
(***************************************************************************)
EXTENDS InvoiceOutbox, SequenceTheorems, TLAPS

Order == [ver : Nat, decision : Decisions]
Statuses == {"pending", "processing", "completed", "failed", "manual_review", "cancelled"}
JobStates == {"none", "waiting", "active", "completed", "failed"}
Row == [state : Nat \X Nat \X Nat, status : Statuses, attempts : Nat, queued : BOOLEAN]
Job == [state : JobStates, made : Nat, max : Nat, stalled : BOOLEAN]

RequestPcs == {"settings", "live", "block", "parkForGood", "admit", "park", "list", "add", "queued"}
RunPcs == {"read", "blocked", "index", "plan", "apply", "stock"}
ReportPcs == {"completed", "failed", "manual_review"}
OverPcs == {"threw", "returned", "gaveUp"}
JobPcs == {"start"} \cup RunPcs \cup ReportPcs \cup OverPcs
RetryPcs == {"claim", "retry"}
Local == [pc : {"idle"} \cup RequestPcs \cup JobPcs \cup RetryPcs, row : Nat, order : Order, settings : Nat,
          fresh : BOOLEAN, seen : JobStates]

Outer ==
  /\ env \in Environments
  /\ order \in Order /\ settings \in Nat /\ index \in BOOLEAN
  /\ inv \in {"none", "blocked", "deferred", "creating", "invoiced"} /\ checkAt \in {"due", "soon", "never"}
  /\ used \in [Bounded -> Nat]

TypeOK ==
  /\ Outer
  /\ row \in Seq(Row) /\ job \in Seq(Job) /\ DOMAIN job = DOMAIN row
  /\ proc \in [Procs -> Local]

(* Workers run jobs and nobody else does; a row somebody works on exists,  *)
(* and an administrator saw a job that was not running.                    *)
Placed == \A x \in Procs :
  /\ proc[x].pc \in JobPcs \cup {"add", "queued"} \cup RetryPcs => proc[x].row \in DOMAIN row
  /\ proc[x].pc \in RetryPcs => proc[x].seen \in {"none", "failed", "completed"}
  /\ proc[x].pc # "idle" => (x \in Workers <=> proc[x].pc \in JobPcs)

(* The unique index: one unfinished row per order.                         *)
OneOpen == \A r, q \in DOMAIN row : Unfinished(r) /\ Unfinished(q) => r = q

(* While Redis keeps its jobs and nobody cancels, an active job has one    *)
(* worker, and the row of a run is processing.                             *)
Undisturbed == env.wipe = 0 /\ (env.edit = 0 \/ env.admins = {})
Busy(w) == w \in Workers /\ proc[w].pc # "idle"
Single == Undisturbed =>
  /\ \A w \in Workers : Busy(w) => job[proc[w].row].state = "active"
  /\ \A v, w \in Workers : Busy(v) /\ Busy(w) /\ proc[v].row = proc[w].row => v = w
  /\ \A w \in Workers : proc[w].pc \in RunPcs \cup ReportPcs => row[proc[w].row].status = "processing"

(* While also nobody dies or retries, the attempts of a row are those of   *)
(* its job, and a row that used them all up is never run again.            *)
Quiet == env.admins = {} /\ env.stall = 0 /\ env.wipe = 0
Spent(r) == row[r].status = "failed" /\ row[r].attempts >= Attempts
Counted == Quiet =>
  /\ \A r \in DOMAIN row :
       /\ row[r].status # "cancelled" /\ job[r].max = Attempts
       /\ job[r].state = "none" => row[r].attempts = 0
       /\ job[r].state = "waiting" => row[r].attempts <= job[r].made /\ job[r].made < Attempts
  /\ \A w \in Workers : Busy(w) =>
       /\ job[proc[w].row].made < Attempts
       /\ row[proc[w].row].attempts <= job[proc[w].row].made + IF proc[w].pc = "start" THEN 0 ELSE 1

Once == Quiet => \A r, q \in DOMAIN row : row[r].state = row[q].state /\ r # q => Spent(r) \/ Spent(q)

OutboxInv == TypeOK /\ Placed /\ OneOpen /\ Single /\ Counted /\ Once

LEMMA InitOutbox == Init => OutboxInv
<1> SUFFICES ASSUME Init PROVE OutboxInv OBVIOUS
<1>1. Idle \in Local BY DEF Idle, Local, Order, Decisions, JobStates
<1>2. /\ proc \in [Procs -> Local] /\ \A x \in Procs : proc[x] = Idle
      /\ row \in Seq(Row) /\ job \in Seq(Job) /\ DOMAIN row = {} /\ DOMAIN job = {}
  BY <1>1 DEF Init
<1>3. Outer BY DEF Init, Outer, Order, Decisions
<1>4. \A x \in Procs : proc[x].pc = "idle" BY <1>2 DEF Idle
<1>5. Workers \subseteq Procs /\ "idle" \notin JobPcs \cup {"add", "queued"} \cup RetryPcs
  BY DEF Procs, JobPcs, RunPcs, ReportPcs, OverPcs, RetryPcs
<1> QED BY <1>2, <1>3, <1>4, <1>5 DEF OutboxInv, TypeOK, Placed, OneOpen, Single, Counted, Once, Busy, JobPcs
-----------------------------------------------------------------------------
LEMMA Typed ==
  ASSUME TypeOK
  PROVE  /\ Len(row) \in Nat /\ DOMAIN row = 1..Len(row) /\ \A r \in DOMAIN row : row[r] \in Row /\ r \in Nat
         /\ Len(job) = Len(row) /\ \A r \in DOMAIN row : r \in DOMAIN job /\ job[r] \in Job
<1>1. Len(row) \in Nat /\ DOMAIN row = 1..Len(row) /\ \A r \in DOMAIN row : row[r] \in Row /\ r \in Nat BY DEF TypeOK
<1>2. Len(job) \in Nat /\ DOMAIN job = 1..Len(job) /\ \A r \in DOMAIN job : job[r] \in Job BY DEF TypeOK
<1> QED BY <1>1, <1>2 DEF TypeOK

LEMMA Appended ==
  ASSUME NEW S, NEW s \in Seq(S), NEW e \in S
  PROVE  /\ Append(s, e) \in Seq(S) /\ DOMAIN Append(s, e) = DOMAIN s \cup {Len(s) + 1}
         /\ Len(s) + 1 \in Nat /\ Len(s) + 1 \notin DOMAIN s
         /\ \A q \in DOMAIN s : Append(s, e)[q] = s[q]
         /\ Append(s, e)[Len(s) + 1] = e
<1>1. DOMAIN s = 1..Len(s) /\ Len(s) \in Nat OBVIOUS
<1>2. DOMAIN Append(s, e) = 1..(Len(s) + 1) BY AppendProperties
<1>3. DOMAIN Append(s, e) = DOMAIN s \cup {Len(s) + 1} BY <1>1, <1>2
<1> QED BY <1>1, <1>3, AppendProperties

LEMMA Overwritten ==
  ASSUME NEW S, NEW s \in Seq(S), NEW i, i \in DOMAIN s, NEW e \in S
  PROVE  /\ [s EXCEPT ![i] = e] \in Seq(S) /\ DOMAIN [s EXCEPT ![i] = e] = DOMAIN s
         /\ [s EXCEPT ![i] = e][i] = e
         /\ \A q \in DOMAIN s \ {i} : [s EXCEPT ![i] = e][q] = s[q]
BY ExceptSeq

(* One row of the outbox changes, but not its state.                       *)
RowSet(r, v, n) ==
  /\ row' \in Seq(Row) /\ DOMAIN row' = DOMAIN row
  /\ \A q \in DOMAIN row : row'[q].state = row[q].state
  /\ \A q \in DOMAIN row \ {r} : row'[q] = row[q]
  /\ row'[r].status = v /\ row'[r].attempts = n

LEMMA RowIsSet ==
  ASSUME TypeOK, NEW r \in DOMAIN row, NEW v \in Statuses, NEW n \in Nat, NEW b \in BOOLEAN,
         NEW e, e = [row[r] EXCEPT !.status = v, !.attempts = n, !.queued = b], row' = [row EXCEPT ![r] = e]
  PROVE  RowSet(r, v, n)
<1>1. row \in Seq(Row) /\ r \in DOMAIN row BY DEF TypeOK
<1>2. e \in Row /\ e.state = row[r].state /\ e.status = v /\ e.attempts = n BY Typed DEF Row
<1>3. /\ [row EXCEPT ![r] = e] \in Seq(Row) /\ DOMAIN [row EXCEPT ![r] = e] = DOMAIN row
      /\ [row EXCEPT ![r] = e][r] = e
      /\ \A q \in DOMAIN row \ {r} : [row EXCEPT ![r] = e][q] = row[q]
  BY <1>1, <1>2, Overwritten
<1>4. row' \in Seq(Row) /\ DOMAIN row' = DOMAIN row /\ (\A q \in DOMAIN row \ {r} : row'[q] = row[q]) /\ row'[r] = e
  BY <1>3
<1>5. \A q \in DOMAIN row : row'[q].state = row[q].state BY <1>2, <1>4
<1> QED BY <1>2, <1>4, <1>5 DEF RowSet

LEMMA StatusIsSet ==
  ASSUME TypeOK, NEW r \in DOMAIN row, NEW v \in Statuses, row' = [row EXCEPT ![r].status = v]
  PROVE  RowSet(r, v, row[r].attempts)
<1> DEFINE e == [row[r] EXCEPT !.status = v]
<1>1. row[r] \in Row BY Typed
<1>2. row[r].attempts \in Nat /\ row[r].queued \in BOOLEAN BY <1>1 DEF Row
<1>3. e = [row[r] EXCEPT !.status = v, !.attempts = row[r].attempts, !.queued = row[r].queued] BY <1>1 DEF Row
<1>4. row' = [row EXCEPT ![r] = e] OBVIOUS
<1> HIDE DEF e
<1> QED BY <1>2, <1>3, <1>4, RowIsSet

(* One queue job changes.                                                  *)
JobSet(r) ==
  /\ job' \in Seq(Job) /\ DOMAIN job' = DOMAIN job
  /\ \A q \in DOMAIN job \ {r} : job'[q] = job[q]

LEMMA JobIsSet ==
  ASSUME TypeOK, NEW r \in DOMAIN row, NEW e \in Job, job' = [job EXCEPT ![r] = e]
  PROVE  JobSet(r) /\ job'[r] = e
<1>1. job \in Seq(Job) /\ r \in DOMAIN job /\ e \in Job BY DEF TypeOK
<1>2. /\ [job EXCEPT ![r] = e] \in Seq(Job) /\ DOMAIN [job EXCEPT ![r] = e] = DOMAIN job
      /\ [job EXCEPT ![r] = e][r] = e
      /\ \A q \in DOMAIN job \ {r} : [job EXCEPT ![r] = e][q] = job[q]
  BY <1>1, Overwritten
<1> QED BY <1>2 DEF JobSet

(* One process goes on.                                                    *)
Moves(x, pc) ==
  /\ proc' \in [Procs -> Local]
  /\ \A y \in Procs \ {x} : proc'[y] = proc[y]
  /\ proc'[x].pc = pc

Pcs == {"idle"} \cup RequestPcs \cup JobPcs \cup RetryPcs

LEMMA GotoMoves ==
  ASSUME TypeOK, NEW x \in Procs, NEW pc \in Pcs, Goto(x, pc)
  PROVE  Moves(x, pc) /\ proc'[x].row = proc[x].row /\ proc'[x].seen = proc[x].seen
BY DEF TypeOK, Goto, Moves, Local, Pcs

LEMMA SetMoves ==
  ASSUME TypeOK, NEW x \in Procs, NEW l \in Local, proc' = [proc EXCEPT ![x] = l]
  PROVE  Moves(x, l.pc) /\ proc'[x] = l
BY DEF TypeOK, Moves

LEMMA LeaveMoves ==
  ASSUME TypeOK, NEW x \in Procs, Leave(x)
  PROVE  Moves(x, "idle")
<1>1. Idle \in Local /\ Idle.pc = "idle" BY DEF Idle, Local, Order, Decisions, JobStates
<1> QED BY <1>1, SetMoves DEF Leave

LEMMA QuietIsUndisturbed == Quiet => Undisturbed
BY DEF Quiet, Undisturbed

LEMMA Disjoint ==
  /\ Workers \subseteq Procs /\ Callers \subseteq Procs \ Workers /\ Admins \subseteq Procs \ Workers
  /\ "idle" \notin JobPcs
BY OutboxAssumption DEF Procs, JobPcs, RunPcs, ReportPcs, OverPcs

(* What a request, an administrator or Redis does leaves the workers.      *)
Others(x) ==
  /\ proc' \in [Procs -> Local]
  /\ \A y \in Procs \ {x} : proc'[y] = proc[y]
  /\ proc'[x].pc \in {"idle"} \cup RequestPcs \cup RetryPcs
  /\ proc'[x].pc \in {"add", "queued"} \cup RetryPcs => proc'[x].row \in DOMAIN row'
  /\ proc'[x].pc \in RetryPcs => proc'[x].seen \in {"none", "failed", "completed"}

LEMMA OthersPlaced ==
  ASSUME Placed, NEW x \in Procs \ Workers, Others(x), DOMAIN row \subseteq DOMAIN row'
  PROVE  Placed'
<1> SUFFICES ASSUME NEW y \in Procs
             PROVE  /\ proc'[y].pc \in JobPcs \cup {"add", "queued"} \cup RetryPcs => proc'[y].row \in DOMAIN row'
                    /\ proc'[y].pc \in RetryPcs => proc'[y].seen \in {"none", "failed", "completed"}
                    /\ proc'[y].pc # "idle" => (y \in Workers <=> proc'[y].pc \in JobPcs)
  BY DEF Placed
<1>1. CASE y # x BY <1>1 DEF Placed, Others
<1>2. CASE y = x BY <1>2 DEF Others, JobPcs, RunPcs, ReportPcs, OverPcs, RequestPcs, RetryPcs
<1> QED BY <1>1, <1>2

LEMMA OthersLeave ==
  ASSUME NEW x \in Procs \ Workers, Others(x)
  PROVE  \A w \in Workers : proc'[w] = proc[w] /\ Busy(w)' = Busy(w)
BY Disjoint DEF Others, Busy

LEMMA RequestGoes ==
  ASSUME OutboxInv, Outer', NEW x \in Procs \ Workers, Others(x), UNCHANGED <<env, row, job>>
  PROVE  OutboxInv'
<1> USE DEF OutboxInv
<1>1. \A w \in Workers : proc'[w] = proc[w] /\ Busy(w)' = Busy(w) BY OthersLeave
<1>2. TypeOK' BY DEF TypeOK, Others
<1>3. Placed' BY OthersPlaced
<1>4. OneOpen' BY DEF OneOpen, Unfinished
<1>5. Single' BY <1>1 DEF Single, Undisturbed
<1>6. Counted' BY <1>1 DEF Counted, Quiet
<1>7. Once' BY DEF Once, Quiet, Spent
<1> QED BY <1>2, <1>3, <1>4, <1>5, <1>6, <1>7

(* A status that may be written to a row nobody runs.                      *)
Harmless(r, v) ==
  \/ v = row[r].status
  \/ ~Quiet /\ v = "pending" /\ \A q \in DOMAIN row : ~Unfinished(q)
  \/ ~Quiet /\ v \notin {"pending", "processing"} /\ row[r].status # "processing"

LEMMA RowWritten ==
  ASSUME OutboxInv, Outer', NEW x \in Procs \ Workers, Others(x), UNCHANGED <<env, job>>,
         NEW r \in DOMAIN row, NEW v, RowSet(r, v, row[r].attempts), Harmless(r, v)
  PROVE  OutboxInv'
<1> USE DEF OutboxInv
<1>1. \A w \in Workers : proc'[w] = proc[w] /\ Busy(w)' = Busy(w) BY OthersLeave
<1>2. /\ \A q \in DOMAIN row \ {r} : row'[q] = row[q]
      /\ \A q \in DOMAIN row : row'[q].state = row[q].state /\ row'[q].attempts = row[q].attempts
      /\ row'[r].status = v /\ DOMAIN row' = DOMAIN row
  BY DEF RowSet
<1>3. TypeOK' BY DEF TypeOK, Others, RowSet
<1>4. Placed' BY <1>2, OthersPlaced
<1>5. OneOpen' BY <1>2 DEF OneOpen, Unfinished, Harmless
<1>6. Single'
  <2> SUFFICES ASSUME Undisturbed PROVE Single' BY DEF Single, Undisturbed
  <2>1. \A w \in Workers : proc[w].pc \in RunPcs \cup ReportPcs => row'[proc[w].row].status = "processing"
    <3> SUFFICES ASSUME NEW w \in Workers, proc[w].pc \in RunPcs \cup ReportPcs
                 PROVE  row'[proc[w].row].status = "processing"
      OBVIOUS
    <3>1. row[proc[w].row].status = "processing" BY DEF Single
    <3>2. proc[w].row \in DOMAIN row BY Disjoint DEF Placed, JobPcs
    <3> QED BY <3>1, <3>2, <1>2 DEF Harmless, Unfinished
  <2> QED BY <1>1, <2>1 DEF Single, Undisturbed
<1>7. Counted' BY <1>1, <1>2, Disjoint DEF Counted, Quiet, Harmless, Placed, Busy
<1>8. Once' BY <1>2 DEF Once, Quiet, Spent, Harmless
<1> QED BY <1>3, <1>4, <1>5, <1>6, <1>7, <1>8

(* A job nobody runs changes, and waits if the row has attempts left.      *)
LEMMA JobWritten ==
  ASSUME OutboxInv, Outer', NEW x \in Procs \ Workers, Others(x), UNCHANGED <<env, row>>,
         NEW r \in DOMAIN row, JobSet(r), job[r].state # "active",
         Quiet => /\ row[r].attempts = 0 /\ job'[r].made = 0 /\ job'[r].max = Attempts
  PROVE  OutboxInv'
<1> USE DEF OutboxInv
<1>1. \A w \in Workers : proc'[w] = proc[w] /\ Busy(w)' = Busy(w) BY OthersLeave
<1>2. TypeOK' BY DEF TypeOK, Others, JobSet
<1>3. Placed' BY OthersPlaced
<1>4. OneOpen' BY DEF OneOpen, Unfinished
<1>5. Undisturbed => \A w \in Workers : Busy(w) => job'[proc[w].row] = job[proc[w].row]
  <2> SUFFICES ASSUME Undisturbed, NEW w \in Workers, Busy(w) PROVE job'[proc[w].row] = job[proc[w].row] OBVIOUS
  <2>1. proc[w].row # r BY DEF Single
  <2>2. proc[w].row \in DOMAIN job BY Disjoint DEF Placed, Busy, TypeOK
  <2> QED BY <2>1, <2>2 DEF JobSet
<1>6. Single' BY <1>1, <1>5 DEF Single, Undisturbed
<1>7. Counted'
  <2> SUFFICES ASSUME Quiet PROVE Counted' BY DEF Counted, Quiet
  <2>1. \A q \in DOMAIN row :
          /\ row[q].status # "cancelled" /\ job'[q].max = Attempts
          /\ job'[q].state = "none" => row[q].attempts = 0
          /\ job'[q].state = "waiting" => row[q].attempts <= job'[q].made /\ job'[q].made < Attempts
    BY OutboxAssumption DEF Counted, JobSet, TypeOK
  <2> QED BY <2>1, <1>1, <1>5, QuietIsUndisturbed DEF Counted, Quiet
<1>8. Once' BY DEF Once, Quiet, Spent
<1> QED BY <1>2, <1>3, <1>4, <1>6, <1>7, <1>8
-----------------------------------------------------------------------------
(* Workers.                                                                *)
LEMMA BusyRow ==
  ASSUME OutboxInv, NEW w \in Workers, Busy(w)
  PROVE  /\ w \in Procs /\ proc[w].pc \in JobPcs /\ proc[w].row \in DOMAIN row /\ proc[w].row \in DOMAIN job
         /\ row[proc[w].row] \in Row /\ job[proc[w].row] \in Job
<1>1. w \in Procs /\ TypeOK /\ Placed BY Disjoint DEF OutboxInv
<1>2. proc[w].pc \in JobPcs BY <1>1 DEF Placed, Busy
<1>3. proc[w].row \in DOMAIN row BY <1>1, <1>2 DEF Placed
<1> QED BY <1>1, <1>2, <1>3, Typed

(* A worker stays with its row.                                            *)
Stays(w, pc) == Moves(w, pc) /\ proc'[w].row = proc[w].row

LEMMA WorkerPlaced ==
  ASSUME Placed, NEW w \in Workers, NEW pc, Moves(w, pc),
         pc = "idle" \/ (pc \in JobPcs /\ proc'[w].row \in DOMAIN row), DOMAIN row' = DOMAIN row
  PROVE  Placed'
<1> SUFFICES ASSUME NEW y \in Procs
             PROVE  /\ proc'[y].pc \in JobPcs \cup {"add", "queued"} \cup RetryPcs => proc'[y].row \in DOMAIN row'
                    /\ proc'[y].pc \in RetryPcs => proc'[y].seen \in {"none", "failed", "completed"}
                    /\ proc'[y].pc # "idle" => (y \in Workers <=> proc'[y].pc \in JobPcs)
  BY DEF Placed
<1>1. CASE y # w BY <1>1 DEF Placed, Moves
<1>2. CASE y = w BY <1>2 DEF Moves, JobPcs, RunPcs, ReportPcs, OverPcs, RetryPcs
<1> QED BY <1>1, <1>2

LEMMA RunGoes ==
  ASSUME OutboxInv, Outer', NEW w \in Workers, Busy(w), NEW pc \in RunPcs \cup ReportPcs \cup OverPcs, Stays(w, pc),
         proc[w].pc \in RunPcs \/ pc \in OverPcs, UNCHANGED <<env, row, job>>
  PROVE  OutboxInv'
<1> USE DEF OutboxInv
<1>1. pc \in JobPcs /\ pc # "idle" /\ pc # "start" BY DEF JobPcs, RunPcs, ReportPcs, OverPcs
<1>2. /\ \A v \in Workers : Busy(v)' = Busy(v) /\ proc'[v].row = proc[v].row
      /\ \A v \in Workers \ {w} : proc'[v] = proc[v]
      /\ proc'[w].pc = pc
  BY <1>1, Disjoint DEF Busy, Stays, Moves
<1>3. TypeOK' BY DEF TypeOK, Stays, Moves
<1>4. Placed' BY <1>1, BusyRow, WorkerPlaced DEF Stays
<1>5. OneOpen' BY DEF OneOpen, Unfinished
<1>6. Single'
  <2>1. \A v \in Workers : proc'[v].pc \in RunPcs \cup ReportPcs => proc[v].pc \in RunPcs \cup ReportPcs
    BY <1>2 DEF RunPcs, ReportPcs, OverPcs
  <2> QED BY <1>2, <2>1 DEF Single, Undisturbed
<1>7. Counted'
  <2> SUFFICES ASSUME Quiet PROVE Counted' BY DEF Counted, Quiet
  <2>1. \A v \in Workers : Busy(v) =>
          row[proc[v].row].attempts <= job[proc[v].row].made + IF proc'[v].pc = "start" THEN 0 ELSE 1
    <3> SUFFICES ASSUME NEW v \in Workers, Busy(v)
                 PROVE  row[proc[v].row].attempts <= job[proc[v].row].made + IF proc'[v].pc = "start" THEN 0 ELSE 1
      OBVIOUS
    <3>1. row[proc[v].row].attempts \in Nat /\ job[proc[v].row].made \in Nat BY BusyRow DEF Row, Job
    <3>2. row[proc[v].row].attempts <= job[proc[v].row].made + IF proc[v].pc = "start" THEN 0 ELSE 1 BY DEF Counted
    <3> QED BY <3>1, <3>2, <1>1, <1>2
  <2> QED BY <1>2, <2>1 DEF Counted, Quiet
<1>8. Once' BY DEF Once, Quiet, Spent
<1> QED BY <1>3, <1>4, <1>5, <1>6, <1>7, <1>8

LEMMA TakeKeeps ==
  ASSUME OutboxInv, Outer', NEW w \in Workers, NEW r \in DOMAIN job, Take(w, r), UNCHANGED env
  PROVE  OutboxInv'
<1> USE DEF OutboxInv
<1> DEFINE e == [job[r] EXCEPT !.state = "active"]
           l == [Idle EXCEPT !.pc = "start", !.row = r]
<1>1. UNCHANGED row /\ proc[w].pc = "idle" /\ job[r].state = "waiting" /\ r \in DOMAIN row /\ r \in Nat
  BY Typed DEF Take, TypeOK
<1>2. job[r] \in Job BY <1>1, Typed
<1>3. /\ e \in Job /\ e.state = "active" /\ e.made = job[r].made /\ e.max = job[r].max
      /\ l \in Local /\ l.pc = "start" /\ l.row = r
  BY <1>1, <1>2 DEF Job, JobStates, Local, Idle, Order, Decisions, JobPcs
<1>4. job' = [job EXCEPT ![r] = e] /\ proc' = [proc EXCEPT ![w] = l] BY DEF Take
<1> HIDE DEF e, l
<1>5. JobSet(r) /\ job'[r] = e BY <1>1, <1>3, <1>4, JobIsSet
<1>6. Moves(w, "start") /\ proc'[w] = l
  <2>1. w \in Procs /\ TypeOK BY Disjoint
  <2>2. Moves(w, l.pc) /\ proc'[w] = l BY <2>1, <1>3, <1>4, SetMoves
  <2> QED BY <2>2, <1>3
<1>7. /\ DOMAIN job' = DOMAIN job /\ (\A q \in DOMAIN row \ {r} : job'[q] = job[q])
      /\ \A v \in Workers \ {w} : proc'[v] = proc[v] /\ Busy(v)' = Busy(v)
      /\ Busy(w)' /\ ~Busy(w)
  BY <1>1, <1>5, <1>6, Disjoint DEF JobSet, Moves, Busy, TypeOK
<1>8. TypeOK' BY <1>1, <1>5, <1>6 DEF TypeOK, JobSet, Moves
<1>9. Placed' BY <1>1, <1>3, <1>6, WorkerPlaced DEF JobPcs
<1>10. OneOpen' BY <1>1 DEF OneOpen, Unfinished
<1>11. Undisturbed => \A v \in Workers : Busy(v) => proc[v].row # r /\ job'[proc[v].row] = job[proc[v].row]
  <2> SUFFICES ASSUME Undisturbed, NEW v \in Workers, Busy(v)
               PROVE proc[v].row # r /\ job'[proc[v].row] = job[proc[v].row] OBVIOUS
  <2>1. proc[v].row # r BY <1>1 DEF Single
  <2> QED BY <2>1, <1>7, BusyRow
<1>12. Single'
  <2> SUFFICES ASSUME Undisturbed PROVE Single' BY <1>1 DEF Single, Undisturbed
  <2>1. \A v \in Workers : Busy(v)' => job'[proc'[v].row].state = "active" BY <1>3, <1>5, <1>6, <1>7, <1>11 DEF Single
  <2>2. \A u, v \in Workers : Busy(u)' /\ Busy(v)' /\ proc'[u].row = proc'[v].row => u = v
    BY <1>3, <1>6, <1>7, <1>11 DEF Single
  <2>3. \A v \in Workers : proc'[v].pc \in RunPcs \cup ReportPcs => v # w BY <1>6 DEF Moves, RunPcs, ReportPcs
  <2>4. \A v \in Workers : proc'[v].pc \in RunPcs \cup ReportPcs => row[proc'[v].row].status = "processing"
    BY <1>7, <2>3 DEF Single
  <2> QED BY <1>1, <2>1, <2>2, <2>4 DEF Single
<1>13. Counted'
  <2> SUFFICES ASSUME Quiet PROVE Counted' BY DEF Counted, Quiet
  <2>1. \A q \in DOMAIN row :
          /\ row[q].status # "cancelled" /\ job'[q].max = Attempts
          /\ job'[q].state = "none" => row[q].attempts = 0
          /\ job'[q].state = "waiting" => row[q].attempts <= job'[q].made /\ job'[q].made < Attempts
    BY <1>1, <1>3, <1>5, <1>7 DEF Counted
  <2>2. row[r].attempts <= job'[r].made /\ job'[r].made < Attempts BY <1>1, <1>3, <1>5 DEF Counted
  <2>3. row[r].attempts \in Nat /\ job'[r].made \in Nat BY <1>1, <1>2, <1>3, <1>5, Typed DEF Row, Job
  <2>4. \A v \in Workers \ {w} : Busy(v) =>
          /\ job'[proc[v].row].made < Attempts
          /\ row[proc[v].row].attempts <= job'[proc[v].row].made + IF proc[v].pc = "start" THEN 0 ELSE 1
    BY <1>11, QuietIsUndisturbed DEF Counted
  <2>5. /\ job'[proc'[w].row].made < Attempts
        /\ row[proc'[w].row].attempts <= job'[proc'[w].row].made + IF proc'[w].pc = "start" THEN 0 ELSE 1
    BY <1>3, <1>6, <2>2, <2>3
  <2>6. \A v \in Workers : Busy(v)' =>
          /\ job'[proc'[v].row].made < Attempts
          /\ row[proc'[v].row].attempts <= job'[proc'[v].row].made + IF proc'[v].pc = "start" THEN 0 ELSE 1
    BY <1>7, <2>4, <2>5
  <2> QED BY <1>1, <2>1, <2>6 DEF Counted
<1>14. Once' BY <1>1 DEF Once, Quiet, Spent
<1> QED BY <1>8, <1>9, <1>10, <1>12, <1>13, <1>14

(* A worker writes to the row of its job, starting or reporting it.        *)
LEMMA RunWrites ==
  ASSUME OutboxInv, Outer', NEW w \in Workers, Busy(w), NEW pc \in {"read"} \cup OverPcs, Stays(w, pc), UNCHANGED <<env, job>>,
         NEW v, NEW n \in Nat, RowSet(proc[w].row, v, n),
         pc = "read" => /\ v = "processing" /\ n = job[proc[w].row].made + 1 /\ proc[w].pc = "start"
                        /\ \A r \in DOMAIN row \ {proc[w].row} : ~Unfinished(r),
         pc # "read" => v \in ReportPcs /\ n = row[proc[w].row].attempts /\ proc[w].pc \in ReportPcs
  PROVE  OutboxInv'
<1> USE DEF OutboxInv
<1> DEFINE r == proc[w].row
<1>1. pc \in JobPcs /\ pc # "idle" /\ pc # "start" BY DEF JobPcs, RunPcs, OverPcs
<1>2. r \in DOMAIN row /\ row[r] \in Row /\ job[r] \in Job BY BusyRow
<1>3. /\ \A v0 \in Workers : Busy(v0)' = Busy(v0) /\ proc'[v0].row = proc[v0].row
      /\ \A v0 \in Workers \ {w} : proc'[v0] = proc[v0]
      /\ proc'[w].pc = pc
  BY <1>1, Disjoint DEF Busy, Stays, Moves
<1>4. /\ \A q \in DOMAIN row \ {r} : row'[q] = row[q]
      /\ \A q \in DOMAIN row : row'[q].state = row[q].state
      /\ row'[r].status = v /\ row'[r].attempts = n /\ DOMAIN row' = DOMAIN row
  BY DEF RowSet
<1>5. v \in {"processing", "completed", "failed", "manual_review"} BY DEF ReportPcs
<1> HIDE DEF r
<1>6. TypeOK' BY DEF TypeOK, Stays, Moves, RowSet
<1>7. Placed' BY <1>1, <1>2, <1>4, WorkerPlaced DEF Stays, r
<1>8. OneOpen'
  <2>1. CASE pc = "read" BY <2>1, <1>4 DEF OneOpen, Unfinished, r
  <2>2. CASE pc # "read" BY <2>2, <1>4 DEF OneOpen, Unfinished, ReportPcs
  <2> QED BY <2>1, <2>2
<1>9. Single'
  <2> SUFFICES ASSUME Undisturbed PROVE Single' BY DEF Single, Undisturbed
  <2>1. \A v0 \in Workers \ {w} : proc[v0].pc \in RunPcs \cup ReportPcs => row'[proc[v0].row].status = "processing"
    <3> SUFFICES ASSUME NEW v0 \in Workers \ {w}, proc[v0].pc \in RunPcs \cup ReportPcs
                 PROVE  row'[proc[v0].row].status = "processing"
      OBVIOUS
    <3>1. Busy(v0) BY DEF Busy, RunPcs, ReportPcs
    <3>2. proc[v0].row # r /\ row[proc[v0].row].status = "processing" BY <3>1 DEF Single, r
    <3> QED BY <3>1, <3>2, <1>4, BusyRow
  <2>2. pc \in RunPcs \cup ReportPcs => row'[proc[w].row].status = "processing"
    BY <1>4 DEF RunPcs, ReportPcs, OverPcs, r
  <2>3. \A v0 \in Workers : proc'[v0].pc \in RunPcs \cup ReportPcs => row'[proc'[v0].row].status = "processing"
    BY <1>3, <2>1, <2>2
  <2> QED BY <1>3, <2>3 DEF Single
<1>10. Quiet => /\ job[r].made < Attempts /\ n <= job[r].made + 1 /\ ~Spent(r)
                /\ \A v0 \in Workers \ {w} : Busy(v0) => proc[v0].row # r
  <2> SUFFICES ASSUME Quiet
               PROVE  /\ job[r].made < Attempts /\ n <= job[r].made + 1 /\ ~Spent(r)
                      /\ \A v0 \in Workers \ {w} : Busy(v0) => proc[v0].row # r
    OBVIOUS
  <2>1. /\ job[r].made < Attempts
        /\ row[r].attempts <= job[r].made + IF proc[w].pc = "start" THEN 0 ELSE 1
    BY DEF Counted, r
  <2>2. job[r].made \in Nat /\ row[r].attempts \in Nat BY <1>2 DEF Job, Row
  <2>3. \A v0 \in Workers \ {w} : Busy(v0) => proc[v0].row # r BY QuietIsUndisturbed DEF Single, r
  <2>4. CASE pc = "read" BY <2>1, <2>2, <2>3, <2>4, OutboxAssumption DEF r, Spent
  <2>5. CASE pc # "read"
    <3>1. row[r].status = "processing" BY <2>5, QuietIsUndisturbed DEF Single, r
    <3>2. proc[w].pc # "start" BY <2>5 DEF ReportPcs
    <3> QED BY <2>1, <2>2, <2>3, <2>5, <3>1, <3>2 DEF r, Spent
  <2> QED BY <2>4, <2>5
<1>11. Counted'
  <2> SUFFICES ASSUME Quiet PROVE Counted' BY DEF Counted, Quiet
  <2>1. job[r].state = "active" BY QuietIsUndisturbed DEF Single, r
  <2>2. \A q \in DOMAIN row :
          /\ row'[q].status # "cancelled" /\ job[q].max = Attempts
          /\ job[q].state = "none" => row'[q].attempts = 0
          /\ job[q].state = "waiting" => row'[q].attempts <= job[q].made /\ job[q].made < Attempts
    BY <2>1, <1>2, <1>4, <1>5 DEF Counted
  <2>3. \A v0 \in Workers \ {w} : Busy(v0) =>
          /\ job[proc[v0].row].made < Attempts
          /\ row'[proc[v0].row].attempts <= job[proc[v0].row].made + IF proc[v0].pc = "start" THEN 0 ELSE 1
    BY <1>4, <1>10, BusyRow DEF Counted
  <2>4. \A v0 \in Workers : Busy(v0) =>
          /\ job[proc[v0].row].made < Attempts
          /\ row'[proc[v0].row].attempts <= job[proc[v0].row].made + IF proc'[v0].pc = "start" THEN 0 ELSE 1
    BY <2>3, <1>1, <1>3, <1>4, <1>10 DEF r
  <2> QED BY <2>2, <2>4, <1>3, <1>4 DEF Counted
<1>12. Once'
  <2> SUFFICES ASSUME Quiet PROVE Once' BY DEF Once, Quiet
  <2>1. \A q \in DOMAIN row : Spent(q) => Spent(q)' BY <1>4, <1>10 DEF Spent
  <2> QED BY <2>1, <1>4 DEF Once
<1> QED BY <1>6, <1>7, <1>8, <1>9, <1>11, <1>12

(* A worker is off; its job waits only if it has attempts left.            *)
LEMMA RunEnds ==
  ASSUME OutboxInv, Outer', NEW w \in Workers, Busy(w), Moves(w, "idle"), UNCHANGED <<env, row>>, JobSet(proc[w].row),
         Quiet => LET j == job[proc[w].row]  e == job'[proc[w].row] IN
                  /\ e.max = j.max /\ e.state # "none"
                  /\ e.state = "waiting" => e.made = j.made + 1 /\ e.made < j.max
  PROVE  OutboxInv'
<1> USE DEF OutboxInv
<1> DEFINE r == proc[w].row
<1>1. r \in DOMAIN row /\ row[r] \in Row /\ job[r] \in Job BY BusyRow
<1>2. \A v \in Workers : Busy(v)' => v # w /\ Busy(v) /\ proc'[v] = proc[v] BY Disjoint DEF Moves, Busy
<1>3. \A q \in DOMAIN row \ {r} : job'[q] = job[q] BY DEF JobSet, TypeOK
<1>4. TypeOK' BY DEF TypeOK, JobSet, Moves
<1>5. Placed' BY WorkerPlaced
<1>6. OneOpen' BY DEF OneOpen, Unfinished
<1> HIDE DEF r
<1>7. Undisturbed => \A v \in Workers : Busy(v)' => job'[proc[v].row] = job[proc[v].row]
  <2> SUFFICES ASSUME Undisturbed, NEW v \in Workers, Busy(v)' PROVE job'[proc[v].row] = job[proc[v].row] OBVIOUS
  <2>1. v # w /\ Busy(v) BY <1>2
  <2>2. proc[v].row # r BY <2>1 DEF Single, r
  <2> QED BY <2>1, <2>2, <1>3, BusyRow
<1>8. \A v \in Workers : proc'[v].pc # "idle" => Busy(v)' BY DEF Busy
<1>9. Single'
  <2> SUFFICES ASSUME Undisturbed PROVE Single' BY DEF Single, Undisturbed
  <2>1. \A v \in Workers : proc'[v].pc \in RunPcs \cup ReportPcs => Busy(v)' BY <1>8 DEF RunPcs, ReportPcs
  <2> QED BY <1>2, <1>7, <2>1 DEF Single
<1>10. Counted'
  <2> SUFFICES ASSUME Quiet PROVE Counted' BY DEF Counted, Quiet
  <2>1. row[r].attempts \in Nat /\ job[r].made \in Nat BY <1>1 DEF Row, Job
  <2>2. row[r].attempts <= job[r].made + 1 BY <2>1 DEF Counted, r
  <2>3. /\ job'[r].max = Attempts /\ job'[r].state # "none"
        /\ job'[r].state = "waiting" => row[r].attempts <= job'[r].made /\ job'[r].made < Attempts
    BY <1>1, <2>1, <2>2 DEF Counted, r
  <2>4. \A q \in DOMAIN row :
          /\ row[q].status # "cancelled" /\ job'[q].max = Attempts
          /\ job'[q].state = "none" => row[q].attempts = 0
          /\ job'[q].state = "waiting" => row[q].attempts <= job'[q].made /\ job'[q].made < Attempts
    BY <2>3, <1>3 DEF Counted
  <2> QED BY <2>4, <1>2, <1>7, QuietIsUndisturbed DEF Counted
<1>11. Once' BY DEF Once, Quiet, Spent
<1> QED BY <1>4, <1>5, <1>6, <1>9, <1>10, <1>11
-----------------------------------------------------------------------------
(* The types of what the order, the index and the counters are.            *)
LEMMA UseKeeps == ASSUME NEW e \in Bounded, Use(e), Outer PROVE used' \in [Bounded -> Nat]
BY DEF Use, Outer

LEMMA OuterKept ==
  ASSUME TypeOK, Next
  PROVE  Outer'
<1>1. Outer /\ UNCHANGED env BY DEF TypeOK, Next
<1>2. \A s : Blocked(s) /\ s \in {"blocked", "deferred"} => inv' \in {"none", "blocked", "deferred", "creating", "invoiced"}
  BY <1>1 DEF Blocked, Outer
<1>3. ASSUME NEW c, Notify(c) \/ Dispatch(c) \/ Rescan(c) \/ Readmit(c) \/ Request(c) PROVE Outer'
  <2>1. UNCHANGED <<order, settings, index, used>>
    BY <1>3 DEF Notify, Dispatch, Rescan, Readmit, Request, ReadSettings, ReadLive, RequestBlocked, ParkForGood, Admit,
                Park, List, Add, MarkQueued, Same, world
  <2>2. checkAt' = checkAt \/ checkAt' \in {"soon", "never"}
    BY <1>3 DEF Notify, Dispatch, Rescan, Readmit, Request, ReadSettings, ReadLive, RequestBlocked, ParkForGood, Admit,
                Park, List, Add, MarkQueued
  <2>3. inv' = inv \/ Blocked("blocked")
    BY <1>3 DEF Notify, Dispatch, Rescan, Readmit, Request, ReadSettings, ReadLive, RequestBlocked, ParkForGood, Admit,
                Park, List, Add, MarkQueued
  <2> QED BY <1>1, <1>2, <2>1, <2>2, <2>3 DEF Outer
<1>4. ASSUME NEW w, TakeAny(w) \/ Run(w) PROVE Outer'
  <2>1. UNCHANGED <<order, settings, index, checkAt>> /\ (used' = used \/ Use("fault"))
    BY <1>4 DEF TakeAny, Take, Run, Start, StartRefused, ReadTrigger, RunBlocked, IndexUsable, Defer, IndexMissing,
                PlanNone, PlanTransient, PlanRefuses, PlanCreates, Apply, ApplyUnknown, Stock, Report, Finish, Same, world
  <2>2. inv' = inv \/ Blocked("blocked") \/ Blocked("deferred") \/ inv' \in {"blocked", "invoiced", "creating"}
    BY <1>4 DEF TakeAny, Take, Run, Start, StartRefused, ReadTrigger, RunBlocked, IndexUsable, Defer, IndexMissing,
                PlanNone, PlanTransient, PlanRefuses, PlanCreates, Apply, ApplyUnknown, Stock, Report, Finish
  <2>3. used' \in [Bounded -> Nat] BY <1>1, <2>1, UseKeeps DEF Bounded, Outer
  <2> QED BY <1>1, <1>2, <2>1, <2>2, <2>3 DEF Outer
<1>5. ASSUME NEW a, Retry(a) \/ \E r \in DOMAIN row : RetryReads(a, r) PROVE Outer'
  <2>1. UNCHANGED <<order, settings, index, inv, checkAt>> /\ (used' = used \/ Use("retry"))
    BY <1>5 DEF Retry, RetryReads, RetryClaims, RetryQueues, RetryFails, Same, world
  <2> QED BY <1>1, <2>1, UseKeeps DEF Bounded, Outer
<1>6. ASSUME NEW r, CancelRow(r) \/ ResolveRow(r) PROVE Outer'
  <2>1. UNCHANGED <<order, settings, index, inv, checkAt>> /\ Use("edit") BY <1>6 DEF CancelRow, ResolveRow, world
  <2> QED BY <1>1, <2>1, UseKeeps DEF Bounded, Outer
<1>7. ASSUME OrderChanges \/ SettingsChange PROVE Outer'
  <2>1. /\ order' \in Order /\ settings' \in Nat /\ UNCHANGED <<index, inv, checkAt>>
        /\ Use("change") \/ Use("settings")
    BY <1>1, <1>7 DEF OrderChanges, SettingsChange, Outer, Order
  <2> QED BY <1>1, <2>1, UseKeeps DEF Bounded, Outer
<1>8. ASSUME IndexFails \/ IndexRecovers \/ CheckDue PROVE Outer'
  <2>1. /\ index' \in BOOLEAN /\ checkAt' \in {"due", "soon", "never"} /\ UNCHANGED <<order, settings, inv>>
        /\ used' = used \/ Use("outage")
    BY <1>1, <1>8 DEF IndexFails, IndexRecovers, CheckDue, Outer, world
  <2> QED BY <1>1, <2>1, UseKeeps DEF Bounded, Outer
<1>9. ASSUME NEW x, Wipe \/ Die(x) PROVE Outer'
  <2>1. UNCHANGED <<order, settings, index, inv, checkAt>> /\ (Use("wipe") \/ Use("stall")) BY <1>9 DEF Wipe, Die, world
  <2> QED BY <1>1, <2>1, UseKeeps DEF Bounded, Outer
<1> QED BY <1>3, <1>4, <1>5, <1>6, <1>7, <1>8, <1>9 DEF Next, Step
-----------------------------------------------------------------------------
(* Requests.                                                               *)
LEMMA OthersFrom ==
  ASSUME TypeOK, NEW x \in Procs, NEW l \in Local, proc' = [proc EXCEPT ![x] = l],
         l.pc \in {"idle"} \cup RequestPcs \cup RetryPcs,
         l.pc \in {"add", "queued"} \cup RetryPcs => l.row \in DOMAIN row',
         l.pc \in RetryPcs => l.seen \in {"none", "failed", "completed"}
  PROVE  Others(x)
<1>1. Moves(x, l.pc) /\ proc'[x] = l BY SetMoves
<1> QED BY <1>1 DEF Others, Moves

LEMMA OthersLeft ==
  ASSUME TypeOK, NEW x \in Procs, Leave(x)
  PROVE  Others(x)
<1>1. Moves(x, "idle") BY LeaveMoves
<1> QED BY <1>1 DEF Others, Moves, RequestPcs, RetryPcs

LEMMA OthersGoto ==
  ASSUME TypeOK, NEW x \in Procs, NEW pc \in RequestPcs \cup RetryPcs, Goto(x, pc),
         pc \in {"add", "queued"} \cup RetryPcs => proc[x].row \in DOMAIN row',
         pc \in RetryPcs => proc[x].seen \in {"none", "failed", "completed"}
  PROVE  Others(x)
<1>1. Moves(x, pc) /\ proc'[x].row = proc[x].row /\ proc'[x].seen = proc[x].seen BY GotoMoves DEF Pcs
<1> QED BY <1>1 DEF Others, Moves

LEMMA RequestKeeps ==
  ASSUME OutboxInv, Outer', NEW c \in Callers, UNCHANGED env,
         \/ Notify(c) \/ Dispatch(c) \/ Rescan(c) \/ Readmit(c) \/ ReadSettings(c) \/ ReadLive(c)
         \/ RequestBlocked(c) \/ ParkForGood(c) \/ Park(c) \/ List(c)
  PROVE  OutboxInv'
<1>1. TypeOK /\ c \in Procs \ Workers /\ UNCHANGED <<row, job>> /\ proc[c] \in Local /\ order \in Order /\ settings \in Nat
  BY Disjoint DEF OutboxInv, TypeOK, Outer, Notify, Dispatch, Rescan, Readmit, ReadSettings, ReadLive, RequestBlocked,
                  ParkForGood, Park, List
<1>2. Idle \in Local BY DEF Idle, Local, Order, Decisions, JobStates
<1>3. Others(c)
  <2>1. ASSUME NEW pc \in {"settings", "list"}, NEW b \in BOOLEAN, Call(c, pc, b) PROVE Others(c)
    <3> DEFINE l == [Idle EXCEPT !.pc = pc, !.fresh = b]
    <3>1. l \in Local /\ l.pc = pc BY <1>2 DEF Local, Idle, RequestPcs
    <3>2. proc' = [proc EXCEPT ![c] = l] BY <2>1 DEF Call
    <3> HIDE DEF l
    <3> QED BY <1>1, <3>1, <3>2, OthersFrom DEF RequestPcs, RetryPcs
  <2>2. CASE Notify(c) \/ Dispatch(c) \/ Rescan(c) \/ Readmit(c) BY <2>1, <2>2 DEF Notify, Dispatch, Rescan, Readmit
  <2>3. CASE ReadSettings(c)
    <3> DEFINE l == IF InvoiceKnown THEN Idle ELSE [proc[c] EXCEPT !.pc = "live", !.settings = settings]
    <3>1. l \in Local /\ l.pc \in {"idle", "live"} BY <1>1, <1>2 DEF Local, Idle, RequestPcs
    <3>2. proc' = [proc EXCEPT ![c] = l] BY <2>3 DEF ReadSettings
    <3> HIDE DEF l
    <3> QED BY <1>1, <3>1, <3>2, OthersFrom DEF RequestPcs, RetryPcs
  <2>4. CASE ReadLive(c)
    <3> DEFINE l == IF order.decision = "waiting" THEN Idle
                    ELSE [proc[c] EXCEPT !.pc = IF order.decision = "ready" THEN "admit" ELSE "block", !.order = order]
    <3>1. l \in Local /\ l.pc \in {"idle", "admit", "block"} BY <1>1, <1>2 DEF Local, Idle, RequestPcs
    <3>2. proc' = [proc EXCEPT ![c] = l] BY <2>4 DEF ReadLive
    <3> HIDE DEF l
    <3> QED BY <1>1, <3>1, <3>2, OthersFrom DEF RequestPcs, RetryPcs
  <2>5. CASE RequestBlocked(c) \/ ParkForGood(c) \/ Park(c)
    <3>1. Leave(c) \/ Goto(c, "parkForGood") \/ Goto(c, "list") BY <2>5 DEF RequestBlocked, ParkForGood, Park
    <3> QED BY <1>1, <3>1, OthersLeft, OthersGoto DEF RequestPcs, RetryPcs
  <2>6. CASE List(c)
    <3>1. CASE Leave(c) BY <1>1, <3>1, OthersLeft
    <3>2. CASE \E r \in Outbox : proc' = [proc EXCEPT ![c].pc = "add", ![c].row = r]
      <4>1. PICK r \in Outbox : proc' = [proc EXCEPT ![c].pc = "add", ![c].row = r] BY <3>2
      <4> DEFINE l == [proc[c] EXCEPT !.pc = "add", !.row = r]
      <4>2. r \in DOMAIN row /\ r \in Nat BY <1>1, Typed DEF Outbox
      <4>3. l \in Local /\ l.pc = "add" /\ l.row = r BY <1>1, <4>2 DEF Local, RequestPcs
      <4>4. proc' = [proc EXCEPT ![c] = l] BY <4>1
      <4> HIDE DEF l
      <4> QED BY <1>1, <4>2, <4>3, <4>4, OthersFrom DEF RequestPcs, RetryPcs
    <3> QED BY <2>6, <3>1, <3>2 DEF List
  <2> QED BY <2>2, <2>3, <2>4, <2>5, <2>6
<1> QED BY <1>1, <1>3, RequestGoes

LEMMA AdmitKeeps ==
  ASSUME OutboxInv, Outer', NEW c \in Callers, Admit(c), UNCHANGED env
  PROVE  OutboxInv'
<1> USE DEF OutboxInv
<1>1. c \in Procs \ Workers /\ proc[c] \in Local BY Disjoint DEF TypeOK
<1>2. Goto(c, "park") BY DEF Admit
<1>3. Others(c) BY <1>1, <1>2, OthersGoto DEF RequestPcs, RetryPcs
<1>4. CASE UNCHANGED <<row, job>> BY <1>1, <1>3, <1>4, RequestGoes
<1>5. CASE /\ \A r \in DOMAIN row : ~Unfinished(r) /\ ~Retried(r) /\ ~Evaluated(r, TriggerState(c))
           /\ row' = Append(row, [state |-> TriggerState(c), status |-> "pending", attempts |-> 0, queued |-> FALSE])
           /\ job' = Append(job, NoJob)
  <2> DEFINE n == Len(row) + 1
             e == [state |-> TriggerState(c), status |-> "pending", attempts |-> 0, queued |-> FALSE]
  <2>1. TriggerState(c) \in Nat \X Nat \X Nat BY <1>1, Typed DEF TriggerState, Local, Order
  <2>2. e \in Row /\ e.state = TriggerState(c) /\ e.status = "pending" /\ e.attempts = 0 BY <2>1 DEF Row, Statuses
  <2>3. NoJob \in Job /\ NoJob.state = "none" /\ NoJob.max = Attempts BY OutboxAssumption DEF NoJob, Job, JobStates
  <2>4. row \in Seq(Row) /\ job \in Seq(Job) /\ row' = Append(row, e) /\ Len(job) = Len(row) BY <1>5, Typed DEF TypeOK
  <2> HIDE DEF e
  <2>5. /\ row' \in Seq(Row) /\ DOMAIN row' = DOMAIN row \cup {n} /\ n \notin DOMAIN row
        /\ (\A q \in DOMAIN row : row'[q] = row[q]) /\ row'[n] = e
    BY <2>2, <2>4, Appended
  <2>6. /\ job' \in Seq(Job) /\ DOMAIN job' = DOMAIN row \cup {n}
        /\ (\A q \in DOMAIN row : job'[q] = job[q]) /\ job'[n] = NoJob
    BY <1>5, <2>3, <2>4, Appended DEF TypeOK
  <2> HIDE DEF n
  <2>7. TypeOK' BY <2>5, <2>6, <1>3 DEF TypeOK, Others
  <2>8. Placed' BY <1>1, <1>3, <2>5, OthersPlaced
  <2>9. OneOpen' BY <1>5, <2>5 DEF OneOpen, Unfinished
  <2>10. \A w \in Workers : proc'[w] = proc[w] /\ Busy(w)' = Busy(w) BY <1>1, <1>3, OthersLeave
  <2>11. \A w \in Workers : Busy(w) => row'[proc[w].row] = row[proc[w].row] /\ job'[proc[w].row] = job[proc[w].row]
    BY <2>5, <2>6, BusyRow
  <2>12. \A w \in Workers : proc[w].pc \in RunPcs \cup ReportPcs => Busy(w) BY DEF Busy, RunPcs, ReportPcs
  <2>13. Single' BY <2>10, <2>11, <2>12 DEF Single, Undisturbed
  <2>14. Counted'
    <3> SUFFICES ASSUME Quiet PROVE Counted' BY DEF Counted, Quiet
    <3>1. \A q \in DOMAIN row' :
            /\ row'[q].status # "cancelled" /\ job'[q].max = Attempts
            /\ job'[q].state = "none" => row'[q].attempts = 0
            /\ job'[q].state = "waiting" => row'[q].attempts <= job'[q].made /\ job'[q].made < Attempts
      BY <2>2, <2>3, <2>5, <2>6 DEF Counted
    <3> QED BY <3>1, <2>10, <2>11 DEF Counted
  <2>15. Once'
    <3> SUFFICES ASSUME Quiet PROVE Once' BY DEF Once, Quiet
    <3>1. \A q \in DOMAIN row : Spent(q)' = Spent(q) BY <2>5 DEF Spent
    <3>2. ASSUME NEW q \in DOMAIN row, row[q].state = TriggerState(c) PROVE Spent(q)
      <4>1. row[q].status # "cancelled" BY DEF Counted
      <4>2. row[q] \in Row BY Typed
      <4>3. row[q].status \notin {"pending", "processing", "completed", "manual_review"}
        BY <1>5, <3>2 DEF Unfinished, Evaluated
      <4>4. row[q].status = "failed" BY <4>1, <4>2, <4>3 DEF Row, Statuses
      <4>5. row[q].attempts \in Nat BY <4>2 DEF Row
      <4> QED BY <4>4, <4>5, <1>5, OutboxAssumption DEF Retried, Spent
    <3> QED BY <3>1, <3>2, <2>2, <2>5 DEF Once
  <2> QED BY <2>7, <2>8, <2>9, <2>13, <2>14, <2>15
<1> QED BY <1>4, <1>5 DEF Admit

LEMMA AddKeeps ==
  ASSUME OutboxInv, Outer', NEW c \in Callers, Add(c), UNCHANGED env
  PROVE  OutboxInv'
<1> DEFINE r == proc[c].row
           e == [NoJob EXCEPT !.state = "waiting"]
<1>1. c \in Procs \ Workers /\ TypeOK /\ UNCHANGED row BY Disjoint DEF OutboxInv, Add
<1>2. r \in DOMAIN row BY <1>1 DEF OutboxInv, Placed, Add
<1>3. Others(c) BY <1>1, <1>2, OthersGoto DEF Add, RequestPcs, RetryPcs
<1>4. CASE job[r].state = "none"
  <2>1. e \in Job /\ e.made = 0 /\ e.max = Attempts BY OutboxAssumption DEF NoJob, Job, JobStates
  <2>2. job' = [job EXCEPT ![r] = e] BY <1>4 DEF Add
  <2> HIDE DEF e
  <2>3. JobSet(r) /\ job'[r] = e BY <1>1, <1>2, <2>1, <2>2, JobIsSet
  <2>4. Quiet => row[r].attempts = 0 BY <1>2, <1>4 DEF OutboxInv, Counted
  <2> QED BY <1>1, <1>2, <1>3, <1>4, <2>1, <2>3, <2>4, JobWritten
<1>5. CASE job[r].state # "none"
  <2>1. job' = [job EXCEPT ![r] = job[r]] BY <1>5 DEF Add
  <2>2. job' = job BY <2>1, <1>1, <1>2 DEF TypeOK
  <2> QED BY <1>1, <1>3, <2>2, RequestGoes
<1> QED BY <1>4, <1>5

LEMMA MarkQueuedKeeps ==
  ASSUME OutboxInv, Outer', NEW c \in Callers, MarkQueued(c), UNCHANGED env
  PROVE  OutboxInv'
<1> DEFINE r == proc[c].row
           e == [row[r] EXCEPT !.queued = TRUE]
<1>1. c \in Procs \ Workers /\ TypeOK /\ UNCHANGED job BY Disjoint DEF OutboxInv, MarkQueued
<1>2. r \in DOMAIN row BY <1>1 DEF OutboxInv, Placed, MarkQueued
<1>3. Others(c) BY <1>1, OthersLeft DEF MarkQueued
<1>4. row[r] \in Row BY <1>1, <1>2, Typed
<1>5. row[r].status \in Statuses /\ row[r].attempts \in Nat /\ TRUE \in BOOLEAN BY <1>4 DEF Row
<1>6. e = [row[r] EXCEPT !.status = row[r].status, !.attempts = row[r].attempts, !.queued = TRUE] BY <1>4 DEF Row
<1>7. row' = [row EXCEPT ![r] = e] BY DEF MarkQueued
<1> HIDE DEF e
<1>8. RowSet(r, row[r].status, row[r].attempts) BY <1>1, <1>2, <1>5, <1>6, <1>7, RowIsSet
<1> QED BY <1>1, <1>2, <1>3, <1>8, RowWritten DEF Harmless
-----------------------------------------------------------------------------
(* Administrators.                                                         *)
LEMMA RetryReadsKeeps ==
  ASSUME OutboxInv, Outer', NEW a \in Admins, NEW r \in DOMAIN row, RetryReads(a, r), UNCHANGED env
  PROVE  OutboxInv'
<1> DEFINE l == [Idle EXCEPT !.pc = "claim", !.row = r, !.seen = job[r].state]
<1>1. a \in Procs \ Workers /\ TypeOK /\ UNCHANGED <<row, job>> BY Disjoint DEF OutboxInv, RetryReads
<1>2. r \in Nat /\ job[r].state \in {"none", "failed", "completed"} BY <1>1, Typed DEF RetryReads
<1>3. l \in Local /\ l.pc = "claim" /\ l.row = r /\ l.seen = job[r].state
  BY <1>2 DEF Local, Idle, Order, Decisions, JobStates, RetryPcs
<1>4. proc' = [proc EXCEPT ![a] = l] BY DEF RetryReads
<1> HIDE DEF l
<1>5. Others(a) BY <1>1, <1>2, <1>3, <1>4, OthersFrom DEF RequestPcs, RetryPcs
<1> QED BY <1>1, <1>5, RequestGoes

LEMMA RetryClaimsKeeps ==
  ASSUME OutboxInv, Outer', NEW a \in Admins, env.admins # {}, RetryClaims(a), UNCHANGED env
  PROVE  OutboxInv'
<1> DEFINE r == proc[a].row
           e == [row[r] EXCEPT !.status = "pending", !.queued = TRUE]
<1>1. a \in Procs \ Workers /\ TypeOK /\ UNCHANGED job /\ ~Quiet BY Disjoint DEF OutboxInv, RetryClaims, Quiet
<1>2. r \in DOMAIN row /\ proc[a].seen \in {"none", "failed", "completed"}
  BY <1>1 DEF OutboxInv, Placed, RetryClaims, RetryPcs
<1>3. CASE Leave(a) /\ UNCHANGED row BY <1>1, <1>3, OthersLeft, RequestGoes
<1>4. CASE /\ \A q \in DOMAIN row : ~Unfinished(q)
           /\ row' = [row EXCEPT ![r].status = "pending", ![r].queued = TRUE] /\ Goto(a, "retry")
  <2>1. row[r] \in Row BY <1>1, <1>2, Typed
  <2>2. row[r].attempts \in Nat /\ "pending" \in Statuses /\ TRUE \in BOOLEAN BY <2>1 DEF Row, Statuses
  <2>3. e = [row[r] EXCEPT !.status = "pending", !.attempts = row[r].attempts, !.queued = TRUE] BY <2>1 DEF Row
  <2>4. row' = [row EXCEPT ![r] = e] BY <1>2, <1>4
  <2> HIDE DEF e
  <2>5. RowSet(r, "pending", row[r].attempts) BY <1>1, <1>2, <2>2, <2>3, <2>4, RowIsSet
  <2>6. proc[a].row \in DOMAIN row' BY <1>2, <2>5 DEF RowSet
  <2>7. Others(a) BY <1>1, <1>2, <1>4, <2>6, OthersGoto DEF RequestPcs, RetryPcs
  <2> QED BY <1>1, <1>2, <1>4, <2>5, <2>7, RowWritten DEF Harmless
<1> QED BY <1>3, <1>4 DEF RetryClaims

LEMMA RetryQueuesKeeps ==
  ASSUME OutboxInv, Outer', NEW a \in Admins, env.admins # {}, RetryQueues(a), UNCHANGED env
  PROVE  OutboxInv'
<1> DEFINE r == proc[a].row
           e == IF job[r].state = "none" THEN [NoJob EXCEPT !.state = "waiting", !.max = 1]
                ELSE [job[r] EXCEPT !.state = "waiting"]
<1>1. a \in Procs \ Workers /\ TypeOK /\ UNCHANGED row /\ ~Quiet BY Disjoint DEF OutboxInv, RetryQueues, Quiet
<1>2. r \in DOMAIN row /\ job[r].state \in {"none", "failed", "completed"}
  BY <1>1 DEF OutboxInv, Placed, RetryQueues, RetryPcs
<1>3. Others(a) BY <1>1, OthersLeft DEF RetryQueues
<1>4. job[r] \in Job BY <1>1, <1>2, Typed
<1>5. e \in Job BY <1>4, OutboxAssumption DEF Job, JobStates, NoJob
<1>6. job' = [job EXCEPT ![r] = e] BY DEF RetryQueues
<1> HIDE DEF e
<1>7. JobSet(r) BY <1>1, <1>2, <1>5, <1>6, JobIsSet
<1> QED BY <1>1, <1>2, <1>3, <1>7, JobWritten

LEMMA RetryFailsKeeps ==
  ASSUME OutboxInv, Outer', NEW a \in Admins, env.admins # {}, RetryFails(a), UNCHANGED env
  PROVE  OutboxInv'
<1> DEFINE r == proc[a].row
           v == IF row[r].status = "pending" THEN "failed" ELSE row[r].status
<1>1. a \in Procs \ Workers /\ TypeOK /\ UNCHANGED job /\ ~Quiet BY Disjoint DEF OutboxInv, RetryFails, Quiet
<1>2. r \in DOMAIN row BY <1>1 DEF OutboxInv, Placed, RetryFails, RetryPcs
<1>3. Others(a) BY <1>1, OthersLeft DEF RetryFails
<1>4. row[r] \in Row BY <1>1, <1>2, Typed
<1>5. v \in Statuses /\ Harmless(r, v) BY <1>1, <1>4 DEF Row, Statuses, Harmless
<1>6. row' = [row EXCEPT ![r].status = v] BY DEF RetryFails
<1> HIDE DEF v
<1>7. RowSet(r, v, row[r].attempts) BY <1>1, <1>2, <1>5, <1>6, StatusIsSet
<1> QED BY <1>1, <1>2, <1>3, <1>5, <1>7, RowWritten

LEMMA Wanted == ASSUME Outer, NEW e \in Bounded, Use(e) PROVE env[e] # 0
BY OutboxAssumption DEF Outer, Use

LEMMA ResolveRowKeeps ==
  ASSUME OutboxInv, Outer', NEW r \in DOMAIN row, env.admins # {}, ResolveRow(r), UNCHANGED env
  PROVE  OutboxInv'
<1> USE DEF OutboxInv
<1>1. UNCHANGED <<job, proc>> /\ ~Quiet /\ row[r].status = "manual_review" BY DEF ResolveRow, Quiet
<1>2. RowSet(r, "completed", row[r].attempts) BY StatusIsSet DEF ResolveRow, Statuses
<1>3. /\ \A q \in DOMAIN row \ {r} : row'[q] = row[q]
      /\ row'[r].status = "completed" /\ DOMAIN row' = DOMAIN row /\ row' \in Seq(Row)
  BY <1>2 DEF RowSet
<1>4. TypeOK' BY <1>1, <1>3 DEF TypeOK
<1>5. Placed' BY <1>1, <1>3 DEF Placed
<1>6. OneOpen' BY <1>3 DEF OneOpen, Unfinished
<1>7. Single'
  <2>1. \A w \in Workers : Undisturbed /\ proc[w].pc \in RunPcs \cup ReportPcs => row'[proc[w].row].status = "processing"
    <3> SUFFICES ASSUME NEW w \in Workers, Undisturbed, proc[w].pc \in RunPcs \cup ReportPcs
                 PROVE  row'[proc[w].row].status = "processing"
      OBVIOUS
    <3>1. Busy(w) BY DEF Busy, RunPcs, ReportPcs
    <3>2. row[proc[w].row].status = "processing" BY DEF Single
    <3> QED BY <3>1, <3>2, <1>1, <1>3, BusyRow
  <2> QED BY <1>1, <2>1 DEF Single, Undisturbed, Busy
<1>8. Counted' /\ Once' BY <1>1 DEF Counted, Once, Quiet
<1> QED BY <1>4, <1>5, <1>6, <1>7, <1>8

LEMMA CancelRowKeeps ==
  ASSUME OutboxInv, Outer', NEW r \in DOMAIN row, env.admins # {}, CancelRow(r), UNCHANGED env
  PROVE  OutboxInv'
<1> USE DEF OutboxInv
<1>1. UNCHANGED proc /\ ~Quiet BY DEF CancelRow, Quiet
<1>2. ~Undisturbed BY Wanted DEF CancelRow, Undisturbed, TypeOK, Bounded
<1>3. RowSet(r, "cancelled", row[r].attempts) BY StatusIsSet DEF CancelRow, Statuses
<1>4. /\ \A q \in DOMAIN row \ {r} : row'[q] = row[q]
      /\ row'[r].status = "cancelled" /\ DOMAIN row' = DOMAIN row /\ row' \in Seq(Row)
  BY <1>3 DEF RowSet
<1>5. job' \in Seq(Job) /\ DOMAIN job' = DOMAIN job
  <2>1. CASE UNCHANGED job BY <2>1 DEF TypeOK
  <2>2. CASE job' = [job EXCEPT ![r] = NoJob]
    <3>1. NoJob \in Job BY OutboxAssumption DEF NoJob, Job, JobStates
    <3> HIDE DEF NoJob
    <3>2. JobSet(r) BY <3>1, <2>2, JobIsSet
    <3> QED BY <3>2 DEF JobSet
  <2> QED BY <2>1, <2>2 DEF CancelRow
<1>6. TypeOK' BY <1>1, <1>4, <1>5 DEF TypeOK
<1>7. Placed' BY <1>1, <1>4 DEF Placed
<1>8. OneOpen' BY <1>4 DEF OneOpen, Unfinished
<1>9. Single' /\ Counted' /\ Once' BY <1>1, <1>2 DEF Single, Counted, Once, Quiet, Undisturbed
<1> QED BY <1>6, <1>7, <1>8, <1>9
-----------------------------------------------------------------------------
(* Runs.                                                                   *)
LEMMA RunKeeps ==
  ASSUME OutboxInv, Outer', NEW w \in Workers, UNCHANGED env,
         \/ StartRefused(w) \/ ReadTrigger(w) \/ RunBlocked(w) \/ IndexUsable(w) \/ Defer(w) \/ IndexMissing(w)
         \/ PlanNone(w) \/ PlanTransient(w) \/ PlanRefuses(w) \/ PlanCreates(w)
         \/ Apply(w) \/ ApplyUnknown(w) \/ Stock(w)
  PROVE  OutboxInv'
<1>1. w \in Procs /\ TypeOK /\ proc[w] \in Local /\ order \in Order /\ settings \in Nat
  BY Disjoint DEF OutboxInv, TypeOK, Outer
<1>2. UNCHANGED <<row, job>>
  BY DEF StartRefused, ReadTrigger, RunBlocked, IndexUsable, Defer, IndexMissing, PlanNone, PlanTransient,
         PlanRefuses, PlanCreates, Apply, ApplyUnknown, Stock
<1>3. PICK pc \in {"index", "blocked", "plan", "apply", "stock", "completed", "failed", "manual_review", "threw"} :
        /\ proc[w].pc \in RunPcs \/ (proc[w].pc = "start" /\ pc = "threw")
        /\ Goto(w, pc) \/ proc' = [proc EXCEPT ![w].settings = settings, ![w].order = order, ![w].pc = pc]
  BY DEF StartRefused, ReadTrigger, RunBlocked, IndexUsable, Defer, IndexMissing, PlanNone, PlanTransient,
         PlanRefuses, PlanCreates, Apply, ApplyUnknown, Stock, RunPcs
<1>4. pc \in RunPcs \cup ReportPcs \cup OverPcs /\ pc \in Pcs /\ (pc = "threw" => pc \in OverPcs)
  BY <1>3 DEF RunPcs, ReportPcs, OverPcs, Pcs, JobPcs
<1>5. Busy(w) BY <1>3 DEF Busy, RunPcs
<1>6. Stays(w, pc)
  <2>1. CASE Goto(w, pc) BY <1>1, <1>4, <2>1, GotoMoves DEF Stays
  <2>2. CASE proc' = [proc EXCEPT ![w].settings = settings, ![w].order = order, ![w].pc = pc]
    <3> DEFINE l == [proc[w] EXCEPT !.settings = settings, !.order = order, !.pc = pc]
    <3>1. l \in Local /\ l.pc = pc /\ l.row = proc[w].row BY <1>1, <1>4 DEF Local, Pcs
    <3>2. proc' = [proc EXCEPT ![w] = l] BY <2>2
    <3> HIDE DEF l
    <3>3. Moves(w, l.pc) /\ proc'[w] = l BY <1>1, <3>1, <3>2, SetMoves
    <3> QED BY <3>1, <3>3 DEF Stays
  <2> QED BY <1>3, <2>1, <2>2
<1> QED BY <1>2, <1>3, <1>4, <1>5, <1>6, RunGoes

LEMMA StartKeeps ==
  ASSUME OutboxInv, Outer', NEW w \in Workers, Start(w), UNCHANGED env
  PROVE  OutboxInv'
<1> DEFINE r == proc[w].row
           n == job[r].made + 1
           e == [row[r] EXCEPT !.status = "processing", !.attempts = n]
<1>1. w \in Procs /\ TypeOK /\ Busy(w) /\ UNCHANGED job /\ proc[w].pc = "start"
  BY Disjoint DEF OutboxInv, Start, Busy
<1>2. r \in DOMAIN row /\ row[r] \in Row /\ job[r] \in Job BY <1>1, BusyRow
<1>3. n \in Nat /\ row[r].queued \in BOOLEAN /\ "processing" \in Statuses BY <1>2 DEF Job, Row, Statuses
<1>4. Stays(w, "read") BY <1>1, GotoMoves DEF Start, Stays, Pcs, JobPcs, RunPcs
<1>5. row' = [row EXCEPT ![r] = e] /\ \A q \in DOMAIN row \ {r} : ~Unfinished(q) BY <1>2 DEF Start
<1>6. n = job[r].made + 1 OBVIOUS
<1> HIDE DEF n
<1>7. e = [row[r] EXCEPT !.status = "processing", !.attempts = n, !.queued = row[r].queued] BY <1>2 DEF Row
<1> HIDE DEF e
<1>8. RowSet(r, "processing", n) BY <1>1, <1>2, <1>3, <1>5, <1>7, RowIsSet
<1> QED BY <1>1, <1>3, <1>4, <1>5, <1>6, <1>8, RunWrites

LEMMA ReportKeeps ==
  ASSUME OutboxInv, Outer', NEW w \in Workers, Report(w), UNCHANGED env
  PROVE  OutboxInv'
<1> DEFINE r == proc[w].row
           v == proc[w].pc
<1>1. w \in Procs /\ TypeOK /\ Busy(w) /\ UNCHANGED job /\ v \in ReportPcs /\ proc[w].pc \in ReportPcs
  BY Disjoint DEF OutboxInv, Report, Busy, ReportPcs
<1>2. r \in DOMAIN row /\ row[r] \in Row BY <1>1, BusyRow
<1>3. PICK pc \in OverPcs : Goto(w, pc) BY DEF Report, OverPcs
<1>4. pc \in Pcs /\ pc # "read" BY <1>3 DEF OverPcs, Pcs, JobPcs
<1>5. Stays(w, pc) BY <1>1, <1>3, <1>4, GotoMoves DEF Stays
<1>6. v \in Statuses /\ row[r].attempts \in Nat BY <1>1, <1>2 DEF ReportPcs, Statuses, Row
<1>7. row' = [row EXCEPT ![r].status = v] BY DEF Report
<1> HIDE DEF v
<1>8. RowSet(r, v, row[r].attempts) BY <1>1, <1>2, <1>6, <1>7, StatusIsSet
<1> DEFINE n == row[r].attempts
<1>9. n \in Nat /\ RowSet(proc[w].row, v, n) /\ n = row[proc[w].row].attempts BY <1>6, <1>8
<1> HIDE DEF n, r
<1>10. pc \in {"read"} \cup OverPcs BY <1>3
<1> QED BY <1>1, <1>4, <1>5, <1>9, <1>10, RunWrites

LEMMA FinishKeeps ==
  ASSUME OutboxInv, Outer', NEW w \in Workers, Finish(w), UNCHANGED env
  PROVE  OutboxInv'
<1> DEFINE r == proc[w].row
           m == job[r].made + 1
           s == CASE job[r].state # "active" -> job[r].state
                  [] job[r].state = "active" /\ proc[w].pc = "returned" -> "completed"
                  [] job[r].state = "active" /\ proc[w].pc = "threw" /\ m < job[r].max -> "waiting"
                  [] OTHER -> "failed"
           e == [job[r] EXCEPT !.made = m, !.state = s]
<1>1. w \in Procs /\ TypeOK /\ Busy(w) /\ UNCHANGED row BY Disjoint DEF OutboxInv, Finish, Busy
<1>2. r \in DOMAIN row /\ job[r] \in Job BY <1>1, BusyRow
<1>3. Moves(w, "idle") BY <1>1, LeaveMoves DEF Finish
<1>4. m \in Nat BY <1>2 DEF Job
<1>5. s \in JobStates BY <1>2 DEF Job, JobStates
<1>6. job[r].state = "active" => s # "none" /\ (s = "waiting" => m < job[r].max) OBVIOUS
<1>7. job' = [job EXCEPT ![r] = e] BY DEF Finish
<1>8. m = job[r].made + 1 OBVIOUS
<1> HIDE DEF m, s
<1>9. e \in Job /\ e.made = m /\ e.state = s /\ e.max = job[r].max BY <1>2, <1>4, <1>5 DEF Job
<1> HIDE DEF e
<1>10. JobSet(r) /\ job'[r] = e BY <1>1, <1>2, <1>7, <1>9, JobIsSet
<1>11. Quiet => job[r].state = "active" BY <1>1, QuietIsUndisturbed DEF OutboxInv, Single
<1>12. Quiet => /\ job'[r].max = job[r].max /\ job'[r].state # "none"
                /\ job'[r].state = "waiting" => job'[r].made = job[r].made + 1 /\ job'[r].made < job[r].max
  BY <1>6, <1>8, <1>9, <1>10, <1>11
<1> QED BY <1>1, <1>3, <1>10, <1>12, RunEnds

LEMMA DieKeeps ==
  ASSUME OutboxInv, Outer', NEW x \in Procs, Die(x), UNCHANGED env
  PROVE  OutboxInv'
<1>1. TypeOK /\ UNCHANGED row /\ Moves(x, "idle") /\ Others(x) /\ proc[x].pc # "idle"
  BY LeaveMoves, OthersLeft DEF OutboxInv, Die
<1>2. ~Quiet BY <1>1, Wanted DEF Die, Quiet, TypeOK, Bounded
<1>3. CASE x \notin Workers
  <2>1. UNCHANGED job BY <1>3 DEF Die
  <2> QED BY <1>1, <1>3, <2>1, RequestGoes
<1>4. CASE x \in Workers
  <2> DEFINE r == proc[x].row
             s == CASE job[r].state # "active" -> job[r].state
                    [] job[r].state = "active" /\ job[r].stalled -> "failed"
                    [] OTHER -> "waiting"
             e == [job[r] EXCEPT !.stalled = TRUE, !.state = s]
  <2>1. Busy(x) BY <1>1, <1>4 DEF Busy
  <2>2. r \in DOMAIN row /\ job[r] \in Job BY <1>4, <2>1, BusyRow
  <2>3. s \in JobStates BY <2>2 DEF Job, JobStates
  <2>4. job' = [job EXCEPT ![r] = e] BY <1>4, <2>2 DEF Die
  <2> HIDE DEF s
  <2>5. e \in Job BY <2>2, <2>3 DEF Job
  <2> HIDE DEF e
  <2>6. JobSet(r) BY <1>1, <2>2, <2>4, <2>5, JobIsSet
  <2> QED BY <1>1, <1>2, <1>4, <2>1, <2>6, RunEnds
<1> QED BY <1>3, <1>4

LEMMA WipeKeeps ==
  ASSUME OutboxInv, Outer', Wipe, UNCHANGED env
  PROVE  OutboxInv'
<1> USE DEF OutboxInv
<1>1. UNCHANGED <<row, proc>> BY DEF Wipe
<1>2. ~Quiet /\ ~Undisturbed BY Wanted DEF Wipe, Quiet, Undisturbed, TypeOK, Bounded
<1>3. NoJob \in Job BY OutboxAssumption DEF NoJob, Job, JobStates
<1>4. job' = [r \in DOMAIN job |-> NoJob] BY DEF Wipe
<1> HIDE DEF NoJob
<1>5. \E n \in Nat : DOMAIN job = 1..n BY Typed
<1>6. job' \in Seq(Job) /\ DOMAIN job' = DOMAIN job BY <1>3, <1>4, <1>5, SeqDef
<1>7. TypeOK' BY <1>1, <1>6 DEF TypeOK
<1>8. Placed' BY <1>1 DEF Placed
<1>9. OneOpen' BY <1>1 DEF OneOpen, Unfinished
<1>10. Single' /\ Counted' /\ Once' BY <1>1, <1>2 DEF Single, Counted, Once, Quiet, Undisturbed
<1> QED BY <1>7, <1>8, <1>9, <1>10

LEMMA SameRecords ==
  ASSUME OutboxInv, Outer', UNCHANGED <<env, row, job, proc>>
  PROVE  OutboxInv'
<1> USE DEF OutboxInv
<1>1. TypeOK' BY DEF TypeOK
<1>2. Placed' BY DEF Placed
<1>3. OneOpen' BY DEF OneOpen, Unfinished
<1>4. Single' BY DEF Single, Undisturbed, Busy
<1>5. Counted' BY DEF Counted, Quiet, Busy
<1>6. Once' BY DEF Once, Quiet, Spent
<1> QED BY <1>1, <1>2, <1>3, <1>4, <1>5, <1>6

LEMMA NextKeeps ==
  ASSUME OutboxInv, [Next]_vars
  PROVE  OutboxInv'
<1>1. CASE UNCHANGED vars
  <2>1. UNCHANGED <<env, row, job, proc, order, settings, index, inv, checkAt, used>> BY <1>1 DEF vars, state
  <2>2. Outer' BY <2>1 DEF OutboxInv, TypeOK, Outer
  <2> QED BY <2>1, <2>2, SameRecords
<1>2. CASE Next
  <2>1. /\ UNCHANGED env /\ env.workers \subseteq Workers /\ env.admins \subseteq Admins
    BY <1>2, OutboxAssumption DEF Next, OutboxInv, TypeOK, Outer
  <2>2. Outer' BY <1>2, OuterKept DEF OutboxInv
  <2> USE <2>1, <2>2
  <2>3. ASSUME NEW c \in Callers, Notify(c) \/ Dispatch(c) \/ Rescan(c) \/ Readmit(c) \/ Request(c) PROVE OutboxInv'
    BY <2>3, RequestKeeps, AdmitKeeps, AddKeeps, MarkQueuedKeeps DEF Request
  <2>4. ASSUME NEW w \in Workers, NEW r \in DOMAIN job, Take(w, r) PROVE OutboxInv' BY <2>4, TakeKeeps
  <2>5. ASSUME NEW w \in Workers, Run(w) PROVE OutboxInv' BY <2>5, RunKeeps, StartKeeps, ReportKeeps, FinishKeeps DEF Run
  <2>6. ASSUME NEW a \in Admins, env.admins # {}, Retry(a) PROVE OutboxInv'
    BY <2>6, RetryClaimsKeeps, RetryQueuesKeeps, RetryFailsKeeps DEF Retry
  <2>7. ASSUME NEW a \in Admins, NEW r \in DOMAIN row, RetryReads(a, r) PROVE OutboxInv' BY <2>7, RetryReadsKeeps
  <2>8. ASSUME NEW r \in DOMAIN row, env.admins # {}, CancelRow(r) \/ ResolveRow(r) PROVE OutboxInv'
    BY <2>8, CancelRowKeeps, ResolveRowKeeps
  <2>9. CASE OrderChanges \/ SettingsChange \/ IndexFails \/ IndexRecovers \/ CheckDue
    <3>1. UNCHANGED <<row, job, proc>> BY <2>9 DEF OrderChanges, SettingsChange, IndexFails, IndexRecovers, CheckDue
    <3> QED BY <3>1, SameRecords
  <2>10. CASE Wipe BY <2>10, WipeKeeps
  <2>11. ASSUME NEW x \in Procs, Die(x) PROVE OutboxInv' BY <2>11, DieKeeps
  <2> QED BY <1>2, <2>3, <2>4, <2>5, <2>6, <2>7, <2>8, <2>9, <2>10, <2>11 DEF Next, Step, TakeAny
<1> QED BY <1>1, <1>2

(* The outbox stays in the states OutboxInv describes, whatever overlaps,  *)
(* fails, dies or is retried.                                              *)
THEOREM OutboxIsSafe == Spec => []OutboxInv
<1>1. Init => OutboxInv BY InitOutbox
<1>2. OutboxInv /\ [Next]_vars => OutboxInv' BY NextKeeps
<1> QED BY <1>1, <1>2, PTL DEF Spec

(* One run of an order at a time, and no state evaluated twice.            *)
THEOREM RunsStaySingle == Spec => []RunsAreSingle
<1>1. OutboxInv => OneRun
  <2> SUFFICES ASSUME OutboxInv, env.edit = 0, env.wipe = 0, NEW v \in Workers, NEW w \in Workers, Working(v), Working(w)
               PROVE  v = w
    BY DEF OneRun
  <2>1. Undisturbed BY DEF Undisturbed
  <2>2. Busy(v) /\ Busy(w) /\ proc[v].pc \in RunPcs /\ proc[w].pc \in RunPcs BY DEF Working, Busy, RunPcs
  <2>3. Unfinished(proc[v].row) /\ Unfinished(proc[w].row) BY <2>1, <2>2 DEF OutboxInv, Single, Unfinished
  <2>4. proc[v].row = proc[w].row BY <2>2, <2>3, BusyRow DEF OutboxInv, OneOpen
  <2> QED BY <2>1, <2>2, <2>4 DEF OutboxInv, Single
<1>2. OutboxInv => NotRepeated BY DEF OutboxInv, Once, Quiet, Spent, NotRepeated, Ended
<1>3. OutboxInv => RunsAreSingle BY <1>1, <1>2 DEF RunsAreSingle
<1> QED BY <1>3, OutboxIsSafe, PTL

(* No step makes an unknown outcome look like an order nothing was sent    *)
(* for.                                                                    *)
THEOREM OutcomesAreKept == Spec => OutcomeIsKept
<1> DEFINE A == inv \in {"creating", "invoiced"} => inv' \in {inv, "invoiced"}
<1>1. ASSUME Next PROVE A
  <2>1. CASE inv' = inv BY <2>1
  <2>2. ASSUME NEW w, Apply(w) PROVE A BY <2>2 DEF Apply
  <2>3. ASSUME NEW w, ApplyUnknown(w) PROVE A BY <2>3 DEF ApplyUnknown, InvoiceKnown
  <2>4. ASSUME NEW w, IndexUsable(w) PROVE A BY <2>4 DEF IndexUsable
  <2>5. ASSUME NEW s, Blocked(s) PROVE A BY <2>5 DEF Blocked
  <2>6. ASSUME NEW c, Notify(c) \/ Dispatch(c) \/ Rescan(c) \/ Readmit(c) \/ Request(c) PROVE A
    BY <2>6, <2>1, <2>5 DEF Notify, Dispatch, Rescan, Readmit, Request, ReadSettings, ReadLive, RequestBlocked, ParkForGood,
                Admit, Park, List, Add, MarkQueued
  <2>7. ASSUME NEW w, TakeAny(w) \/ Run(w) PROVE A
    BY <2>7, <2>1, <2>2, <2>3, <2>4, <2>5 DEF TakeAny, Take, Run, Start, StartRefused, ReadTrigger, RunBlocked, Defer, IndexMissing,
                PlanNone, PlanTransient, PlanRefuses, PlanCreates, Stock, Report, Finish
  <2>8. ASSUME NEW a, Retry(a) \/ \E r \in DOMAIN row : RetryReads(a, r) PROVE A
    BY <2>8, <2>1 DEF Retry, RetryReads, RetryClaims, RetryQueues, RetryFails
  <2>9. ASSUME NEW r, CancelRow(r) \/ ResolveRow(r) PROVE A BY <2>9, <2>1 DEF CancelRow, ResolveRow
  <2>10. ASSUME NEW x, Die(x) PROVE A BY <2>10, <2>1 DEF Die
  <2>11. CASE OrderChanges \/ SettingsChange \/ IndexFails \/ IndexRecovers \/ CheckDue \/ Wipe
    BY <2>11, <2>1 DEF OrderChanges, SettingsChange, IndexFails, IndexRecovers, CheckDue, Wipe
  <2> HIDE DEF A
  <2> QED BY <1>1, <2>6, <2>7, <2>8, <2>9, <2>10, <2>11 DEF Next, Step
<1> HIDE DEF A
<1>2. Spec => [][A]_vars BY <1>1, PTL DEF Spec
<1> USE DEF A
<1> QED BY <1>2 DEF OutcomeIsKept
=============================================================================

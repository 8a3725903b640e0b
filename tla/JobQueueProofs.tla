--------------------------- MODULE JobQueueProofs ---------------------------
(***************************************************************************)
(* Theorems about JobQueue: the event, the audit row and the queue job of  *)
(* a piece of work agree, and the sync settings are obeyed, for any number *)
(* of events, handlers, workers, attempts, deaths and administrators.      *)
(***************************************************************************)
EXTENDS JobQueue, SequenceTheorems, TLAPS

Row == [event : Events, attempts : Nat, queued : Nat,
        status : {"pending", "processing", "completed", "skipped", "failed", "manual_review", "cancelled"}]
Job == [row : Nat, event : Events, made : Nat, stalled : BOOLEAN,
        state : {"waiting", "active", "removed", "completed", "failed"}]
CallerLocal == [pc : {"idle", "row", "add", "attach", "replaced"}, event : Events \cup {None}, row : Nat, old : Nat]
Pcs == {"idle", "start", "gate", "run", "ignore", "skip", "mark", "complete", "retryable", "manual", "failed", "review",
        "thrown", "unrecoverable", "returned"}
WorkerLocal == [pc : Pcs, job : Nat, ok : BOOLEAN]

TypeOK ==
  /\ env \in Environments
  /\ event \in [Events -> {"none", "received"} \cup Settled]
  /\ row \in Seq(Row)
  /\ job \in Seq(Job)
  /\ enabled \in BOOLEAN
  /\ caller \in [Callers -> CallerLocal]
  /\ worker \in [Workers -> WorkerLocal]
  /\ done \in [Events -> Nat]

Held(c) == caller[c].pc \in {"add", "attach"}  \* caller[c].row is a row c has just created

(* What callers, workers and jobs point to exists, and is their own.       *)
Placed ==
  /\ \A c \in Callers :
       /\ caller[c].pc # "idle" => caller[c].event \in Events
       /\ Held(c) => caller[c].row \in DOMAIN row
       /\ caller[c].old \in DOMAIN row \cup {0}
       /\ caller[c].pc = "replaced" => caller[c].old # 0
       /\ caller[c].pc = "attach" => \E j \in DOMAIN job : job[j].row = caller[c].row
  /\ \A c, d \in Callers : Held(c) /\ Held(d) /\ caller[c].row = caller[d].row => c = d
  /\ \A j \in DOMAIN job : job[j].row \in DOMAIN row
  /\ \A i, j \in DOMAIN job : job[i].row = job[j].row => i = j
  /\ \A w \in Workers : worker[w].pc # "idle" => worker[w].job \in DOMAIN job /\ J(w).state = "active"
  /\ \A v, w \in Workers : worker[v].pc # "idle" /\ worker[w].pc # "idle" /\ worker[v].job = worker[w].job => v = w

(* A row a caller has yet to add a job for has none and did not run, and a *)
(* job that will be retried left its row failed.                           *)
Told ==
  /\ RowTellsJob
  /\ \A c \in Callers : caller[c].pc = "add" =>
       /\ row[caller[c].row].status \in {"pending", "cancelled"}
       /\ \A j \in DOMAIN job : job[j].row # caller[c].row
  /\ \A w \in Workers : worker[w].pc = "thrown" => row[J(w).row].status \in {"failed", "cancelled"}

(* Only an applied event is about to be shown as processed.                *)
Applied ==
  /\ ProcessedIsApplied
  /\ \A w \in Workers : worker[w].pc = "mark" => done[J(w).event] > 0

(* A delivery about to be queued is the first of its event.                *)
FirstIsQueued == ~env.admins =>
  /\ Delivered
  /\ \A c \in Callers : caller[c].pc = "row" =>
       /\ event[caller[c].event] # "none"
       /\ \A d \in Callers : caller[d].pc = "row" /\ caller[d].event = caller[c].event => c = d
       /\ \A r \in DOMAIN row : row[r].event # caller[c].event
  /\ \A r \in DOMAIN row : event[row[r].event] # "none"

(* A worker that may run its job saw the direction enabled.                *)
Obeyed == \A w \in Workers :
  /\ worker[w].pc # "idle" /\ enabled => worker[w].ok
  /\ worker[w].pc = "run" => worker[w].ok

RecordsInv == TypeOK /\ Placed /\ Told /\ Applied /\ FirstIsQueued /\ Obeyed

LEMMA InitRecords == Init => RecordsInv
<1> SUFFICES ASSUME Init PROVE RecordsInv OBVIOUS
<1>1. TypeOK BY DEF Init, TypeOK, Free, Off, CallerLocal, WorkerLocal, Pcs
<1>2. /\ DOMAIN row = {} /\ DOMAIN job = {}
      /\ \A c \in Callers : caller[c] = Free
      /\ \A w \in Workers : worker[w] = Off
      /\ \A e \in Events : event[e] = "none"
  BY DEF Init
<1> QED BY <1>1, <1>2 DEF RecordsInv, Placed, Told, Applied, FirstIsQueued, Obeyed, RowTellsJob, ProcessedIsApplied, Delivered,
  Held, Free, Off
-----------------------------------------------------------------------------
LEMMA Typed ==
  ASSUME TypeOK
  PROVE  /\ Len(row) \in Nat /\ DOMAIN row = 1..Len(row) /\ \A r \in DOMAIN row : row[r] \in Row /\ r \in Nat \ {0}
         /\ Len(job) \in Nat /\ DOMAIN job = 1..Len(job) /\ \A j \in DOMAIN job : job[j] \in Job /\ j \in Nat \ {0}
BY DEF TypeOK

LEMMA Appended ==
  ASSUME NEW S, NEW s \in Seq(S), NEW e \in S
  PROVE  /\ Append(s, e) \in Seq(S) /\ DOMAIN Append(s, e) = DOMAIN s \cup {Len(s) + 1}
         /\ Len(s) + 1 \in Nat /\ Len(s) + 1 \notin DOMAIN s
         /\ \A q \in DOMAIN s : Append(s, e)[q] = s[q]
         /\ Append(s, e)[Len(s) + 1] = e
<1>1. DOMAIN s = 1..Len(s) /\ Len(s) \in Nat OBVIOUS
<1>2. DOMAIN Append(s, e) = 1..(Len(s) + 1) BY AppendProperties
<1>3. DOMAIN Append(s, e) = DOMAIN s \cup {Len(s) + 1} BY <1>1, <1>2
<1> QED BY <1>1, <1>3, AppendProperties

LEMMA Overwritten ==
  ASSUME NEW S, NEW s \in Seq(S), NEW i, i \in DOMAIN s, NEW e \in S
  PROVE  /\ [s EXCEPT ![i] = e] \in Seq(S) /\ DOMAIN [s EXCEPT ![i] = e] = DOMAIN s
         /\ [s EXCEPT ![i] = e][i] = e
         /\ \A q \in DOMAIN s \ {i} : [s EXCEPT ![i] = e][q] = s[q]
BY ExceptSeq

(* One audit row changes, but not its event; v is its status now.          *)
RowSet(r, v) ==
  /\ row' \in Seq(Row) /\ DOMAIN row' = DOMAIN row
  /\ \A q \in DOMAIN row : row'[q].event = row[q].event
  /\ \A q \in DOMAIN row \ {r} : row'[q] = row[q]
  /\ row'[r].status = v

LEMMA RowIsSet ==
  ASSUME TypeOK, NEW r \in DOMAIN row, NEW e \in Row, e.event = row[r].event, row' = [row EXCEPT ![r] = e]
  PROVE  RowSet(r, e.status)
<1>1. row \in Seq(Row) /\ r \in DOMAIN row /\ e \in Row BY DEF TypeOK
<1>2. /\ [row EXCEPT ![r] = e] \in Seq(Row) /\ DOMAIN [row EXCEPT ![r] = e] = DOMAIN row
      /\ [row EXCEPT ![r] = e][r] = e
      /\ \A q \in DOMAIN row \ {r} : [row EXCEPT ![r] = e][q] = row[q]
  BY <1>1, Overwritten
<1>3. row' \in Seq(Row) /\ DOMAIN row' = DOMAIN row /\ (\A q \in DOMAIN row \ {r} : row'[q] = row[q]) /\ row'[r] = e
  BY <1>2
<1>4. \A q \in DOMAIN row : row'[q].event = row[q].event BY <1>3
<1> QED BY <1>3, <1>4 DEF RowSet

LEMMA StatusIsSet ==
  ASSUME TypeOK, NEW r \in DOMAIN row,
         NEW v \in {"processing", "completed", "skipped", "failed", "manual_review", "cancelled"},
         row' = [row EXCEPT ![r].status = v]
  PROVE  RowSet(r, v)
<1> DEFINE e == [row[r] EXCEPT !.status = v]
<1>1. e \in Row /\ e.event = row[r].event /\ e.status = v BY Typed DEF Row
<1>2. row' = [row EXCEPT ![r] = e] OBVIOUS
<1> HIDE DEF e
<1> QED BY <1>1, <1>2, RowIsSet

(* One caller goes on.                                                     *)
Moves(c, pc) ==
  /\ caller' \in [Callers -> CallerLocal]
  /\ \A d \in Callers \ {c} : caller'[d] = caller[d]
  /\ caller'[c].pc = pc

LEMMA FreeMoves ==
  ASSUME TypeOK, NEW c \in Callers, caller' = [caller EXCEPT ![c] = Free]
  PROVE  Moves(c, "idle") /\ caller'[c].old = 0
BY DEF TypeOK, Moves, CallerLocal, Free

(* One worker goes on with its job.                                        *)
Works(w, pc) ==
  /\ worker' \in [Workers -> WorkerLocal]
  /\ \A v \in Workers \ {w} : worker'[v] = worker[v]
  /\ worker'[w].pc = pc /\ worker'[w].job = worker[w].job /\ worker'[w].ok = worker[w].ok

LEMMA GotoWorks ==
  ASSUME TypeOK, NEW w \in Workers, NEW pc \in Pcs, Goto(w, pc)
  PROVE  Works(w, pc)
BY DEF TypeOK, Goto, Works, WorkerLocal
LEMMA OffWorks ==
  ASSUME TypeOK, NEW w \in Workers, worker' = [worker EXCEPT ![w] = Off]
  PROVE  /\ worker' \in [Workers -> WorkerLocal] /\ worker'[w].pc = "idle"
         /\ \A v \in Workers \ {w} : worker'[v] = worker[v]
BY DEF TypeOK, Off, WorkerLocal, Pcs

(* One queue job changes, but not its row or event; its state is s now.    *)
JobSet(k, s) ==
  /\ job' \in Seq(Job) /\ DOMAIN job' = DOMAIN job
  /\ \A j \in DOMAIN job : job'[j].row = job[j].row /\ job'[j].event = job[j].event
  /\ \A j \in DOMAIN job \ {k} : job'[j] = job[j]
  /\ job'[k].state = s

LEMMA JobIsSet ==
  ASSUME TypeOK, NEW k \in DOMAIN job, NEW e \in Job, e.row = job[k].row, e.event = job[k].event,
         job' = [job EXCEPT ![k] = e]
  PROVE  JobSet(k, e.state) /\ job'[k] = e
<1>1. job \in Seq(Job) /\ k \in DOMAIN job /\ e \in Job BY DEF TypeOK
<1>2. /\ [job EXCEPT ![k] = e] \in Seq(Job) /\ DOMAIN [job EXCEPT ![k] = e] = DOMAIN job
      /\ [job EXCEPT ![k] = e][k] = e
      /\ \A j \in DOMAIN job \ {k} : [job EXCEPT ![k] = e][j] = job[j]
  BY <1>1, Overwritten
<1>3. job' \in Seq(Job) /\ DOMAIN job' = DOMAIN job /\ (\A j \in DOMAIN job \ {k} : job'[j] = job[j]) /\ job'[k] = e
  BY <1>2
<1>4. \A j \in DOMAIN job : job'[j].row = job[j].row /\ job'[j].event = job[j].event BY <1>3
<1> QED BY <1>3, <1>4 DEF JobSet

(* Writes to a row that leave what Told says of jobs and callers.          *)
Harmless(r, v) == v \in {"cancelled", row[r].status} \/ row[r].status = "manual_review"

LEMMA HarmlessWrite ==
  ASSUME NEW r \in DOMAIN row, NEW v, RowSet(r, v), Harmless(r, v)
  PROVE  /\ \A q \in DOMAIN row : row[q].status \in {"pending", "failed", "cancelled"}
                                    => row'[q].status \in {"pending", "failed", "cancelled"}
         /\ \A q \in DOMAIN row : row[q].status \in {"pending", "cancelled"} => row'[q].status \in {"pending", "cancelled"}
         /\ \A q \in DOMAIN row : row[q].status \in {"failed", "cancelled"} => row'[q].status \in {"failed", "cancelled"}
<1> SUFFICES ASSUME NEW q \in DOMAIN row
             PROVE  /\ row[q].status \in {"pending", "failed", "cancelled"} => row'[q].status \in {"pending", "failed", "cancelled"}
                    /\ row[q].status \in {"pending", "cancelled"} => row'[q].status \in {"pending", "cancelled"}
                    /\ row[q].status \in {"failed", "cancelled"} => row'[q].status \in {"failed", "cancelled"}
  OBVIOUS
<1>1. CASE q # r BY <1>1 DEF RowSet
<1>2. CASE q = r BY <1>2 DEF RowSet, Harmless
<1> QED BY <1>1, <1>2

(* A delivery that is not about to be queued leaves FirstIsQueued, as long *)
(* as no row or event does anything but change its status.                 *)
LEMMA FirstKept ==
  ASSUME TypeOK, Placed, FirstIsQueued, env' = env,
         DOMAIN row' = DOMAIN row, \A q \in DOMAIN row : row'[q].event = row[q].event,
         \A e \in Events : event[e] # "none" => event'[e] # "none",
         \A c \in Callers : caller'[c].pc = "row" => caller'[c] = caller[c]
  PROVE  FirstIsQueued'
<1> SUFFICES ASSUME ~env.admins PROVE FirstIsQueued' BY DEF FirstIsQueued
<1>1. Delivered' BY DEF FirstIsQueued, Delivered
<1>2. \A c \in Callers : caller'[c].pc = "row" =>
        /\ event'[caller'[c].event] # "none"
        /\ \A d \in Callers : caller'[d].pc = "row" /\ caller'[d].event = caller'[c].event => c = d
        /\ \A r \in DOMAIN row : row'[r].event # caller'[c].event
  BY DEF FirstIsQueued, Placed
<1>3. \A r \in DOMAIN row : event'[row'[r].event] # "none" BY Typed DEF FirstIsQueued, Row
<1> QED BY <1>1, <1>2, <1>3 DEF FirstIsQueued
-----------------------------------------------------------------------------
(* Handlers.                                                               *)
LEMMA DeliverKeeps ==
  ASSUME RecordsInv, NEW c \in Callers, NEW e \in Events, Deliver(c, e), UNCHANGED env
  PROVE  RecordsInv'
<1> USE DEF RecordsInv
<1>1. UNCHANGED <<row, job, enabled, worker, done>> BY DEF Deliver, OnlyCaller
<1>2. CASE UNCHANGED <<event, caller>>
  <2>1. TypeOK' BY <1>1, <1>2 DEF TypeOK
  <2>2. Placed' BY <1>1, <1>2 DEF Placed, Held, J
  <2>3. Told' BY <1>1, <1>2 DEF Told, RowTellsJob, J
  <2>4. Applied' BY <1>1, <1>2 DEF Applied, ProcessedIsApplied, J
  <2>5. FirstIsQueued' BY <1>1, <1>2 DEF FirstIsQueued, Delivered
  <2>6. Obeyed' BY <1>1 DEF Obeyed
  <2> QED BY <2>1, <2>2, <2>3, <2>4, <2>5, <2>6
<1>3. CASE /\ caller[c].pc = "idle" /\ event[e] = "none" /\ event' = [event EXCEPT ![e] = "received"]
           /\ caller' = [caller EXCEPT ![c] = [Free EXCEPT !.pc = "row", !.event = e]]
  <2>1. Moves(c, "row") /\ caller'[c].event = e /\ caller'[c].old = 0 BY <1>3 DEF TypeOK, Moves, CallerLocal, Free
  <2>2. event' \in [Events -> {"none", "received"} \cup Settled] BY <1>3 DEF TypeOK
  <2>3. TypeOK' BY <1>1, <2>1, <2>2 DEF TypeOK, Moves
  <2>4. \A d \in Callers : Held(d)' = Held(d) /\ (Held(d) => caller'[d] = caller[d]) BY <1>3, <2>1 DEF Held, Moves
  <2>5. Placed' BY <1>1, <2>1, <2>4 DEF Placed, J, Moves, Held
  <2>6. \A d \in Callers : caller'[d].pc = "add" => caller'[d] = caller[d] BY <2>1 DEF Moves
  <2>7. Told' BY <1>1, <2>6 DEF Told, RowTellsJob, J
  <2>8. Applied' BY <1>1, <1>3 DEF Applied, ProcessedIsApplied, J, TypeOK
  <2>9. FirstIsQueued'
    <3>1. \A f \in Events : event'[f] = IF f = e THEN "received" ELSE event[f] BY <1>3 DEF TypeOK
    <3> SUFFICES ASSUME ~env.admins PROVE FirstIsQueued' BY DEF FirstIsQueued
    <3>2. \A d \in Callers : caller[d].pc = "row" => caller[d].event \in Events \ {e}
      BY <1>3 DEF FirstIsQueued, Placed
    <3>3. \A r \in DOMAIN row : row[r].event \in Events \ {e} BY <1>3, Typed DEF FirstIsQueued, Row
    <3>4. Delivered' BY <1>1 DEF FirstIsQueued, Delivered
    <3>5. \A d \in Callers : caller'[d].pc = "row" =>
            /\ event'[caller'[d].event] # "none"
            /\ \A b \in Callers : caller'[b].pc = "row" /\ caller'[b].event = caller'[d].event => d = b
            /\ \A r \in DOMAIN row : row[r].event # caller'[d].event
      BY <2>1, <3>1, <3>2, <3>3 DEF FirstIsQueued, Moves
    <3>6. \A r \in DOMAIN row : event'[row[r].event] # "none" BY <3>1, <3>3 DEF FirstIsQueued
    <3> QED BY <1>1, <3>4, <3>5, <3>6 DEF FirstIsQueued
  <2>10. Obeyed' BY <1>1 DEF Obeyed
  <2> QED BY <2>3, <2>5, <2>7, <2>8, <2>9, <2>10
<1> QED BY <1>2, <1>3 DEF Deliver

LEMMA AskKeeps ==  \* Replay and RetryRow
  ASSUME RecordsInv, NEW c \in Callers, NEW e \in Events, NEW o \in DOMAIN row \cup {0}, env.admins,
         NEW q \in CallerLocal, q.pc = "row", q.event = e, q.old = o,
         caller[c].pc = "idle", caller' = [caller EXCEPT ![c] = q],
         UNCHANGED <<env, event, row, job, enabled, worker, done>>
  PROVE  RecordsInv'
<1> USE DEF RecordsInv
<1>1. Moves(c, "row") /\ caller'[c].event = e /\ caller'[c].old = o BY DEF TypeOK, Moves
<1>2. TypeOK' BY <1>1 DEF TypeOK, Moves
<1>3. \A d \in Callers : Held(d)' = Held(d) /\ (Held(d) => caller'[d] = caller[d]) BY <1>1 DEF Held, Moves
<1>4. Placed' BY <1>1, <1>3 DEF Placed, J, Moves, Held
<1>5. \A d \in Callers : caller'[d].pc = "add" => caller'[d] = caller[d] BY <1>1 DEF Moves
<1>6. Told' BY <1>5 DEF Told, RowTellsJob, J
<1>7. Applied' BY DEF Applied, ProcessedIsApplied, J
<1>8. FirstIsQueued' BY DEF FirstIsQueued
<1>9. Obeyed' BY DEF Obeyed
<1> QED BY <1>2, <1>4, <1>6, <1>7, <1>8, <1>9

LEMMA CreateRowKeeps ==
  ASSUME RecordsInv, NEW c \in Callers, CreateRow(c), UNCHANGED env
  PROVE  RecordsInv'
<1> USE DEF RecordsInv
<1> DEFINE n == Len(row) + 1
           e == [event |-> caller[c].event, status |-> "pending", attempts |-> 0, queued |-> 0]
<1>1. UNCHANGED <<event, job, enabled, worker, done>> BY DEF CreateRow, OnlyCaller
<1>2. e \in Row /\ e.event = caller[c].event /\ e.status = "pending" BY DEF CreateRow, Placed, Row
<1>3. row' = Append(row, e) /\ row \in Seq(Row) BY DEF CreateRow, TypeOK
<1> HIDE DEF e
<1>4. /\ row' \in Seq(Row) /\ DOMAIN row' = DOMAIN row \cup {n} /\ n \in Nat /\ n \notin DOMAIN row
      /\ (\A q \in DOMAIN row : row'[q] = row[q]) /\ row'[n] = e
  BY <1>2, <1>3, Appended
<1>5. /\ Moves(c, "add") /\ caller'[c].row = n /\ caller'[c].event = caller[c].event /\ caller'[c].old = caller[c].old
      /\ caller[c].pc = "row"
  BY <1>4 DEF CreateRow, TypeOK, Moves, CallerLocal
<1> HIDE DEF n
<1>6. TypeOK' BY <1>1, <1>4, <1>5 DEF TypeOK, Moves
<1>7. \A d \in Callers \ {c} : caller'[d] = caller[d] BY <1>5 DEF Moves
<1>8. Held(c)' /\ ~Held(c) /\ \A d \in Callers \ {c} : Held(d)' = Held(d) BY <1>5, <1>7 DEF Held, Moves
<1>9. Placed'
  <2>1. \A d \in Callers :
          /\ caller'[d].pc # "idle" => caller'[d].event \in Events
          /\ Held(d)' => caller'[d].row \in DOMAIN row'
          /\ caller'[d].old \in DOMAIN row' \cup {0}
          /\ caller'[d].pc = "replaced" => caller'[d].old # 0
          /\ caller'[d].pc = "attach" => \E j \in DOMAIN job' : job'[j].row = caller'[d].row
    BY <1>1, <1>4, <1>5, <1>7, <1>8 DEF Placed, Moves
  <2>2. \A d, b \in Callers : Held(d)' /\ Held(b)' /\ caller'[d].row = caller'[b].row => d = b
    BY <1>4, <1>5, <1>7, <1>8 DEF Placed
  <2>3. \A j \in DOMAIN job' : job'[j].row \in DOMAIN row' BY <1>1, <1>4 DEF Placed
  <2> QED BY <2>1, <2>2, <2>3, <1>1 DEF Placed, J
<1>10. Told'
  <2>1. RowTellsJob' BY <1>1, <1>4 DEF Told, RowTellsJob, Placed
  <2>2. \A d \in Callers : caller'[d].pc = "add" =>
          /\ row'[caller'[d].row].status \in {"pending", "cancelled"}
          /\ \A j \in DOMAIN job : job[j].row # caller'[d].row
    <3> SUFFICES ASSUME NEW d \in Callers, caller'[d].pc = "add"
                 PROVE  /\ row'[caller'[d].row].status \in {"pending", "cancelled"}
                        /\ \A j \in DOMAIN job : job[j].row # caller'[d].row
      OBVIOUS
    <3>1. CASE d = c BY <3>1, <1>2, <1>4, <1>5 DEF Placed
    <3>2. CASE d # c BY <3>2, <1>4, <1>7 DEF Told, Placed, Held
    <3> QED BY <3>1, <3>2
  <2>3. \A w \in Workers : worker[w].pc = "thrown" => row'[J(w).row].status \in {"failed", "cancelled"}
    BY <1>4 DEF Told, Placed, J
  <2> QED BY <2>1, <2>2, <2>3, <1>1 DEF Told, J
<1>11. Applied' BY <1>1 DEF Applied, ProcessedIsApplied, J
<1>12. FirstIsQueued'
  <2> SUFFICES ASSUME ~env.admins PROVE FirstIsQueued' BY DEF FirstIsQueued
  <2>1. \A r \in DOMAIN row : row'[r].event = row[r].event /\ row[r].event # caller[c].event /\ event[row[r].event] # "none"
    BY <1>4, <1>5 DEF FirstIsQueued
  <2>2. row'[n].event = caller[c].event /\ event[caller[c].event] # "none" BY <1>2, <1>4, <1>5 DEF FirstIsQueued
  <2>3. Delivered' BY <1>4, <2>1, <2>2 DEF FirstIsQueued, Delivered
  <2>4. \A d \in Callers : caller'[d].pc = "row" =>
          /\ d # c /\ caller'[d] = caller[d] /\ caller[d].pc = "row" /\ caller[d].event # caller[c].event
    BY <1>5, <1>7 DEF FirstIsQueued, Moves
  <2>5. \A d \in Callers : caller'[d].pc = "row" =>
          /\ event[caller'[d].event] # "none"
          /\ \A b \in Callers : caller'[b].pc = "row" /\ caller'[b].event = caller'[d].event => d = b
          /\ \A r \in DOMAIN row' : row'[r].event # caller'[d].event
    BY <1>4, <2>1, <2>2, <2>4 DEF FirstIsQueued
  <2>6. \A r \in DOMAIN row' : event[row'[r].event] # "none" BY <1>4, <2>1, <2>2
  <2> QED BY <1>1, <2>3, <2>5, <2>6 DEF FirstIsQueued
<1>13. Obeyed' BY <1>1 DEF Obeyed
<1> QED BY <1>6, <1>9, <1>10, <1>11, <1>12, <1>13

LEMMA AddJobKeeps ==
  ASSUME RecordsInv, NEW c \in Callers, AddJob(c), UNCHANGED env
  PROVE  RecordsInv'
<1> USE DEF RecordsInv
<1> DEFINE n == Len(job) + 1
           e == [row |-> caller[c].row, event |-> caller[c].event, state |-> "waiting", made |-> 0, stalled |-> FALSE]
<1>1. UNCHANGED <<event, row, enabled, worker, done>> BY DEF AddJob, OnlyCaller
<1>2. /\ e.row = caller[c].row /\ e.state = "waiting"
      /\ caller[c].pc = "add" /\ caller[c].row \in DOMAIN row /\ Held(c)
  BY DEF AddJob, Placed, Held
<1>3. e \in Job BY <1>2, Typed DEF AddJob, Placed, Job
<1>4. job' = Append(job, e) /\ job \in Seq(Job) BY DEF AddJob, TypeOK
<1> HIDE DEF e
<1>5. /\ job' \in Seq(Job) /\ DOMAIN job' = DOMAIN job \cup {n} /\ n \in Nat /\ n \notin DOMAIN job
      /\ (\A j \in DOMAIN job : job'[j] = job[j]) /\ job'[n] = e
  BY <1>3, <1>4, Appended
<1>6. /\ Moves(c, "attach") /\ caller'[c].row = caller[c].row /\ caller'[c].event = caller[c].event
      /\ caller'[c].old = caller[c].old
  BY DEF AddJob, TypeOK, Moves, CallerLocal
<1> HIDE DEF n
<1>7. TypeOK' BY <1>1, <1>5, <1>6 DEF TypeOK, Moves
<1>8. \A d \in Callers \ {c} : caller'[d] = caller[d] BY <1>6 DEF Moves
<1>9. \A d \in Callers : Held(d)' = Held(d) /\ caller'[d].row = caller[d].row BY <1>2, <1>6, <1>8 DEF Held, Moves
<1>10. \A j \in DOMAIN job : job[j].row # caller[c].row BY <1>2 DEF Told
<1>11. \A w \in Workers : worker[w].pc # "idle" => worker[w].job \in DOMAIN job /\ J(w)' = J(w)
  BY <1>1, <1>5 DEF Placed, J
<1>12. Placed'
  <2>1. \A d \in Callers :
          /\ caller'[d].pc # "idle" => caller'[d].event \in Events
          /\ Held(d)' => caller'[d].row \in DOMAIN row
          /\ caller'[d].old \in DOMAIN row \cup {0}
          /\ caller'[d].pc = "replaced" => caller'[d].old # 0
    BY <1>2, <1>6, <1>8, <1>9 DEF Placed, Moves
  <2>2. \A d \in Callers : caller'[d].pc = "attach" => \E j \in DOMAIN job' : job'[j].row = caller'[d].row
    BY <1>2, <1>5, <1>6, <1>8 DEF Placed
  <2>3. \A d, b \in Callers : Held(d)' /\ Held(b)' /\ caller'[d].row = caller'[b].row => d = b
    BY <1>9 DEF Placed
  <2>4. \A j \in DOMAIN job' : job'[j].row \in DOMAIN row BY <1>2, <1>5 DEF Placed
  <2>5. \A i, j \in DOMAIN job' : job'[i].row = job'[j].row => i = j BY <1>2, <1>5, <1>10 DEF Placed
  <2>6. \A w \in Workers : worker[w].pc # "idle" => worker[w].job \in DOMAIN job' /\ (J(w).state)' = "active"
    BY <1>5, <1>11 DEF Placed
  <2> QED BY <2>1, <2>2, <2>3, <2>4, <2>5, <2>6, <1>1 DEF Placed
<1>13. Told'
  <2>1. RowTellsJob' BY <1>1, <1>2, <1>5 DEF Told, RowTellsJob
  <2>2. \A d \in Callers : caller'[d].pc = "add" =>
          /\ row[caller'[d].row].status \in {"pending", "cancelled"}
          /\ \A j \in DOMAIN job' : job'[j].row # caller'[d].row
    <3> SUFFICES ASSUME NEW d \in Callers, caller'[d].pc = "add"
                 PROVE  /\ row[caller'[d].row].status \in {"pending", "cancelled"}
                        /\ \A j \in DOMAIN job' : job'[j].row # caller'[d].row
      OBVIOUS
    <3>1. d # c /\ caller'[d] = caller[d] BY <1>6, <1>8 DEF Moves
    <3>2. caller[d].row # caller[c].row BY <3>1, <1>2 DEF Placed, Held
    <3> QED BY <3>1, <3>2, <1>2, <1>5 DEF Told
  <2> QED BY <2>1, <2>2, <1>1, <1>11 DEF Told
<1>14. Applied' BY <1>1, <1>11 DEF Applied, ProcessedIsApplied
<1>15. \A d \in Callers : caller'[d].pc = "row" => caller'[d] = caller[d] BY <1>6, <1>8 DEF Moves
<1>16. FirstIsQueued' BY <1>1, <1>15, FirstKept
<1>17. Obeyed' BY <1>1 DEF Obeyed
<1> QED BY <1>7, <1>12, <1>13, <1>14, <1>16, <1>17

(* A caller writes to a row it holds or replaces, or only goes on.         *)
LEMMA CallerWrites ==
  ASSUME RecordsInv, NEW c \in Callers, NEW pc \in {"idle", "replaced"}, Moves(c, pc),
         caller[c].pc # "idle",
         caller'[c].old \in DOMAIN row \cup {0}, pc = "replaced" => caller'[c].event \in Events /\ caller'[c].old # 0,
         NEW r \in DOMAIN row, NEW v, RowSet(r, v), Harmless(r, v),
         UNCHANGED <<env, event, job, enabled, worker, done>>
  PROVE  RecordsInv'
<1> USE DEF RecordsInv
<1>1. TypeOK' BY DEF TypeOK, Moves, RowSet
<1>2. \A d \in Callers \ {c} : caller'[d] = caller[d] /\ Held(d)' = Held(d) BY DEF Moves, Held
<1>3. ~Held(c)' BY DEF Moves, Held
<1>4. Placed' BY <1>2, <1>3 DEF Placed, Moves, RowSet, J
<1>5. Told'
  <2>1. RowTellsJob' BY HarmlessWrite DEF Told, RowTellsJob, Placed
  <2>2. \A d \in Callers : caller'[d].pc = "add" =>
          /\ row'[caller'[d].row].status \in {"pending", "cancelled"}
          /\ \A j \in DOMAIN job : job[j].row # caller'[d].row
    BY <1>2, HarmlessWrite DEF Told, Placed, Held, Moves
  <2>3. \A w \in Workers : worker[w].pc = "thrown" => row'[J(w).row].status \in {"failed", "cancelled"}
    BY HarmlessWrite DEF Told, Placed, J
  <2> QED BY <2>1, <2>2, <2>3 DEF Told, J
<1>6. Applied' BY DEF Applied, ProcessedIsApplied, J
<1>7. \A d \in Callers : caller'[d].pc = "row" => caller'[d] = caller[d] BY DEF Moves
<1>8. FirstIsQueued' BY <1>7, FirstKept DEF RowSet
<1>9. Obeyed' BY DEF Obeyed
<1> QED BY <1>1, <1>4, <1>5, <1>6, <1>8, <1>9

LEMMA AttachKeeps ==
  ASSUME RecordsInv, NEW c \in Callers, Attach(c), UNCHANGED env
  PROVE  RecordsInv'
<1> USE DEF RecordsInv
<1> DEFINE r == caller[c].row
           q == CHOOSE j \in DOMAIN job : job[j].row = caller[c].row
           e == [row[r] EXCEPT !.queued = q]
           pc == IF caller[c].old = 0 THEN "idle" ELSE "replaced"
<1>1. UNCHANGED <<event, job, enabled, worker, done>> BY DEF Attach, OnlyCaller
<1>2. caller[c].pc = "attach" /\ r \in DOMAIN row BY DEF Attach, Placed, Held
<1>3. q \in DOMAIN job BY <1>2 DEF Placed
<1>4. q \in Nat /\ row[r] \in Row BY <1>2, <1>3, Typed
<1> HIDE DEF q
<1>5. e \in Row /\ e.event = row[r].event /\ e.status = row[r].status BY <1>4 DEF Row
<1>6. row' = [row EXCEPT ![r] = e] BY DEF Attach, q
<1> HIDE DEF e
<1>7. RowSet(r, row[r].status) BY <1>2, <1>5, <1>6, RowIsSet
<1>8. Harmless(r, row[r].status) BY DEF Harmless
<1>9. Moves(c, pc) /\ (caller'[c].old = caller[c].old \/ caller'[c].old = 0)
      /\ (pc = "replaced" => caller'[c].event = caller[c].event /\ caller'[c].old = caller[c].old)
  BY DEF Attach, TypeOK, Moves, CallerLocal, Free
<1>10. caller[c].event \in Events /\ caller[c].old \in DOMAIN row \cup {0} /\ pc \in {"idle", "replaced"}
       /\ (pc = "replaced" => caller[c].old # 0)
  BY <1>2 DEF Placed
<1> HIDE DEF pc, r
<1> QED BY <1>1, <1>2, <1>7, <1>8, <1>9, <1>10, CallerWrites

LEMMA ReplacedKeeps ==
  ASSUME RecordsInv, NEW c \in Callers, Replaced(c), UNCHANGED env
  PROVE  RecordsInv'
<1> USE DEF RecordsInv
<1>1. UNCHANGED <<event, job, enabled, worker, done>> BY DEF Replaced, OnlyCaller
<1>2. caller[c].pc = "replaced" /\ caller[c].old \in DOMAIN row BY DEF Replaced, Placed
<1>3. RowSet(caller[c].old, "cancelled") BY <1>2, StatusIsSet DEF Replaced
<1>4. Harmless(caller[c].old, "cancelled") BY DEF Harmless
<1>5. Moves(c, "idle") /\ caller'[c].old = 0 BY FreeMoves DEF Replaced
<1> QED BY <1>1, <1>2, <1>3, <1>4, <1>5, CallerWrites

LEMMA LoseCallerKeeps ==
  ASSUME RecordsInv, NEW c \in Callers, LoseCaller(c), UNCHANGED env
  PROVE  RecordsInv'
<1> USE DEF RecordsInv
<1>1. UNCHANGED <<event, row, job, enabled, worker, done>> BY DEF LoseCaller
<1>2. Moves(c, "idle") /\ caller'[c].old = 0 BY FreeMoves DEF LoseCaller
<1>3. TypeOK' BY <1>1, <1>2 DEF TypeOK, Moves
<1>4. \A d \in Callers \ {c} : caller'[d] = caller[d] /\ Held(d)' = Held(d) BY <1>2 DEF Moves, Held
<1>5. ~Held(c)' BY <1>2 DEF Moves, Held
<1>6. Placed' BY <1>1, <1>2, <1>4, <1>5 DEF Placed, Moves, J
<1>7. \A d \in Callers : caller'[d].pc \in {"add", "row"} => caller'[d] = caller[d] BY <1>2 DEF Moves
<1>8. Told' BY <1>1, <1>7 DEF Told, RowTellsJob, J
<1>9. Applied' BY <1>1 DEF Applied, ProcessedIsApplied, J
<1>10. FirstIsQueued' BY <1>1, <1>7, FirstKept
<1>11. Obeyed' BY <1>1 DEF Obeyed
<1> QED BY <1>3, <1>6, <1>8, <1>9, <1>10, <1>11
-----------------------------------------------------------------------------
(* Administrators, and changes of the settings.                            *)
LEMMA CancelRowKeeps ==
  ASSUME RecordsInv, NEW r \in DOMAIN row, CancelRow(r), UNCHANGED env
  PROVE  RecordsInv'
<1> USE DEF RecordsInv
<1>1. UNCHANGED <<event, enabled, caller, worker, done>> BY DEF CancelRow
<1>2. RowSet(r, "cancelled") BY StatusIsSet DEF CancelRow
<1>3. Harmless(r, "cancelled") BY DEF Harmless
<1>4. /\ DOMAIN job' = DOMAIN job /\ job' = [j \in DOMAIN job |-> job'[j]]
      /\ \A j \in DOMAIN job : job'[j] = job[j] \/ (job[j].state # "active" /\ job'[j] = [job[j] EXCEPT !.state = "removed"])
  BY DEF CancelRow
<1>5. \A j \in DOMAIN job :
        /\ job'[j] \in Job /\ job'[j].row = job[j].row /\ job'[j].event = job[j].event
        /\ job[j].state = "active" => job'[j] = job[j]
        /\ job'[j].state = "waiting" => job'[j] = job[j]
  <2> SUFFICES ASSUME NEW j \in DOMAIN job
               PROVE  /\ job'[j] \in Job /\ job'[j].row = job[j].row /\ job'[j].event = job[j].event
                      /\ job[j].state = "active" => job'[j] = job[j]
                      /\ job'[j].state = "waiting" => job'[j] = job[j]
    OBVIOUS
  <2>1. job[j] \in Job BY Typed
  <2>2. CASE job'[j] = job[j] BY <2>1, <2>2
  <2>3. CASE job[j].state # "active" /\ job'[j] = [job[j] EXCEPT !.state = "removed"] BY <2>1, <2>3 DEF Job
  <2> QED BY <1>4, <2>2, <2>3
<1>6. job' \in Seq(Job)
  <2>1. \E n \in Nat : DOMAIN job = 1..n BY Typed
  <2> QED BY <2>1, <1>4, <1>5, SeqDef
<1>7. TypeOK' BY <1>1, <1>2, <1>6 DEF TypeOK, RowSet
<1>8. \A w \in Workers : worker[w].pc # "idle" => J(w)' = J(w) BY <1>1, <1>5 DEF Placed, J
<1>9. \A c \in Callers : Held(c)' = Held(c) BY <1>1 DEF Held
<1>10. Placed' BY <1>1, <1>2, <1>4, <1>5, <1>8, <1>9 DEF Placed, RowSet
<1>11. Told'
  <2>1. RowTellsJob' BY <1>2, <1>3, <1>4, <1>5, HarmlessWrite DEF Told, RowTellsJob, Placed
  <2>2. \A c \in Callers : caller[c].pc = "add" => row'[caller[c].row].status \in {"pending", "cancelled"}
    BY <1>2, <1>3, HarmlessWrite DEF Told, Placed, Held
  <2>3. \A w \in Workers : worker[w].pc = "thrown" => row'[J(w).row].status \in {"failed", "cancelled"}
    BY <1>2, <1>3, HarmlessWrite DEF Told, Placed, J
  <2>4. \A c \in Callers : caller[c].pc = "add" => \A j \in DOMAIN job : job'[j].row # caller[c].row
    BY <1>5 DEF Told
  <2> QED BY <2>1, <2>2, <2>3, <2>4, <1>1, <1>4, <1>8 DEF Told
<1>12. Applied' BY <1>1, <1>8 DEF Applied, ProcessedIsApplied
<1>13. FirstIsQueued' BY <1>1, <1>2, FirstKept DEF RowSet
<1>14. Obeyed' BY <1>1 DEF Obeyed
<1> QED BY <1>7, <1>10, <1>11, <1>12, <1>13, <1>14

LEMMA ResolveRowKeeps ==
  ASSUME RecordsInv, NEW r \in DOMAIN row, ResolveRow(r), UNCHANGED env
  PROVE  RecordsInv'
<1> USE DEF RecordsInv
<1>1. UNCHANGED <<event, job, enabled, caller, worker, done>> BY DEF ResolveRow
<1>2. RowSet(r, "completed") BY StatusIsSet DEF ResolveRow
<1>3. Harmless(r, "completed") BY DEF Harmless, ResolveRow
<1>4. TypeOK' BY <1>1, <1>2 DEF TypeOK, RowSet
<1>5. \A c \in Callers : Held(c)' = Held(c) BY <1>1 DEF Held
<1>6. Placed' BY <1>1, <1>2, <1>5 DEF Placed, RowSet, J
<1>7. Told'
  <2>1. RowTellsJob' BY <1>1, <1>2, <1>3, HarmlessWrite DEF Told, RowTellsJob, Placed
  <2>2. \A c \in Callers : caller[c].pc = "add" => row'[caller[c].row].status \in {"pending", "cancelled"}
    BY <1>2, <1>3, HarmlessWrite DEF Told, Placed, Held
  <2>3. \A w \in Workers : worker[w].pc = "thrown" => row'[J(w).row].status \in {"failed", "cancelled"}
    BY <1>2, <1>3, HarmlessWrite DEF Told, Placed, J
  <2> QED BY <2>1, <2>2, <2>3, <1>1 DEF Told, J
<1>8. Applied' BY <1>1 DEF Applied, ProcessedIsApplied, J
<1>9. FirstIsQueued' BY <1>1, <1>2, FirstKept DEF RowSet
<1>10. Obeyed' BY <1>1 DEF Obeyed
<1> QED BY <1>4, <1>6, <1>7, <1>8, <1>9, <1>10

LEMMA ToggleKeeps ==
  ASSUME RecordsInv, Toggle, UNCHANGED env
  PROVE  RecordsInv'
<1> USE DEF RecordsInv
<1>1. UNCHANGED <<event, row, job, caller, done>> BY DEF Toggle
<1>2. /\ worker' \in [Workers -> WorkerLocal] /\ enabled' \in BOOLEAN
      /\ \A w \in Workers : /\ worker'[w].pc = worker[w].pc /\ worker'[w].job = worker[w].job
                            /\ worker[w].pc # "idle" => worker'[w].ok
  BY DEF Toggle, TypeOK, WorkerLocal
<1>3. TypeOK' BY <1>1, <1>2 DEF TypeOK
<1>4. \A w \in Workers : J(w)' = J(w) BY <1>1, <1>2 DEF J
<1>5. Placed' BY <1>1, <1>2, <1>4 DEF Placed, Held
<1>6. Told' BY <1>1, <1>2, <1>4 DEF Told, RowTellsJob
<1>7. Applied' BY <1>1, <1>2, <1>4 DEF Applied, ProcessedIsApplied
<1>8. FirstIsQueued' BY <1>1, FirstKept
<1>9. Obeyed' BY <1>2 DEF Obeyed
<1> QED BY <1>3, <1>5, <1>6, <1>7, <1>8, <1>9
-----------------------------------------------------------------------------
(* Workers.                                                                *)
LEMMA TakeKeeps ==
  ASSUME RecordsInv, NEW w \in Workers, NEW k \in DOMAIN job, Take(w, k), UNCHANGED env
  PROVE  RecordsInv'
<1> USE DEF RecordsInv
<1> DEFINE e == [job[k] EXCEPT !.state = "active"]
<1>1. UNCHANGED <<event, row, enabled, caller, done>> BY DEF Take, OnlyWorker
<1>2. e \in Job /\ e.row = job[k].row /\ e.event = job[k].event /\ e.state = "active" BY Typed DEF Job
<1>3. job' = [job EXCEPT ![k] = e] BY DEF Take
<1> HIDE DEF e
<1>4. JobSet(k, "active") BY <1>2, <1>3, JobIsSet
<1>5. /\ worker' \in [Workers -> WorkerLocal]
      /\ \A v \in Workers \ {w} : worker'[v] = worker[v]
      /\ worker'[w].pc = "start" /\ worker'[w].job = k /\ worker'[w].ok = enabled
  BY Typed DEF Take, TypeOK, WorkerLocal, Pcs
<1>6. worker[w].pc = "idle" /\ job[k].state = "waiting" BY DEF Take
<1>7. TypeOK' BY <1>1, <1>4, <1>5 DEF TypeOK, JobSet
<1>8. \A v \in Workers : worker[v].pc # "idle" => worker[v].job # k /\ v # w /\ J(v)' = J(v)
  BY <1>4, <1>5, <1>6 DEF Placed, J, JobSet
<1>9. Placed'
  <2>1. \A c \in Callers : Held(c)' = Held(c) BY <1>1 DEF Held
  <2>2. \A v \in Workers : worker'[v].pc # "idle" => worker'[v].job \in DOMAIN job' /\ (J(v).state)' = "active"
    BY <1>4, <1>5, <1>8 DEF Placed, J, JobSet
  <2>3. \A u, v \in Workers : worker'[u].pc # "idle" /\ worker'[v].pc # "idle" /\ worker'[u].job = worker'[v].job => u = v
    BY <1>5, <1>8 DEF Placed
  <2> QED BY <1>1, <1>4, <2>1, <2>2, <2>3 DEF Placed, JobSet
<1>10. Told'
  <2>1. RowTellsJob' BY <1>1, <1>4 DEF Told, RowTellsJob, JobSet
  <2>2. \A v \in Workers : worker'[v].pc = "thrown" => worker'[v] = worker[v] /\ J(v)' = J(v) BY <1>5, <1>8
  <2> QED BY <1>1, <1>4, <2>1, <2>2 DEF Told, JobSet
<1>11. \A v \in Workers : worker'[v].pc \in {"mark", "run"} => worker'[v] = worker[v] /\ J(v)' = J(v) BY <1>5, <1>8
<1>12. Applied' BY <1>1, <1>11 DEF Applied, ProcessedIsApplied
<1>13. FirstIsQueued' BY <1>1, FirstKept
<1>14. Obeyed' BY <1>1, <1>5 DEF Obeyed
<1> QED BY <1>7, <1>9, <1>10, <1>12, <1>13, <1>14

(* A worker writes a status to the row of its job.                         *)
LEMMA WorkerReports ==
  ASSUME RecordsInv, NEW w \in Workers, worker[w].pc # "idle", NEW pc \in Pcs \ {"idle", "run", "mark"}, Works(w, pc),
         NEW v, RowSet(J(w).row, v), pc = "thrown" => v \in {"failed", "cancelled"},
         UNCHANGED <<env, event, job, enabled, caller, done>>
  PROVE  RecordsInv'
<1> USE DEF RecordsInv
<1>1. TypeOK' BY DEF TypeOK, Works, RowSet
<1>2. \A u \in Workers : J(u)' = J(u) BY DEF Works, J
<1>3. Placed'
  <2>1. \A c \in Callers : Held(c)' = Held(c) BY DEF Held
  <2>2. \A u \in Workers : worker'[u].pc # "idle" => worker[u].pc # "idle" /\ worker'[u].job = worker[u].job BY DEF Works
  <2> QED BY <1>2, <2>1, <2>2 DEF Placed, RowSet
<1>4. J(w).row \in DOMAIN row /\ worker[w].job \in DOMAIN job /\ J(w).state = "active" BY DEF Placed, J
<1>5. \A j \in DOMAIN job : job[j].state # "active" => job[j].row # J(w).row BY <1>4 DEF Placed, J
<1>6. Told'
  <2>1. RowTellsJob' BY <1>5 DEF Told, RowTellsJob, Placed, RowSet
  <2>2. \A c \in Callers : caller[c].pc = "add" => row'[caller[c].row] = row[caller[c].row]
    BY <1>4 DEF Told, Placed, Held, RowSet, J
  <2>3. \A u \in Workers \ {w} : worker[u].pc = "thrown" => row'[J(u).row] = row[J(u).row]
    BY <1>4 DEF Placed, RowSet, J
  <2>4. \A u \in Workers : worker'[u].pc = "thrown" => row'[J(u).row].status \in {"failed", "cancelled"}
    BY <2>3 DEF Told, Works, RowSet
  <2> QED BY <2>1, <2>2, <2>4, <1>2 DEF Told
<1>7. \A u \in Workers : worker'[u].pc \in {"run", "mark"} => worker'[u] = worker[u] BY DEF Works
<1>8. Applied' BY <1>2, <1>7 DEF Applied, ProcessedIsApplied
<1>9. FirstIsQueued' BY FirstKept DEF RowSet
<1>10. Obeyed' BY <1>7 DEF Obeyed, Works
<1> QED BY <1>1, <1>3, <1>6, <1>8, <1>9, <1>10

(* A worker goes on, and may write to the event of its job.                *)
LEMMA WorkerNotes ==
  ASSUME RecordsInv, NEW w \in Workers, worker[w].pc # "idle", NEW pc \in Pcs \ {"idle", "thrown"}, Works(w, pc),
         pc = "run" => worker[w].ok,
         done' \in [Events -> Nat], \A e \in Events : done[e] > 0 => done'[e] > 0,
         pc = "mark" => done'[J(w).event] > 0,
         event' \in [Events -> {"none", "received"} \cup Settled],
         \A e \in Events : event[e] # "none" => event'[e] # "none",
         \A e \in Events : event'[e] = "processed" => event[e] = "processed" \/ done[e] > 0,
         UNCHANGED <<env, row, job, enabled, caller>>
  PROVE  RecordsInv'
<1> USE DEF RecordsInv
<1>1. TypeOK' BY DEF TypeOK, Works
<1>2. \A u \in Workers : J(u)' = J(u) BY DEF Works, J
<1>3. Placed'
  <2>1. \A c \in Callers : Held(c)' = Held(c) BY DEF Held
  <2>2. \A u \in Workers : worker'[u].pc # "idle" => worker[u].pc # "idle" /\ worker'[u].job = worker[u].job BY DEF Works
  <2> QED BY <1>2, <2>1, <2>2 DEF Placed
<1>4. \A u \in Workers : worker'[u].pc = "thrown" => worker'[u] = worker[u] BY DEF Works
<1>5. Told' BY <1>2, <1>4 DEF Told, RowTellsJob
<1>6. Applied'
  <2>1. ProcessedIsApplied' BY DEF Applied, ProcessedIsApplied
  <2>2. \A u \in Workers : worker'[u].pc = "mark" => done'[J(u).event] > 0
    <3> SUFFICES ASSUME NEW u \in Workers, worker'[u].pc = "mark" PROVE done'[J(u).event] > 0 OBVIOUS
    <3>1. CASE u = w BY <3>1 DEF Works
    <3>2. CASE u # w
      <4>1. worker[u].pc = "mark" BY <3>2 DEF Works
      <4>2. J(u) \in Job BY <4>1, Typed DEF Placed, J
      <4>3. J(u).event \in Events BY <4>2 DEF Job
      <4> QED BY <4>1, <4>3 DEF Applied
    <3> QED BY <3>1, <3>2
  <2> QED BY <2>1, <2>2, <1>2 DEF Applied
<1>7. FirstIsQueued' BY FirstKept
<1>8. Obeyed' BY DEF Obeyed, Works
<1> QED BY <1>1, <1>3, <1>5, <1>6, <1>7, <1>8

(* A worker is off, its job ended or waits again.                          *)
LEMMA WorkerEnds ==
  ASSUME RecordsInv, NEW w \in Workers, worker[w].pc # "idle", worker' = [worker EXCEPT ![w] = Off],
         NEW s, JobSet(worker[w].job, s), s = "waiting" => worker[w].pc = "thrown" \/ job'[worker[w].job].stalled,
         UNCHANGED <<env, event, row, enabled, caller, done>>
  PROVE  RecordsInv'
<1> USE DEF RecordsInv
<1>1. /\ worker' \in [Workers -> WorkerLocal] /\ worker'[w].pc = "idle"
      /\ \A v \in Workers \ {w} : worker'[v] = worker[v]
  BY OffWorks
<1>2. TypeOK' BY <1>1 DEF TypeOK, JobSet
<1>3. \A v \in Workers : worker'[v].pc # "idle" =>
        v # w /\ worker'[v] = worker[v] /\ worker[v].job \in DOMAIN job /\ J(v)' = J(v)
  BY <1>1 DEF Placed, J, JobSet
<1>4. Placed'
  <2>1. \A c \in Callers : Held(c)' = Held(c) BY DEF Held
  <2> QED BY <1>3, <2>1 DEF Placed, JobSet
<1>5. Told'
  <2>1. RowTellsJob'
    <3> SUFFICES ASSUME NEW j \in DOMAIN job, job'[j].state = "waiting", ~job'[j].stalled
                 PROVE  row[job'[j].row].status \in {"pending", "failed", "cancelled"}
      BY DEF RowTellsJob, JobSet
    <3>1. CASE j # worker[w].job BY <3>1 DEF Told, RowTellsJob, JobSet
    <3>2. CASE j = worker[w].job BY <3>2 DEF Told, JobSet, J
    <3> QED BY <3>1, <3>2
  <2>2. \A v \in Workers : worker'[v].pc = "thrown" => row[(J(v).row)'].status \in {"failed", "cancelled"}
    BY <1>3 DEF Told
  <2> QED BY <2>1, <2>2 DEF Told, JobSet
<1>6. Applied' BY <1>3 DEF Applied, ProcessedIsApplied
<1>7. FirstIsQueued' BY FirstKept
<1>8. Obeyed' BY <1>3 DEF Obeyed
<1> QED BY <1>2, <1>4, <1>5, <1>6, <1>7, <1>8

LEMMA Working ==
  ASSUME RecordsInv, NEW w \in Workers, worker[w].pc # "idle"
  PROVE  /\ worker[w].job \in DOMAIN job /\ J(w) \in Job /\ J(w).state = "active"
         /\ J(w).row \in DOMAIN row /\ J(w).event \in Events
<1>1. TypeOK /\ worker[w].job \in DOMAIN job /\ J(w).state = "active" /\ J(w).row \in DOMAIN row BY DEF RecordsInv, Placed, J
<1>2. J(w) \in Job BY <1>1, Typed DEF J
<1> QED BY <1>1, <1>2 DEF Job

LEMMA StartKeeps ==
  ASSUME RecordsInv, NEW w \in Workers, Start(w), UNCHANGED env
  PROVE  RecordsInv'
<1> DEFINE r == J(w).row
           e == [row[r] EXCEPT !.status = "processing", !.attempts = J(w).made + 1]
<1>1. TypeOK BY DEF RecordsInv
<1>2. worker[w].pc # "idle" /\ UNCHANGED <<event, job, done, enabled, caller>> BY DEF Start, OnlyWorker
<1>3. r \in DOMAIN row /\ J(w) \in Job BY <1>2, Working
<1>4. row[r] \in Row /\ J(w).made + 1 \in Nat BY <1>1, <1>3, Typed DEF Job
<1>5. e \in Row /\ e.event = row[r].event /\ e.status = "processing" BY <1>4 DEF Row
<1>6. row' = [row EXCEPT ![r] = e] BY DEF Start
<1> HIDE DEF e
<1>7. RowSet(r, "processing") BY <1>1, <1>3, <1>5, <1>6, RowIsSet
<1>8. Works(w, "gate") BY <1>1, GotoWorks DEF Start, Pcs
<1> QED BY <1>2, <1>7, <1>8, WorkerReports DEF Pcs

LEMMA ReportKeeps ==
  ASSUME RecordsInv, NEW w \in Workers, UNCHANGED env,
         \/ Report(w, "skip", "skipped") \/ Report(w, "complete", "completed")
         \/ Report(w, "failed", "failed") \/ Report(w, "review", "manual_review")
  PROVE  RecordsInv'
<1>1. PICK v \in {"completed", "skipped", "failed", "manual_review"}, pc \in {"thrown", "unrecoverable", "returned"} :
        /\ worker[w].pc # "idle" /\ UNCHANGED <<event, job, done, enabled, caller>>
        /\ row' = [row EXCEPT ![J(w).row].status = v] /\ Goto(w, pc)
        /\ pc = "thrown" => v = "failed"
  BY DEF Report, OnlyWorker
<1>2. TypeOK BY DEF RecordsInv
<1>3. J(w).row \in DOMAIN row BY <1>1, Working
<1>4. RowSet(J(w).row, v) BY <1>1, <1>2, <1>3, StatusIsSet
<1>5. pc \in Pcs \ {"idle", "run", "mark"} BY <1>1 DEF Pcs
<1>6. Works(w, pc) BY <1>1, <1>2, <1>5, GotoWorks
<1> QED BY <1>1, <1>4, <1>5, <1>6, WorkerReports

LEMMA GateKeeps ==
  ASSUME RecordsInv, NEW w \in Workers, Gate(w), UNCHANGED env
  PROVE  RecordsInv'
<1> DEFINE pc == IF enabled THEN "run" ELSE "ignore"
<1>1. TypeOK /\ done \in [Events -> Nat] /\ event \in [Events -> {"none", "received"} \cup Settled]
  BY DEF RecordsInv, TypeOK
<1>2. worker[w].pc = "gate" /\ Goto(w, pc) /\ UNCHANGED <<event, row, job, done, enabled, caller>> BY DEF Gate, OnlyWorker
<1>3. pc \in Pcs \ {"idle", "thrown"} /\ pc # "mark" BY DEF Pcs
<1>4. pc = "run" => worker[w].ok BY <1>2 DEF RecordsInv, Obeyed
<1> HIDE DEF pc
<1>5. Works(w, pc) BY <1>1, <1>2, <1>3, GotoWorks
<1> QED BY <1>1, <1>2, <1>3, <1>4, <1>5, WorkerNotes

LEMMA EventIsSet ==
  ASSUME RecordsInv, NEW e \in Events, NEW s \in Settled, s = "processed" => done[e] > 0,
         event' = [event EXCEPT ![e] = s]
  PROVE  /\ event' \in [Events -> {"none", "received"} \cup Settled]
         /\ \A f \in Events : event[f] # "none" => event'[f] # "none"
         /\ \A f \in Events : event'[f] = "processed" => event[f] = "processed" \/ done[f] > 0
BY DEF RecordsInv, TypeOK, Settled

LEMMA IgnoreKeeps ==
  ASSUME RecordsInv, NEW w \in Workers, Ignore(w), UNCHANGED env
  PROVE  RecordsInv'
<1>1. TypeOK /\ done \in [Events -> Nat] BY DEF RecordsInv, TypeOK
<1>2. /\ worker[w].pc # "idle" /\ UNCHANGED <<row, job, done, enabled, caller>>
      /\ event' = [event EXCEPT ![J(w).event] = "ignored"]
  BY DEF Ignore, OnlyWorker
<1>3. Works(w, "skip") BY <1>1, GotoWorks DEF Ignore, Pcs
<1>4. "ignored" \in Settled /\ "skip" \in Pcs \ {"idle", "thrown"} BY DEF Settled, Pcs
<1>5. J(w).event \in Events BY <1>2, Working
<1>6. /\ event' \in [Events -> {"none", "received"} \cup Settled]
      /\ \A f \in Events : event[f] # "none" => event'[f] # "none"
      /\ \A f \in Events : event'[f] = "processed" => event[f] = "processed" \/ done[f] > 0
  BY <1>2, <1>4, <1>5, EventIsSet
<1> QED BY <1>1, <1>2, <1>3, <1>4, <1>6, WorkerNotes

LEMMA RunJobKeeps ==
  ASSUME RecordsInv, NEW w \in Workers, RunJob(w), UNCHANGED env
  PROVE  RecordsInv'
<1>1. TypeOK /\ done \in [Events -> Nat] /\ event \in [Events -> {"none", "received"} \cup Settled]
  BY DEF RecordsInv, TypeOK
<1>2. worker[w].pc # "idle" /\ UNCHANGED <<event, row, job, enabled, caller>> BY DEF RunJob, OnlyWorker
<1>3. J(w).event \in Events BY <1>2, Working
<1>4. PICK pc \in {"mark", "retryable", "manual"} :
        /\ Goto(w, pc) /\ done' \in [Events -> Nat]
        /\ \A e \in Events : done[e] > 0 => done'[e] > 0
        /\ pc = "mark" => done'[J(w).event] > 0
  <2>1. CASE done' = [done EXCEPT ![J(w).event] = @ + 1] /\ Goto(w, "mark") BY <2>1, <1>1, <1>3
  <2>2. CASE UNCHANGED done /\ (Goto(w, "retryable") \/ Goto(w, "manual")) BY <2>2, <1>1
  <2> QED BY <2>1, <2>2 DEF RunJob
<1>5. pc \in Pcs \ {"idle", "thrown"} /\ pc # "run" BY <1>4 DEF Pcs
<1>6. Works(w, pc) BY <1>1, <1>4, <1>5, GotoWorks
<1> QED BY <1>1, <1>2, <1>4, <1>5, <1>6, WorkerNotes

LEMMA MarkKeeps ==
  ASSUME RecordsInv, NEW w \in Workers, MarkProcessed(w) \/ MarkFailed(w), UNCHANGED env
  PROVE  RecordsInv'
<1>1. TypeOK /\ done \in [Events -> Nat] BY DEF RecordsInv, TypeOK
<1>2. PICK s \in {"processed", "failed"}, pc \in {"complete", "review", "failed"} :
        /\ worker[w].pc # "idle" /\ UNCHANGED <<row, job, done, enabled, caller>>
        /\ event' = [event EXCEPT ![J(w).event] = s] /\ Goto(w, pc)
        /\ s = "processed" => worker[w].pc = "mark"
  BY DEF MarkProcessed, MarkFailed, OnlyWorker
<1>3. s \in Settled /\ pc \in Pcs \ {"idle", "thrown"} /\ pc \notin {"run", "mark"} BY <1>2 DEF Settled, Pcs
<1>4. Works(w, pc) BY <1>1, <1>2, <1>3, GotoWorks
<1>5. J(w).event \in Events /\ (s = "processed" => done[J(w).event] > 0) BY <1>2, Working DEF RecordsInv, Applied
<1>6. /\ event' \in [Events -> {"none", "received"} \cup Settled]
      /\ \A f \in Events : event[f] # "none" => event'[f] # "none"
      /\ \A f \in Events : event'[f] = "processed" => event[f] = "processed" \/ done[f] > 0
  BY <1>2, <1>3, <1>5, EventIsSet
<1> QED BY <1>1, <1>2, <1>3, <1>4, <1>6, WorkerNotes

LEMMA FinishKeeps ==
  ASSUME RecordsInv, NEW w \in Workers, Finish(w), UNCHANGED env
  PROVE  RecordsInv'
<1> DEFINE k == worker[w].job
           s == IF worker[w].pc = "returned" THEN "completed"
                ELSE IF worker[w].pc = "thrown" /\ J(w).made + 1 < Attempts THEN "waiting" ELSE "failed"
           e == [job[k] EXCEPT !.made = @ + 1, !.state = s]
<1>1. TypeOK BY DEF RecordsInv
<1>2. /\ worker[w].pc # "idle" /\ worker' = [worker EXCEPT ![w] = Off]
      /\ UNCHANGED <<event, row, done, enabled, caller>>
  BY DEF Finish, OnlyWorker
<1>3. k \in DOMAIN job /\ job[k] \in Job BY <1>2, Working DEF J
<1>4. s \in {"completed", "waiting", "failed"} /\ (s = "waiting" => worker[w].pc = "thrown") OBVIOUS
<1>5. job' = [job EXCEPT ![k] = e] BY DEF Finish
<1> HIDE DEF s
<1>6. e \in Job /\ e.row = job[k].row /\ e.event = job[k].event /\ e.state = s
  <2>1. job[k].made + 1 \in Nat BY <1>3 DEF Job
  <2> DEFINE m == job[k].made + 1
  <2>2. e = [job[k] EXCEPT !.made = m, !.state = s] OBVIOUS
  <2> HIDE DEF e, m
  <2>3. m \in Nat BY <2>1 DEF m
  <2> QED BY <1>3, <1>4, <2>2, <2>3 DEF Job
<1> HIDE DEF e
<1>7. JobSet(k, s) BY <1>1, <1>3, <1>5, <1>6, JobIsSet
<1> QED BY <1>2, <1>4, <1>7, WorkerEnds

LEMMA StallKeeps ==
  ASSUME RecordsInv, NEW w \in Workers, Stall(w), UNCHANGED env
  PROVE  RecordsInv'
<1> DEFINE k == worker[w].job
           s == IF job[k].state = "active" /\ ~J(w).stalled THEN "waiting" ELSE "failed"
           e == [job[k] EXCEPT !.stalled = TRUE, !.state = s]
<1>1. TypeOK BY DEF RecordsInv
<1>2. /\ worker[w].pc # "idle" /\ worker' = [worker EXCEPT ![w] = Off]
      /\ UNCHANGED <<event, row, done, enabled, caller>>
  BY DEF Stall
<1>3. k \in DOMAIN job /\ job[k] \in Job BY <1>2, Working DEF J
<1>4. s \in {"waiting", "failed"} OBVIOUS
<1>5. job' = [job EXCEPT ![k] = e] BY DEF Stall
<1> HIDE DEF s
<1>6. e \in Job /\ e.row = job[k].row /\ e.event = job[k].event /\ e.state = s /\ e.stalled BY <1>3, <1>4 DEF Job
<1> HIDE DEF e
<1>7. JobSet(k, s) /\ job'[k] = e BY <1>1, <1>3, <1>5, <1>6, JobIsSet
<1> QED BY <1>2, <1>6, <1>7, WorkerEnds
-----------------------------------------------------------------------------
LEMMA NextKeeps ==
  ASSUME RecordsInv, [Next]_vars
  PROVE  RecordsInv'
<1>1. CASE UNCHANGED vars
  <2>1. UNCHANGED <<env, event, row, job, enabled, caller, worker, done>> BY <1>1 DEF vars, state
  <2>2. UNCHANGED <<TypeOK, Placed, Obeyed>> BY <2>1 DEF TypeOK, Placed, Obeyed, Held, J
  <2>3. UNCHANGED <<Told, Applied, FirstIsQueued>>
    BY <2>1 DEF Told, Applied, FirstIsQueued, RowTellsJob, ProcessedIsApplied, Delivered, J
  <2> QED BY <2>2, <2>3 DEF RecordsInv
<1>2. CASE Next
  <2> USE <1>2
  <2>1. UNCHANGED env /\ env.callers \subseteq Callers /\ env.workers \subseteq Workers
    BY QueueAssumption DEF Next, RecordsInv, TypeOK
  <2>2. CASE Toggle BY <2>1, <2>2, ToggleKeeps
  <2>3. ASSUME NEW c \in Callers, Call(c) PROVE RecordsInv'
    BY <2>1, <2>3, CreateRowKeeps, AddJobKeeps, AttachKeeps, ReplacedKeeps DEF Call
  <2>4. ASSUME NEW c \in Callers, LoseCaller(c) PROVE RecordsInv' BY <2>1, <2>4, LoseCallerKeeps
  <2>5. ASSUME NEW c \in Callers, NEW e \in Events, Deliver(c, e) PROVE RecordsInv' BY <2>1, <2>5, DeliverKeeps
  <2>6. ASSUME NEW w \in Workers, NEW k \in DOMAIN job, Take(w, k) PROVE RecordsInv' BY <2>1, <2>6, TakeKeeps
  <2>7. ASSUME NEW w \in Workers, Work(w) PROVE RecordsInv'
    BY <2>1, <2>7, StartKeeps, GateKeeps, IgnoreKeeps, RunJobKeeps, MarkKeeps, FinishKeeps, ReportKeeps DEF Work
  <2>8. ASSUME NEW w \in Workers, Stall(w) PROVE RecordsInv' BY <2>1, <2>8, StallKeeps
  <2>9. ASSUME NEW c \in Callers, NEW e \in Events, Replay(c, e), env.admins PROVE RecordsInv'
    <3> DEFINE q == [Free EXCEPT !.pc = "row", !.event = e]
    <3>1. q \in CallerLocal /\ q.pc = "row" /\ q.event = e /\ q.old = 0 BY DEF Free, CallerLocal
    <3>2. caller' = [caller EXCEPT ![c] = q] BY <2>9 DEF Replay
    <3>3. caller[c].pc = "idle" /\ UNCHANGED <<event, row, job, enabled, worker, done>> BY <2>9 DEF Replay, OnlyCaller
    <3> HIDE DEF q
    <3>4. 0 \in DOMAIN row \cup {0} OBVIOUS
    <3> QED BY <2>1, <2>9, <3>1, <3>2, <3>3, <3>4, AskKeeps
  <2>10. ASSUME NEW c \in Callers, NEW r \in DOMAIN row, RetryRow(c, r), env.admins PROVE RecordsInv'
    <3> DEFINE q == [Free EXCEPT !.pc = "row", !.event = row[r].event, !.old = r]
    <3>1. row[r].event \in Events /\ r \in Nat BY Typed DEF RecordsInv, Row
    <3>2. q \in CallerLocal /\ q.pc = "row" /\ q.event = row[r].event /\ q.old = r BY <3>1 DEF Free, CallerLocal
    <3>3. caller' = [caller EXCEPT ![c] = q] BY <2>10 DEF RetryRow
    <3>4. caller[c].pc = "idle" /\ UNCHANGED <<event, row, job, enabled, worker, done>> BY <2>10 DEF RetryRow, OnlyCaller
    <3> HIDE DEF q
    <3>5. r \in DOMAIN row \cup {0} OBVIOUS
    <3> QED BY <2>1, <2>10, <3>1, <3>2, <3>3, <3>4, <3>5, AskKeeps
  <2>11. ASSUME NEW r \in DOMAIN row, CancelRow(r) \/ ResolveRow(r) PROVE RecordsInv'
    BY <2>1, <2>11, CancelRowKeeps, ResolveRowKeeps
  <2>12. CASE Unattended BY <2>1, <2>2, <2>3, <2>4, <2>5, <2>6, <2>7, <2>8, <2>12 DEF Unattended, TakeAny
  <2>13. CASE Admin BY <2>1, <2>9, <2>10, <2>11, <2>13 DEF Admin
  <2> QED BY <2>12, <2>13 DEF Next
<1> QED BY <1>1, <1>2

(* Whatever the environment does, an event a caller or worker works on, its *)
(* row and its job stay in the states RecordsInv describes.                 *)
THEOREM RecordsAreSafe == Spec => []RecordsInv
<1>1. Init => RecordsInv BY InitRecords
<1>2. RecordsInv /\ [Next]_vars => RecordsInv' BY NextKeeps
<1> QED BY <1>1, <1>2, PTL DEF Spec

(* The event, the audit row and the queue job agree, for any number of     *)
(* deliveries, deaths, replays, retries, cancellations and toggles.        *)
THEOREM RecordsStayTrue == Spec => []RecordsAgree
<1>1. RecordsInv => RecordsAgree
  BY DEF RecordsInv, Told, Applied, FirstIsQueued, RecordsAgree, Delivered
<1> QED BY <1>1, RecordsAreSafe, PTL

(* No worker applies a job whose direction was disabled all the time since *)
(* it took the job.                                                        *)
THEOREM DisabledIsSkipped == Spec => DisabledIsObeyed
<1> DEFINE A == \A w \in Workers : worker[w].pc = "run" /\ worker'[w].pc = "mark" => worker[w].ok
<1>1. RecordsInv => A BY DEF RecordsInv, Obeyed
<1>2. RecordsInv /\ [Next]_vars => [A]_vars BY <1>1
<1> HIDE DEF A
<1>3. Spec => [][A]_vars BY <1>2, RecordsAreSafe, PTL DEF Spec
<1> USE DEF A
<1> QED BY <1>3 DEF DisabledIsObeyed
=============================================================================

-------------------------- MODULE ReconcileProofs --------------------------
(***************************************************************************)
(* Theorems about Reconcile: a page runs for one row, and one chain scans  *)
(* at a time, for any number of workers, administrators, pages, attempts   *)
(* and requests.                                                           *)
(***************************************************************************)
EXTENDS Reconcile, WellFoundedInduction, TLAPS

Pcs == {"idle", "again", "cancel", "row", "own", "start", "admit", "scan", "publish", "add", "attach", "none",
        "retry", "manual", "reported"}
Errors == {"none", "retry", "manual"}
Row == [chain : Nat, page : Nat, attempts : Nat, max : Nat, queued : Nat,
        status : {"pending", "processing", "completed", "failed", "manual_review", "cancelled"}]
Job == [row : Nat, chain : Nat, page : Nat, max : Nat, made : Nat, stalled : BOOLEAN,
        state : {"waiting", "active", "completed", "failed"}]
Local == [pc : Pcs, job : Nat, row : Nat, errors : Errors, old : Nat]

TypeOK ==
  /\ env \in Environments
  /\ row \in Seq(Row)
  /\ job \in Seq(Job)
  /\ proc \in [Procs -> Local]
  /\ used \in [Bounded -> Nat]

Held(x) == proc[x].pc \in {"add", "attach", "own"}  \* proc[x].row is a row x has just added
Started(w) == proc[w].pc \notin {"idle", "row", "own", "start"}

(* Who is where, and what it points to exists.                             *)
Placed ==
  /\ \A a \in Admins : proc[a].pc \in {"idle", "again", "add", "attach", "cancel"} /\ proc[a].job = 0
  /\ \A w \in Workers :
       /\ proc[w].pc \notin {"again", "cancel"}
       /\ proc[w].pc # "idle" => proc[w].job \in DOMAIN job
       /\ Started(w) \/ proc[w].pc = "start" => J(w).row \in DOMAIN row
       /\ Started(w) => row[J(w).row].attempts # 0
  /\ \A x \in Procs : proc[x].old # 0 \/ proc[x].pc \in {"again", "cancel"} => proc[x].old \in DOMAIN row
  /\ \A j \in DOMAIN job : job[j].row \in DOMAIN row \cup {0}

(* A row that was added is one process's until it is attached.             *)
NewRows ==
  /\ \A x \in Procs : Held(x) => proc[x].row \in DOMAIN row
  /\ \A x, y \in Procs : Held(x) /\ Held(y) /\ proc[x].row = proc[y].row => x = y
  /\ \A x \in Procs : proc[x].pc = "add" =>
       /\ row[proc[x].row].queued = 0 /\ row[proc[x].row].attempts = 0
       /\ \A j \in DOMAIN job : job[j].row # proc[x].row
  /\ \A x \in Procs : proc[x].pc = "attach" => \E j \in DOMAIN job : job[j].row = proc[x].row

Base == TypeOK /\ Placed /\ NewRows

(* Nothing runs for a row, and nothing will.                               *)
Settled(r) ==
  /\ row[r].attempts = 0 /\ row[r].queued = 0
  /\ \A j \in DOMAIN job : job[j].row # r
  /\ \A x \in Procs : ~(Held(x) /\ proc[x].row = r)

(* A row that was not published is settled, and so is every row of a page  *)
(* but the newest.                                                         *)
PageInv == env.lostAnswer = 0 =>
  /\ \A r \in DOMAIN row : row[r].status = "manual_review" /\ row[r].attempts = 0 => Settled(r)
  /\ \A r, q \in DOMAIN row :
       r < q /\ row[r].page > 0 /\ row[r].chain = row[q].chain /\ row[r].page = row[q].page
         => row[r].status \in {"manual_review", "cancelled"} /\ Settled(r)

(* Every job that may run has an active row of its own.                    *)
JobsHaveRows ==
  /\ \A j \in DOMAIN job : job[j].row # 0
  /\ \A i, j \in DOMAIN job : job[i].row = job[j].row => i = j
  /\ \A j \in DOMAIN job : job[j].state = "waiting" => Active(job[j].row)
  /\ \A w \in Workers : proc[w].pc # "own" /\ (proc[w].pc # "idle" => J(w).state = "active")
  /\ \A v, w \in Workers : proc[v].pc # "idle" /\ proc[w].pc # "idle" /\ proc[v].job = proc[w].job => v = w

(* The row of a job that runs shows the attempt.                           *)
RowsShowJobs ==
  \A w \in Workers :
    /\ proc[w].pc \in {"row", "start"} => Active(J(w).row)
    /\ Started(w) => row[J(w).row].max = J(w).max /\ row[J(w).row].attempts = J(w).made + 1
    /\ Started(w) /\ proc[w].pc # "reported" => row[J(w).row].status = "processing"
    /\ proc[w].pc = "reported" /\ proc[w].errors = "retry" /\ J(w).made + 1 < J(w).max
         => row[J(w).row].status = "failed"

(* Rows just added are pending, rows retried are over, and the active rows *)
(* are of one chain.                                                       *)
OneActiveChain ==
  /\ \A x \in Procs : proc[x].pc = "add" => row[proc[x].row].status = "pending"
  /\ \A x \in Procs : proc[x].old # 0 => ~Active(proc[x].old)
  /\ \A r, q \in ActiveRows : row[r].chain = row[q].chain

ChainInv == RowsCoverJobs => JobsHaveRows /\ RowsShowJobs /\ OneActiveChain

ReconcileInv == Base /\ PageInv /\ ChainInv

LEMMA InitReconcile == Init => ReconcileInv
<1> SUFFICES ASSUME Init PROVE ReconcileInv OBVIOUS
<1>1. TypeOK BY DEF Init, TypeOK, Idle, Local, Pcs, Errors
<1>2. /\ \A x \in Procs : proc[x] = Idle
      /\ DOMAIN row = {} /\ DOMAIN job = {}
  BY DEF Init
<1> QED BY <1>1, <1>2 DEF ReconcileInv, Base, Placed, NewRows, PageInv, ChainInv, JobsHaveRows, RowsShowJobs, OneActiveChain,
  Held, Started, Idle, ActiveRows, Procs
-----------------------------------------------------------------------------
(* Sets of numbers have a least member, so the oldest active row is active.*)
LEMMA Least == \A S \in SUBSET Nat : S # {} => \E m \in S : \A q \in S : m <= q
<1> DEFINE R == {ss \in Nat \X Nat : ss[1] < ss[2]}
<1>1. IsWellFoundedOn(R, Nat) BY NatLessThanWellFounded DEF OpToRel
<1>2. \A x, y \in Nat : <<y, x>> \in R <=> y < x OBVIOUS
<1> SUFFICES ASSUME NEW S \in SUBSET Nat, S # {} PROVE \E m \in S : \A q \in S : m <= q OBVIOUS
<1> HIDE DEF R
<1>3. \A T : T \subseteq Nat /\ T # {} => \E x \in T : \A y \in T : ~ (<<y, x>> \in R)
  BY <1>1, WFMin, Zenon
<1>4. PICK m \in S : \A y \in S : ~(<<y, m>> \in R) BY <1>3
<1>5. \A q \in S : q \in Nat /\ m \in Nat /\ ~(q < m) BY <1>2, <1>4
<1> QED BY <1>5

LEMMA Typed ==
  ASSUME TypeOK
  PROVE  /\ Len(row) \in Nat /\ DOMAIN row = 1..Len(row) /\ \A r \in DOMAIN row : row[r] \in Row /\ r \in Nat \ {0}
         /\ Len(job) \in Nat /\ DOMAIN job = 1..Len(job) /\ \A j \in DOMAIN job : job[j] \in Job /\ j \in Nat \ {0}
BY DEF TypeOK

(* A chain that may go on is the chain of every active row.                *)
LEMMA OpenMeansAll ==
  ASSUME TypeOK, OneActiveChain, NEW c, OpenTo(c)
  PROVE  \A r \in ActiveRows : row[r].chain = c
<1>1. ActiveRows \in SUBSET Nat BY Typed DEF ActiveRows
<1>2. ActiveRows # {} => Oldest \in ActiveRows BY <1>1, Least DEF Oldest
<1> QED BY <1>2 DEF OpenTo, OneActiveChain

(* How a step moves the processes and changes the rows and the jobs.       *)
Moves(x, pc) ==
  /\ proc' \in [Procs -> Local]
  /\ \A y \in Procs \ {x} : proc'[y] = proc[y]
  /\ proc'[x].pc = pc
SameWork(x) == proc'[x].job = proc[x].job /\ proc'[x].row = proc[x].row /\ proc'[x].old = proc[x].old

RowAdded(n, c, p) ==
  /\ row' \in Seq(Row) /\ DOMAIN row' = DOMAIN row \cup {n}
  /\ \A q \in DOMAIN row : row'[q] = row[q] /\ q < n
  /\ n \in Nat \ {0} /\ row'[n] = NewRow(c, p)
RowSet(r) ==
  /\ row' \in Seq(Row) /\ DOMAIN row' = DOMAIN row
  /\ \A q \in DOMAIN row \ {r} : row'[q] = row[q]
  /\ row'[r].chain = row[r].chain /\ row'[r].page = row[r].page

JobAdded(n, r) ==
  /\ job' \in Seq(Job) /\ DOMAIN job' = DOMAIN job \cup {n}
  /\ \A j \in DOMAIN job : job'[j] = job[j] /\ j # n
  /\ n # 0 /\ job'[n].row = r /\ job'[n].state = "waiting"
JobSet(i) ==
  /\ job' \in Seq(Job) /\ DOMAIN job' = DOMAIN job
  /\ \A j \in DOMAIN job \ {i} : job'[j] = job[j]

LEMMA StayMoves ==
  ASSUME TypeOK, NEW x \in Procs, NEW pc \in Pcs, Stay(x, pc)
  PROVE  Moves(x, pc) /\ SameWork(x) /\ proc'[x].errors = proc[x].errors
BY DEF TypeOK, Stay, Moves, SameWork, Local

LEMMA IdleMoves ==
  ASSUME TypeOK, NEW x \in Procs, proc' = [proc EXCEPT ![x] = Idle]
  PROVE  Moves(x, "idle") /\ proc'[x] = Idle
BY DEF TypeOK, Moves, Local, Idle, Pcs, Errors

LEMMA Appended ==
  ASSUME NEW S, NEW s \in Seq(S), NEW e \in S
  PROVE  /\ Append(s, e) \in Seq(S) /\ DOMAIN Append(s, e) = DOMAIN s \cup {Len(s) + 1}
         /\ \A q \in DOMAIN s : Append(s, e)[q] = s[q] /\ q < Len(s) + 1
         /\ Append(s, e)[Len(s) + 1] = e
<1>1. DOMAIN s = 1..Len(s) /\ Len(s) \in Nat OBVIOUS
<1>2. Append(s, e) \in Seq(S) /\ Len(Append(s, e)) = Len(s) + 1 OBVIOUS
<1>3. DOMAIN Append(s, e) = 1..(Len(s) + 1) BY <1>2
<1>4. DOMAIN Append(s, e) = DOMAIN s \cup {Len(s) + 1} BY <1>1, <1>3
<1> QED BY <1>1, <1>2, <1>4

LEMMA Replaced ==
  ASSUME NEW S, NEW s \in Seq(S), NEW i, NEW e \in S
  PROVE  /\ [s EXCEPT ![i] = e] \in Seq(S) /\ DOMAIN [s EXCEPT ![i] = e] = DOMAIN s
         /\ \A q \in DOMAIN s \ {i} : [s EXCEPT ![i] = e][q] = s[q]
         /\ i \in DOMAIN s => [s EXCEPT ![i] = e][i] = e
<1>1. s \in [1..Len(s) -> S] /\ Len(s) \in Nat OBVIOUS
<1>2. [s EXCEPT ![i] = e] \in [1..Len(s) -> S] BY <1>1
<1>3. [s EXCEPT ![i] = e] \in Seq(S) BY <1>1, <1>2
<1> QED BY <1>1, <1>3

LEMMA RowIsAdded ==
  ASSUME TypeOK, NEW c \in Nat, NEW p \in Nat, row' = Append(row, NewRow(c, p))
  PROVE  RowAdded(Len(row) + 1, c, p)
<1>1. NewRow(c, p) \in Row BY ReconcileAssumption DEF TypeOK, NewRow, Row
<1> QED BY <1>1, Typed, Appended DEF TypeOK, RowAdded

LEMMA JobIsAdded ==
  ASSUME TypeOK, NEW r \in DOMAIN row, job' = Append(job, NewJob(r))
  PROVE  \E n : JobAdded(n, r)
<1>1. NewJob(r) \in Job BY Typed, ReconcileAssumption DEF TypeOK, NewJob, Job, Row
<1>2. JobAdded(Len(job) + 1, r) BY <1>1, Typed, Appended DEF TypeOK, JobAdded, NewJob
<1> QED BY <1>2

LEMMA StatusIsSet ==
  ASSUME TypeOK, NEW r \in DOMAIN row, NEW v \in {"completed", "failed", "manual_review", "cancelled"},
         row' = [row EXCEPT ![r].status = v]
  PROVE  RowSet(r) /\ row'[r].status = v /\ row'[r].attempts = row[r].attempts /\ row'[r].max = row[r].max
           /\ row'[r].queued = row[r].queued
<1>1. [row[r] EXCEPT !.status = v] \in Row BY Typed DEF Row
<1>2. row' = [row EXCEPT ![r] = [row[r] EXCEPT !.status = v]] OBVIOUS
<1> DEFINE e == [row[r] EXCEPT !.status = v]
<1>3. /\ e.chain = row[r].chain /\ e.page = row[r].page /\ e.attempts = row[r].attempts /\ e.max = row[r].max
      /\ e.queued = row[r].queued /\ e.status = v
  BY Typed DEF Row
<1>4. e \in Row /\ row' = [row EXCEPT ![r] = e] BY <1>1, <1>2
<1> HIDE DEF e
<1>5. row' \in Seq(Row) /\ DOMAIN row' = DOMAIN row /\ (\A q \in DOMAIN row \ {r} : row'[q] = row[q]) /\ row'[r] = e
  <2>1. row \in Seq(Row) BY DEF TypeOK
  <2> HIDE DEF Row
  <2> QED BY <2>1, <1>4, Replaced
<1> QED BY <1>3, <1>5 DEF RowSet
-----------------------------------------------------------------------------
(* Publication.                                                            *)
LEMMA AddNewKeeps ==
  ASSUME ReconcileInv, NEW x \in Procs, AddNew(x), UNCHANGED env
  PROVE  ReconcileInv'
<1> USE DEF ReconcileInv, Base
<1>1. Moves(x, "attach") /\ SameWork(x) /\ proc'[x].errors = proc[x].errors BY StayMoves DEF AddNew, Pcs
<1>2. proc[x].pc = "add" /\ Held(x) /\ proc[x].row \in DOMAIN row BY DEF AddNew, NewRows, Held
<1>3. PICK n : JobAdded(n, proc[x].row) BY <1>2, JobIsAdded DEF AddNew
<1>4. row' = row /\ used' = used BY DEF AddNew, Quiet
<1>5. TypeOK' BY <1>1, <1>3, <1>4 DEF TypeOK, Moves, JobAdded
<1>6. Placed'
  <2>1. \A y \in Procs :
          /\ proc'[y].job = proc[y].job /\ proc'[y].old = proc[y].old
          /\ proc'[y] = proc[y] \/ (y = x /\ proc[y].pc = "add" /\ proc'[y].pc = "attach")
    BY <1>1, <1>2 DEF Moves, SameWork
  <2>2. \A w \in Workers :
          /\ (proc'[w].pc = "idle") = (proc[w].pc = "idle") /\ (proc'[w].pc = "start") = (proc[w].pc = "start")
          /\ Started(w)' = Started(w)
    BY <2>1 DEF Started, Procs
  <2>3. \A w \in Workers : proc[w].pc # "idle" => proc[w].job \in DOMAIN job' /\ J(w)' = J(w)
    BY <1>3, <2>1 DEF Placed, J, JobAdded, Procs
  <2>4. \A w \in Workers : Started(w) \/ proc[w].pc = "start" => proc[w].pc # "idle" BY DEF Started
  <2>5. /\ \A a \in Admins : proc'[a].pc \in {"idle", "again", "add", "attach", "cancel"} /\ proc'[a].job = 0
        /\ \A w \in Workers : proc'[w].pc \notin {"again", "cancel"}
        /\ \A y \in Procs : proc'[y].old # 0 \/ proc'[y].pc \in {"again", "cancel"} => proc'[y].old \in DOMAIN row'
    BY <1>4, <2>1 DEF Placed, Procs
  <2>6. \A w \in Workers :
          /\ proc'[w].pc # "idle" => proc'[w].job \in DOMAIN job'
          /\ Started(w)' \/ proc'[w].pc = "start" => J(w)'.row \in DOMAIN row'
          /\ Started(w)' => row'[J(w)'.row].attempts # 0
    BY <1>4, <2>1, <2>2, <2>3, <2>4 DEF Placed, Procs
  <2>7. \A j \in DOMAIN job' : job'[j].row \in DOMAIN row' \cup {0}
    BY <1>2, <1>3, <1>4 DEF Placed, JobAdded
  <2> QED BY <2>5, <2>6, <2>7 DEF Placed
<1>7. NewRows'
  <2>1. \A y \in Procs : /\ Held(y)' = Held(y) /\ proc'[y].row = proc[y].row
                         /\ proc'[y].pc = "add" => proc[y].pc = "add" /\ y # x
                         /\ proc'[y].pc = "attach" => proc[y].pc = "attach" \/ y = x
    BY <1>1, <1>2 DEF Held, Moves, SameWork
  <2>2. \A y \in Procs : proc[y].pc = "add" => Held(y) BY DEF Held
  <2>3. \A y \in Procs : proc'[y].pc = "add" => \A j \in DOMAIN job' : job'[j].row # proc[y].row
    BY <1>2, <1>3, <2>1, <2>2 DEF NewRows, JobAdded
  <2>4. \A y \in Procs : proc'[y].pc = "attach" => \E j \in DOMAIN job' : job'[j].row = proc[y].row
    BY <1>3, <2>1 DEF NewRows, JobAdded
  <2> QED BY <1>4, <2>1, <2>3, <2>4 DEF NewRows
<1>8. PageInv' BY <1>1, <1>2, <1>3, <1>4 DEF PageInv, Settled, Held, Moves, SameWork, JobAdded
<1>9. ChainInv'
  <2> SUFFICES ASSUME RowsCoverJobs PROVE (JobsHaveRows /\ RowsShowJobs /\ OneActiveChain)'
    BY DEF ChainInv, RowsCoverJobs
  <2>1. JobsHaveRows /\ RowsShowJobs /\ OneActiveChain BY DEF ChainInv
  <2>2. JobsHaveRows'
    <3>1. proc[x].row # 0 /\ (\A j \in DOMAIN job : job[j].row # proc[x].row) /\ Active(proc[x].row)
      BY <1>2, <2>1, Typed DEF NewRows, OneActiveChain, Active
    <3>2. /\ \A j \in DOMAIN job' : job'[j].row # 0
          /\ \A i, j \in DOMAIN job' : job'[i].row = job'[j].row => i = j
      BY <1>3, <2>1, <3>1 DEF JobsHaveRows, JobAdded
    <3>3. (\A j \in DOMAIN job : job[j].state = "waiting" => Active(job[j].row))'
      BY <1>3, <1>4, <2>1, <3>1 DEF JobsHaveRows, JobAdded, Active
    <3>4. \A w \in Workers : proc'[w].pc # "idle" =>
            proc[w].pc # "idle" /\ proc'[w].job = proc[w].job /\ job'[proc[w].job] = job[proc[w].job]
      BY <1>1, <1>2, <1>3 DEF Placed, Moves, SameWork, JobAdded, Procs
    <3>5. \A w \in Workers : proc'[w].pc # "own" BY <1>1, <2>1 DEF JobsHaveRows, Moves, Procs
    <3> QED BY <2>1, <3>2, <3>3, <3>4, <3>5 DEF JobsHaveRows, J
  <2>3. RowsShowJobs'
    <3> SUFFICES ASSUME NEW w \in Workers, proc'[w].pc # "idle"
                 PROVE  /\ proc[w].pc # "idle" /\ J(w)' = J(w) /\ Started(w)' = Started(w)
                        /\ \/ proc[w].pc = proc'[w].pc
                           \/ Started(w) /\ proc[w].pc # "reported" /\ proc'[w].pc # "reported"
                        /\ proc'[w].errors = proc[w].errors
      BY <1>4, <2>1 DEF RowsShowJobs, Active, Started
    <3> QED BY <1>1, <1>2, <1>3 DEF Placed, Moves, SameWork, JobAdded, J, Started, Procs
  <2>4. OneActiveChain' BY <1>1, <1>4, <2>1 DEF OneActiveChain, Moves, SameWork, ActiveRows, Active
  <2> QED BY <2>2, <2>3, <2>4
<1> QED BY <1>5, <1>6, <1>7, <1>8, <1>9

(* Where a process goes on after the publication of a row, or without it.  *)
GoesOn(x) ==
  /\ Moves(x, proc'[x].pc) /\ proc'[x].job = proc[x].job /\ proc'[x].old \in {proc[x].old, 0}
  /\ x \in Workers => proc'[x].pc \in Errors
  /\ x \in Admins => proc'[x].pc \in {"idle", "cancel"} /\ (proc'[x].pc = "cancel" => proc'[x].old # 0)

LEMMA OutcomeGoesOn ==
  ASSUME TypeOK, NEW x \in Procs, Stay(x, Outcome(x))
  PROVE  GoesOn(x)
<1>1. proc[x].errors \in Errors BY DEF TypeOK, Local
<1>2. Outcome(x) \in Pcs BY <1>1 DEF Outcome, Pcs, Errors
<1>3. Moves(x, Outcome(x)) /\ SameWork(x) BY <1>2, StayMoves
<1> QED BY <1>1, <1>3, ReconcileAssumption DEF GoesOn, Moves, SameWork, Outcome

LEMMA RefuseGoesOn ==
  ASSUME TypeOK, NEW x \in Procs, Refuse(x), x \in Admins => proc[x].job = 0
  PROVE  GoesOn(x)
<1>1. CASE x \in Admins
  <2>1. Moves(x, "idle") /\ proc'[x] = Idle BY <1>1, IdleMoves DEF Refuse
  <2> QED BY <1>1, <2>1, ReconcileAssumption DEF GoesOn, Idle, Moves
<1>2. CASE x \notin Admins
  <2>1. Stay(x, "retry") BY <1>2 DEF Refuse, Stay
  <2>2. Moves(x, "retry") /\ SameWork(x) BY <2>1, StayMoves DEF Pcs
  <2> QED BY <1>2, <2>2 DEF GoesOn, Moves, SameWork, Errors
<1> QED BY <1>1, <1>2

(* What a process that goes on from the publication of its row leaves.     *)
LEMMA GoneOn ==
  ASSUME Placed, NEW x \in Procs, proc[x].pc \in {"add", "attach", "publish", "idle", "again"},
         x \in Workers => proc[x].pc \in {"add", "attach", "publish"}, GoesOn(x)
  PROVE  /\ ~Held(x)' /\ \A y \in Procs : Held(y)' => Held(y) /\ y # x /\ proc'[y] = proc[y]
         /\ \A w \in Workers :
              /\ (proc'[w].pc = "idle") = (proc[w].pc = "idle") /\ proc'[w].job = proc[w].job /\ Started(w)' = Started(w)
              /\ \/ proc'[w] = proc[w]
                 \/ Started(w) /\ proc[w].pc # "reported" /\ proc'[w].pc \in Errors
         /\ \A a \in Admins : proc'[a].pc \in {"idle", "again", "add", "attach", "cancel"} /\ proc'[a].job = 0
         /\ \A w \in Workers : proc'[w].pc \notin {"again", "cancel"}
         /\ \A y \in Procs : proc'[y].old # 0 \/ proc'[y].pc \in {"again", "cancel"} =>
              proc'[y].old = proc[y].old /\ proc[y].old \in DOMAIN row
<1>1. ~Held(x)' BY ReconcileAssumption DEF Held, GoesOn, Procs, Errors
<1>2. \A y \in Procs : proc'[y] = proc[y] \/ y = x BY DEF GoesOn, Moves
<1>3. \A w \in Workers :
        /\ (proc'[w].pc = "idle") = (proc[w].pc = "idle") /\ proc'[w].job = proc[w].job /\ Started(w)' = Started(w)
        /\ \/ proc'[w] = proc[w]
           \/ Started(w) /\ proc[w].pc # "reported" /\ proc'[w].pc \in Errors
  BY ReconcileAssumption DEF GoesOn, Moves, Started, Procs, Errors
<1>4. /\ \A a \in Admins : proc'[a].pc \in {"idle", "again", "add", "attach", "cancel"} /\ proc'[a].job = 0
      /\ \A w \in Workers : proc'[w].pc \notin {"again", "cancel"}
  BY <1>2, <1>3 DEF Placed, GoesOn, Procs, Errors
<1>5. proc'[x].old # 0 \/ proc'[x].pc \in {"again", "cancel"} => proc[x].old # 0 /\ proc'[x].old = proc[x].old
  BY ReconcileAssumption DEF GoesOn, Procs, Errors
<1>6. \A y \in Procs : proc'[y].old # 0 \/ proc'[y].pc \in {"again", "cancel"} =>
        proc'[y].old = proc[y].old /\ proc[y].old \in DOMAIN row
  BY <1>2, <1>5 DEF Placed
<1> QED BY <1>1, <1>2, <1>3, <1>4, <1>6 DEF Held

LEMMA PlacedGoesOn ==
  ASSUME Placed, NEW x \in Procs, proc[x].pc \in {"add", "attach", "publish", "idle", "again"},
         x \in Workers => proc[x].pc \in {"add", "attach", "publish"}, GoesOn(x), UNCHANGED job,
         DOMAIN row' = DOMAIN row, \A r \in DOMAIN row : row'[r].attempts = row[r].attempts
  PROVE  Placed'
<1>1. \A w \in Workers :
        /\ proc'[w].pc # "idle" => proc'[w].job \in DOMAIN job
        /\ Started(w)' \/ proc'[w].pc = "start" => Started(w) \/ proc[w].pc = "start"
        /\ J(w)' = J(w) /\ Started(w)' = Started(w)
  <2>1. \A w \in Workers : proc'[w].pc = "start" => proc[w].pc = "start" BY GoneOn DEF Errors
  <2>2. \A w \in Workers : proc'[w].pc # "idle" => proc'[w].job \in DOMAIN job BY GoneOn DEF Placed
  <2> QED BY GoneOn, <2>1, <2>2 DEF J
<1>2. \A w \in Workers :
        /\ Started(w)' \/ proc'[w].pc = "start" => J(w).row \in DOMAIN row
        /\ Started(w)' => row[J(w).row].attempts # 0
  BY <1>1 DEF Placed
<1>3. \A w \in Workers : Started(w)' => row'[J(w).row].attempts # 0 BY <1>2
<1> QED BY <1>1, <1>2, <1>3, GoneOn DEF Placed

(* A row just added is let go: it is published elsewhere, or refused.      *)
LEMMA LetGoKeeps ==
  ASSUME ReconcileInv, NEW x \in Procs, proc[x].pc = "add", GoesOn(x), used' \in [Bounded -> Nat],
         NEW v \in {"completed", "manual_review"}, row' = [row EXCEPT ![proc[x].row].status = v], UNCHANGED <<env, job>>
  PROVE  ReconcileInv'
<1> USE DEF ReconcileInv, Base
<1>1. Held(x) /\ proc[x].row \in DOMAIN row BY DEF NewRows, Held
<1>2. PICK r \in DOMAIN row : r = proc[x].row BY <1>1
<1>3. /\ RowSet(r) /\ row'[r].status = v /\ row'[r].attempts = row[r].attempts /\ row'[r].max = row[r].max
      /\ row'[r].queued = row[r].queued
  BY <1>2, StatusIsSet
<1>4. \A j \in DOMAIN job : job[j].row # r BY <1>2 DEF NewRows
<1>5. row[r].attempts = 0 /\ row[r].queued = 0 BY <1>2 DEF NewRows
<1>6. TypeOK' BY <1>3 DEF TypeOK, GoesOn, Moves, RowSet
<1>7. /\ DOMAIN row' = DOMAIN row
      /\ \A q \in DOMAIN row :
           /\ row'[q].chain = row[q].chain /\ row'[q].page = row[q].page /\ row'[q].attempts = row[q].attempts
           /\ row'[q].max = row[q].max /\ row'[q].queued = row[q].queued
           /\ q # r => row'[q].status = row[q].status
  BY <1>3 DEF RowSet
<1>8. GoesOn(x) /\ proc[x].pc = "add" OBVIOUS
<1>9. \A y \in Procs : Held(y)' => Held(y) /\ proc'[y] = proc[y] /\ proc[y].row # r
  BY <1>1, <1>2, <1>8, GoneOn DEF NewRows
<1>10. \A w \in Workers :
         /\ (proc'[w].pc = "idle") = (proc[w].pc = "idle") /\ proc'[w].job = proc[w].job /\ Started(w)' = Started(w)
         /\ \/ proc'[w] = proc[w]
            \/ Started(w) /\ proc[w].pc # "reported" /\ proc'[w].pc \in Errors
  BY <1>8, GoneOn
<1>11. Placed' BY <1>7, <1>8, PlacedGoesOn
<1>12. NewRows'
  <2>1. \A y \in Procs : proc'[y].pc \in {"add", "attach"} => Held(y)' BY DEF Held
  <2> QED BY <1>7, <1>9, <2>1 DEF NewRows
<1>13. PageInv'
  <2>1. \A q \in DOMAIN row : Settled(q) => Settled(q)' BY <1>7, <1>9 DEF Settled
  <2>2. Settled(r)' BY <1>4, <1>5, <1>7, <1>9 DEF Settled
  <2>3. ~Settled(r) BY <1>1, <1>2 DEF Settled
  <2> QED BY <1>7, <2>1, <2>2, <2>3 DEF PageInv
<1>14. ChainInv'
  <2> SUFFICES ASSUME RowsCoverJobs PROVE (JobsHaveRows /\ RowsShowJobs /\ OneActiveChain)'
    BY DEF ChainInv, RowsCoverJobs
  <2>1. JobsHaveRows /\ RowsShowJobs /\ OneActiveChain BY DEF ChainInv
  <2>2. \A q \in DOMAIN row \ {r} : Active(q)' = Active(q) BY <1>7 DEF Active
  <2>3. ~Active(r)' BY <1>3 DEF Active
  <2>4. JobsHaveRows'
    BY <1>4, <1>10, <2>1, <2>2 DEF JobsHaveRows, Placed, J, Errors
  <2>5. RowsShowJobs'
    <3> SUFFICES ASSUME NEW w \in Workers, proc'[w].pc # "idle"
                 PROVE  /\ proc[w].pc # "idle" /\ J(w)' = J(w) /\ Started(w)' = Started(w)
                        /\ J(w).row \in DOMAIN row \ {r}
                        /\ \/ proc[w] = proc'[w]
                           \/ Started(w) /\ proc[w].pc # "reported" /\ proc'[w].pc \in Errors
      BY <1>7, <2>1, <2>2 DEF RowsShowJobs, Started, Errors
    <3> QED BY <1>4, <1>10, <2>1 DEF JobsHaveRows, Placed, J
  <2>6. OneActiveChain'
    <3>1. \A y \in Procs : proc'[y].pc = "add" => row'[proc'[y].row].status = "pending"
      BY <1>7, <1>9, <2>1 DEF OneActiveChain, NewRows, Held
    <3>2. (\A y \in Procs : proc[y].old # 0 => ~Active(proc[y].old))'
      <4> SUFFICES ASSUME NEW y \in Procs, proc'[y].old # 0, NEW o, o = proc'[y].old PROVE ~Active(o)'
        BY DEF Active
      <4>1. o = proc[y].old BY DEF GoesOn, Moves
      <4> QED BY <4>1, <2>1, <2>2, <2>3 DEF OneActiveChain, Placed
    <3>3. ActiveRows' = ActiveRows \ {r} BY <1>7, <2>2, <2>3 DEF ActiveRows
    <3>4. \A i, j \in ActiveRows' : row'[i].chain = row'[j].chain
      BY <1>7, <2>1, <3>3 DEF OneActiveChain, ActiveRows
    <3> QED BY <3>1, <3>2, <3>4 DEF OneActiveChain
  <2> QED BY <2>4, <2>5, <2>6
<1> QED BY <1>6, <1>11, <1>12, <1>13, <1>14

LEMMA AddKnownKeeps ==
  ASSUME ReconcileInv, NEW x \in Procs, AddKnown(x), UNCHANGED env
  PROVE  ReconcileInv'
<1>1. TypeOK BY DEF ReconcileInv, Base
<1> QED BY <1>1, OutcomeGoesOn, LetGoKeeps DEF AddKnown, Quiet, TypeOK

LEMMA UseCounts ==
  ASSUME TypeOK, NEW e \in Bounded, Use(e), UNCHANGED env
  PROVE  used' \in [Bounded -> Nat] /\ env[e] # 0
<1>1. env[e] \in Nat BY ReconcileAssumption DEF TypeOK, Bounded
<1> QED BY <1>1 DEF Use, TypeOK

LEMMA AddFailsKeeps ==
  ASSUME ReconcileInv, NEW x \in Procs, AddFails(x), UNCHANGED env
  PROVE  ReconcileInv'
<1>1. TypeOK /\ Placed BY DEF ReconcileInv, Base
<1>2. used' \in [Bounded -> Nat] BY <1>1, UseCounts DEF AddFails, Bounded
<1>3. x \in Admins => proc[x].job = 0 BY <1>1 DEF Placed
<1> QED BY <1>1, <1>2, <1>3, RefuseGoesOn, LetGoKeeps DEF AddFails

(* A process goes on without a change of rows and jobs.                    *)
LEMMA NoChangeKeeps ==
  ASSUME ReconcileInv, NEW x \in Procs, proc[x].pc \in {"publish", "idle", "again"},
         x \in Workers => proc[x].pc = "publish", GoesOn(x), used' \in [Bounded -> Nat], UNCHANGED <<env, row, job>>
  PROVE  ReconcileInv'
<1> USE DEF ReconcileInv, Base
<1>1. TypeOK' BY DEF TypeOK, GoesOn, Moves
<1>2. Placed' BY PlacedGoesOn
<1>3. NewRows'
  <2>1. \A y \in Procs : proc'[y].pc \in {"add", "attach"} => Held(y)' BY DEF Held
  <2> QED BY GoneOn, <2>1 DEF NewRows
<1>4. PageInv'
  <2>1. \A q \in DOMAIN row : Settled(q) => Settled(q)' BY GoneOn DEF Settled
  <2> QED BY <2>1 DEF PageInv
<1>5. ChainInv'
  <2> SUFFICES ASSUME RowsCoverJobs PROVE (JobsHaveRows /\ RowsShowJobs /\ OneActiveChain)'
    BY DEF ChainInv, RowsCoverJobs
  <2>1. JobsHaveRows /\ RowsShowJobs /\ OneActiveChain BY DEF ChainInv
  <2>2. JobsHaveRows' BY <2>1, GoneOn DEF JobsHaveRows, Active, J, Errors
  <2>3. RowsShowJobs'
    <3>1. \A v \in Workers :
            /\ J(v)' = J(v) /\ Active(J(v).row)' = Active(J(v).row) /\ Started(v)' = Started(v)
            /\ \/ proc'[v] = proc[v]
               \/ Started(v) /\ proc[v].pc # "reported" /\ proc'[v].pc \in Errors
      BY GoneOn DEF J, Active
    <3> QED BY <2>1, <3>1 DEF RowsShowJobs, Errors
  <2>4. OneActiveChain'
    <3>1. \A y \in Procs : proc'[y].pc = "add" => Held(y)' BY DEF Held
    <3> QED BY <2>1, <3>1, GoneOn DEF OneActiveChain, ActiveRows, Active
  <2> QED BY <2>2, <2>3, <2>4
<1> QED BY <1>1, <1>2, <1>3, <1>4, <1>5

LEMMA AddAnswerLostKeeps ==
  ASSUME ReconcileInv, NEW x \in Procs, AddAnswerLost(x), UNCHANGED env
  PROVE  ReconcileInv'
<1> USE DEF ReconcileInv, Base
<1>1. proc[x].pc = "add" /\ Held(x) /\ proc[x].row \in DOMAIN row BY DEF NewRows, Held, AddAnswerLost
<1>2. used' \in [Bounded -> Nat] /\ env.lostAnswer # 0 BY UseCounts DEF AddAnswerLost, Bounded
<1>3. x \in Admins => proc[x].job = 0 BY DEF Placed
<1>4. GoesOn(x) BY <1>3, RefuseGoesOn DEF AddAnswerLost
<1>5. PICK n : JobAdded(n, proc[x].row) BY <1>1, JobIsAdded DEF AddAnswerLost
<1>6. /\ RowSet(proc[x].row)
      /\ row'[proc[x].row].attempts = row[proc[x].row].attempts /\ row'[proc[x].row].queued = row[proc[x].row].queued
  BY <1>1, StatusIsSet DEF AddAnswerLost
<1>7. TypeOK' BY <1>2, <1>4, <1>5, <1>6 DEF TypeOK, GoesOn, Moves, RowSet, JobAdded
<1>8. /\ DOMAIN row' = DOMAIN row
      /\ \A q \in DOMAIN row : row'[q].attempts = row[q].attempts /\ row'[q].queued = row[q].queued
  BY <1>6 DEF RowSet
<1>9. Placed'
  <2>1. \A w \in Workers : proc[w].pc # "idle" => job'[proc[w].job] = job[proc[w].job] BY <1>5 DEF Placed, JobAdded
  <2>2. \A w \in Workers : proc'[w].pc = "start" => proc[w].pc = "start" BY <1>1, <1>4, GoneOn DEF Errors
  <2>3. \A j \in DOMAIN job' : job'[j].row \in DOMAIN row' \cup {0} BY <1>1, <1>5, <1>8 DEF Placed, JobAdded
  <2>4. \A w \in Workers : proc'[w].pc # "idle" => proc[w].pc # "idle" /\ proc'[w].job = proc[w].job /\ J(w)' = J(w)
    BY <1>1, <1>4, GoneOn, <2>1 DEF J
  <2>5. \A w \in Workers :
          /\ proc'[w].pc # "idle" => proc'[w].job \in DOMAIN job'
          /\ Started(w)' \/ proc'[w].pc = "start" => J(w)'.row \in DOMAIN row'
          /\ Started(w)' => row'[J(w)'.row].attempts # 0
    BY <1>1, <1>4, <1>5, <1>8, GoneOn, <2>2, <2>4 DEF Placed, JobAdded, Started
  <2> QED BY <1>1, <1>4, <1>8, GoneOn, <2>3, <2>5 DEF Placed, J
<1>10. NewRows'
  <2>1. \A y \in Procs : Held(y)' => proc[y].row # proc[x].row BY <1>1, <1>4, GoneOn DEF NewRows
  <2>2. \A y \in Procs : proc'[y].pc \in {"add", "attach"} => Held(y)' BY DEF Held
  <2> QED BY <1>1, <1>4, <1>5, <1>8, GoneOn, <2>1, <2>2 DEF NewRows, JobAdded
<1> QED BY <1>2, <1>7, <1>9, <1>10 DEF PageInv, ChainInv, RowsCoverJobs

LEMMA AttachKeeps ==
  ASSUME ReconcileInv, NEW x \in Procs, Attach(x), UNCHANGED env
  PROVE  ReconcileInv'
<1> USE DEF ReconcileInv, Base
<1>1. proc[x].pc = "attach" /\ Held(x) BY DEF Held, Attach
<1>2. PICK r \in DOMAIN row : r = proc[x].row BY <1>1 DEF NewRows
<1>3. GoesOn(x) /\ job' = job /\ used' = used BY OutcomeGoesOn DEF Attach, Quiet
<1>4. PICK j \in DOMAIN job : row' = [row EXCEPT ![r] = [row[r] EXCEPT !.queued = j]]
  BY <1>1, <1>2 DEF Attach, NewRows
<1>5. [row[r] EXCEPT !.queued = j] \in Row BY Typed DEF Row
<1>6. /\ row' \in Seq(Row) /\ DOMAIN row' = DOMAIN row
      /\ \A q \in DOMAIN row :
           /\ row'[q].chain = row[q].chain /\ row'[q].page = row[q].page /\ row'[q].attempts = row[q].attempts
           /\ row'[q].max = row[q].max /\ row'[q].status = row[q].status
           /\ q # r => row'[q].queued = row[q].queued
  <2> DEFINE e == [row[r] EXCEPT !.queued = j]
  <2>1. /\ e.chain = row[r].chain /\ e.page = row[r].page /\ e.attempts = row[r].attempts
        /\ e.max = row[r].max /\ e.status = row[r].status
    BY Typed DEF Row
  <2> HIDE DEF e
  <2>2. row' = [row EXCEPT ![r] = e] /\ e \in Row /\ row \in Seq(Row) BY <1>4, <1>5 DEF e, TypeOK
  <2> QED BY <2>1, <2>2, Replaced
<1>7. \A q \in DOMAIN row : Active(q)' = Active(q) BY <1>6 DEF Active
<1>8. TypeOK' BY <1>3, <1>6 DEF TypeOK, GoesOn, Moves
<1>9. Placed' BY <1>1, <1>3, <1>6, PlacedGoesOn
<1>10. \A y \in Procs : Held(y)' => Held(y) /\ proc'[y] = proc[y] /\ proc[y].row # r
  BY <1>1, <1>2, <1>3, GoneOn DEF NewRows
<1>11. NewRows'
  <2>1. \A y \in Procs : Held(y)' => Held(y) /\ proc'[y] = proc[y] /\ proc[y].row \in DOMAIN row \ {r}
    BY <1>10 DEF NewRows
  <2>2. \A y \in Procs : proc'[y].pc \in {"add", "attach"} => Held(y)' BY DEF Held
  <2>3. \A y \in Procs : proc'[y].pc = "add" =>
          /\ row'[proc'[y].row].queued = 0 /\ row'[proc'[y].row].attempts = 0
          /\ \A i \in DOMAIN job : job[i].row # proc'[y].row
    BY <1>6, <2>1, <2>2 DEF NewRows
  <2>4. \A y \in Procs : proc'[y].pc = "attach" => \E i \in DOMAIN job : job[i].row = proc'[y].row
    BY <2>1, <2>2 DEF NewRows
  <2>5. \A y, z \in Procs : Held(y)' /\ Held(z)' /\ proc'[y].row = proc'[z].row => y = z
    BY <2>1 DEF NewRows
  <2> QED BY <1>3, <1>6, <2>1, <2>3, <2>4, <2>5 DEF NewRows
<1>12. PageInv'
  <2>1. \A q \in DOMAIN row : Settled(q) => Settled(q)' BY <1>1, <1>2, <1>3, <1>6, <1>10 DEF Settled
  <2> QED BY <1>6, <2>1 DEF PageInv
<1>13. ChainInv'
  <2> SUFFICES ASSUME RowsCoverJobs PROVE (JobsHaveRows /\ RowsShowJobs /\ OneActiveChain)'
    BY DEF ChainInv, RowsCoverJobs
  <2>1. JobsHaveRows /\ RowsShowJobs /\ OneActiveChain BY DEF ChainInv
  <2>2. JobsHaveRows' BY <1>1, <1>3, <1>7, <2>1, GoneOn DEF JobsHaveRows, Placed, J, Errors
  <2>3. RowsShowJobs'
    <3> SUFFICES ASSUME NEW w \in Workers, proc'[w].pc # "idle"
                 PROVE  /\ proc[w].pc # "idle" /\ J(w)' = J(w) /\ Started(w)' = Started(w)
                        /\ J(w).row \in DOMAIN row
                        /\ \/ proc[w] = proc'[w]
                           \/ Started(w) /\ proc[w].pc # "reported" /\ proc'[w].pc \in Errors
      BY <1>6, <1>7, <2>1 DEF RowsShowJobs, Started, Errors
    <3> QED BY <1>1, <1>3, <2>1, GoneOn DEF JobsHaveRows, Placed, J
  <2>4. OneActiveChain'
    <3>1. \A y \in Procs : proc'[y].pc = "add" => row'[proc'[y].row].status = "pending"
      BY <1>6, <1>10, <2>1 DEF OneActiveChain, NewRows, Held
    <3>2. (\A y \in Procs : proc[y].old # 0 => ~Active(proc[y].old))'
      <4> SUFFICES ASSUME NEW y \in Procs, proc'[y].old # 0, NEW o, o = proc'[y].old PROVE ~Active(o)'
        BY DEF Active
      <4>1. o = proc[y].old /\ o \in DOMAIN row BY <1>1, <1>3, GoneOn
      <4> QED BY <4>1, <1>7, <2>1 DEF OneActiveChain
    <3>3. \A p, q \in ActiveRows' : row'[p].chain = row'[q].chain
      BY <1>6, <1>7, <2>1 DEF OneActiveChain, ActiveRows
    <3> QED BY <3>1, <3>2, <3>3 DEF OneActiveChain
  <2> QED BY <2>2, <2>3, <2>4
<1> QED BY <1>8, <1>9, <1>11, <1>12, <1>13

LEMMA PublishKeeps ==
  ASSUME ReconcileInv, NEW x \in Procs, Publish(x), UNCHANGED env
  PROVE  ReconcileInv'
BY AddNewKeeps, AddKnownKeeps, AddFailsKeeps, AddAnswerLostKeeps, AttachKeeps DEF Publish
-----------------------------------------------------------------------------
(* Admission.                                                              *)
Reserves(x, n, c, p) ==
  /\ RowAdded(n, c, p) /\ Moves(x, "add") /\ proc'[x].row = n
  /\ proc'[x].old = proc[x].old /\ proc'[x].job = proc[x].job
  /\ OpenTo(c) /\ (p > 0 => ~HandedOff(c, p))

LEMMA AdmissionDoes ==
  ASSUME TypeOK, NEW x \in Procs, NEW chain \in Nat, NEW page \in Nat, Admission(x, chain, page)
  PROVE  /\ job' = job
         /\ \/ \E n, c \in Nat : Reserves(x, n, c, page)
            \/ row' = row /\ GoesOn(x)
<1> DEFINE n == Len(row) + 1
           c == IF chain = 0 THEN n ELSE chain
<1>1. c \in Nat /\ n \in Nat BY Typed
<1>2. CASE OpenTo(c) /\ (page > 0 => ~HandedOff(c, page))
  <2>1. row' = Append(row, NewRow(c, page)) BY <1>2 DEF Admission
  <2>2. RowAdded(n, c, page) BY <1>1, <2>1, RowIsAdded
  <2>3. proc' = [proc EXCEPT ![x] = [proc[x] EXCEPT !.pc = "add", !.row = n]] BY <1>2 DEF Admission
  <2>4. Moves(x, "add") /\ proc'[x].row = n /\ proc'[x].old = proc[x].old /\ proc'[x].job = proc[x].job
    BY <1>1, <2>3 DEF TypeOK, Moves, Local, Pcs
  <2> QED BY <1>1, <1>2, <2>2, <2>4 DEF Reserves, Admission
<1>3. CASE ~(OpenTo(c) /\ (page > 0 => ~HandedOff(c, page)))
  BY <1>3, OutcomeGoesOn DEF Admission
<1> QED BY <1>2, <1>3

LEMMA ReserveKeeps ==
  ASSUME ReconcileInv, NEW x \in Procs, x \in Admins => proc[x].pc \in {"idle", "again"},
         x \in Workers => proc[x].pc = "publish", NEW n \in Nat, NEW c \in Nat, NEW p \in Nat, Reserves(x, n, c, p),
         used' \in [Bounded -> Nat], UNCHANGED <<env, job>>
  PROVE  ReconcileInv'
<1> USE DEF ReconcileInv, Base
<1>1. /\ DOMAIN row' = DOMAIN row \cup {n} /\ n \notin DOMAIN row /\ n # 0
      /\ \A q \in DOMAIN row : row'[q] = row[q] /\ q < n
      /\ row'[n].chain = c /\ row'[n].page = p /\ row'[n].status = "pending"
      /\ row'[n].attempts = 0 /\ row'[n].queued = 0
  BY Typed DEF Reserves, RowAdded, NewRow
<1>2. /\ \A y \in Procs \ {x} : proc'[y] = proc[y]
      /\ proc'[x].pc = "add" /\ proc'[x].row = n /\ proc'[x].old = proc[x].old /\ proc'[x].job = proc[x].job
  BY DEF Reserves, Moves
<1>3. ~Held(x) /\ Held(x)' /\ \A y \in Procs \ {x} : Held(y)' = Held(y)
  BY <1>2 DEF Held, Procs
<1>4. TypeOK' BY DEF TypeOK, Reserves, RowAdded, Moves
<1>5. \A w \in Workers :
        /\ (proc'[w].pc = "idle") = (proc[w].pc = "idle") /\ proc'[w].job = proc[w].job /\ Started(w)' = Started(w)
        /\ \/ proc'[w] = proc[w]
           \/ Started(w) /\ proc[w].pc = "publish" /\ proc'[w].pc = "add"
  BY <1>2 DEF Started, Procs
<1>6. Placed'
  <2>1. \A a \in Admins : proc'[a].pc \in {"idle", "again", "add", "attach", "cancel"} /\ proc'[a].job = 0
    BY <1>2 DEF Placed, Procs
  <2>2. \A w \in Workers : proc'[w].pc \notin {"again", "cancel"} /\ (proc'[w].pc = "start" => proc[w].pc = "start")
    BY <1>5 DEF Placed
  <2>3. \A y \in Procs : proc'[y].old # 0 \/ proc'[y].pc \in {"again", "cancel"} => proc'[y].old \in DOMAIN row
    BY <1>2 DEF Placed
  <2> QED BY <1>1, <1>5, <2>1, <2>2, <2>3 DEF Placed, J
<1>7. \A j \in DOMAIN job : job[j].row # n BY <1>1 DEF Placed
<1>8. NewRows'
  <2>1. \A y \in Procs \ {x} : proc'[y].pc \in {"add", "attach"} => Held(y) BY <1>2 DEF Held
  <2> QED BY <1>1, <1>2, <1>3, <1>7, <2>1 DEF NewRows
<1>9. PageInv'
  <2> SUFFICES ASSUME env.lostAnswer = 0 PROVE PageInv' BY DEF PageInv
  <2>1. \A q \in DOMAIN row : Settled(q) => Settled(q)' BY <1>1, <1>2, <1>3 DEF Settled
  <2>2. \A r \in DOMAIN row : p > 0 /\ row[r].chain = c /\ row[r].page = p =>
          row[r].status = "manual_review" /\ row[r].attempts = 0
    BY DEF Reserves, HandedOff
  <2>3. \A r \in DOMAIN row' :
          row'[r].status = "manual_review" /\ row'[r].attempts = 0 => r \in DOMAIN row /\ Settled(r)
    BY <1>1 DEF PageInv
  <2>4. \A r, q \in DOMAIN row' :
          r < q /\ row'[r].page > 0 /\ row'[r].chain = row'[q].chain /\ row'[r].page = row'[q].page
            => r \in DOMAIN row /\ row[r].status \in {"manual_review", "cancelled"} /\ Settled(r)
    <3> SUFFICES ASSUME NEW r \in DOMAIN row', NEW q \in DOMAIN row', r < q, row'[r].page > 0,
                        row'[r].chain = row'[q].chain, row'[r].page = row'[q].page
                 PROVE  r \in DOMAIN row /\ row[r].status \in {"manual_review", "cancelled"} /\ Settled(r)
      OBVIOUS
    <3>1. r \in DOMAIN row BY <1>1, Typed
    <3> QED BY <1>1, <2>2, <3>1 DEF PageInv
  <2> QED BY <1>1, <2>1, <2>3, <2>4 DEF PageInv
<1>10. ChainInv'
  <2> SUFFICES ASSUME RowsCoverJobs PROVE (JobsHaveRows /\ RowsShowJobs /\ OneActiveChain)'
    BY DEF ChainInv, RowsCoverJobs
  <2>1. JobsHaveRows /\ RowsShowJobs /\ OneActiveChain BY DEF ChainInv
  <2>2. /\ \A q \in DOMAIN row : Active(q)' = Active(q)
        /\ ActiveRows' = ActiveRows \cup {n}
    BY <1>1 DEF Active, ActiveRows
  <2>3. JobsHaveRows' BY <1>1, <1>5, <2>1, <2>2 DEF JobsHaveRows, Placed, J
  <2>4. RowsShowJobs'
    <3> SUFFICES ASSUME NEW w \in Workers, proc'[w].pc # "idle"
                 PROVE  /\ proc[w].pc # "idle" /\ J(w)' = J(w) /\ Started(w)' = Started(w)
                        /\ J(w).row \in DOMAIN row
                        /\ \/ proc[w] = proc'[w]
                           \/ Started(w) /\ proc[w].pc # "reported" /\ proc'[w].pc = "add"
      BY <1>1, <2>1, <2>2 DEF RowsShowJobs, Started
    <3> QED BY <1>5, <2>1 DEF JobsHaveRows, Placed, J
  <2>5. OneActiveChain'
    <3>1. \A y \in Procs : proc'[y].pc = "add" => row'[proc'[y].row].status = "pending"
      BY <1>1, <1>2, <2>1 DEF OneActiveChain, NewRows, Held
    <3>2. (\A y \in Procs : proc[y].old # 0 => ~Active(proc[y].old))'
      <4> SUFFICES ASSUME NEW y \in Procs, proc'[y].old # 0, NEW o, o = proc'[y].old PROVE ~Active(o)'
        BY DEF Active
      <4>1. o = proc[y].old /\ o \in DOMAIN row BY <1>2 DEF Placed
      <4> QED BY <4>1, <2>1, <2>2 DEF OneActiveChain
    <3>3. \A r, q \in ActiveRows' : row'[r].chain = row'[q].chain
      <4>1. \A r \in ActiveRows : row[r].chain = c BY <2>1, OpenMeansAll DEF Reserves
      <4>2. \A r \in ActiveRows' : row'[r].chain = c BY <1>1, <2>2, <4>1 DEF ActiveRows
      <4> QED BY <4>2
    <3> QED BY <3>1, <3>2, <3>3 DEF OneActiveChain
  <2> QED BY <2>3, <2>4, <2>5
<1> QED BY <1>4, <1>6, <1>8, <1>9, <1>10
-----------------------------------------------------------------------------
(* The administrators.                                                     *)
LEMMA StartChainKeeps ==
  ASSUME ReconcileInv, NEW a \in Admins, StartChain(a), UNCHANGED env
  PROVE  ReconcileInv'
<1>1. TypeOK /\ a \in Procs /\ a \notin Workers BY ReconcileAssumption DEF ReconcileInv, Base, Procs
<1>2. used' \in [Bounded -> Nat] BY <1>1, UseCounts DEF StartChain, Bounded
<1> QED BY <1>1, <1>2, AdmissionDoes, ReserveKeeps, NoChangeKeeps DEF StartChain

LEMMA RetryAdmitsKeeps ==
  ASSUME ReconcileInv, NEW a \in Admins, RetryAdmits(a), UNCHANGED env
  PROVE  ReconcileInv'
<1>1. TypeOK /\ a \in Procs /\ a \notin Workers BY ReconcileAssumption DEF ReconcileInv, Base, Procs
<1>2. proc[a].old \in DOMAIN row BY <1>1 DEF ReconcileInv, Base, Placed, RetryAdmits
<1>3. row[proc[a].old].chain \in Nat /\ row[proc[a].old].page \in Nat BY <1>1, <1>2, Typed DEF Row
<1>4. used' \in [Bounded -> Nat] BY <1>1 DEF RetryAdmits, TypeOK
<1> QED BY <1>1, <1>3, <1>4, AdmissionDoes, ReserveKeeps, NoChangeKeeps DEF RetryAdmits

LEMMA RetryReadsKeeps ==
  ASSUME ReconcileInv, NEW a \in Admins, NEW r, RetryReads(a, r), UNCHANGED env
  PROVE  ReconcileInv'
<1> USE DEF ReconcileInv, Base
<1>1. a \in Procs /\ a \notin Workers BY ReconcileAssumption DEF Procs
<1>2. used' \in [Bounded -> Nat] BY UseCounts DEF RetryReads, Bounded
<1>3. r \in DOMAIN row /\ r \in Nat BY Typed DEF RetryReads
<1>4. /\ proc' \in [Procs -> Local]
      /\ \A y \in Procs \ {a} : proc'[y] = proc[y]
      /\ proc'[a].pc = "again" /\ proc'[a].old = r /\ proc'[a].job = 0
  BY <1>1, <1>3 DEF TypeOK, RetryReads, Idle, Local, Pcs, Errors
<1>5. row' = row /\ job' = job BY DEF RetryReads
<1>6. TypeOK' BY <1>2, <1>4, <1>5 DEF TypeOK
<1>7. \A w \in Workers : proc'[w] = proc[w] BY <1>1, <1>4 DEF Procs
<1>8. Placed' BY <1>1, <1>3, <1>4, <1>5, <1>7 DEF Placed, Started, J, Procs
<1>9. NewRows' BY <1>4, <1>5 DEF NewRows, Held
<1>10. PageInv' BY <1>4, <1>5 DEF PageInv, Settled, Held
<1>11. ChainInv'
  <2> SUFFICES ASSUME RowsCoverJobs PROVE (JobsHaveRows /\ RowsShowJobs /\ OneActiveChain)'
    BY DEF ChainInv, RowsCoverJobs
  <2>1. JobsHaveRows /\ RowsShowJobs /\ OneActiveChain /\ ~Active(r) BY DEF ChainInv, RetryReads, RowsCoverJobs
  <2>2. JobsHaveRows' BY <1>5, <1>7, <2>1 DEF JobsHaveRows, Active, J
  <2>3. RowsShowJobs' BY <1>5, <1>7, <2>1 DEF RowsShowJobs, Active, J, Started
  <2>4. OneActiveChain' BY <1>4, <1>5, <2>1 DEF OneActiveChain, ActiveRows, Active
  <2> QED BY <2>2, <2>3, <2>4
<1> QED BY <1>6, <1>8, <1>9, <1>10, <1>11

LEMMA RetryCancelsKeeps ==
  ASSUME ReconcileInv, NEW a \in Admins, RetryCancels(a), UNCHANGED env
  PROVE  ReconcileInv'
<1> USE DEF ReconcileInv, Base
<1>1. a \in Procs /\ a \notin Workers /\ proc[a].pc = "cancel" BY ReconcileAssumption DEF Procs, RetryCancels
<1>2. PICK r \in DOMAIN row : r = proc[a].old BY <1>1 DEF Placed
<1>3. Moves(a, "idle") /\ proc'[a] = Idle BY <1>1, IdleMoves DEF RetryCancels
<1>4. RowSet(r) /\ row'[r].status = "cancelled" /\ row'[r].attempts = row[r].attempts
        /\ row'[r].max = row[r].max /\ row'[r].queued = row[r].queued
  BY <1>2, StatusIsSet DEF RetryCancels
<1>5. /\ DOMAIN row' = DOMAIN row
      /\ \A q \in DOMAIN row :
           /\ row'[q].chain = row[q].chain /\ row'[q].page = row[q].page /\ row'[q].attempts = row[q].attempts
           /\ row'[q].max = row[q].max /\ row'[q].queued = row[q].queued
           /\ q # r => row'[q].status = row[q].status
  BY <1>4 DEF RowSet
<1>6. job' = job /\ used' = used BY DEF RetryCancels, Quiet
<1>7. TypeOK' BY <1>3, <1>4, <1>6 DEF TypeOK, Moves, RowSet
<1>8. /\ \A w \in Workers : proc'[w] = proc[w]
      /\ \A y \in Procs : Held(y)' => Held(y) /\ proc'[y] = proc[y]
  BY <1>1, <1>3 DEF Procs, Moves, Held
<1>9. Placed'
  <2>1. \A y \in Procs : proc'[y].old # 0 \/ proc'[y].pc \in {"again", "cancel"} => proc'[y].old \in DOMAIN row
    BY <1>3 DEF Placed, Moves, Idle
  <2>2. \A b \in Admins : proc'[b].pc \in {"idle", "again", "add", "attach", "cancel"} /\ proc'[b].job = 0
    BY <1>3 DEF Placed, Moves, Idle, Procs
  <2> QED BY <1>5, <1>6, <1>8, <2>1, <2>2 DEF Placed, Started, J
<1>10. NewRows'
  <2>1. \A y \in Procs : proc'[y].pc \in {"add", "attach"} => Held(y)' BY DEF Held
  <2> QED BY <1>5, <1>6, <1>8, <2>1 DEF NewRows
<1>11. PageInv'
  <2>1. \A q \in DOMAIN row : Settled(q) => Settled(q)' BY <1>5, <1>6, <1>8 DEF Settled
  <2> QED BY <1>4, <1>5, <2>1 DEF PageInv
<1>12. ChainInv'
  <2> SUFFICES ASSUME RowsCoverJobs PROVE (JobsHaveRows /\ RowsShowJobs /\ OneActiveChain)'
    BY DEF ChainInv, RowsCoverJobs
  <2>1. JobsHaveRows /\ RowsShowJobs /\ OneActiveChain BY DEF ChainInv
  <2>2. ~Active(r) BY <1>1, <1>2, <2>1, Typed DEF OneActiveChain, Active
  <2>3. \A q \in DOMAIN row : Active(q)' = Active(q) BY <1>4, <1>5, <2>2 DEF Active
  <2>4. JobsHaveRows' BY <1>5, <1>6, <1>8, <2>1, <2>3 DEF JobsHaveRows, Placed, J
  <2>5. RowsShowJobs'
    <3> SUFFICES ASSUME NEW w \in Workers, proc'[w].pc # "idle"
                 PROVE  /\ proc[w].pc # "idle" /\ J(w)' = J(w) /\ J(w).row \in DOMAIN row /\ proc[w] = proc'[w]
                        /\ \/ J(w).row # r \/ proc[w].pc = "own"
                           \/ proc[w].pc = "reported" /\ ~(proc[w].errors = "retry" /\ J(w).made + 1 < J(w).max)
      BY <1>5, <2>1, <2>3 DEF RowsShowJobs, Started
    <3>1. proc[w] = proc'[w] /\ J(w)' = J(w) /\ J(w).row \in DOMAIN row
      BY <1>6, <1>8, <2>1 DEF JobsHaveRows, Placed, J
    <3>2. ASSUME Started(w), J(w).row = r
          PROVE  proc[w].pc = "reported" /\ ~(proc[w].errors = "retry" /\ J(w).made + 1 < J(w).max)
      BY <2>1, <2>2, <3>2 DEF RowsShowJobs, Active
    <3>3. proc[w].pc \in {"row", "start"} => J(w).row # r BY <2>1, <2>2 DEF RowsShowJobs
    <3> QED BY <3>1, <3>2, <3>3 DEF Started
  <2>6. OneActiveChain'
    <3>1. \A y \in Procs : proc'[y].pc = "add" => row'[proc'[y].row].status = "pending"
      BY <1>5, <1>8, <2>1, <2>2 DEF OneActiveChain, NewRows, Held, Active
    <3>2. (\A y \in Procs : proc[y].old # 0 => ~Active(proc[y].old))'
      <4> SUFFICES ASSUME NEW y \in Procs, proc'[y].old # 0, NEW o, o = proc'[y].old PROVE ~Active(o)'
        BY DEF Active
      <4>1. o = proc[y].old /\ o \in DOMAIN row BY <1>3 DEF Placed, Moves, Idle
      <4> QED BY <4>1, <2>1, <2>3 DEF OneActiveChain
    <3>3. \A p, q \in ActiveRows' : row'[p].chain = row'[q].chain
      BY <1>5, <2>1, <2>3 DEF OneActiveChain, ActiveRows
    <3> QED BY <3>1, <3>2, <3>3 DEF OneActiveChain
  <2> QED BY <2>4, <2>5, <2>6
<1> QED BY <1>7, <1>9, <1>10, <1>11, <1>12
-----------------------------------------------------------------------------
(* The workers.                                                            *)
LEMMA GoesKeeps ==
  ASSUME ReconcileInv, NEW w \in Workers, NEW pc, Moves(w, pc), SameWork(w),
         \/ proc[w].pc = "row" /\ pc = "start" /\ J(w).row # 0
         \/ proc[w].pc \in {"admit", "scan"} /\ pc \in {"scan", "publish"} \cup Errors,
         used' \in [Bounded -> Nat], UNCHANGED <<env, row, job>>
  PROVE  ReconcileInv'
<1> USE DEF ReconcileInv, Base
<1>1. w \in Procs /\ w \notin Admins BY ReconcileAssumption DEF Procs
<1>2. \A v \in Workers :
        /\ (proc'[v].pc = "idle") = (proc[v].pc = "idle") /\ proc'[v].job = proc[v].job /\ Started(v)' = Started(v)
        /\ \/ proc'[v] = proc[v]
           \/ proc[v].pc = "row" /\ proc'[v].pc = "start" /\ J(v).row # 0
           \/ Started(v) /\ proc[v].pc \in {"admit", "scan"} /\ proc'[v].pc \in {"scan", "publish"} \cup Errors
  BY <1>1 DEF Moves, SameWork, Started, Procs, Errors
<1>3. \A y \in Procs : Held(y)' = Held(y) /\ (Held(y) => proc'[y] = proc[y])
  BY <1>1 DEF Moves, Held, Errors
<1>4. TypeOK' BY DEF TypeOK, Moves
<1>5. Placed'
  <2>1. \A a \in Admins : proc'[a] = proc[a] BY <1>1 DEF Moves, Procs
  <2>2. \A v \in Workers : proc'[v].pc \notin {"again", "cancel"} BY <1>2 DEF Placed, Errors
  <2>3. \A y \in Procs : proc'[y].old = proc[y].old /\ (proc'[y].pc \in {"again", "cancel"} => proc'[y] = proc[y])
    BY <1>1 DEF Moves, SameWork, Errors
  <2>4. \A v \in Workers : proc'[v].pc = "start" => J(v).row \in DOMAIN row BY <1>2 DEF Placed, J, Errors
  <2> QED BY <1>2, <2>1, <2>2, <2>3, <2>4 DEF Placed, J
<1>6. NewRows'
  <2>1. \A y \in Procs : proc'[y].pc \in {"add", "attach"} => Held(y)' BY DEF Held
  <2> QED BY <1>3, <2>1 DEF NewRows
<1>7. PageInv' BY <1>3 DEF PageInv, Settled
<1>8. ChainInv'
  <2> SUFFICES ASSUME RowsCoverJobs PROVE (JobsHaveRows /\ RowsShowJobs /\ OneActiveChain)'
    BY DEF ChainInv, RowsCoverJobs
  <2>1. JobsHaveRows /\ RowsShowJobs /\ OneActiveChain BY DEF ChainInv
  <2>2. JobsHaveRows' BY <1>2, <2>1 DEF JobsHaveRows, Active, J, Errors
  <2>3. RowsShowJobs'
    <3>1. \A v \in Workers :
            /\ J(v)' = J(v) /\ Active(J(v).row)' = Active(J(v).row)
            /\ proc'[v].pc \in {"row", "start"} => proc[v].pc \in {"row", "start"}
            /\ proc'[v].pc = "reported" => proc'[v] = proc[v]
      BY <1>2 DEF J, Active, Errors
    <3>2. \A v \in Workers : Started(v)' /\ proc'[v].pc # "reported" => Started(v) /\ proc[v].pc # "reported"
      BY <1>2
    <3> QED BY <1>2, <2>1, <3>1, <3>2 DEF RowsShowJobs
  <2>4. OneActiveChain'
    <3>1. \A y \in Procs : (proc'[y].pc = "add" => Held(y)') /\ proc'[y].old = proc[y].old
      BY DEF Held, Moves, SameWork
    <3> QED BY <1>3, <2>1, <3>1 DEF OneActiveChain, ActiveRows, Active
  <2> QED BY <2>2, <2>3, <2>4
<1> QED BY <1>4, <1>5, <1>6, <1>7, <1>8

LEMMA ScanningKeeps ==
  ASSUME ReconcileInv, NEW w \in Workers, Admit(w) \/ ReadFails(w) \/ Scan(w), UNCHANGED env
  PROVE  ReconcileInv'
<1>1. TypeOK /\ w \in Procs BY DEF ReconcileInv, Base, Procs
<1>2. CASE Admit(w)
  <2>1. PICK pc \in {"scan", "none"} : Stay(w, pc) BY <1>2 DEF Admit
  <2> QED BY <1>1, <1>2, <2>1, StayMoves, GoesKeeps DEF Admit, Quiet, TypeOK, Pcs, Errors
<1>3. CASE ReadFails(w)
  <2>1. used' \in [Bounded -> Nat] BY <1>1, <1>3, UseCounts DEF ReadFails, Bounded
  <2> QED BY <1>1, <1>3, <2>1, StayMoves, GoesKeeps DEF ReadFails, Pcs, Errors
<1>4. CASE Scan(w)
  <2>1. PICK e \in Errors :
          proc' = [proc EXCEPT ![w].errors = e, ![w].pc = IF row[J(w).row].page + 1 < Pages THEN "publish" ELSE e]
    BY <1>4 DEF Scan, Errors
  <2> DEFINE pc == IF row[J(w).row].page + 1 < Pages THEN "publish" ELSE e
  <2>2. pc \in {"publish"} \cup Errors /\ proc' = [proc EXCEPT ![w].errors = e, ![w].pc = pc] BY <2>1
  <2> HIDE DEF pc
  <2>3. Moves(w, pc) /\ SameWork(w) BY <1>1, <2>2 DEF TypeOK, Moves, SameWork, Local, Pcs, Errors
  <2> QED BY <1>1, <1>4, <2>2, <2>3, GoesKeeps DEF Scan, TypeOK
<1> QED BY <1>2, <1>3, <1>4

LEMMA NextPageKeeps ==
  ASSUME ReconcileInv, NEW w \in Workers, NextPage(w), UNCHANGED env
  PROVE  ReconcileInv'
<1>1. TypeOK /\ w \in Procs /\ w \notin Admins BY ReconcileAssumption DEF ReconcileInv, Base, Procs
<1>2. J(w).row \in DOMAIN row BY <1>1 DEF ReconcileInv, Base, Placed, NextPage, Started
<1>3. MyChain(w) \in Nat /\ row[J(w).row].page + 1 \in Nat BY <1>1, <1>2, Typed DEF Row, MyChain
<1>4. used' \in [Bounded -> Nat] BY <1>1 DEF NextPage, TypeOK
<1> QED BY <1>1, <1>3, <1>4, AdmissionDoes, ReserveKeeps, NoChangeKeeps DEF NextPage

LEMMA TakeKeeps ==
  ASSUME ReconcileInv, NEW w \in Workers, NEW i, Take(w, i), UNCHANGED env
  PROVE  ReconcileInv'
<1> USE DEF ReconcileInv, Base
<1>1. w \in Procs /\ w \notin Admins /\ i \in DOMAIN job /\ i \in Nat /\ job[i].state = "waiting" /\ proc[w].pc = "idle"
  BY Typed, ReconcileAssumption DEF Procs, Take
<1>2. /\ proc' \in [Procs -> Local]
      /\ \A y \in Procs \ {w} : proc'[y] = proc[y]
      /\ proc'[w].pc = "row" /\ proc'[w].job = i /\ proc'[w].old = 0
  BY <1>1 DEF TypeOK, Take, Idle, Local, Pcs, Errors
<1>3. /\ job' \in Seq(Job) /\ DOMAIN job' = DOMAIN job
      /\ \A j \in DOMAIN job :
           /\ job'[j].row = job[j].row /\ job'[j].max = job[j].max /\ job'[j].made = job[j].made
           /\ job'[j].state = IF j = i THEN "active" ELSE job[j].state
  <2> DEFINE e == [job[i] EXCEPT !.state = "active"]
  <2>1. e \in Job /\ e.row = job[i].row /\ e.max = job[i].max /\ e.made = job[i].made /\ e.state = "active"
    BY <1>1, Typed DEF Job
  <2>2. job' = [job EXCEPT ![i] = e] /\ job \in Seq(Job) BY DEF Take, TypeOK
  <2> HIDE DEF e
  <2> QED BY <1>1, <2>1, <2>2, Replaced
<1>4. row' = row /\ used' = used BY DEF Take, Quiet
<1>5. TypeOK' BY <1>2, <1>3, <1>4 DEF TypeOK
<1>6. \A y \in Procs : Held(y)' = Held(y) /\ (Held(y) => proc'[y] = proc[y]) BY <1>1, <1>2 DEF Held
<1>7. Placed'
  <2>1. \A a \in Admins : proc'[a] = proc[a] BY <1>1, <1>2 DEF Procs
  <2>2. \A v \in Workers :
          /\ proc'[v].pc \notin {"again", "cancel"} /\ (proc'[v].pc # "idle" => proc'[v].job \in DOMAIN job)
          /\ Started(v)' \/ proc'[v].pc = "start" => proc'[v] = proc[v]
    BY <1>1, <1>2 DEF Placed, Started, Procs
  <2>3. \A y \in Procs : proc'[y].old # 0 \/ proc'[y].pc \in {"again", "cancel"} => proc'[y] = proc[y] BY <1>2
  <2>4. \A v \in Workers : Started(v)' \/ proc'[v].pc = "start" =>
          J(v)'.row = J(v).row /\ (Started(v)' => Started(v)) /\ (proc'[v].pc = "start" => proc[v].pc = "start")
    BY <1>3, <2>2 DEF Placed, Started, J
  <2> QED BY <1>3, <1>4, <2>1, <2>2, <2>3, <2>4 DEF Placed, J
<1>8. NewRows'
  <2>1. \A y \in Procs : proc'[y].pc \in {"add", "attach"} => Held(y)' BY DEF Held
  <2> QED BY <1>3, <1>4, <1>6, <2>1 DEF NewRows
<1>9. PageInv' BY <1>3, <1>4, <1>6 DEF PageInv, Settled
<1>10. ChainInv'
  <2> SUFFICES ASSUME RowsCoverJobs PROVE (JobsHaveRows /\ RowsShowJobs /\ OneActiveChain)'
    BY DEF ChainInv, RowsCoverJobs
  <2>1. JobsHaveRows /\ RowsShowJobs /\ OneActiveChain BY DEF ChainInv
  <2>2. \A v \in Workers : v = w \/ (proc'[v] = proc[v] /\ (proc[v].pc # "idle" => proc[v].job \in DOMAIN job \ {i}))
    BY <1>1, <1>2, <2>1 DEF JobsHaveRows, Placed, J, Procs
  <2>3. JobsHaveRows'
    <3>1. \A v \in Workers : proc'[v].pc # "own" BY <1>2, <2>1, <2>2 DEF JobsHaveRows
    <3>2. (\A v \in Workers : proc[v].pc # "idle" => J(v).state = "active")'
      BY <1>1, <1>2, <1>3, <2>1, <2>2 DEF JobsHaveRows, J
    <3>3. \A u, v \in Workers : proc'[u].pc # "idle" /\ proc'[v].pc # "idle" /\ proc'[u].job = proc'[v].job => u = v
      BY <1>2, <2>1, <2>2 DEF JobsHaveRows
    <3> QED BY <1>3, <1>4, <2>1, <3>1, <3>2, <3>3 DEF JobsHaveRows, Active
  <2>4. RowsShowJobs'
    <3>1. Active(job[i].row) BY <1>1, <2>1 DEF JobsHaveRows
    <3> SUFFICES ASSUME NEW v \in Workers, proc'[v].pc # "idle"
                 PROVE  \/ proc'[v].pc = "row" /\ J(v)'.row = job[i].row
                        \/ proc'[v] = proc[v] /\ J(v)'.row = J(v).row /\ J(v)'.max = J(v).max /\ J(v)'.made = J(v).made
      BY <1>4, <2>1, <3>1 DEF RowsShowJobs, Active, J, Started
    <3> QED BY <1>1, <1>2, <1>3, <2>2 DEF J
  <2>5. OneActiveChain'
    <3>1. \A y \in Procs : (proc'[y].pc = "add" => Held(y)') /\ (proc'[y].old # 0 => proc'[y].old = proc[y].old)
      BY <1>2 DEF Held
    <3> QED BY <1>4, <1>6, <2>1, <3>1 DEF OneActiveChain, ActiveRows, Active
  <2> QED BY <2>3, <2>4, <2>5
<1> QED BY <1>5, <1>7, <1>8, <1>9, <1>10

LEMMA FindRowKeeps ==
  ASSUME ReconcileInv, NEW w \in Workers, FindRow(w), UNCHANGED env
  PROVE  ReconcileInv'
<1> USE DEF ReconcileInv, Base
<1>1. w \in Procs /\ w \notin Admins /\ proc[w].pc = "row" BY ReconcileAssumption DEF Procs, FindRow
<1>2. Moves(w, "start") /\ SameWork(w) BY <1>1, StayMoves DEF FindRow, Pcs
<1>3. row' = row /\ used' = used BY DEF FindRow, Quiet
<1>4. CASE job' = job /\ J(w).row # 0 BY <1>1, <1>2, <1>3, <1>4, GoesKeeps DEF TypeOK
<1>5. CASE J(w).row = 0 /\ \E r \in DOMAIN row : row[r].queued = proc[w].job /\ job' = [job EXCEPT ![proc[w].job].row = r]
  <2>1. PICK i \in DOMAIN job : i = proc[w].job BY <1>1 DEF Placed
  <2>2. PICK r \in DOMAIN row : row[r].queued = i /\ job' = [job EXCEPT ![i] = [job[i] EXCEPT !.row = r]]
    BY <1>5, <2>1
  <2>3. job[i].row = 0 /\ row[r].queued # 0 BY <1>5, <2>1, <2>2, Typed DEF J
  <2>4. /\ job' \in Seq(Job) /\ DOMAIN job' = DOMAIN job /\ \A j \in DOMAIN job \ {i} : job'[j] = job[j]
        /\ job'[i].row = r
    <3> DEFINE e == [job[i] EXCEPT !.row = r]
    <3>1. e \in Job /\ e.row = r BY Typed DEF Job
    <3>2. job' = [job EXCEPT ![i] = e] /\ job \in Seq(Job) BY <2>2 DEF TypeOK
    <3> HIDE DEF e
    <3> QED BY <3>1, <3>2, Replaced
  <2>5. TypeOK' BY <1>2, <1>3, <2>4 DEF TypeOK, Moves
  <2>6. \A y \in Procs : Held(y)' = Held(y) /\ (Held(y) => proc'[y] = proc[y]) BY <1>1, <1>2 DEF Held, Moves
  <2>7. Placed'
    <3>1. \A a \in Admins : proc'[a] = proc[a] BY <1>1, <1>2 DEF Moves, Procs
    <3>2. \A y \in Procs : proc'[y].old = proc[y].old /\ (proc'[y].pc \in {"again", "cancel"} => proc'[y] = proc[y])
      BY <1>2 DEF Moves, SameWork
    <3>3. \A v \in Workers :
            /\ proc'[v].pc \notin {"again", "cancel"} /\ (proc'[v].pc # "idle" => proc'[v].job \in DOMAIN job)
            /\ Started(v)' = Started(v) /\ proc'[v].job = proc[v].job /\ (proc'[v].pc = "start" => proc[v].pc = "start" \/ v = w)
      BY <1>1, <1>2 DEF Placed, Started, Moves, SameWork, Procs
    <3>4. \A v \in Workers : Started(v) \/ proc[v].pc = "start" => proc[v].job \in DOMAIN job \ {i}
      BY <2>3, Typed DEF Placed, Started, J
    <3>5. \A v \in Workers : Started(v)' \/ proc'[v].pc = "start" => J(v)'.row \in DOMAIN row
      BY <2>1, <2>4, <3>3, <3>4 DEF Placed, J
    <3>6. \A v \in Workers : Started(v)' => row[J(v)'.row].attempts # 0
      BY <2>4, <3>3, <3>4 DEF Placed, J
    <3>7. \A j \in DOMAIN job' : job'[j].row \in DOMAIN row \cup {0} BY <2>4 DEF Placed
    <3> QED BY <1>3, <2>4, <3>1, <3>2, <3>3, <3>5, <3>6, <3>7 DEF Placed, J
  <2>8. NewRows'
    <3>1. \A y \in Procs : proc'[y].pc \in {"add", "attach"} => Held(y)' BY DEF Held
    <3>2. \A y \in Procs : proc'[y].pc = "add" => \A j \in DOMAIN job' : job'[j].row # proc'[y].row
      BY <2>2, <2>3, <2>4, <2>6, <3>1 DEF NewRows
    <3>3. \A y \in Procs : proc'[y].pc = "attach" => \E j \in DOMAIN job' : job'[j].row = proc'[y].row
      <4> SUFFICES ASSUME NEW y \in Procs, proc'[y].pc = "attach" PROVE \E j \in DOMAIN job' : job'[j].row = proc'[y].row
        OBVIOUS
      <4>1. proc'[y] = proc[y] /\ Held(y) BY <2>6, <3>1
      <4>2. PICK j \in DOMAIN job : job[j].row = proc[y].row BY <4>1 DEF NewRows
      <4>3. j # i BY <2>3, <4>1, <4>2, Typed DEF NewRows
      <4> QED BY <2>4, <4>1, <4>2, <4>3
    <3> QED BY <1>3, <2>6, <3>1, <3>2, <3>3 DEF NewRows
  <2>9. PageInv'
    <3>1. \A q \in DOMAIN row : Settled(q) => Settled(q)' BY <1>3, <2>2, <2>3, <2>4, <2>6 DEF Settled
    <3> QED BY <1>3, <3>1 DEF PageInv
  <2>10. ChainInv' BY <2>1, <2>3 DEF ChainInv, RowsCoverJobs, JobsHaveRows
  <2> QED BY <2>5, <2>7, <2>8, <2>9, <2>10
<1> QED BY <1>4, <1>5 DEF FindRow

LEMMA CreateRowKeeps ==
  ASSUME ReconcileInv, NEW w \in Workers, CreateRow(w), UNCHANGED env
  PROVE  ReconcileInv'
<1> USE DEF ReconcileInv, Base
<1>1. w \in Procs /\ w \notin Admins /\ proc[w].pc = "row" BY ReconcileAssumption DEF Procs, CreateRow
<1> DEFINE n == Len(row) + 1
<1>2. n \in Nat /\ row' = Append(row, NewRow(n, 0)) BY Typed DEF CreateRow
<1>3. RowAdded(n, n, 0) BY <1>2, RowIsAdded
<1>4. /\ proc' \in [Procs -> Local]
      /\ \A y \in Procs \ {w} : proc'[y] = proc[y]
      /\ proc'[w].pc = "own" /\ proc'[w].row = n /\ proc'[w].old = proc[w].old /\ proc'[w].job = proc[w].job
  <2>1. proc' = [proc EXCEPT ![w] = [proc[w] EXCEPT !.pc = "own", !.row = n]] BY DEF CreateRow
  <2> QED BY <1>1, <1>2, <2>1 DEF TypeOK, Local, Pcs
<1>5. job' = job /\ used' = used BY DEF CreateRow, Quiet
<1> HIDE DEF n
<1>6. /\ DOMAIN row' = DOMAIN row \cup {n} /\ n \notin DOMAIN row /\ n # 0
      /\ \A q \in DOMAIN row : row'[q] = row[q] /\ q < n
      /\ row'[n].page = 0 /\ row'[n].status = "pending" /\ row'[n].attempts = 0 /\ row'[n].queued = 0
  BY <1>2, <1>3, Typed DEF RowAdded, NewRow
<1>7. TypeOK' BY <1>3, <1>4, <1>5 DEF TypeOK, RowAdded
<1>8. Held(w)' /\ \A y \in Procs \ {w} : Held(y)' = Held(y) BY <1>4 DEF Held
<1>9. Placed'
  <2>1. \A a \in Admins : proc'[a] = proc[a] BY <1>1, <1>4 DEF Procs
  <2>2. \A v \in Workers :
          /\ proc'[v].pc \notin {"again", "cancel"} /\ (proc'[v].pc # "idle" => proc'[v].job \in DOMAIN job)
          /\ proc'[v].job = proc[v].job /\ (Started(v)' \/ proc'[v].pc = "start" => proc'[v] = proc[v])
    BY <1>1, <1>4 DEF Placed, Started, Procs
  <2>3. \A y \in Procs : proc'[y].old # 0 \/ proc'[y].pc \in {"again", "cancel"} => proc'[y].old \in DOMAIN row
    BY <1>4 DEF Placed
  <2> QED BY <1>5, <1>6, <2>1, <2>2, <2>3 DEF Placed, Started, J
<1>10. \A j \in DOMAIN job : job[j].row # n BY <1>6 DEF Placed
<1>11. NewRows'
  <2>1. \A y \in Procs \ {w} : proc'[y].pc \in {"add", "attach"} => Held(y) BY <1>4 DEF Held
  <2> QED BY <1>4, <1>5, <1>6, <1>8, <1>10, <2>1 DEF NewRows
<1>12. PageInv'
  <2> SUFFICES ASSUME env.lostAnswer = 0 PROVE PageInv' BY DEF PageInv
  <2>1. \A q \in DOMAIN row : Settled(q) => Settled(q)' BY <1>4, <1>5, <1>6, <1>8 DEF Settled
  <2>2. \A r \in DOMAIN row' :
          row'[r].status = "manual_review" /\ row'[r].attempts = 0 => r \in DOMAIN row /\ Settled(r)
    BY <1>6 DEF PageInv
  <2>3. \A r, q \in DOMAIN row' :
          r < q /\ row'[r].page > 0 /\ row'[r].chain = row'[q].chain /\ row'[r].page = row'[q].page
            => r \in DOMAIN row /\ row[r].status \in {"manual_review", "cancelled"} /\ Settled(r)
    <3> SUFFICES ASSUME NEW r \in DOMAIN row', NEW q \in DOMAIN row', r < q, row'[r].page > 0,
                        row'[r].chain = row'[q].chain, row'[r].page = row'[q].page
                 PROVE  r \in DOMAIN row /\ row[r].status \in {"manual_review", "cancelled"} /\ Settled(r)
      OBVIOUS
    <3>1. r \in DOMAIN row /\ q \in DOMAIN row BY <1>6
    <3> QED BY <1>6, <3>1 DEF PageInv
  <2> QED BY <1>6, <2>1, <2>2, <2>3 DEF PageInv
<1>13. ChainInv' BY <1>1 DEF ChainInv, RowsCoverJobs, JobsHaveRows, CreateRow, Placed, J
<1> QED BY <1>7, <1>9, <1>11, <1>12, <1>13

LEMMA OwnRowKeeps ==
  ASSUME ReconcileInv, NEW w \in Workers, OwnRow(w), UNCHANGED env
  PROVE  ReconcileInv'
<1> USE DEF ReconcileInv, Base
<1>1. w \in Procs /\ w \notin Admins /\ proc[w].pc = "own" /\ Held(w)
  BY ReconcileAssumption DEF Procs, OwnRow, Held
<1>2. PICK r \in DOMAIN row : r = proc[w].row BY <1>1 DEF NewRows
<1>3. Moves(w, "row") /\ SameWork(w) BY <1>1, StayMoves DEF OwnRow, Pcs
<1>4. job' = job /\ used' = used BY DEF OwnRow, Quiet
<1>5. /\ row' \in Seq(Row) /\ DOMAIN row' = DOMAIN row
      /\ \A q \in DOMAIN row :
           /\ row'[q].chain = row[q].chain /\ row'[q].page = row[q].page /\ row'[q].attempts = row[q].attempts
           /\ row'[q].max = row[q].max /\ row'[q].status = row[q].status
           /\ q # r => row'[q].queued = row[q].queued
  <2> DEFINE e == [row[r] EXCEPT !.queued = proc[w].job]
  <2>1. proc[w].job \in Nat BY <1>1 DEF TypeOK, Local
  <2>2. /\ e \in Row /\ e.chain = row[r].chain /\ e.page = row[r].page /\ e.attempts = row[r].attempts
        /\ e.max = row[r].max /\ e.status = row[r].status
    BY <2>1, Typed DEF Row
  <2>3. row' = [row EXCEPT ![r] = e] /\ row \in Seq(Row) BY <1>2 DEF OwnRow, TypeOK
  <2> HIDE DEF e
  <2> QED BY <2>2, <2>3, Replaced
<1>6. TypeOK' BY <1>3, <1>4, <1>5 DEF TypeOK, Moves
<1>7. \A y \in Procs : Held(y)' => Held(y) /\ proc'[y] = proc[y] /\ proc[y].row # r
  BY <1>1, <1>2, <1>3 DEF NewRows, Held, Moves
<1>8. Placed'
  <2>1. \A a \in Admins : proc'[a] = proc[a] BY <1>1, <1>3 DEF Moves, Procs
  <2>2. \A v \in Workers :
          /\ proc'[v].pc \notin {"again", "cancel"} /\ (proc'[v].pc # "idle" => proc'[v].job \in DOMAIN job)
          /\ proc'[v].job = proc[v].job /\ (Started(v)' \/ proc'[v].pc = "start" => proc'[v] = proc[v])
    BY <1>1, <1>3 DEF Placed, Started, Moves, SameWork, Procs
  <2>3. \A y \in Procs : proc'[y].old # 0 \/ proc'[y].pc \in {"again", "cancel"} => proc'[y].old \in DOMAIN row
    BY <1>3 DEF Placed, Moves, SameWork
  <2> QED BY <1>4, <1>5, <2>1, <2>2, <2>3 DEF Placed, Started, J
<1>9. NewRows'
  <2>1. \A y \in Procs : proc'[y].pc \in {"add", "attach"} => Held(y)' BY DEF Held
  <2> QED BY <1>4, <1>5, <1>7, <2>1 DEF NewRows
<1>10. PageInv'
  <2>1. \A q \in DOMAIN row : Settled(q) => Settled(q)' BY <1>1, <1>2, <1>4, <1>5, <1>7 DEF Settled
  <2> QED BY <1>5, <2>1 DEF PageInv
<1>11. ChainInv' BY <1>1 DEF ChainInv, RowsCoverJobs, JobsHaveRows
<1> QED BY <1>6, <1>8, <1>9, <1>10, <1>11

(* Two workers that run jobs with rows run them for different rows.        *)
LEMMA OwnRows ==
  ASSUME Placed, JobsHaveRows, NEW v \in Workers, NEW w \in Workers, proc[v].pc # "idle", proc[w].pc # "idle", v # w
  PROVE  J(v).row # J(w).row
BY DEF Placed, JobsHaveRows, J

LEMMA StartKeeps ==
  ASSUME ReconcileInv, NEW w \in Workers, Start(w), UNCHANGED env
  PROVE  ReconcileInv'
<1> USE DEF ReconcileInv, Base
<1>1. w \in Procs /\ w \notin Admins /\ proc[w].pc = "start" BY ReconcileAssumption DEF Procs, Start
<1>2. PICK r \in DOMAIN row : r = J(w).row BY <1>1 DEF Placed
<1>3. Moves(w, "admit") /\ SameWork(w) BY <1>1, StayMoves DEF Start, Pcs
<1>4. job' = job /\ used' = used BY DEF Start, Quiet
<1>5. J(w) \in Job /\ proc[w].job \in DOMAIN job BY <1>1, Typed DEF Placed, J
<1>6. /\ row' \in Seq(Row) /\ DOMAIN row' = DOMAIN row
      /\ \A q \in DOMAIN row : row'[q].chain = row[q].chain /\ row'[q].page = row[q].page /\ row'[q].queued = row[q].queued
      /\ \A q \in DOMAIN row \ {r} : row'[q] = row[q]
      /\ row'[r].status = "processing" /\ row'[r].max = J(w).max /\ row'[r].attempts = J(w).made + 1
  <2> DEFINE e == [row[r] EXCEPT !.status = "processing", !.max = J(w).max, !.attempts = J(w).made + 1]
  <2>1. /\ e \in Row /\ e.chain = row[r].chain /\ e.page = row[r].page /\ e.queued = row[r].queued
        /\ e.max = J(w).max /\ e.attempts = J(w).made + 1 /\ e.status = "processing"
    <3>1. row[r] \in Row BY Typed
    <3>2. J(w).max \in Nat /\ J(w).made + 1 \in Nat BY <1>5 DEF Job
    <3> QED BY <3>1, <3>2 DEF Row
  <2>2. row' = [row EXCEPT ![r] = e] /\ row \in Seq(Row) BY <1>2 DEF Start, TypeOK
  <2> HIDE DEF e
  <2> QED BY <2>1, <2>2, Replaced
<1>7. row'[r].attempts # 0 BY <1>5, <1>6 DEF Job
<1>8. TypeOK' BY <1>3, <1>4, <1>6 DEF TypeOK, Moves
<1>9. \A y \in Procs : Held(y)' = Held(y) /\ (Held(y) => proc'[y] = proc[y]) BY <1>1, <1>3 DEF Held, Moves
<1>10. Placed'
  <2>1. \A a \in Admins : proc'[a] = proc[a] BY <1>1, <1>3 DEF Moves, Procs
  <2>2. \A v \in Workers :
          /\ proc'[v].pc \notin {"again", "cancel"} /\ (proc'[v].pc # "idle" => proc'[v].job \in DOMAIN job)
          /\ proc'[v].job = proc[v].job /\ (v = w \/ proc'[v] = proc[v])
    BY <1>1, <1>3 DEF Placed, Moves, SameWork, Procs
  <2>3. \A y \in Procs : proc'[y].old # 0 \/ proc'[y].pc \in {"again", "cancel"} => proc'[y].old \in DOMAIN row
    BY <1>3 DEF Placed, Moves, SameWork
  <2>4. \A v \in Workers : Started(v)' => J(v).row = r \/ Started(v) BY <1>2, <2>2 DEF Started
  <2>5. \A v \in Workers : Started(v)' => row'[J(v).row].attempts # 0 BY <1>6, <1>7, <2>4 DEF Placed
  <2>6. \A v \in Workers : Started(v)' \/ proc'[v].pc = "start" => J(v).row \in DOMAIN row
    BY <1>2, <2>2 DEF Placed, Started
  <2> QED BY <1>4, <1>6, <2>1, <2>2, <2>3, <2>5, <2>6 DEF Placed, J
<1>11. \E j \in DOMAIN job : job[j].row = r BY <1>2, <1>5 DEF J
<1>12. NewRows'
  <2>1. \A y \in Procs : proc'[y].pc \in {"add", "attach"} => Held(y)' BY DEF Held
  <2>2. \A y \in Procs : proc[y].pc = "add" => proc[y].row # r BY <1>11 DEF NewRows
  <2>3. \A y \in Procs : proc[y].pc = "add" => proc[y].row \in DOMAIN row \ {r} BY <2>2 DEF NewRows, Held
  <2> QED BY <1>4, <1>6, <1>9, <2>1, <2>3 DEF NewRows
<1>13. PageInv'
  <2>1. \A q \in DOMAIN row : Settled(q) => q # r /\ Settled(q)' BY <1>4, <1>6, <1>9, <1>11 DEF Settled
  <2> QED BY <1>6, <1>7, <2>1 DEF PageInv
<1>14. ChainInv'
  <2> SUFFICES ASSUME RowsCoverJobs PROVE (JobsHaveRows /\ RowsShowJobs /\ OneActiveChain)'
    BY DEF ChainInv, RowsCoverJobs
  <2>1. JobsHaveRows /\ RowsShowJobs /\ OneActiveChain BY DEF ChainInv
  <2>2. Active(r) /\ Active(r)' BY <1>1, <1>2, <1>6, <2>1 DEF RowsShowJobs, Active
  <2>3. \A q \in DOMAIN row : Active(q)' = Active(q) BY <1>6, <2>2 DEF Active
  <2>4. \A v \in Workers : v = w \/ (proc'[v] = proc[v] /\ (proc[v].pc # "idle" => J(v).row # r))
    <3>1. \A v \in Workers : v # w /\ proc[v].pc # "idle" => J(v).row # J(w).row BY <1>1, <2>1, OwnRows
    <3>2. \A v \in Workers : v = w \/ proc'[v] = proc[v] BY <1>3 DEF Moves, Procs
    <3> QED BY <1>2, <3>1, <3>2
  <2>5. JobsHaveRows' BY <1>1, <1>3, <1>4, <1>6, <2>1, <2>3, <2>4 DEF JobsHaveRows, Placed, J, Moves, SameWork
  <2>6. RowsShowJobs'
    <3> SUFFICES ASSUME NEW v \in Workers, proc'[v].pc # "idle"
                 PROVE  \/ proc'[v].pc = "admit" /\ J(v)' = J(v) /\ v = w
                        \/ proc'[v] = proc[v] /\ J(v)' = J(v) /\ J(v).row \in DOMAIN row \ {r}
      BY <1>2, <1>6, <2>1, <2>3 DEF RowsShowJobs, Started
    <3> QED BY <1>3, <1>4, <2>1, <2>4 DEF J, JobsHaveRows, Placed, Moves, SameWork
  <2>7. OneActiveChain'
    <3>1. \A y \in Procs : proc'[y].pc = "add" => row'[proc'[y].row].status = "pending"
      BY <1>6, <1>9, <1>11, <2>1 DEF OneActiveChain, NewRows, Held
    <3>2. (\A y \in Procs : proc[y].old # 0 => ~Active(proc[y].old))'
      <4> SUFFICES ASSUME NEW y \in Procs, proc'[y].old # 0, NEW o, o = proc'[y].old PROVE ~Active(o)'
        BY DEF Active
      <4>1. o = proc[y].old /\ o \in DOMAIN row BY <1>3 DEF Placed, Moves, SameWork
      <4> QED BY <4>1, <2>1, <2>3 DEF OneActiveChain
    <3>3. \A p, q \in ActiveRows' : row'[p].chain = row'[q].chain
      BY <1>6, <2>1, <2>3 DEF OneActiveChain, ActiveRows
    <3> QED BY <3>1, <3>2, <3>3 DEF OneActiveChain
  <2> QED BY <2>5, <2>6, <2>7
<1> QED BY <1>8, <1>10, <1>12, <1>13, <1>14

LEMMA ReportKeeps ==
  ASSUME ReconcileInv, NEW w \in Workers,
         NEW pc \in Errors, NEW status \in {"completed", "failed", "manual_review"}, pc = "retry" => status = "failed",
         Report(w, pc, status), UNCHANGED env
  PROVE  ReconcileInv'
<1> USE DEF ReconcileInv, Base
<1>1. w \in Procs /\ w \notin Admins /\ proc[w].pc = pc /\ Started(w)
  BY ReconcileAssumption DEF Procs, Report, Started, Errors
<1>2. PICK r \in DOMAIN row : r = J(w).row BY <1>1 DEF Placed
<1>3. Moves(w, "reported") /\ SameWork(w) /\ proc'[w].errors = pc
  BY <1>1 DEF TypeOK, Report, Moves, SameWork, Local, Pcs, Errors
<1>4. job' = job /\ used' = used BY DEF Report, Quiet
<1>5. /\ RowSet(r) /\ row'[r].status = status /\ row'[r].attempts = row[r].attempts /\ row'[r].max = row[r].max
      /\ row'[r].queued = row[r].queued
  BY <1>2, StatusIsSet DEF Report
<1>6. /\ DOMAIN row' = DOMAIN row
      /\ \A q \in DOMAIN row :
           /\ row'[q].chain = row[q].chain /\ row'[q].page = row[q].page /\ row'[q].attempts = row[q].attempts
           /\ row'[q].max = row[q].max /\ row'[q].queued = row[q].queued
           /\ q # r => row'[q].status = row[q].status
  BY <1>5 DEF RowSet
<1>7. TypeOK' BY <1>3, <1>4, <1>5 DEF TypeOK, Moves, RowSet
<1>8. \A y \in Procs : Held(y)' = Held(y) /\ (Held(y) => proc'[y] = proc[y])
  BY <1>1, <1>3 DEF Held, Moves, Errors
<1>9. Placed'
  <2>1. \A a \in Admins : proc'[a] = proc[a] BY <1>1, <1>3 DEF Moves, Procs
  <2>2. \A v \in Workers :
          /\ proc'[v].pc \notin {"again", "cancel"} /\ (proc'[v].pc # "idle" => proc'[v].job \in DOMAIN job)
          /\ proc'[v].job = proc[v].job /\ Started(v)' = Started(v) /\ (proc'[v].pc = "start" => proc[v].pc = "start")
    BY <1>1, <1>3 DEF Placed, Started, Moves, SameWork, Procs
  <2>3. \A y \in Procs : proc'[y].old # 0 \/ proc'[y].pc \in {"again", "cancel"} => proc'[y].old \in DOMAIN row
    BY <1>3 DEF Placed, Moves, SameWork
  <2> QED BY <1>4, <1>6, <2>1, <2>2, <2>3 DEF Placed, J
<1>10. \E j \in DOMAIN job : job[j].row = r BY <1>1, <1>2 DEF Placed, Started, J
<1>11. NewRows'
  <2>1. \A y \in Procs : proc'[y].pc \in {"add", "attach"} => Held(y)' BY DEF Held
  <2> QED BY <1>4, <1>6, <1>8, <2>1 DEF NewRows
<1>12. PageInv'
  <2>1. row[r].attempts # 0 BY <1>1, <1>2 DEF Placed
  <2>2. \A q \in DOMAIN row : Settled(q) => q # r /\ Settled(q)' BY <1>4, <1>6, <1>8, <2>1 DEF Settled
  <2> QED BY <1>6, <2>1, <2>2 DEF PageInv
<1>13. ChainInv'
  <2> SUFFICES ASSUME RowsCoverJobs PROVE (JobsHaveRows /\ RowsShowJobs /\ OneActiveChain)'
    BY DEF ChainInv, RowsCoverJobs
  <2>1. JobsHaveRows /\ RowsShowJobs /\ OneActiveChain BY DEF ChainInv
  <2>2. Active(r) BY <1>1, <1>2, <2>1 DEF RowsShowJobs, Active, Errors
  <2>3. /\ \A q \in DOMAIN row \ {r} : Active(q)' = Active(q)
        /\ \A q \in DOMAIN row : Active(q)' => Active(q)
    BY <1>6, <2>2 DEF Active
  <2>4. \A v \in Workers : v = w \/ (proc'[v] = proc[v] /\ (proc[v].pc # "idle" => J(v).row # r))
    <3>1. \A v \in Workers : v # w /\ proc[v].pc # "idle" => J(v).row # J(w).row
      BY <1>1, <2>1, OwnRows DEF Started
    <3>2. \A v \in Workers : v = w \/ proc'[v] = proc[v] BY <1>3 DEF Moves, Procs
    <3> QED BY <1>2, <3>1, <3>2
  <2>5. \A j \in DOMAIN job : job[j].state = "waiting" => job[j].row # r
    BY <1>1, <1>2, <2>1 DEF JobsHaveRows, Placed, Started, J
  <2>6. JobsHaveRows'
    <3>1. (\A j \in DOMAIN job : job[j].state = "waiting" => Active(job[j].row))'
      <4> SUFFICES ASSUME NEW j \in DOMAIN job, job[j].state = "waiting", NEW q, q = job[j].row PROVE Active(q)'
        BY <1>4 DEF Active
      <4>1. q \in DOMAIN row BY <2>1 DEF JobsHaveRows, Placed
      <4> QED BY <4>1, <2>1, <2>3, <2>5 DEF JobsHaveRows
    <3>2. \A v \in Workers :
            proc'[v].pc # "own" /\ (proc'[v].pc = "idle") = (proc[v].pc = "idle") /\ proc'[v].job = proc[v].job
      BY <1>1, <1>3, <2>1, <2>4 DEF JobsHaveRows, Started, SameWork, Moves
    <3> QED BY <1>4, <2>1, <3>1, <3>2 DEF JobsHaveRows, J
  <2>7. RowsShowJobs'
    <3> SUFFICES ASSUME NEW v \in Workers, proc'[v].pc # "idle"
                 PROVE  \/ /\ v = w /\ proc'[v].pc = "reported" /\ J(v)' = J(v) /\ J(v).row = r /\ Started(v)
                           /\ proc'[v].errors = pc
                        \/ proc'[v] = proc[v] /\ J(v)' = J(v) /\ J(v).row \in DOMAIN row \ {r}
      BY <1>5, <1>6, <2>1, <2>3 DEF RowsShowJobs, Started
    <3> QED BY <1>1, <1>2, <1>3, <1>4, <2>1, <2>4 DEF J, JobsHaveRows, Placed, Moves, SameWork
  <2>8. OneActiveChain'
    <3>1. \A y \in Procs : proc'[y].pc = "add" => row'[proc'[y].row].status = "pending"
      BY <1>6, <1>8, <1>10, <2>1 DEF OneActiveChain, NewRows, Held
    <3>2. (\A y \in Procs : proc[y].old # 0 => ~Active(proc[y].old))'
      <4> SUFFICES ASSUME NEW y \in Procs, proc'[y].old # 0, NEW o, o = proc'[y].old PROVE ~Active(o)'
        BY DEF Active
      <4>1. o = proc[y].old /\ o \in DOMAIN row BY <1>3 DEF Placed, Moves, SameWork
      <4> QED BY <4>1, <2>1, <2>3 DEF OneActiveChain
    <3>3. \A p, q \in ActiveRows' : row'[p].chain = row'[q].chain
      BY <1>6, <2>1, <2>3 DEF OneActiveChain, ActiveRows
    <3> QED BY <3>1, <3>2, <3>3 DEF OneActiveChain
  <2> QED BY <2>6, <2>7, <2>8
<1> QED BY <1>7, <1>9, <1>11, <1>12, <1>13

LEMMA FinishKeeps ==
  ASSUME ReconcileInv, NEW w \in Workers, Finish(w), UNCHANGED env
  PROVE  ReconcileInv'
<1> USE DEF ReconcileInv, Base
<1>1. w \in Procs /\ w \notin Admins /\ proc[w].pc = "reported" BY ReconcileAssumption DEF Procs, Finish
<1>2. PICK i \in DOMAIN job : i = proc[w].job BY <1>1 DEF Placed
<1>3. Moves(w, "idle") /\ proc'[w] = Idle BY <1>1, IdleMoves DEF Finish
<1>4. row' = row /\ used' = used BY DEF Finish, Quiet
<1>5. /\ job' \in Seq(Job) /\ DOMAIN job' = DOMAIN job
      /\ \A j \in DOMAIN job : job'[j].row = job[j].row
      /\ \A j \in DOMAIN job \ {i} : job'[j] = job[j]
      /\ job'[i].state = "waiting" => proc[w].errors = "retry" /\ J(w).made + 1 < J(w).max
  <2> DEFINE m == job[i].made + 1
             s == IF proc[w].errors = "none" THEN "completed"
                  ELSE IF proc[w].errors = "retry" /\ J(w).made + 1 < J(w).max THEN "waiting" ELSE "failed"
             e == [job[i] EXCEPT !.made = m, !.state = s]
  <2>1. job[i] \in Job /\ m \in Nat BY Typed DEF Job
  <2>2. s \in {"waiting", "active", "completed", "failed"} /\ (s = "waiting" => proc[w].errors = "retry" /\ J(w).made + 1 < J(w).max)
    OBVIOUS
  <2>3. job' = [job EXCEPT ![i] = e] /\ job \in Seq(Job) BY <1>2 DEF Finish, TypeOK
  <2> HIDE DEF m, s
  <2>4. e \in Job /\ e.row = job[i].row /\ e.state = s BY <2>1, <2>2 DEF Job
  <2> HIDE DEF e
  <2> QED BY <2>2, <2>3, <2>4, Replaced
<1>6. TypeOK' BY <1>3, <1>4, <1>5 DEF TypeOK, Moves
<1>7. \A y \in Procs : Held(y)' = Held(y) /\ (Held(y) => proc'[y] = proc[y]) BY <1>1, <1>3 DEF Held, Moves
<1>8. \A v \in Workers : proc'[v].pc # "idle" => v # w /\ proc'[v] = proc[v] BY <1>3 DEF Moves, Procs
<1>9. Placed'
  <2>1. \A a \in Admins : proc'[a] = proc[a] BY <1>1, <1>3 DEF Moves, Procs
  <2>2. \A y \in Procs : proc'[y].old # 0 \/ proc'[y].pc \in {"again", "cancel"} => proc'[y].old \in DOMAIN row
    BY <1>3 DEF Placed, Moves, Idle
  <2>3. \A v \in Workers : proc'[v].pc # "idle" =>
          /\ proc[v].pc # "idle" /\ J(v)'.row = J(v).row /\ proc'[v].job \in DOMAIN job /\ Started(v)' = Started(v)
          /\ proc'[v].pc = proc[v].pc
    BY <1>5, <1>8 DEF Placed, J, Started
  <2>4. \A v \in Workers : proc'[v].pc \notin {"again", "cancel"} /\ (Started(v)' => proc'[v].pc # "idle")
    BY <2>3 DEF Placed, Started
  <2> QED BY <1>4, <1>5, <2>1, <2>2, <2>3, <2>4 DEF Placed, J
<1>10. NewRows'
  <2>1. \A y \in Procs : proc'[y].pc \in {"add", "attach"} => Held(y)' BY DEF Held
  <2> QED BY <1>4, <1>5, <1>7, <2>1 DEF NewRows
<1>11. PageInv' BY <1>4, <1>5, <1>7 DEF PageInv, Settled
<1>12. ChainInv'
  <2> SUFFICES ASSUME RowsCoverJobs PROVE (JobsHaveRows /\ RowsShowJobs /\ OneActiveChain)'
    BY DEF ChainInv, RowsCoverJobs
  <2>1. JobsHaveRows /\ RowsShowJobs /\ OneActiveChain BY DEF ChainInv
  <2>2. \A v \in Workers : proc'[v].pc # "idle" => proc'[v] = proc[v] /\ proc[v].pc # "idle" /\ J(v)' = J(v)
    BY <1>1, <1>2, <1>5, <1>8, <2>1 DEF JobsHaveRows, Placed, J
  <2>3. job'[i].state = "waiting" => Active(job[i].row)
    BY <1>1, <1>2, <1>5, <2>1, Typed DEF RowsShowJobs, Started, Active, J, Job
  <2>4. JobsHaveRows'
    <3>1. (\A j \in DOMAIN job : job[j].state = "waiting" => Active(job[j].row))'
      BY <1>4, <1>5, <2>1, <2>3 DEF JobsHaveRows, Active
    <3>2. \A v \in Workers : proc'[v].pc # "own" BY <2>1, <2>2 DEF JobsHaveRows
    <3> QED BY <1>5, <2>1, <2>2, <3>1, <3>2 DEF JobsHaveRows
  <2>5. RowsShowJobs' BY <1>4, <2>1, <2>2 DEF RowsShowJobs, Started, Active
  <2>6. OneActiveChain'
    <3>1. \A y \in Procs : (proc'[y].pc = "add" => Held(y)') /\ (proc'[y].old # 0 => proc'[y].old = proc[y].old)
      BY <1>3 DEF Held, Moves, Idle
    <3> QED BY <1>4, <1>7, <2>1, <3>1 DEF OneActiveChain, ActiveRows, Active
  <2> QED BY <2>4, <2>5, <2>6
<1> QED BY <1>6, <1>9, <1>10, <1>11, <1>12
-----------------------------------------------------------------------------
(* The scheduler, and processes that die.                                  *)
LEMMA TickKeeps ==
  ASSUME ReconcileInv, Tick, UNCHANGED env
  PROVE  ReconcileInv'
<1> USE DEF ReconcileInv, Base
<1>1. used' \in [Bounded -> Nat] /\ env.tick # 0 BY UseCounts DEF Tick, Bounded
<1> DEFINE new == [row |-> 0, chain |-> 0, page |-> 0, max |-> 1, made |-> 0, state |-> "waiting", stalled |-> FALSE]
<1>2. new \in Job /\ new.row = 0 BY DEF Job
<1>3. job' = Append(job, new) /\ job \in Seq(Job) BY DEF Tick, TypeOK
<1> HIDE DEF new
<1>4. job' \in Seq(Job) /\ DOMAIN job' = DOMAIN job \cup {Len(job) + 1} /\ job'[Len(job) + 1] = new
        /\ \A j \in DOMAIN job : job'[j] = job[j] /\ j < Len(job) + 1
  BY <1>2, <1>3, Appended
<1>5. PICK n : /\ DOMAIN job' = DOMAIN job \cup {n} /\ job'[n].row = 0
               /\ \A j \in DOMAIN job : job'[j] = job[j]
  BY <1>2, <1>4
<1>6. row' = row /\ proc' = proc BY DEF Tick
<1>7. TypeOK' BY <1>1, <1>4, <1>6 DEF TypeOK
<1>8. Placed' BY <1>5, <1>6 DEF Placed, Started, J
<1>9. NewRows'
  <2>1. \A y \in Procs : proc[y].pc \in {"add", "attach"} => Held(y) BY DEF Held
  <2>2. 0 \notin DOMAIN row BY Typed
  <2> QED BY <1>5, <1>6, <2>1, <2>2 DEF NewRows, Held
<1>10. PageInv'
  <2>1. \A q \in DOMAIN row : Settled(q) => Settled(q)' BY <1>5, <1>6, Typed DEF Settled, Held
  <2> QED BY <1>6, <2>1 DEF PageInv
<1>11. ChainInv' BY <1>1 DEF ChainInv, RowsCoverJobs
<1> QED BY <1>7, <1>8, <1>9, <1>10, <1>11

LEMMA CrashKeeps ==
  ASSUME ReconcileInv, NEW x \in Procs, Crash(x), UNCHANGED env
  PROVE  ReconcileInv'
<1> USE DEF ReconcileInv, Base
<1>1. used' \in [Bounded -> Nat] /\ env.crash # 0 BY UseCounts DEF Crash, Bounded
<1>2. Moves(x, "idle") /\ proc'[x] = Idle BY IdleMoves DEF Crash
<1>3. job' \in Seq(Job) /\ DOMAIN job' = DOMAIN job /\ \A j \in DOMAIN job : job'[j].row = job[j].row
  <2> DEFINE e(j) == IF j # proc[x].job THEN job[j]
                     ELSE [job[j] EXCEPT !.stalled = TRUE, !.state = IF job[j].stalled THEN "failed" ELSE "waiting"]
  <2>1. \A j \in DOMAIN job : e(j) \in Job /\ e(j).row = job[j].row BY Typed DEF Job
  <2>2. job' = [j \in DOMAIN job |-> e(j)] BY DEF Crash
  <2> HIDE DEF e
  <2>3. DOMAIN job' = DOMAIN job /\ \A j \in DOMAIN job : job'[j] = e(j) BY <2>2
  <2>4. job' \in [1..Len(job) -> Job] BY <2>1, <2>2, Typed
  <2>5. job' \in Seq(Job) BY <2>4, Typed
  <2> QED BY <2>1, <2>3, <2>5
<1>4. row' = row BY DEF Crash
<1>5. TypeOK' BY <1>1, <1>2, <1>3, <1>4 DEF TypeOK, Moves
<1>6. \A y \in Procs : proc'[y].pc # "idle" \/ proc'[y].old # 0 => y # x /\ proc'[y] = proc[y]
  BY <1>2 DEF Moves, Idle
<1>7. \A y \in Procs : Held(y)' => Held(y) /\ proc'[y] = proc[y] BY <1>6 DEF Held
<1>8. Placed'
  <2>1. \A a \in Admins : proc'[a].pc \in {"idle", "again", "add", "attach", "cancel"} /\ proc'[a].job = 0
    BY <1>2, <1>6 DEF Placed, Procs, Moves, Idle
  <2>2. \A v \in Workers : proc'[v].pc # "idle" =>
          proc[v].pc # "idle" /\ proc'[v] = proc[v] /\ J(v)'.row = J(v).row /\ proc'[v].job \in DOMAIN job
    BY <1>3, <1>6 DEF Placed, J, Procs
  <2>3. \A v \in Workers : Started(v)' \/ proc'[v].pc = "start" => proc'[v].pc # "idle" BY DEF Started
  <2>4. \A y \in Procs : proc'[y].old # 0 \/ proc'[y].pc \in {"again", "cancel"} => proc'[y].old \in DOMAIN row
    BY <1>6 DEF Placed
  <2> QED BY <1>3, <1>4, <2>1, <2>2, <2>3, <2>4 DEF Placed, Started, J
<1>9. NewRows'
  <2>1. \A y \in Procs : proc'[y].pc \in {"add", "attach"} => Held(y)' BY DEF Held
  <2> QED BY <1>3, <1>4, <1>7, <2>1 DEF NewRows
<1>10. PageInv' BY <1>3, <1>4, <1>7 DEF PageInv, Settled
<1>11. ChainInv' BY <1>1 DEF ChainInv, RowsCoverJobs
<1> QED BY <1>5, <1>8, <1>9, <1>10, <1>11

LEMMA StutterKeeps == ReconcileInv /\ UNCHANGED vars => ReconcileInv'
<1> SUFFICES ASSUME ReconcileInv, UNCHANGED vars PROVE ReconcileInv' OBVIOUS
<1> USE DEF vars, state
<1>1. Base' BY DEF ReconcileInv, Base, TypeOK, Placed, NewRows, Held, Started, J
<1>2. PageInv' BY DEF ReconcileInv, PageInv, Settled, Held
<1>3. JobsHaveRows' = JobsHaveRows BY DEF JobsHaveRows, Active, J
<1>4. RowsShowJobs' = RowsShowJobs BY DEF RowsShowJobs, Active, J, Started
<1>5. OneActiveChain' = OneActiveChain BY DEF OneActiveChain, ActiveRows, Active
<1> QED BY <1>1, <1>2, <1>3, <1>4, <1>5 DEF ReconcileInv, ChainInv, RowsCoverJobs

LEMMA NextKeeps == ReconcileInv /\ [Next]_vars => ReconcileInv'
<1> SUFFICES ASSUME ReconcileInv, Next PROVE ReconcileInv' BY StutterKeeps
<1> USE DEF Next
<1>1. CASE Tick BY <1>1, TickKeeps
<1>2. ASSUME NEW a \in Admins, Administrator(a) PROVE ReconcileInv'
  BY <1>2, StartChainKeeps, RetryAdmitsKeeps, RetryCancelsKeeps, RetryReadsKeeps, PublishKeeps DEF Administrator, Procs
<1>3. ASSUME NEW w \in Workers, TakeAny(w) PROVE ReconcileInv' BY <1>3, TakeKeeps DEF TakeAny
<1>4. ASSUME NEW w \in Workers, Work(w) PROVE ReconcileInv'
  <2>1. CASE FindRow(w) \/ CreateRow(w) \/ OwnRow(w) \/ Start(w) BY <2>1, FindRowKeeps, CreateRowKeeps, OwnRowKeeps, StartKeeps
  <2>2. CASE Admit(w) \/ ReadFails(w) \/ Scan(w) BY <2>2, ScanningKeeps
  <2>3. CASE NextPage(w) \/ Publish(w) \/ Finish(w) BY <2>3, NextPageKeeps, PublishKeeps, FinishKeeps DEF Procs
  <2>4. CASE Report(w, "none", "completed") BY <2>4, ReportKeeps DEF Errors
  <2>5. CASE Report(w, "retry", "failed") BY <2>5, ReportKeeps DEF Errors
  <2>6. CASE Report(w, "manual", "manual_review") BY <2>6, ReportKeeps DEF Errors
  <2> QED BY <1>4, <2>1, <2>2, <2>3, <2>4, <2>5, <2>6 DEF Work
<1>5. ASSUME NEW x \in Procs, Crash(x) PROVE ReconcileInv' BY <1>5, CrashKeeps
<1>6. env.workers \subseteq Workers BY ReconcileAssumption DEF ReconcileInv, Base, TypeOK
<1> QED BY <1>1, <1>2, <1>3, <1>4, <1>5, <1>6 DEF Step

(***************************************************************************)
(* The audit rows, the queue's jobs and the processes stay in step.        *)
(***************************************************************************)
THEOREM ChainsAreSafe == Spec => []ReconcileInv
BY InitReconcile, NextKeeps, PTL DEF Spec

(***************************************************************************)
(* A page after the first runs for one audit row: the rows that were added *)
(* for it before the newest were never published, so they never ran, and   *)
(* nothing refers to them any more.                                        *)
(***************************************************************************)
THEOREM PagesRunOnce == Spec => []PageOnce
<1>1. ReconcileInv => PageOnce
  <2> SUFFICES ASSUME ReconcileInv, env.lostAnswer = 0, NEW r \in DOMAIN row, NEW q \in DOMAIN row, r # q, row[r].page > 0,
                      row[r].chain = row[q].chain, row[r].page = row[q].page
               PROVE  \E s \in {r, q} : ~Active(s) /\ row[s].attempts = 0
    BY DEF PageOnce
  <2>1. r < q \/ q < r BY Typed DEF ReconcileInv, Base
  <2>2. PICK s \in {r, q} : row[s].status \in {"manual_review", "cancelled"} /\ Settled(s)
    BY <2>1 DEF ReconcileInv, PageInv
  <2> QED BY <2>2 DEF Settled, Active
<1> QED BY <1>1, ChainsAreSafe, PTL

(***************************************************************************)
(* One chain scans at a time: a worker that scans has an active row, and   *)
(* the active rows are of one chain.                                       *)
(***************************************************************************)
THEOREM ChainsExclude == Spec => []OneChain
<1>1. ReconcileInv => OneChain
  <2> SUFFICES ASSUME ReconcileInv, RowsCoverJobs, NEW v \in Workers, NEW w \in Workers,
                      proc[v].pc \in {"scan", "publish"}, proc[w].pc \in {"scan", "publish"}
               PROVE  MyChain(v) = MyChain(w)
    BY DEF OneChain, Scanning
  <2>1. J(v).row \in ActiveRows /\ J(w).row \in ActiveRows
    BY DEF ReconcileInv, Base, Placed, ChainInv, RowsShowJobs, Started, ActiveRows, Active
  <2> QED BY <2>1 DEF ReconcileInv, ChainInv, OneActiveChain, MyChain
<1> QED BY <1>1, ChainsAreSafe, PTL
=============================================================================

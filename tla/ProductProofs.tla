------------------------ MODULE ProductProofs ------------------------
(***************************************************************************)
(* Theorems about the products in Shopify: InventorySync (what a push of   *)
(* the stock may do), ProductMedia (what is remembered of the images) and  *)
(* ProductSync (who owns a mapping, and that no product is forgotten), for *)
(* any number of runs, workers, branches, changes and failures.            *)
(***************************************************************************)
EXTENDS InventorySync, ProductSync, ProductMedia, FiniteSetTheorems, TLAPS

Pcs == {"idle", "lock", "stock", "map"} \cup Past
WritingPcs == {"level", "activate", "compare", "flag", "file", "set", "readback", "snapshot", "close"}
NotePcs == Past \cup {"map"}
Note == [qty : Int, version : Nat]
Local == [pc : Pcs, branch : Branches \cup {Null}, note : Note, seen : Int, last : Int \cup {Null},
          after : Int, active : BOOLEAN, file : BOOLEAN]

TypeOK ==
  /\ env \in Environments
  /\ kiot \in [Branches -> Note]
  /\ shop \in [available : Int, active : BOOLEAN]
  /\ maps \in [Branches -> {"none", "disabled", "enabled"}]
  /\ lock \in [Branches -> Runs \cup {Null}]
  /\ verified \in Int \cup {Null}
  /\ run \in [Runs -> Local]
  /\ written \in [Branches -> Nat]
  /\ late \subseteq [branch : Branches, note : Note, seen : Int]
  /\ crossed \in BOOLEAN /\ cuts \in Nat

OpenOK == open \in Seq(Int)

Enabled(b) == maps[b] = "enabled"

Placed == \A s \in Runs : run[s].pc # "idle" => run[s].branch \in Branches

(* Past the lock, the lock of the branch is the run's.                     *)
Locked == \A s \in Runs : run[s].pc \notin {"idle", "lock"} => lock[run[s].branch] = s

(* What was written of a branch is no newer than the stock a run of that   *)
(* branch has read, which is no newer than the stock there is.             *)
NotesAreFresh ==
  /\ \A b \in Branches : written[b] <= kiot[b].version
  /\ \A s \in Runs : run[s].pc \in NotePcs =>
       /\ run[s].note.version <= kiot[run[s].branch].version
       /\ written[run[s].branch] <= run[s].note.version

(* Until a lock session is lost or a set is given up.                      *)
Uncut == cuts = 0 => late = {} /\ Locked /\ NotesAreFresh

(* Until a branch is enabled beside a run: a run that adds its mapping, one *)
(* that goes on to write, and a late set have no other enabled branch; and *)
(* all who write are of one branch.                                        *)
WritesAlone ==
  ~crossed =>
    /\ \A s \in Runs : run[s].pc \in Past /\ (run[s].pc \in WritingPcs \cup {"insert"} \/ Enabled(run[s].branch))
                         => Others(run[s].branch) = {}
    /\ \A s, q \in Runs : run[s].pc \in WritingPcs /\ run[q].pc \in WritingPcs => run[s].branch = run[q].branch
    /\ \A q \in late : Others(q.branch) = {}

(* What a run compared with is still the newest snapshot when it writes.   *)
Compared ==
  cuts = 0 /\ ~crossed /\ env.hold /\ ~env.admins =>
    \A s \in Runs : run[s].pc = "set" => run[s].last = verified /\ ~Deduction(s)

PushInv == TypeOK /\ Placed /\ Uncut /\ WritesAlone /\ Compared

LEMMA InitPush == Init => PushInv
<1> SUFFICES ASSUME Init PROVE PushInv OBVIOUS
<1>1. {env.start, env.stock} \subseteq Nat BY InventoryAssumption DEF Init
<1>2. maps \in [Branches -> {"none", "disabled", "enabled"}] BY DEF Init
<1>3. Idle \in Local BY DEF Idle, NoNote, Local, Note, Pcs
<1>4. TypeOK
  <2>1. kiot \in [Branches -> Note] BY <1>1 DEF Init, Note
  <2>2. run \in [Runs -> Local] BY <1>3 DEF Init
  <2>3. shop \in [available : Int, active : BOOLEAN] BY <1>1 DEF Init
  <2> QED BY <1>1, <1>2, <2>1, <2>2, <2>3 DEF Init, TypeOK
<1> QED BY <1>1, <1>4
        DEF Init, PushInv, Placed, Uncut, Locked, WritesAlone, Compared, NotesAreFresh, Idle, WritingPcs, NotePcs, Past

(* How a step moves the runs: s to place p, the others not at all.         *)
Moves(s, p) ==
  /\ run' \in [Runs -> Local]
  /\ \A q \in Runs \ {s} : run'[q] = run[q]
  /\ run'[s].pc = p

SameWork(s) == run'[s].branch = run[s].branch /\ run'[s].note = run[s].note

LEMMA GotoMoves ==
  ASSUME TypeOK, NEW s \in Runs, NEW p \in Pcs, Goto(s, p)
  PROVE  Moves(s, p) /\ SameWork(s) /\ run'[s].last = run[s].last /\ run'[s].seen = run[s].seen
BY DEF TypeOK, Goto, Moves, SameWork, Local

LEMMA LeaveMoves ==
  ASSUME TypeOK, NEW s \in Runs, run' = [run EXCEPT ![s] = Idle]
  PROVE  Moves(s, "idle")
BY DEF TypeOK, Moves, Local, Idle, NoNote, Note, Pcs

(* What most steps leave alone.                                            *)
Frame ==
  /\ UNCHANGED <<env, kiot, maps, written, crossed>>
  /\ shop' \in [available : Int, active : BOOLEAN]
  /\ verified' \in Int \cup {Null}

(* Where nobody else writes, a run that writes has the lock to itself.     *)
LEMMA OneWrites ==
  ASSUME PushInv, cuts = 0, ~crossed, NEW s \in Runs, NEW q \in Runs,
         run[s].pc \in WritingPcs, run[q].pc \in WritingPcs
  PROVE  s = q
BY DEF PushInv, Uncut, Locked, WritesAlone, WritingPcs

LEMMA LeavesKeep ==
  ASSUME PushInv, NEW s \in Runs, Leave(s), Frame,
         \/ UNCHANGED <<late, cuts>>
         \/ /\ run[s].pc \in WritingPcs /\ cuts' = cuts + 1
            /\ \E r \in [branch : Branches, note : Note, seen : Int] :
                 r.branch = run[s].branch /\ late' = late \cup {r},
         verified' = verified \/ run[s].pc \in WritingPcs
  PROVE  PushInv'
<1>1. Moves(s, "idle") BY LeaveMoves DEF Leave, PushInv
<1>2. \A b \in Branches : lock'[b] = IF lock[b] = s THEN Null ELSE lock[b] BY DEF Leave
<1>3. TypeOK' BY <1>1 DEF PushInv, TypeOK, Frame, Leave, Moves
<1>4. Placed' BY <1>1 DEF PushInv, Placed, Moves
<1>5. cuts' = 0 => cuts = 0 /\ late' = late BY DEF PushInv, TypeOK
<1>6. Uncut'
  <2>1. cuts = 0 => Locked' BY <1>1, <1>2, <1>3, InventoryAssumption DEF PushInv, TypeOK, Placed, Uncut, Locked, Moves
  <2>2. cuts = 0 => NotesAreFresh'
    BY <1>1 DEF PushInv, Uncut, NotesAreFresh, Frame, Moves, NotePcs, Past
  <2> QED BY <1>5, <2>1, <2>2 DEF PushInv, Uncut
<1>7. WritesAlone'
  BY <1>1 DEF PushInv, WritesAlone, Frame, Enabled, Others, Moves, WritingPcs, Past
<1>8. Compared'
  <2> SUFFICES ASSUME cuts' = 0, ~crossed', env'.hold, ~env'.admins, NEW q \in Runs, run'[q].pc = "set"
               PROVE  run'[q].last = verified' /\ ~Deduction(q)'
    BY DEF Compared
  <2>1. q # s /\ run'[q] = run[q] BY <1>1 DEF Moves
  <2>2. cuts = 0 /\ ~crossed /\ UNCHANGED env BY <1>5 DEF Frame
  <2>3. run[q].last = verified /\ ~Deduction(q) BY <2>1, <2>2 DEF PushInv, Compared
  <2>4. verified' = verified BY <2>1, <2>2, OneWrites DEF WritingPcs
  <2> QED BY <2>1, <2>2, <2>3, <2>4 DEF Deduction, Deducted, Expected
<1> QED BY <1>3, <1>4, <1>6, <1>7, <1>8 DEF PushInv

LEMMA MovesKeep ==
  ASSUME PushInv, NEW s \in Runs, NEW p \in Pcs, Moves(s, p), SameWork(s), Frame, UNCHANGED <<lock, late, cuts>>,
         run[s].pc \notin {"idle", "lock"},
         verified' = verified \/ run[s].pc \in WritingPcs,
         p \in NotePcs => run[s].pc \in NotePcs,
         p \in Past =>
           \/ Others(run[s].branch) = {}
           \/ ~Enabled(run[s].branch) /\ p \notin WritingPcs \cup {"insert"}
           \/ /\ run[s].pc \in Past
              /\ Enabled(run[s].branch) \/ run[s].pc \in WritingPcs \/ p \notin WritingPcs \cup {"insert"},
         p \in WritingPcs => run[s].pc \in WritingPcs \/ Enabled(run[s].branch),
         p = "set" /\ env.hold /\ ~env.admins /\ cuts = 0 /\ ~crossed => run'[s].last = verified' /\ ~Deduction(s)'
  PROVE  PushInv'
<1>1. TypeOK' BY DEF PushInv, TypeOK, Frame, Moves
<1>2. Placed' BY DEF PushInv, Placed, Moves, SameWork
<1>3. Uncut'
  <2>1. cuts = 0 => Locked' BY DEF PushInv, Uncut, Locked, Moves, SameWork
  <2>2. cuts = 0 => NotesAreFresh' BY DEF PushInv, Uncut, NotesAreFresh, Frame, Moves, SameWork
  <2> QED BY <2>1, <2>2 DEF PushInv, Uncut
<1>4. WritesAlone'
  <2> SUFFICES ASSUME ~crossed PROVE WritesAlone' BY DEF WritesAlone, Frame
  <2>1. \A b \in Branches : Others(b)' = Others(b) /\ (Enabled(b)' <=> Enabled(b)) BY DEF Frame, Others, Enabled
  <2>2. \A q \in Runs : run[q].pc \in Past => run[q].branch \in Branches
    BY DEF PushInv, Placed, Past
  <2>3. run[s].branch \in Branches BY DEF PushInv, Placed
  <2>4. p \in Past /\ (p \in WritingPcs \cup {"insert"} \/ Enabled(run[s].branch)) => Others(run[s].branch) = {}
    BY DEF PushInv, WritesAlone, WritingPcs, Past
  <2>5. ASSUME p \in WritingPcs, NEW q \in Runs, run[q].pc \in WritingPcs PROVE run[q].branch = run[s].branch
    <3>1. CASE run[s].pc \in WritingPcs BY <2>5, <3>1 DEF PushInv, WritesAlone
    <3>2. CASE Enabled(run[s].branch)
      <4>1. Others(run[q].branch) = {} BY <2>5 DEF PushInv, WritesAlone, WritingPcs, Past
      <4> QED BY <2>3, <3>2, <4>1 DEF Others, Enabled
    <3> QED BY <2>5, <3>1, <3>2
  <2>6. ASSUME NEW q \in Runs, run'[q].pc \in Past,
               run'[q].pc \in WritingPcs \cup {"insert"} \/ maps'[run'[q].branch] = "enabled"
        PROVE  {o \in Branches \ {run'[q].branch} : maps'[o] = "enabled"} = {}
    <3>1. maps' = maps BY DEF Frame
    <3>2. CASE q = s BY <2>4, <2>6, <3>1, <3>2 DEF Moves, SameWork, Others, Enabled
    <3>3. CASE q # s BY <2>6, <3>1, <3>3 DEF Moves, PushInv, WritesAlone, Others, Enabled
    <3> QED BY <3>2, <3>3
  <2>7. \A q, t \in Runs : run'[q].pc \in WritingPcs /\ run'[t].pc \in WritingPcs => run'[q].branch = run'[t].branch
    BY <2>5 DEF PushInv, WritesAlone, Moves, SameWork
  <2>8. \A q \in late' : {o \in Branches \ {q.branch} : maps'[o] = "enabled"} = {}
    BY DEF PushInv, WritesAlone, Frame, Others
  <2> QED BY <2>6, <2>7, <2>8 DEF WritesAlone, Others, Enabled
<1>5. Compared'
  <2> SUFFICES ASSUME cuts' = 0, ~crossed', env'.hold, ~env'.admins, NEW q \in Runs, run'[q].pc = "set"
               PROVE  run'[q].last = verified' /\ ~Deduction(q)'
    BY DEF Compared
  <2>1. CASE q = s BY <2>1 DEF Moves, Frame
  <2>2. CASE q # s
    <3>1. run'[q] = run[q] /\ cuts = 0 /\ ~crossed /\ UNCHANGED env BY <2>2 DEF Moves, Frame
    <3>2. run[q].last = verified /\ ~Deduction(q) BY <3>1 DEF PushInv, Compared
    <3>3. verified' = verified BY <2>2, <3>1, OneWrites DEF WritingPcs
    <3> QED BY <3>1, <3>2, <3>3 DEF Deduction, Deducted, Expected
  <2> QED BY <2>1, <2>2
<1> QED BY <1>1, <1>2, <1>3, <1>4, <1>5 DEF PushInv

LEMMA RunKeeps ==
  ASSUME PushInv, UNCHANGED env, NEW s \in Runs,
         Abort(s) \/ LoseSession(s) \/ Step(s) \/ \E b \in Branches : Begin(s, b)
  PROVE  PushInv'
<1> USE InventoryAssumption DEF world, counters
<1>0. TypeOK /\ run[s] \in Local /\ run[s].pc \in Pcs /\ (run[s].pc # "idle" => run[s].branch \in Branches)
  BY DEF PushInv, Placed, TypeOK, Local
(* Before it has read a mapping a run does not matter to the others.       *)
<1>0a. ASSUME NEW p \in {"idle", "lock", "stock"}, Moves(s, p),
              UNCHANGED <<env, kiot, shop, maps, verified, written, late, crossed, cuts>>
       PROVE  WritesAlone' /\ Compared' /\ (cuts = 0 => NotesAreFresh')
  <2>1. run'[s].pc \notin NotePcs /\ run'[s].pc \notin Past /\ run'[s].pc \notin WritingPcs
    BY <1>0a DEF Moves, NotePcs, Past, WritingPcs
  <2>2. WritesAlone'
    BY <1>0a, <2>1 DEF Moves, PushInv, WritesAlone, Enabled, Others
  <2>3. Compared' BY <1>0a DEF Moves, PushInv, Compared, Deduction, Deducted, Expected
  <2>4. cuts = 0 => NotesAreFresh' BY <1>0a, <2>1 DEF Moves, PushInv, Uncut, NotesAreFresh
  <2> QED BY <2>2, <2>3, <2>4
<1>1. ASSUME NEW b \in Branches, Begin(s, b) PROVE PushInv'
  <2>1. Moves(s, "lock") /\ run'[s].branch = b
    <3>1. Idle \in Local BY DEF Idle, NoNote, Local, Note, Pcs
    <3>2. PICK l \in Local : l.pc = "lock" /\ l.branch = b /\ run' = [run EXCEPT ![s] = l]
      BY <1>1, <3>1 DEF Begin, Local, Pcs
    <3> QED BY <1>0, <3>2 DEF TypeOK, Moves
  <2>2. UNCHANGED <<env, kiot, shop, maps, lock, verified, written, late, crossed, cuts>> BY <1>1 DEF Begin
  <2>3. TypeOK' /\ Placed' BY <2>1, <2>2 DEF PushInv, TypeOK, Placed, Moves
  <2>4. cuts = 0 => Locked' BY <2>1, <2>2 DEF PushInv, Uncut, Locked, Moves
  <2> QED BY <1>0a, <2>1, <2>2, <2>3, <2>4 DEF PushInv, Uncut
<1>2. CASE Abort(s)
  <2>1. CASE UNCHANGED <<late, cuts>> BY <1>2, <2>1, LeavesKeep DEF Abort, Frame, PushInv, TypeOK
  <2>2. CASE run[s].pc = "set" /\ cuts' = cuts + 1
             /\ late' = late \cup {[branch |-> run[s].branch, note |-> run[s].note, seen |-> run[s].seen]}
    <3>1. [branch |-> run[s].branch, note |-> run[s].note, seen |-> run[s].seen]
             \in [branch : Branches, note : Note, seen : Int]
      BY <1>0, <2>2 DEF Local
    <3>2. run[s].pc \in WritingPcs BY <2>2 DEF WritingPcs
    <3>3. Leave(s) /\ Frame /\ verified' = verified BY <1>0, <1>2 DEF Abort, Frame, TypeOK
    <3>4. \E r \in [branch : Branches, note : Note, seen : Int] : r.branch = run[s].branch /\ late' = late \cup {r}
      BY <2>2, <3>1
    <3> QED BY <2>2, <3>2, <3>3, <3>4, LeavesKeep
  <2> QED BY <1>2, <2>1, <2>2 DEF Abort
<1>3. CASE LoseSession(s)
  <2>1. UNCHANGED <<env, kiot, shop, maps, verified, run, written, late, crossed>> /\ cuts' = cuts + 1
    BY <1>3 DEF LoseSession
  <2>2. cuts' # 0 BY <1>0, <2>1 DEF TypeOK
  <2>3. TypeOK' BY <1>0, <1>3, <2>1 DEF LoseSession, TypeOK
  <2>4. Placed' /\ WritesAlone' BY <2>1 DEF PushInv, Placed, WritesAlone, Enabled, Others
  <2> QED BY <2>2, <2>3, <2>4 DEF PushInv, Uncut, Compared
<1>4. CASE TakeLock(s)
  <2>1. Moves(s, "stock") /\ SameWork(s) BY <1>0, <1>4, GotoMoves DEF TakeLock, Pcs
  <2>2. UNCHANGED <<env, kiot, shop, maps, verified, written, late, crossed, cuts>> BY <1>4 DEF TakeLock
  <2>3. TypeOK' /\ Placed' BY <1>0, <1>4, <2>1, <2>2 DEF TakeLock, PushInv, TypeOK, Placed, Moves, SameWork
  <2>4. cuts = 0 => Locked'
    BY <1>0, <1>4, <2>1 DEF TakeLock, PushInv, TypeOK, Placed, Uncut, Locked, Moves, SameWork
  <2> QED BY <1>0a, <2>1, <2>2, <2>3, <2>4 DEF PushInv, Uncut
<1>5. CASE Refused(s)
  <2>1. Moves(s, "idle") BY <1>0, <1>5, LeaveMoves DEF Refused
  <2>2. UNCHANGED <<env, kiot, shop, maps, lock, verified, written, late, crossed, cuts>> BY <1>5 DEF Refused
  <2>3. TypeOK' /\ Placed' BY <2>1, <2>2 DEF PushInv, TypeOK, Placed, Moves
  <2>4. cuts = 0 => Locked' BY <2>1, <2>2 DEF PushInv, Uncut, Locked, Moves
  <2> QED BY <1>0a, <2>1, <2>2, <2>3, <2>4 DEF PushInv, Uncut
<1>6. CASE ReadStock(s)
  <2>1. run[s].branch \in Branches BY <1>0, <1>6 DEF ReadStock
  <2>2. Moves(s, "map") /\ run'[s].branch = run[s].branch /\ run'[s].note = kiot[run[s].branch]
    BY <1>0, <1>6, <2>1 DEF ReadStock, TypeOK, Moves, Local, Pcs
  <2>3. UNCHANGED <<env, kiot, shop, maps, lock, verified, written, late, crossed, cuts>> BY <1>6 DEF ReadStock
  <2>4. TypeOK' /\ Placed' BY <2>1, <2>2, <2>3 DEF PushInv, TypeOK, Placed, Moves
  <2>5. Uncut'
    <3>1. cuts = 0 => Locked' BY <1>6, <2>2, <2>3 DEF ReadStock, PushInv, Uncut, Locked, Moves
    <3>2. cuts = 0 => NotesAreFresh'
      BY <1>0, <2>1, <2>2, <2>3 DEF PushInv, TypeOK, Note, Uncut, NotesAreFresh, Moves
    <3> QED BY <2>3, <3>1, <3>2 DEF PushInv, Uncut
  <2>6. WritesAlone' BY <2>2, <2>3 DEF PushInv, WritesAlone, Enabled, Others, Moves, WritingPcs, Past
  <2>7. Compared' BY <2>2, <2>3 DEF PushInv, Compared, Moves, Deduction, Deducted, Expected
  <2> QED BY <2>4, <2>5, <2>6, <2>7 DEF PushInv
<1>7. CASE ReadMapping(s)
  <2>0. run[s].pc = "map" /\ Frame /\ UNCHANGED <<late, cuts, verified>>
    BY <1>0, <1>7 DEF ReadMapping, Frame, TypeOK
  <2>1. CASE Leave(s) BY <1>7, <2>1, LeavesKeep DEF ReadMapping, Frame, PushInv, TypeOK
  <2>2. CASE Enabled(run[s].branch) /\ Others(run[s].branch) = {} /\ Goto(s, "level") /\ UNCHANGED lock
    <3>1. Moves(s, "level") /\ SameWork(s) BY <1>0, <2>2, GotoMoves DEF Pcs, Past
    <3>2. "level" \in Pcs /\ run[s].pc \in NotePcs BY <2>0 DEF Pcs, NotePcs, Past
    <3> QED BY <2>0, <2>2, <3>1, <3>2, MovesKeep DEF WritingPcs, Past
  <2>3. CASE ~Enabled(run[s].branch) /\ Goto(s, "automap") /\ UNCHANGED lock
    <3>1. Moves(s, "automap") /\ SameWork(s) BY <1>0, <2>3, GotoMoves DEF Pcs, Past
    <3>2. "automap" \in Pcs /\ run[s].pc \in NotePcs BY <2>0 DEF Pcs, NotePcs, Past
    <3> QED BY <2>0, <2>3, <3>1, <3>2, MovesKeep DEF WritingPcs, Past
  <2> QED BY <1>7, <2>1, <2>2, <2>3 DEF ReadMapping, Enabled
<1>8. CASE AutoMap(s)
  <2>1. CASE Others(run[s].branch) = {} /\ Goto(s, "insert")
    <3>1. Moves(s, "insert") /\ SameWork(s) BY <1>0, <2>1, GotoMoves DEF Pcs, Past
    <3> QED BY <1>8, <2>1, <3>1, MovesKeep DEF AutoMap, Frame, PushInv, TypeOK, Pcs, NotePcs, WritingPcs, Past
  <2>2. CASE Goto(s, "existing")
    <3>1. Moves(s, "existing") /\ SameWork(s) BY <1>0, <2>2, GotoMoves DEF Pcs, Past
    <3> QED BY <1>8, <2>2, <3>1, MovesKeep DEF AutoMap, Frame, PushInv, TypeOK, Pcs, NotePcs, WritingPcs, Past
  <2> QED BY <1>8, <2>1, <2>2 DEF AutoMap
<1>9. CASE InsertMapping(s)
  <2> DEFINE b == run[s].branch
  <2>1. b \in Branches BY <1>0, <1>9 DEF InsertMapping
  <2>2. Moves(s, "level") /\ SameWork(s) BY <1>0, <1>9, GotoMoves DEF InsertMapping, Pcs, Past
  <2>3. UNCHANGED <<env, kiot, shop, lock, verified, written, late, cuts>> BY <1>9 DEF InsertMapping
  <2>4. crossed' = (crossed \/ Crosses(b, Runs \ {s})) /\ maps' = [maps EXCEPT ![b] = "enabled"]
    BY <1>9 DEF InsertMapping
  <2>5. TypeOK' /\ Placed' BY <1>0, <2>1, <2>2, <2>3, <2>4 DEF PushInv, TypeOK, Placed, Moves, SameWork
  <2>6. Uncut'
    <3>1. cuts = 0 => Locked' BY <1>9, <2>2, <2>3 DEF InsertMapping, PushInv, Uncut, Locked, Moves, SameWork
    <3>2. cuts = 0 => NotesAreFresh'
      BY <1>9, <2>2, <2>3 DEF InsertMapping, PushInv, Uncut, NotesAreFresh, Moves, SameWork, NotePcs, Past
    <3> QED BY <2>3, <3>1, <3>2 DEF PushInv, Uncut
  <2>7. Compared' BY <1>9, <2>2, <2>3, <2>4 DEF PushInv, Compared, Moves, Deduction, Deducted, Expected
  <2>8. WritesAlone'
    <3> SUFFICES ASSUME ~crossed, ~Crosses(b, Runs \ {s}) PROVE WritesAlone' BY <2>4 DEF WritesAlone
    <3>1. Others(b) = {} BY <1>9 DEF InsertMapping, PushInv, WritesAlone, Past
    <3>2. \A o \in Branches : maps'[o] = "enabled" => o = b BY <1>0, <2>1, <2>4, <3>1 DEF TypeOK, Others
    <3>3. \A q \in Runs : run'[q].pc \in Past => run'[q].branch = b
      BY <2>2, <2>1 DEF Crosses, Moves, SameWork
    <3>4. \A q \in late' : q.branch = b BY <2>3 DEF Crosses
    <3>5. WritingPcs \subseteq Past BY DEF WritingPcs, Past
    <3> QED BY <3>2, <3>3, <3>4, <3>5 DEF WritesAlone, Others, Enabled
  <2> QED BY <2>5, <2>6, <2>7, <2>8 DEF PushInv
<1>10. CASE InsertConflicts(s)
  <2>1. Moves(s, "existing") /\ SameWork(s) BY <1>0, <1>10, GotoMoves DEF InsertConflicts, Pcs, Past
  <2> QED BY <1>10, <2>1, MovesKeep DEF InsertConflicts, Frame, PushInv, TypeOK, Pcs, NotePcs, WritingPcs, Past
<1>11. CASE ReadExisting(s)
  <2>1. CASE Leave(s) BY <1>11, <2>1, LeavesKeep DEF ReadExisting, Frame, PushInv, TypeOK
  <2>2. CASE Enabled(run[s].branch) /\ Goto(s, "level") /\ UNCHANGED lock
    <3>1. Moves(s, "level") /\ SameWork(s) BY <1>0, <2>2, GotoMoves DEF Pcs, Past
    <3> QED BY <1>11, <2>2, <3>1, MovesKeep DEF ReadExisting, Frame, PushInv, TypeOK, Pcs, NotePcs, WritingPcs, Past
  <2> QED BY <1>11, <2>1, <2>2 DEF ReadExisting, Enabled
<1>12. CASE ReadLevel(s)
  <2>1. PICK p \in {"compare", "activate"} : Moves(s, p) /\ SameWork(s)
    BY <1>0, <1>12 DEF ReadLevel, TypeOK, Moves, SameWork, Local, Pcs, Past
  <2> QED BY <1>12, <2>1, MovesKeep DEF ReadLevel, Frame, PushInv, TypeOK, Pcs, NotePcs, WritingPcs, Past
<1>13. CASE Activate(s)
  <2>1. Moves(s, "level") /\ SameWork(s) BY <1>0, <1>13, GotoMoves DEF Activate, Pcs, Past
  <2> QED BY <1>13, <2>1, MovesKeep DEF Activate, Frame, PushInv, TypeOK, Pcs, NotePcs, WritingPcs, Past
<1>14. CASE Compare(s)
  <2>1. PICK p \in {"flag", "set", "readback"} :
           /\ Moves(s, p) /\ SameWork(s) /\ run'[s].seen = run[s].seen /\ run'[s].last = verified
           /\ p = "set" => ~Deducted(verified, run[s].seen, Expected(run[s].note))
    BY <1>0, <1>14 DEF Compare, TypeOK, Moves, SameWork, Local, Pcs, Past
  <2>2. p = "set" => run'[s].last = verified' /\ ~Deduction(s)'
    BY <1>14, <2>1 DEF Compare, Deduction, Expected, SameWork
  <2> QED BY <1>14, <2>1, <2>2, MovesKeep DEF Compare, Frame, PushInv, TypeOK, Pcs, NotePcs, WritingPcs, Past
<1>15. CASE Flag(s)
  <2>1. (open = <<>>) \in BOOLEAN OBVIOUS
  <2>2. Moves(s, "file") /\ SameWork(s)
    BY <1>0, <1>15, <2>1 DEF Flag, TypeOK, Moves, SameWork, Local, Pcs, Past
  <2> QED BY <1>15, <2>2, MovesKeep DEF Flag, Frame, PushInv, TypeOK, Pcs, NotePcs, WritingPcs, Past
<1>16. CASE File(s)
  <2>1. CASE Leave(s) BY <1>16, <2>1, LeavesKeep DEF File, Frame, PushInv, TypeOK
  <2>2. CASE ~env.hold /\ Goto(s, "set") /\ UNCHANGED lock
    <3>1. Moves(s, "set") /\ SameWork(s) BY <1>0, <2>2, GotoMoves DEF Pcs, Past
    <3> QED BY <1>16, <2>2, <3>1, MovesKeep DEF File, Frame, PushInv, TypeOK, Pcs, NotePcs, WritingPcs, Past
  <2> QED BY <1>16, <2>1, <2>2 DEF File
<1>17. CASE Write(s)
  <2> DEFINE b == run[s].branch
  <2>1. Moves(s, "readback") /\ SameWork(s) BY <1>0, <1>17, GotoMoves DEF Write, Pcs, Past
  <2>2. b \in Branches /\ run[s].pc \in WritingPcs BY <1>0, <1>17 DEF Write, WritingPcs
  <2>3. run[s].note \in Note /\ Expected(run[s].note) \in Int BY <1>0 DEF Local, Note, Expected, TypeOK
  <2>4. UNCHANGED <<env, kiot, maps, lock, verified, late, crossed, cuts>>
        /\ written' = [written EXCEPT ![b] = run[s].note.version]
    BY <1>17 DEF Write
  <2>5. TypeOK' /\ Placed' BY <1>0, <1>17, <2>1, <2>2, <2>3, <2>4 DEF Write, PushInv, TypeOK, Placed, Note, Moves, SameWork
  <2>6. Uncut'
    <3> SUFFICES ASSUME cuts = 0 PROVE Locked' /\ NotesAreFresh' BY <2>4 DEF PushInv, Uncut
    <3>1. Locked' BY <1>17, <2>1, <2>4 DEF Write, PushInv, Uncut, Locked, Moves, SameWork
    (* Other runs of the branch are not past the lock.                     *)
    <3>2. \A q \in Runs \ {s} : run[q].pc \in NotePcs => run[q].branch # b
      BY <1>17, <2>2 DEF Write, PushInv, Uncut, Locked, NotePcs, Past
    <3>3. run[s].note.version <= kiot[b].version /\ run[s].note.version \in Nat
      BY <1>17, <2>3 DEF Write, PushInv, Uncut, NotesAreFresh, NotePcs, Past, Note
    <3>4. \A c \in Branches : written'[c] <= kiot'[c].version
      BY <1>0, <2>2, <2>4, <3>3 DEF PushInv, Uncut, NotesAreFresh, TypeOK
    <3>5. ASSUME NEW q \in Runs, run'[q].pc \in NotePcs
          PROVE  run'[q].note.version <= kiot'[run'[q].branch].version /\ written'[run'[q].branch] <= run'[q].note.version
      <4>1. CASE q = s BY <1>0, <2>1, <2>2, <2>4, <3>3, <4>1 DEF SameWork, TypeOK
      <4>2. CASE q # s
        <5>1. run'[q] = run[q] /\ run[q].branch \in Branches \ {b}
          BY <2>1, <3>2, <3>5, <4>2 DEF Moves, PushInv, Placed, NotePcs, Past
        <5>2. run[q].note.version <= kiot[run[q].branch].version /\ written[run[q].branch] <= run[q].note.version
          BY <3>5, <5>1 DEF PushInv, Uncut, NotesAreFresh
        <5> QED BY <1>0, <2>4, <5>1, <5>2 DEF TypeOK
      <4> QED BY <4>1, <4>2
    <3> QED BY <3>1, <3>4, <3>5 DEF NotesAreFresh
  <2>7. WritesAlone'
    BY <2>1, <2>2, <2>4 DEF PushInv, WritesAlone, Enabled, Others, Moves, SameWork, WritingPcs, Past
  <2>8. Compared' BY <2>1, <2>4 DEF PushInv, Compared, Moves, Deduction, Deducted, Expected
  <2> QED BY <2>5, <2>6, <2>7, <2>8 DEF PushInv
<1>18. CASE WriteStale(s) BY <1>18, LeavesKeep DEF WriteStale, Frame, PushInv, TypeOK
<1>19. CASE ReadBack(s)
  <2>1. Moves(s, "snapshot") /\ SameWork(s)
    BY <1>0, <1>19 DEF ReadBack, TypeOK, Moves, SameWork, Local, Pcs, Past
  <2> QED BY <1>19, <2>1, MovesKeep DEF ReadBack, Frame, PushInv, TypeOK, Pcs, NotePcs, WritingPcs, Past
<1>20. CASE Snapshot(s)
  <2>1. verified' \in Int \cup {Null} BY <1>0, <1>20 DEF Snapshot, TypeOK, Local
  <2>2. CASE Leave(s) BY <1>20, <2>1, <2>2, LeavesKeep DEF Snapshot, Frame, PushInv, TypeOK, WritingPcs
  <2>3. CASE Goto(s, "close") /\ UNCHANGED lock
    <3>1. Moves(s, "close") /\ SameWork(s) BY <1>0, <2>3, GotoMoves DEF Pcs, Past
    <3> QED BY <1>20, <2>1, <3>1, <2>3, MovesKeep DEF Snapshot, Frame, PushInv, TypeOK, Pcs, NotePcs, WritingPcs, Past
  <2> QED BY <1>20, <2>2, <2>3 DEF Snapshot
<1>21. CASE Close(s) BY <1>21, LeavesKeep DEF Close, Frame, PushInv, TypeOK
<1> QED BY <1>1, <1>2, <1>3, <1>4, <1>5, <1>6, <1>7, <1>8, <1>9, <1>10, <1>11, <1>12, <1>13, <1>14, <1>15, <1>16,
          <1>17, <1>18, <1>19, <1>20, <1>21 DEF Step

LEMMA WithoutType ==
  ASSUME OpenOK, NEW i \in DOMAIN open
  PROVE  open[i] \in Int /\ Without(i) \in Seq(Int)
<1> USE DEF OpenOK
<1>1. i \in 1 .. Len(open) OBVIOUS
<1>2. SubSeq(open, 1, i - 1) \in Seq(Int) /\ SubSeq(open, i + 1, Len(open)) \in Seq(Int) BY <1>1
<1> QED BY <1>1, <1>2 DEF Without

LEMMA OpenKeeps ==
  ASSUME TypeOK, OpenOK, [Next]_vars
  PROVE  OpenOK'
<1>1. CASE UNCHANGED open BY <1>1 DEF OpenOK
<1>2. ASSUME NEW s \in Runs, File(s) \/ Close(s) PROVE OpenOK'
  <2>1. run[s].seen \in Int BY DEF TypeOK, Local
  <2>2. CASE File(s)
    <3>1. Append(open, run[s].seen) \in Seq(Int) BY <2>1 DEF OpenOK
    <3> QED BY <2>2, <3>1 DEF File, OpenOK
  <2>3. CASE Close(s)
    <3>1. <<>> \in Seq(Int) OBVIOUS
    <3> QED BY <2>3, <3>1 DEF Close, OpenOK
  <2> QED BY <1>2, <2>2, <2>3
<1>3. CASE Resolve \/ Ignore BY <1>3, WithoutType DEF Resolve, Ignore, OpenOK
<1> QED BY <1>1, <1>2, <1>3
        DEF vars, state, Next, Act, Step, Buy, Reflect, Change, PutBranch, Begin, Abort, Land, LoseSession, TakeLock, Refused,
         ReadStock, ReadMapping, AutoMap, InsertMapping, InsertConflicts, ReadExisting, ReadLevel, Activate, Compare, Flag,
         Write, WriteStale, ReadBack, Snapshot

LEMMA WorldKeeps ==
  ASSUME PushInv, OpenOK, UNCHANGED env,
         \/ Buy \/ Resolve \/ Ignore
         \/ \E b \in env.branches : Reflect(b) \/ Change(b) \/ PutBranch(b)
         \/ \E q \in late : Land(q)
  PROVE  PushInv'
<1> USE InventoryAssumption DEF world, counters
<1>1. CASE Buy \/ Ignore
  <2>1. UNCHANGED <<env, kiot, maps, lock, verified, run, written, late, crossed, cuts>> BY <1>1 DEF Buy, Ignore
  <2>2. TypeOK' BY <1>1, <2>1 DEF Buy, Ignore, PushInv, TypeOK
  <2> QED BY <2>1, <2>2 DEF PushInv, Placed, Uncut, Locked, WritesAlone, Compared, NotesAreFresh, Enabled, Others,
          Deduction, Deducted, Expected
<1>2. CASE Resolve
  <2>1. env.admins /\ UNCHANGED <<kiot, shop, maps, lock, run, written, late, crossed, cuts>> BY <1>2 DEF Resolve
  <2>2. verified' \in Int BY <1>2, WithoutType DEF Resolve
  <2>3. TypeOK' BY <2>1, <2>2 DEF PushInv, TypeOK
  <2> QED BY <2>1, <2>3 DEF PushInv, Placed, Uncut, Locked, WritesAlone, Compared, NotesAreFresh, Enabled, Others
<1>3. ASSUME NEW b \in env.branches, Reflect(b) \/ Change(b) PROVE PushInv'
  <2>1. b \in Branches BY DEF PushInv, TypeOK
  <2>2. /\ kiot' \in [Branches -> Note]
        /\ \A c \in Branches : kiot'[c].version >= kiot[c].version
    <3>1. kiot \in [Branches -> Note] BY DEF PushInv, TypeOK
    <3> QED BY <1>3, <2>1, <3>1 DEF Reflect, Change, Note
  <2>3. UNCHANGED <<env, maps, lock, verified, run, written, late, crossed, cuts>> /\ shop' = shop
    BY <1>3 DEF Reflect, Change
  <2>4. TypeOK' BY <2>2, <2>3 DEF PushInv, TypeOK
  <2>5. Placed' /\ WritesAlone' /\ Compared' /\ (cuts = 0 => Locked')
    BY <2>3 DEF PushInv, Placed, Uncut, Locked, WritesAlone, Compared, Enabled, Others, Deduction, Deducted, Expected
  <2>6. \A s \in Runs : run[s].pc \in NotePcs => run[s].branch \in Branches /\ run[s].note \in Note
    BY DEF PushInv, TypeOK, Placed, Local, NotePcs, Past
  <2>7. cuts = 0 => NotesAreFresh' BY <2>2, <2>3, <2>6 DEF PushInv, Uncut, TypeOK, NotesAreFresh, Note
  <2> QED BY <2>3, <2>4, <2>5, <2>7 DEF PushInv, Uncut
<1>4. ASSUME NEW b \in env.branches, PutBranch(b) PROVE PushInv'
  <2>1. b \in Branches BY DEF PushInv, TypeOK
  <2>2. PICK m \in {"enabled", "disabled"} :
           maps' = [maps EXCEPT ![b] = m] /\ crossed' = (crossed \/ (m = "enabled" /\ Crosses(b, Runs)))
    BY <1>4 DEF PutBranch
  <2>3. UNCHANGED <<env, kiot, shop, lock, verified, run, written, late, cuts>> BY <1>4 DEF PutBranch
  <2>4. TypeOK' BY <2>2, <2>3 DEF PushInv, TypeOK
  <2>5. Placed' /\ Uncut' BY <2>3 DEF PushInv, Placed, Uncut, Locked, NotesAreFresh
  <2>6. Compared' BY <2>2, <2>3 DEF PushInv, Compared, Deduction, Deducted, Expected
  <2>7. WritesAlone'
    <3> SUFFICES ASSUME ~crossed, ~(m = "enabled" /\ Crosses(b, Runs)) PROVE WritesAlone' BY <2>2 DEF WritesAlone
    <3>1. \A o \in Branches : maps'[o] = (IF o = b THEN m ELSE maps[o]) BY <2>1, <2>2 DEF PushInv, TypeOK
    <3>2. CASE m = "enabled"
      <4>1. \A s \in Runs : run[s].pc \in Past => run[s].branch = b /\ Others(b) = {} BY <3>2 DEF Crosses
      <4>2. \A q \in late : q.branch = b BY <3>2 DEF Crosses
      <4>3. \A q \in late : Others(b) = {} BY <4>2 DEF PushInv, WritesAlone
      <4>4. WritingPcs \subseteq Past BY DEF WritingPcs, Past
      <4>5. \A o \in Branches : o # b => maps'[o] = maps[o] BY <3>1
      <4>6. Others(b)' = Others(b) BY <2>1, <3>1, <4>5 DEF Others
      <4>7. \A s \in Runs : run[s].pc \in Past => run'[s].branch = b /\ Others(b)' = {} BY <2>3, <4>1, <4>6
      <4>8. \A q \in late' : q.branch = b /\ Others(b)' = {} BY <2>3, <4>2, <4>3, <4>6
      <4>9. ASSUME NEW s \in Runs, run'[s].pc \in Past
            PROVE  {o \in Branches \ {run'[s].branch} : maps'[o] = "enabled"} = {}
        BY <2>3, <4>7, <4>9 DEF Others
      <4>10. \A q \in late' : {o \in Branches \ {q.branch} : maps'[o] = "enabled"} = {} BY <4>8 DEF Others
      <4>11. \A s, q \in Runs : run'[s].pc \in WritingPcs /\ run'[q].pc \in WritingPcs => run'[s].branch = run'[q].branch
        BY <2>3, <4>4, <4>7
      <4> QED BY <4>9, <4>10, <4>11 DEF WritesAlone, Others, Enabled
    <3>3. CASE m = "disabled"
      <4>1. \A o \in Branches : maps'[o] = "enabled" => maps[o] = "enabled" BY <3>1, <3>3
      <4>2. ASSUME NEW s \in Runs, run'[s].pc \in Past,
                   run'[s].pc \in WritingPcs \cup {"insert"} \/ maps'[run'[s].branch] = "enabled"
            PROVE  {o \in Branches \ {run'[s].branch} : maps'[o] = "enabled"} = {}
        <5>1. run[s].branch \in Branches BY <2>3, <4>2 DEF PushInv, Placed, Past
        <5>2. Others(run[s].branch) = {} BY <2>3, <4>1, <4>2, <5>1 DEF PushInv, WritesAlone, Enabled
        <5> QED BY <2>3, <4>1, <5>2 DEF Others
      <4>3. \A q \in late' : {o \in Branches \ {q.branch} : maps'[o] = "enabled"} = {}
        BY <2>3, <4>1 DEF PushInv, WritesAlone, Others
      <4>4. \A s, q \in Runs : run'[s].pc \in WritingPcs /\ run'[q].pc \in WritingPcs => run'[s].branch = run'[q].branch
        BY <2>3 DEF PushInv, WritesAlone
      <4> QED BY <4>2, <4>3, <4>4 DEF WritesAlone, Others, Enabled
    <3> QED BY <3>2, <3>3
  <2> QED BY <2>4, <2>5, <2>6, <2>7 DEF PushInv
<1>5. ASSUME NEW q \in late, Land(q) PROVE PushInv'
  <2>1. q \in [branch : Branches, note : Note, seen : Int] BY DEF PushInv, TypeOK
  <2>2. UNCHANGED <<env, kiot, maps, lock, verified, run, crossed, cuts>> /\ late' = late \ {q} BY <1>5 DEF Land
  <2>3. Expected(q.note) \in Int /\ q.note.version \in Nat BY <2>1 DEF PushInv, TypeOK, Expected, Note
  <2>4. TypeOK'
    <3>1. shop' \in [available : Int, active : BOOLEAN] /\ written' \in [Branches -> Nat]
      BY <1>5, <2>1, <2>3 DEF Land, PushInv, TypeOK
    <3> QED BY <2>2, <3>1 DEF PushInv, TypeOK
  <2>5. cuts # 0 /\ Placed' BY <2>2 DEF PushInv, Uncut, Placed
  <2>6. WritesAlone' BY <2>2 DEF PushInv, WritesAlone, Enabled, Others
  <2> QED BY <2>2, <2>4, <2>5, <2>6 DEF PushInv, Uncut, Compared
<1> QED BY <1>1, <1>2, <1>3, <1>4, <1>5

(***************************************************************************)
(* Whatever two runs of a product read before they wait, it is still true  *)
(* when they write: the lock is theirs and their stock no older than what  *)
(* was written, until a session is lost or a set given up; no other branch *)
(* has the location, until one is enabled beside a run; and the deduction  *)
(* guard saw the level they compare with, until either.                    *)
(***************************************************************************)
THEOREM PushesAreSafe == Spec => []PushInv
<1>1. Init => OpenOK BY DEF Init, OpenOK
<1>2. PushInv /\ OpenOK /\ [Next]_vars => PushInv' /\ OpenOK'
  <2> SUFFICES ASSUME PushInv, OpenOK, [Next]_vars PROVE PushInv' /\ OpenOK'
    OBVIOUS
  <2>1. OpenOK' BY OpenKeeps DEF PushInv
  <2>2. CASE UNCHANGED vars
    BY <2>1, <2>2 DEF vars, state, world, counters, PushInv, TypeOK, Placed, Uncut, Locked, WritesAlone, Compared,
         NotesAreFresh, Enabled, Others, Deduction, Deducted, Expected
  <2>3. CASE Next BY <2>1, <2>3, RunKeeps, WorldKeeps DEF Next, Act
  <2> QED BY <2>2, <2>3
<1> QED BY InitPush, <1>1, <1>2, PTL DEF Spec

LEMMA WhoWrites ==
  ASSUME Next
  PROVE  \/ UNCHANGED <<shop, written>>
         \/ UNCHANGED written /\ (Buy \/ \E s \in Runs : Activate(s))
         \/ \E s \in Runs : Write(s)
         \/ \E q \in late : Land(q)
BY DEF Next, Act, Step, Buy, Resolve, Ignore, Reflect, Change, PutBranch, Begin, Abort, LoseSession, TakeLock, Refused,
   ReadStock, ReadMapping, AutoMap, InsertMapping, InsertConflicts, ReadExisting, ReadLevel, Activate, Compare, Flag, File,
   WriteStale, ReadBack, Snapshot, Close, world

(***************************************************************************)
(* A push raises the level of Shopify only from a value no lower than the  *)
(* one last verified: what customers bought meanwhile stays sold.          *)
(***************************************************************************)
THEOREM SoldStaysSold == Spec => HeldIsNotRaised
<1>1. ASSUME PushInv, Next, shop'.available > shop.available, env.hold, ~env.admins, ~crossed, cuts = 0
      PROVE  verified = Null \/ shop.available >= verified
  <2>1. shop.available \in Int /\ verified \in Int \cup {Null} BY <1>1 DEF PushInv, TypeOK
  <2>2. PICK s \in Runs : Write(s)
    <3>1. CASE Buy BY <1>1, <2>1, <3>1 DEF Buy, PushInv, TypeOK
    <3>2. ASSUME NEW s \in Runs, Activate(s) PROVE FALSE BY <1>1, <2>1, <3>2 DEF Activate, PushInv, TypeOK
    <3>3. late = {} BY <1>1 DEF PushInv, Uncut
    <3> QED BY <1>1, <2>1, <3>1, <3>2, <3>3, WhoWrites
  <2>3. run[s].last = verified /\ ~Deduction(s) BY <1>1, <2>2 DEF Write, PushInv, Compared
  <2>4. shop.available = run[s].seen /\ shop'.available = Expected(run[s].note)
    BY <1>1, <2>2 DEF Write, PushInv, TypeOK
  <2> QED BY <1>1, <2>1, <2>3, <2>4 DEF Deduction, Deducted
<1>2. PushInv /\ [Next]_vars =>
        [shop'.available > shop.available /\ env.hold /\ ~env.admins /\ ~crossed /\ cuts = 0
           => verified = Null \/ shop.available >= verified]_state
  BY <1>1 DEF vars
<1> QED BY PushesAreSafe, <1>2, PTL DEF Spec, HeldIsNotRaised

(***************************************************************************)
(* A stock read earlier is never written over one read later.              *)
(***************************************************************************)
THEOREM StockIsFresh == Spec => StockGoesForward
<1>1. ASSUME PushInv, Next, cuts' = 0, NEW b \in Branches PROVE written'[b] >= written[b]
  <2>1. written \in [Branches -> Nat] BY <1>1 DEF PushInv, TypeOK
  <2>2. cuts = 0
    <3>1. cuts' = cuts \/ cuts' = cuts + 1
      BY <1>1 DEF Next, Act, Step, Buy, Resolve, Ignore, Reflect, Change, PutBranch, Begin, Abort, Land, LoseSession,
         TakeLock, Refused, ReadStock, ReadMapping, AutoMap, InsertMapping, InsertConflicts, ReadExisting, ReadLevel,
         Activate, Compare, Flag, File, Write, WriteStale, ReadBack, Snapshot, Close, counters
    <3> QED BY <1>1, <3>1 DEF PushInv, TypeOK
  <2>3. ASSUME NEW s \in Runs, Write(s) PROVE written'[b] >= written[b]
    <3>1. written' = [written EXCEPT ![run[s].branch] = run[s].note.version] /\ run[s].pc = "set" BY <2>3 DEF Write
    <3>2. run[s].note.version \in Nat /\ written[run[s].branch] <= run[s].note.version
      BY <1>1, <2>2, <3>1 DEF PushInv, TypeOK, Local, Note, Uncut, NotesAreFresh, NotePcs, Past
    <3> QED BY <2>1, <3>1, <3>2
  <2>4. late = {} BY <1>1, <2>2 DEF PushInv, Uncut
  <2> QED BY <1>1, <2>1, <2>3, <2>4, WhoWrites
<1>2. PushInv /\ [Next]_vars => [cuts' = 0 => \A b \in Branches : written'[b] >= written[b]]_vars BY <1>1
<1> QED BY PushesAreSafe, <1>2, PTL DEF Spec, StockGoesForward

(***************************************************************************)
(* No branch is pushed while another enabled branch has the location, but  *)
(* beside a run that had read its mapping before that one was enabled.     *)
(***************************************************************************)
THEOREM PushesAlone == Spec => NoSharedWrite
<1>1. PushInv /\ ~crossed =>
        /\ \A s \in Runs : run[s].pc = "set" => Others(run[s].branch) = {}
        /\ \A q \in late : Others(q.branch) = {}
  BY DEF PushInv, WritesAlone, WritingPcs, Past
<1>2. PushInv /\ [Next]_vars =>
        [~crossed =>
           /\ \A s \in Runs : run[s].pc = "set" /\ run'[s].pc = "readback" => Others(run[s].branch) = {}
           /\ \A q \in late : shop' # shop /\ q \notin late' => Others(q.branch) = {}]_vars
  BY <1>1
<1> QED BY PushesAreSafe, <1>2, PTL DEF Spec, NoSharedWrite

-----------------------------------------------------------------------------
(***************************************************************************)
(* Images                                                                  *)
(***************************************************************************)
IsList(s) == Len(s) \in Nat /\ s = [i \in 1 .. Len(s) |-> s[i]]

LEMMA ListBy ==
  ASSUME NEW n \in Nat, NEW f, f = [i \in 1 .. n |-> f[i]]
  PROVE  IsList(f) /\ Len(f) = n
  <1> DEFINE S == {f[i] : i \in 1 .. n}
  <1>1. f \in [1 .. n -> S]
    OBVIOUS
  <1>2. Len(f) = n
    BY <1>1
  <1> QED
    BY <1>2 DEF IsList

LEMMA SeqIsList == ASSUME NEW S, NEW s \in Seq(S) PROVE IsList(s)
  BY DEF IsList

LEMMA ListAppend ==
  ASSUME NEW s, IsList(s), NEW x
  PROVE  /\ IsList(Append(s, x)) /\ Len(Append(s, x)) = Len(s) + 1
         /\ Append(s, x)[Len(s) + 1] = x
         /\ \A i \in 1 .. Len(s) : Append(s, x)[i] = s[i]
  <1> DEFINE S == {s[i] : i \in 1 .. Len(s)} \cup {x}
  <1>1. s \in Seq(S)
    BY DEF IsList
  <1>2. /\ Append(s, x) \in Seq(S) /\ Len(Append(s, x)) = Len(s) + 1
        /\ Append(s, x)[Len(s) + 1] = x
        /\ \A i \in 1 .. Len(s) : Append(s, x)[i] = s[i]
    BY <1>1
  <1>3. IsList(Append(s, x))
    BY <1>2, SeqIsList
  <1> QED
    BY <1>2, <1>3

LEMMA ListEmpty == IsList(<<>>) /\ DOMAIN <<>> = {}
  BY DEF IsList

(* Ids are given out again only when nobody remembers them.                *)
LEMMA FreshIn ==
  ASSUME NEW S, IsFiniteSet(S)
  PROVE  \E n \in 1 .. Cardinality(S) + 1 : n \notin S
  <1>1. Cardinality(S) \in Nat
    BY FS_CardinalityType
  <1> DEFINE T == 1 .. Cardinality(S) + 1
  <1>2. IsFiniteSet(T) /\ Cardinality(T) = Cardinality(S) + 1
    <2>1. 1 \in Int /\ Cardinality(S) + 1 \in Int /\ ~(1 > Cardinality(S) + 1)
      BY <1>1
    <2> QED
      BY <1>1, <2>1, FS_Interval
  <1>3. CASE T \subseteq S
    <2>1. Cardinality(T) <= Cardinality(S)
      BY <1>3, FS_Subset
    <2> QED
      BY <1>1, <1>2, <2>1
  <1> QED
    BY <1>3

LEMMA IdsFinite == ASSUME NEW s, IsList(s) PROVE IsFiniteSet(Ids(s))
  <1> DEFINE f == [i \in 1 .. Len(s) |-> s[i].id]
  <1>1. DOMAIN s = 1 .. Len(s)
    BY DEF IsList
  <1>2. f \in Surjection(1 .. Len(s), Ids(s))
    BY <1>1 DEF Surjection, Ids
  <1>3. IsFiniteSet(1 .. Len(s))
    <2>1. 1 \in Int /\ Len(s) \in Int
      BY DEF IsList
    <2> QED
      BY <2>1, FS_Interval
  <1> QED
    BY <1>2, <1>3, FS_Surjection

OneEach(s) == \A i, j \in DOMAIN s : s[i].id = s[j].id => i = j

(* An image is processed, or replaced by staff once it is.                 *)
Images(m) ==
  /\ IsList(m) /\ OneEach(m)
  /\ \A i \in DOMAIN m :
       /\ m[i] = [id |-> m[i].id, source |-> m[i].source, status |-> m[i].status, url |-> m[i].url]
       /\ m[i].url \in {0, 1, 2} /\ (m[i].url = 0 <=> m[i].status # "ready")

(* What is remembered of images: none is replaced whose URL is not.        *)
Agrees(s, m) ==
  /\ IsList(s) /\ OneEach(s)
  /\ \A i \in DOMAIN s :
       /\ s[i].url \in {0, 1}
       /\ \A j \in DOMAIN m : s[i].id = m[j].id =>
            IF m[j].url = 2 THEN m[j].source = "staff" /\ s[i].url # 0 ELSE s[i].source = m[j].source

IsUpload(u) == u = [at |-> u.at, desired |-> u.desired, old |-> u.old, mine |-> u.mine]

UploadsOK ==
  /\ upload = [r \in Uploads |-> upload[r]]
  /\ \A r \in Uploads :
       /\ IsUpload(upload[r])
       /\ IsFiniteSet(upload[r].old) /\ Agrees(upload[r].mine, media)

MediaInv == Images(media) /\ Agrees(sources, media) /\ UploadsOK

LEMMA EmptyAgrees == ASSUME NEW m PROVE Agrees(<<>>, m)
  BY ListEmpty DEF Agrees, OneEach

(* Some images are left, in their order.                                   *)
LEMMA LeftAgree ==
  ASSUME NEW m, Images(m), NEW n \in Nat, NEW f \in [1 .. n -> DOMAIN m],
         \A i, j \in 1 .. n : i < j => f[i] < f[j],
         NEW m2, m2 = [k \in 1 .. n |-> m[f[k]]]
  PROVE  Images(m2) /\ \A s : Agrees(s, m) => Agrees(s, m2)
  <1>1. m2 = [k \in 1 .. n |-> m2[k]] /\ DOMAIN m2 = 1 .. n
    OBVIOUS
  <1>2. IsList(m2)
    BY <1>1, ListBy
  <1>3. OneEach(m2)
    <2> SUFFICES ASSUME NEW i \in 1 .. n, NEW j \in 1 .. n, m2[i].id = m2[j].id PROVE i = j
      BY <1>1 DEF OneEach
    <2>1. f[i] = f[j]
      BY DEF Images, OneEach
    <2>2. DOMAIN m = 1 .. Len(m) /\ f[i] \in Int /\ f[j] \in Int
      BY DEF Images, IsList
    <2> QED
      BY <2>1, <2>2
  <1>4. Images(m2)
    BY <1>1, <1>2, <1>3 DEF Images
  <1>5. ASSUME NEW s, Agrees(s, m) PROVE Agrees(s, m2)
    BY <1>1, <1>5 DEF Agrees
  <1> QED
    BY <1>4, <1>5

LEMMA AppendAgrees ==
  ASSUME NEW m, Images(m), NEW x, x.id \notin Ids(m), x = [id |-> x.id, source |-> x.source, status |-> x.status, url |-> 0],
         x.status # "ready"
  PROVE  Images(Append(m, x)) /\ \A s : Agrees(s, m) /\ x.id \notin Ids(s) => Agrees(s, Append(m, x))
  <1> DEFINE m2 == Append(m, x)
  <1>0. DOMAIN m = 1 .. Len(m) /\ Len(m) \in Nat /\ IsList(m)
    BY DEF Images, IsList
  <1>1. /\ IsList(m2) /\ DOMAIN m2 = 1 .. Len(m) + 1
        /\ \A i \in DOMAIN m2 : (i \in DOMAIN m /\ m2[i] = m[i]) \/ (i = Len(m) + 1 /\ m2[i] = x)
    <2>1. /\ IsList(m2) /\ Len(m2) = Len(m) + 1 /\ m2[Len(m) + 1] = x
          /\ \A i \in 1 .. Len(m) : m2[i] = m[i]
      BY <1>0, ListAppend
    <2> HIDE DEF m2
    <2>2. DOMAIN m2 = 1 .. Len(m) + 1
      BY <2>1 DEF IsList
    <2> QED
      BY <1>0, <2>1, <2>2
  <1> HIDE DEF m2
  <1>2. OneEach(m2)
    BY <1>0, <1>1 DEF OneEach, Images, Ids
  <1>3. x.url = 0
    OBVIOUS
  <1>4. Images(m2)
    BY <1>1, <1>2, <1>3 DEF Images
  <1>5. ASSUME NEW s, Agrees(s, m), x.id \notin Ids(s) PROVE Agrees(s, m2)
    BY <1>1, <1>5 DEF Agrees, Ids
  <1> QED
    BY <1>4, <1>5 DEF m2

IsImage(y) == y = [id |-> y.id, source |-> y.source, status |-> y.status, url |-> y.url]
(* One image after a step.                                                 *)
Processed(y) == [y EXCEPT !.status = "ready", !.url = 1]
Spoilt(y) == [y EXCEPT !.status = "failed"]
Replacement(y) == [y EXCEPT !.url = 2, !.source = "staff"]

LEMMA ImageSteps ==
  ASSUME NEW y, IsImage(y)
  PROVE  /\ Processed(y) = [id |-> y.id, source |-> y.source, status |-> "ready", url |-> 1]
         /\ Spoilt(y) = [id |-> y.id, source |-> y.source, status |-> "failed", url |-> y.url]
         /\ Replacement(y) = [id |-> y.id, source |-> "staff", status |-> y.status, url |-> 2]
  <1>1. ASSUME NEW x, x = Processed(y) PROVE x = [id |-> y.id, source |-> y.source, status |-> "ready", url |-> 1]
    BY <1>1 DEF Processed, IsImage
  <1>2. ASSUME NEW x, x = Spoilt(y) PROVE x = [id |-> y.id, source |-> y.source, status |-> "failed", url |-> y.url]
    BY <1>2 DEF Spoilt, IsImage
  <1>3. ASSUME NEW x, x = Replacement(y) PROVE x = [id |-> y.id, source |-> "staff", status |-> y.status, url |-> 2]
    BY <1>3 DEF Replacement, IsImage
  <1> QED
    BY <1>1, <1>2, <1>3

(* Shopify processes an image, or staff replaces one.                      *)
With(m, i, y) == [m EXCEPT ![i] = y]

LEMMA ChangedAgrees ==
  ASSUME NEW m, Images(m), NEW i \in DOMAIN m, NEW y,
         y = [id |-> m[i].id, source |-> y.source, status |-> y.status, url |-> y.url],
         y.url \in {0, 1, 2}, y.url = 0 <=> y.status # "ready",
         NEW m2, m2 = With(m, i, y)
  PROVE  /\ Images(m2)
         /\ \A s : /\ Agrees(s, m)
                   /\ \/ y.url # 2 /\ m[i].url # 2 /\ y.source = m[i].source
                      \/ y.source = "staff" /\ y.url = 2 /\ \A k \in DOMAIN s : s[k].id = m[i].id => s[k].url # 0
                   => Agrees(s, m2)
  <1>0. DOMAIN m = 1 .. Len(m) /\ Len(m) \in Nat /\ y.id = m[i].id
    BY DEF Images, IsList
  <1>1. m2 = [k \in 1 .. Len(m) |-> m2[k]] /\ DOMAIN m2 = 1 .. Len(m) /\ m2[i] = y /\ \A k \in DOMAIN m \ {i} : m2[k] = m[k]
    BY <1>0 DEF With
  <1>2. IsList(m2)
    BY <1>0, <1>1, ListBy
  <1>3. OneEach(m2)
    BY <1>0, <1>1 DEF OneEach, Images
  <1>4. Images(m2)
    BY <1>0, <1>1, <1>2, <1>3 DEF Images
  <1>5. ASSUME NEW s, Agrees(s, m), y.url # 2, m[i].url # 2, y.source = m[i].source PROVE Agrees(s, m2)
    BY <1>0, <1>1, <1>5 DEF Agrees
  <1>6. ASSUME NEW s, Agrees(s, m), y.source = "staff", y.url = 2, \A k \in DOMAIN s : s[k].id = m[i].id => s[k].url # 0
        PROVE  Agrees(s, m2)
    BY <1>0, <1>1, <1>6 DEF Agrees
  <1> QED
    BY <1>4, <1>5, <1>6

LEMMA MediaStart == MediaInit => MediaInv
<1> SUFFICES ASSUME MediaInit PROVE MediaInv
  OBVIOUS
<1>1. Images(media)
  BY ListEmpty DEF MediaInit, Images, OneEach
<1>2. UploadsOK
  BY EmptyAgrees, FS_EmptySet DEF MediaInit, UploadsOK, NoRun, IsUpload
<1> QED
  BY <1>1, <1>2, EmptyAgrees DEF MediaInit, MediaInv

(* One run moves on, the others remember what they did.                    *)
LEMMA UploadMoves ==
  ASSUME UploadsOK, NEW r \in Uploads, NEW new, upload' = [upload EXCEPT ![r] = new],
         IsUpload(new),
         IsFiniteSet(new.old), Agrees(new.mine, media'),
         \A q \in Uploads : Agrees(upload[q].mine, media')
  PROVE  UploadsOK'
<1>1. upload' = [q \in Uploads |-> upload'[q]] /\ upload'[r] = new /\ \A q \in Uploads \ {r} : upload'[q] = upload[q]
  BY DEF UploadsOK
<1> QED
  BY <1>1 DEF UploadsOK

(* The records of a run.                                                   *)
At(u, a) == [u EXCEPT !.at = a]
AtOld(u, a, o) == [u EXCEPT !.at = a, !.old = o]
AtMine(u, a, m) == [u EXCEPT !.at = a, !.mine = m]
AppendsTo(u, y) == [u EXCEPT !.mine = Append(@, y)]
Same(u, v) == IsUpload(v) /\ v.desired = u.desired

LEMMA UploadAt ==
  ASSUME NEW u, IsUpload(u), NEW a
  PROVE  Same(u, At(u, a)) /\ At(u, a).at = a /\ At(u, a).old = u.old /\ At(u, a).mine = u.mine
  <1> DEFINE v == At(u, a)
  <1>1. v = [at |-> a, desired |-> u.desired, old |-> u.old, mine |-> u.mine]
    BY DEF At, IsUpload
  <1> QED
    BY <1>1 DEF Same, IsUpload

LEMMA UploadOld ==
  ASSUME NEW u, IsUpload(u), NEW a, NEW o
  PROVE  Same(u, AtOld(u, a, o)) /\ AtOld(u, a, o).at = a /\ AtOld(u, a, o).old = o /\ AtOld(u, a, o).mine = u.mine
  <1> DEFINE v == AtOld(u, a, o)
  <1>1. ASSUME NEW x, x = v PROVE x = [at |-> a, desired |-> u.desired, old |-> o, mine |-> u.mine]
    BY <1>1 DEF AtOld, IsUpload
  <1> QED
    BY <1>1 DEF Same, IsUpload

LEMMA UploadMine ==
  ASSUME NEW u, IsUpload(u), NEW a, NEW m
  PROVE  Same(u, AtMine(u, a, m)) /\ AtMine(u, a, m).at = a /\ AtMine(u, a, m).old = u.old /\ AtMine(u, a, m).mine = m
  <1> DEFINE v == AtMine(u, a, m)
  <1>1. ASSUME NEW x, x = v PROVE x = [at |-> a, desired |-> u.desired, old |-> u.old, mine |-> m]
    BY <1>1 DEF AtMine, IsUpload
  <1> QED
    BY <1>1 DEF Same, IsUpload

LEMMA UploadAppends ==
  ASSUME NEW u, IsUpload(u), NEW y
  PROVE  /\ Same(u, AppendsTo(u, y)) /\ AppendsTo(u, y).at = u.at /\ AppendsTo(u, y).old = u.old
         /\ AppendsTo(u, y).mine = Append(u.mine, y)
  <1> DEFINE v == AppendsTo(u, y)
  <1>1. v = [at |-> u.at, desired |-> u.desired, old |-> u.old, mine |-> Append(u.mine, y)]
    BY DEF AppendsTo, IsUpload
  <1> QED
    BY <1>1 DEF Same, IsUpload

LEMMA UploadsStay ==
  ASSUME UploadsOK, UNCHANGED upload, \A q \in Uploads : Agrees(upload[q].mine, media')
  PROVE  UploadsOK'
  BY DEF UploadsOK

LEMMA NewIdIsNew ==
  ASSUME MediaInv
  PROVE  /\ NewId \notin Ids(media) /\ NewId \notin Ids(sources)
         /\ \A r \in Uploads : NewId \notin Ids(upload[r].mine)
<1>1. IsFiniteSet(UsedIds)
  <2>1. IsFiniteSet(Ids(media)) /\ IsFiniteSet(Ids(sources))
    BY IdsFinite DEF MediaInv, Images, Agrees
  <2>2. ASSUME NEW r \in Uploads PROVE IsFiniteSet(Remembered(r))
    <3>1. IsFiniteSet(upload[r].old) /\ IsFiniteSet(Ids(upload[r].mine))
      BY IdsFinite DEF MediaInv, UploadsOK, Agrees
    <3> QED
      BY <3>1, FS_Union DEF Remembered
  <2> DEFINE all == {Remembered(r) : r \in Uploads}
  <2>3. IsFiniteSet(all)
    <3> DEFINE f == [r \in Uploads |-> Remembered(r)]
    <3>1. f \in Surjection(Uploads, all)
      BY DEF Surjection
    <3> QED
      BY <3>1, FS_Surjection, MediaAssumption DEF MediaAssumption
  <2>4. IsFiniteSet(UNION all)
    BY <2>2, <2>3, FS_UNION
  <2>5. IsFiniteSet(Ids(media) \cup Ids(sources))
    BY <2>1, FS_Union
  <2> QED
    BY <2>4, <2>5, FS_Union DEF UsedIds
<1>2. NewId \notin UsedIds
  BY <1>1, FreshIn DEF NewId
<1> QED
  BY <1>2 DEF UsedIds, Remembered

LEMMA RemoveAgrees ==
  ASSUME Images(media), NEW ids, Remove(ids)
  PROVE  Images(media') /\ \A s : Agrees(s, media) => Agrees(s, media')
<1> DEFINE left == {i \in DOMAIN media : media[i].id \notin ids}
           n == Cardinality(left)
<1>1. DOMAIN media = 1 .. Len(media) /\ Len(media) \in Nat
  BY DEF Images, IsList
<1>2. n \in Nat
  <2>1. IsFiniteSet(1 .. Len(media))
    BY <1>1, FS_Interval
  <2>2. left \in SUBSET (1 .. Len(media))
    BY <1>1
  <2> QED
    BY <2>1, <2>2, FS_Subset, FS_CardinalityType
<1>3. PICK from \in [1 .. n -> left] :
        /\ \A i, j \in DOMAIN from : i < j => from[i] < from[j]
        /\ media' = [k \in DOMAIN from |-> media[from[k]]]
  BY DEF Remove
<1> HIDE DEF n
<1>4. from \in [1 .. n -> DOMAIN media] /\ media' = [k \in 1 .. n |-> media[from[k]]]
  BY <1>3
<1> HIDE DEF left
<1> QED
  BY <1>2, <1>3, <1>4, LeftAgree

(* What matched and is ready can be remembered with its URL.               *)
LEMMA CompleteAgrees ==
  ASSUME Images(media), NEW desired, NEW known, Agrees(known, media), Matches(desired, known), Ready
  PROVE  Agrees(Complete(desired), media)
<1> DEFINE c == Complete(desired)
<1>1. DOMAIN media = 1 .. Len(media) /\ Len(media) \in Nat
  BY DEF Images, IsList
<1>2. c = [i \in 1 .. Len(media) |-> c[i]] /\ DOMAIN c = 1 .. Len(media)
  BY <1>1 DEF Complete
<1>3. IsList(c)
  BY <1>1, <1>2, ListBy
<1>4. \A i \in DOMAIN media : c[i].id = media[i].id /\ c[i].source = desired[i] /\ c[i].url = media[i].url
  BY DEF Complete
<1>5. \A i \in DOMAIN media : media[i].url = 1 /\ media[i].source = desired[i]
  BY DEF Matches, Ready, Images, Agrees
<1> HIDE DEF c
<1>6. OneEach(c)
  BY <1>1, <1>2, <1>4 DEF Images, OneEach
<1>7. Agrees(c, media)
  BY <1>1, <1>2, <1>3, <1>4, <1>5, <1>6 DEF Agrees, Images, OneEach
<1> QED
  BY <1>7 DEF c

LEMMA MediaStep == ASSUME MediaInv, MediaNext, bounds \in MediaBounds PROVE MediaInv'
<1> USE DEF MediaInv
<1>0. \A r \in Uploads :
        /\ IsUpload(upload[r])
        /\ IsFiniteSet(upload[r].old) /\ Agrees(upload[r].mine, media)
  BY DEF UploadsOK
(* A run whose step leaves the images as they are.                         *)
<1>1. ASSUME NEW r \in Uploads, NEW new, upload' = [upload EXCEPT ![r] = new], UNCHANGED media,
             IsUpload(new),
             IsFiniteSet(new.old), Agrees(new.mine, media)
      PROVE  UploadsOK' /\ Images(media')
  BY <1>0, <1>1, UploadMoves
<1>2. ASSUME NEW r \in Uploads, Fails(r), \A s : Agrees(s, media) => Agrees(s, media'), Images(media')
      PROVE  MediaInv'
  <2>1. IsUpload(NoRun)
        /\ IsFiniteSet(NoRun.old) /\ Agrees(NoRun.mine, media')
    BY EmptyAgrees, FS_EmptySet DEF NoRun, IsUpload
  <2>2. upload' = [upload EXCEPT ![r] = NoRun] /\ sources' = sources
    BY <1>2 DEF Fails
  <2>3. \A q \in Uploads : Agrees(upload[q].mine, media')
    BY <1>0, <1>2
  <2>4. UploadsOK'
    BY <2>1, <2>2, <2>3, UploadMoves
  <2> QED
    BY <1>2, <2>2, <2>4
<1>3. ASSUME NEW r \in Uploads, Start(r) PROVE MediaInv'
  <2> DEFINE new == [at |-> "read", desired |-> wanted, old |-> {}, mine |-> <<>>]
  <2>1. upload' = [upload EXCEPT ![r] = new] /\ UNCHANGED <<media, sources>>
    <3>1. upload' = [upload EXCEPT ![r] = [NoRun EXCEPT !.at = "read", !.desired = wanted]] /\ UNCHANGED <<media, sources>>
      BY <1>3 DEF Start, Advances
    <3>2. ASSUME NEW x, x = [NoRun EXCEPT !.at = "read", !.desired = wanted] PROVE x = new
      BY <3>2 DEF NoRun
    <3> QED
      BY <3>1, <3>2
  <2>2. IsUpload(new)
        /\ IsFiniteSet(new.old) /\ Agrees(new.mine, media)
    BY EmptyAgrees, FS_EmptySet DEF IsUpload
  <2> QED
    BY <1>1, <2>1, <2>2
<1>4. ASSUME NEW r \in Uploads, ReadSame(r) PROVE MediaInv'
  <2> DEFINE complete == Len(sources) = Len(media) /\ \E i \in DOMAIN sources : sources[i].url = 0
             new == AtMine(upload[r], IF complete THEN "fill" ELSE "done", Complete(upload[r].desired))
  <2>1. upload' = [upload EXCEPT ![r] = new] /\ UNCHANGED <<media, sources>>
    BY <1>4 DEF ReadSame, ReadsOnly, Advances, AtMine
  <2>2. Agrees(Complete(upload[r].desired), media)
    BY <1>4, CompleteAgrees DEF ReadSame
  <2>3. IsUpload(new)
        /\ new.old = upload[r].old /\ new.mine = Complete(upload[r].desired)
    BY <1>0, UploadMine DEF Same
  <2> QED
    BY <1>0, <1>1, <2>1, <2>2, <2>3
<1>5. ASSUME NEW r \in Uploads, ReadPending(r) PROVE MediaInv'
  <2> DEFINE new == AtMine(upload[r], "verify", sources)
  <2>1. upload' = [upload EXCEPT ![r] = new] /\ UNCHANGED <<media, sources>>
    BY <1>5 DEF ReadPending, ReadsOnly, Advances, AtMine
  <2>2. IsUpload(new)
        /\ new.old = upload[r].old /\ new.mine = sources
    BY <1>0, UploadMine DEF Same
  <2> QED
    BY <1>0, <1>1, <2>1, <2>2
<1>6. ASSUME NEW r \in Uploads, ReadOther(r) PROVE MediaInv'
  <2> DEFINE new == AtOld(upload[r], "delete", Ids(media))
  <2>1. upload' = [upload EXCEPT ![r] = new] /\ UNCHANGED <<media, sources>>
    BY <1>6 DEF ReadOther, ReadsOnly, Advances, AtOld
  <2>2. IsUpload(new)
        /\ new.old = Ids(media) /\ new.mine = upload[r].mine
    BY <1>0, UploadOld DEF Same
  <2>3. IsFiniteSet(Ids(media))
    BY IdsFinite DEF Images
  <2> QED
    BY <1>0, <1>1, <2>1, <2>2, <2>3
<1>7. ASSUME NEW r \in Uploads, DeleteAll(r) PROVE MediaInv'
  <2> DEFINE new == AtOld(upload[r], "append", {})
  <2>1. upload' = [upload EXCEPT ![r] = new] /\ UNCHANGED sources /\ Remove(upload[r].old)
    BY <1>7 DEF DeleteAll, Advances, AtOld
  <2>2. Images(media') /\ \A s : Agrees(s, media) => Agrees(s, media')
    BY <2>1, RemoveAgrees
  <2>3. IsUpload(new)
        /\ new.old = {} /\ new.mine = upload[r].mine
    BY <1>0, UploadOld DEF Same
  <2>4. UploadsOK'
    BY <1>0, <2>1, <2>2, <2>3, UploadMoves, FS_EmptySet
  <2> QED
    BY <2>1, <2>2, <2>4
<1>8. ASSUME NEW r \in Uploads, DeleteFails(r) PROVE MediaInv'
  <2>1. Fails(r) /\ Remove(upload[r].old)
    BY <1>8 DEF DeleteFails
  <2> QED
    BY <1>2, <2>1, RemoveAgrees
<1>9. ASSUME NEW r \in Uploads, AppendOne(r) PROVE MediaInv'
  <2> DEFINE n == Len(upload[r].mine) + 1
             x == [id |-> NewId, source |-> upload[r].desired[n], status |-> "processing", url |-> 0]
             y == [id |-> media'[n].id, source |-> x.source, url |-> 0]
             new == AppendsTo(upload[r], y)
  <2>1. media' = Append(media, x)
    BY <1>9 DEF AppendOne
  <2>2. x.id = NewId /\ x.url = 0 /\ x.status = "processing"
        /\ x = [id |-> x.id, source |-> x.source, status |-> x.status, url |-> 0]
    OBVIOUS
  <2> HIDE DEF x
  <2>3. Images(media') /\ \A s : Agrees(s, media) /\ NewId \notin Ids(s) => Agrees(s, media')
    BY <2>1, <2>2, NewIdIsNew, AppendAgrees
  <2>4. Agrees(sources, media') /\ \A q \in Uploads : Agrees(upload[q].mine, media')
    BY <1>0, <2>3, NewIdIsNew
  <2>5. CASE InOrder(r)
    <3>1. upload' = [upload EXCEPT ![r] = new] /\ UNCHANGED sources
      BY <1>9, <2>5 DEF AppendOne, Advances, AppendsTo, x
    <3>2. IsUpload(new)
          /\ new.old = upload[r].old /\ new.mine = Append(upload[r].mine, y)
      BY <1>0, UploadAppends DEF Same
    <3>3. Agrees(Append(upload[r].mine, y), media')
      <4> DEFINE s == upload[r].mine
      <4>1. Agrees(s, media') /\ IsList(s) /\ DOMAIN s = 1 .. Len(s) /\ Len(s) \in Nat /\ n = Len(s) + 1
        BY <1>0, <2>4 DEF Agrees, IsList
      <4>2. IsList(media) /\ Len(media) = Len(s)
        BY <2>5 DEF InOrder, Images
      <4>3. DOMAIN media' = 1 .. n /\ media'[n] = x
        BY <2>1, <4>1, <4>2, ListAppend DEF IsList
      <4>4. y.id = NewId /\ y.source = x.source /\ y.url = 0
        BY <2>2, <4>3
      <4>5. /\ IsList(Append(s, y)) /\ DOMAIN Append(s, y) = 1 .. n
            /\ \A i \in DOMAIN Append(s, y) : (i \in DOMAIN s /\ Append(s, y)[i] = s[i]) \/ (i = n /\ Append(s, y)[i] = y)
        <5>1. /\ IsList(Append(s, y)) /\ Len(Append(s, y)) = n /\ Append(s, y)[n] = y
              /\ \A i \in 1 .. Len(s) : Append(s, y)[i] = s[i]
          BY <4>1, ListAppend
        <5>2. DOMAIN Append(s, y) = 1 .. n
          BY <5>1 DEF IsList
        <5> QED
          BY <4>1, <5>1, <5>2
      <4>6. NewId \notin Ids(s)
        BY NewIdIsNew
      <4> DEFINE t == Append(s, y)
      <4>7. OneEach(t)
        BY <4>1, <4>4, <4>5, <4>6 DEF OneEach, Agrees, Ids
      <4>8. \A j \in DOMAIN media' : media'[j].id = NewId => j = n
        BY <2>2, <2>3, <4>1, <4>3 DEF Images, OneEach
      <4> HIDE DEF t, y, s
      <4>9. ASSUME NEW k \in DOMAIN t
            PROVE  /\ t[k].url \in {0, 1}
                   /\ \A j \in DOMAIN media' : t[k].id = media'[j].id =>
                        IF media'[j].url = 2 THEN media'[j].source = "staff" /\ t[k].url # 0
                        ELSE t[k].source = media'[j].source
        <5>1. CASE k \in DOMAIN s /\ t[k] = s[k]
          BY <4>1, <5>1 DEF Agrees
        <5>2. CASE t[k] = y
          BY <2>2, <4>3, <4>4, <4>8, <5>2
        <5> QED
          BY <4>5, <5>1, <5>2 DEF t
      <4>10. Agrees(t, media')
        BY <4>5, <4>7, <4>9 DEF Agrees, t
      <4> QED
        BY <4>10 DEF t, s
    <3> HIDE DEF y
    <3>4. UploadsOK'
      BY <1>0, <2>4, <3>1, <3>2, <3>3, UploadMoves
    <3> QED
      BY <2>3, <2>4, <3>1, <3>4
  <2>6. CASE ~InOrder(r)
    <3>1. Fails(r)
      BY <1>9, <2>6 DEF AppendOne
    <3>2. sources' = sources /\ upload' = [upload EXCEPT ![r] = NoRun]
      BY <3>1 DEF Fails
    <3>3. IsUpload(NoRun)
          /\ IsFiniteSet(NoRun.old) /\ Agrees(NoRun.mine, media')
      BY EmptyAgrees, FS_EmptySet DEF NoRun, IsUpload
    <3>4. UploadsOK'
      BY <2>4, <3>2, <3>3, UploadMoves
    <3> QED
      BY <2>3, <2>4, <3>2, <3>4
  <2> QED
    BY <2>5, <2>6
<1>10. ASSUME NEW r \in Uploads, SaveIds(r) \/ Fill(r) PROVE MediaInv'
  <2> PICK place : upload' = [upload EXCEPT ![r] = At(upload[r], place)]
    BY <1>10 DEF SaveIds, Fill, Advances, At
  <2> DEFINE new == At(upload[r], place)
  <2>1. upload' = [upload EXCEPT ![r] = new] /\ sources' = upload[r].mine /\ UNCHANGED media
    BY <1>10 DEF SaveIds, Fill
  <2>2. IsUpload(new)
        /\ new.old = upload[r].old /\ new.mine = upload[r].mine
    BY <1>0, UploadAt DEF Same
  <2> QED
    BY <1>0, <1>1, <2>1, <2>2
<1>11. ASSUME NEW r \in Uploads, VerifyReady(r) PROVE MediaInv'
  <2> DEFINE new == AtMine(upload[r], IF Complete(upload[r].desired) = sources THEN "done" ELSE "fill", Complete(upload[r].desired))
  <2>1. upload' = [upload EXCEPT ![r] = new] /\ UNCHANGED <<media, sources>>
    BY <1>11 DEF VerifyReady, ReadsOnly, Advances, AtMine
  <2>2. Agrees(Complete(upload[r].desired), media)
    BY <1>0, <1>11, CompleteAgrees DEF VerifyReady
  <2>3. IsUpload(new)
        /\ new.old = upload[r].old /\ new.mine = Complete(upload[r].desired)
    BY <1>0, UploadMine DEF Same
  <2> QED
    BY <1>0, <1>1, <2>1, <2>2, <2>3
<1>12. ASSUME NEW r \in Uploads, VerifyFails(r) \/ Interrupt(r) PROVE MediaInv'
  <2>1. Fails(r) /\ UNCHANGED media
    BY <1>12 DEF VerifyFails, Interrupt
  <2> QED
    BY <1>2, <2>1
<1>13. ASSUME NEW r \in Uploads, Return(r) PROVE MediaInv'
  <2>1. upload' = [upload EXCEPT ![r] = NoRun] /\ UNCHANGED <<media, sources>>
    BY <1>13 DEF Return, ReadsOnly, Advances
  <2>2. IsUpload(NoRun)
        /\ IsFiniteSet(NoRun.old) /\ Agrees(NoRun.mine, media)
    BY EmptyAgrees, FS_EmptySet DEF NoRun, IsUpload
  <2> QED
    BY <1>1, <2>1, <2>2
<1>14. ASSUME NEW list, ChangeImages(list) PROVE MediaInv'
  BY <1>0, <1>14, UploadsStay DEF ChangeImages
<1>15. ASSUME NEW i \in DOMAIN media, Process(i) PROVE MediaInv'
  <2>1. media[i].url = 0 /\ media[i].status # "ready" /\ UNCHANGED <<sources, upload>>
        /\ media[i] = [id |-> media[i].id, source |-> media[i].source, status |-> media[i].status, url |-> media[i].url]
    BY <1>15 DEF Process, Images
  <2>2. /\ Processed(media[i]) = [id |-> media[i].id, source |-> media[i].source, status |-> "ready", url |-> 1]
        /\ Spoilt(media[i]) = [id |-> media[i].id, source |-> media[i].source, status |-> "failed", url |-> media[i].url]
    BY <2>1, ImageSteps DEF IsImage
  <2>a. ASSUME NEW y, media' = With(media, i, y), y = [id |-> media[i].id, source |-> media[i].source, status |-> y.status, url |-> y.url],
               y.url \in {0, 1}, y.url = 0 <=> y.status # "ready"
        PROVE  Images(media') /\ \A s : Agrees(s, media) => Agrees(s, media')
    <3>1. y.source = media[i].source /\ y = [id |-> media[i].id, source |-> y.source, status |-> y.status, url |-> y.url]
      BY <2>a
    <3> QED
      BY <2>1, <2>a, <3>1, ChangedAgrees
  <2>b. media' = With(media, i, Processed(media[i])) \/ media' = With(media, i, Spoilt(media[i]))
    BY <1>15 DEF Process, Processed, Spoilt, With
  <2>3. Images(media') /\ \A s : Agrees(s, media) => Agrees(s, media')
    <3>1. CASE media' = With(media, i, Processed(media[i]))
      BY <2>1, <2>2, <2>a, <3>1
    <3>2. CASE media' = With(media, i, Spoilt(media[i]))
      BY <2>1, <2>2, <2>a, <3>2
    <3> QED
      BY <2>b, <3>1, <3>2
  <2>4. UploadsOK'
    BY <1>0, <2>1, <2>3, UploadsStay
  <2> QED
    BY <2>1, <2>3, <2>4
<1>16. ASSUME NEW i \in DOMAIN media, StaffEdit(i) PROVE MediaInv'
  <2>1. UNCHANGED <<sources, upload>>
        /\ media[i] = [id |-> media[i].id, source |-> media[i].source, status |-> media[i].status, url |-> media[i].url]
    BY <1>16 DEF StaffEdit, Images
  <2>2. CASE Remove({media[i].id})
    <3>1. Images(media') /\ \A s : Agrees(s, media) => Agrees(s, media')
      BY <2>2, RemoveAgrees
    <3>2. UploadsOK'
      BY <1>0, <2>1, <3>1, UploadsStay
    <3> QED
      BY <2>1, <3>1, <3>2
  <2>3. CASE ~Remove({media[i].id})
    <3> DEFINE y == [id |-> media[i].id, source |-> "staff", status |-> "ready", url |-> 2]
    <3>1. /\ media[i].status = "ready" /\ media' = With(media, i, Replacement(media[i]))
          /\ \E k \in DOMAIN sources : sources[k].id = media[i].id /\ sources[k].url = media[i].url
          /\ \A r \in Uploads : \A k \in DOMAIN upload[r].mine :
               upload[r].mine[k].id = media[i].id => upload[r].mine[k].url # 0
      BY <1>16, <2>3 DEF StaffEdit, Replacement, With
    <3>2. media' = With(media, i, y)
      BY <2>1, <3>1, ImageSteps DEF IsImage
    <3>3. \A k \in DOMAIN sources : sources[k].id = media[i].id => sources[k].url # 0
      BY <3>1 DEF Agrees, OneEach, Images
    <3>4. /\ y = [id |-> media[i].id, source |-> y.source, status |-> y.status, url |-> y.url]
          /\ y.url = 2 /\ y.status = "ready" /\ y.source = "staff"
      OBVIOUS
    <3> HIDE DEF y
    <3>5. /\ Images(media')
          /\ \A s : Agrees(s, media) /\ (\A k \in DOMAIN s : s[k].id = media[i].id => s[k].url # 0) => Agrees(s, media')
      BY <3>2, <3>4, ChangedAgrees
    <3>6. UploadsOK'
      BY <1>0, <2>1, <3>1, <3>5, UploadsStay
    <3> QED
      BY <2>1, <3>3, <3>5, <3>6
  <2> QED
    BY <2>2, <2>3
<1>17. bounds.runs \subseteq Uploads
  BY MediaAssumption DEF MediaAssumption
<1> QED
  BY <1>3, <1>4, <1>5, <1>6, <1>7, <1>8, <1>9, <1>10, <1>11, <1>12, <1>13, <1>14, <1>15, <1>16, <1>17
  DEF MediaNext, RunStep

LEMMA MediaInvariant == MediaSpec => [](MediaInv /\ bounds \in MediaBounds)
<1>1. MediaInit => MediaInv /\ bounds \in MediaBounds
  BY MediaStart DEF MediaInit
<1>2. MediaInv /\ bounds \in MediaBounds /\ [MediaNext]_mvars => (MediaInv /\ bounds \in MediaBounds)'
  <2>1. ASSUME MediaInv, bounds \in MediaBounds, MediaNext PROVE (MediaInv /\ bounds \in MediaBounds)'
    <3>1. UNCHANGED bounds
      BY <2>1 DEF MediaNext, RunStep, Start, ReadSame, ReadPending, ReadOther, DeleteAll, DeleteFails, AppendOne, SaveIds,
         VerifyReady, VerifyFails, Fill, Return, Interrupt, ReadsOnly, Advances, Fails, ChangeImages, Process, StaffEdit
    <3> QED
      BY <2>1, <3>1, MediaStep
  <2>2. MediaInv /\ bounds \in MediaBounds /\ UNCHANGED mvars => (MediaInv /\ bounds \in MediaBounds)'
    BY DEF MediaInv, UploadsOK, mvars
  <2> QED
    BY <2>1, <2>2
<1> QED
  BY <1>1, <1>2, PTL DEF MediaSpec

(***************************************************************************)
(* Whatever runs, staff and Shopify do, in any order and however often,    *)
(* the metafield gives no image a source it was not uploaded from.         *)
(***************************************************************************)
THEOREM SourcesStayTrue == MediaSpec => []SourcesAreTrue
<1>1. MediaInv => SourcesAreTrue
  BY DEF MediaInv, Agrees, SourcesAreTrue
<1> QED
  BY <1>1, MediaInvariant, PTL

(***************************************************************************)
(* A run that ends well has seen exactly the images it wants, in their     *)
(* order, uploaded from their sources and processed.                       *)
(***************************************************************************)
THEOREM SuccessWasSeen == MediaSpec => SuccessIsShown
<1>1. ASSUME MediaInv, bounds \in MediaBounds, MediaNext, NEW r \in Uploads,
             upload[r].at \in {"read", "verify"}, upload'[r].at \in {"fill", "done"}
      PROVE  Exact(upload[r].desired)
  <2>1. upload = [q \in Uploads |-> upload[q]] /\ \A q \in Uploads : IsUpload(upload[q]) /\ Agrees(upload[q].mine, media)
    BY <1>1 DEF MediaInv, UploadsOK
  <2>2. ReadSame(r) \/ VerifyReady(r)
    <3>1. ASSUME NEW new, upload' = [upload EXCEPT ![r] = new], new.at \notin {"fill", "done"} PROVE FALSE
      BY <1>1, <2>1, <3>1
    <3>2. ASSUME NEW q \in Uploads, NEW new, upload' = [upload EXCEPT ![q] = new] PROVE q = r
      BY <1>1, <2>1, <3>2
    <3>3. ASSUME NEW q \in Uploads, Fails(q) PROVE FALSE
      <4>1. NoRun.at = "idle" /\ upload' = [upload EXCEPT ![q] = NoRun]
        BY <3>3 DEF Fails, NoRun
      <4> QED
        BY <3>1, <3>2, <4>1
    <3>4. ASSUME NEW q \in Uploads, RunStep(q) PROVE q = r
      BY <3>2, <3>3, <3>4 DEF RunStep, Start, ReadSame, ReadPending, ReadOther, DeleteAll, DeleteFails, AppendOne, SaveIds,
         VerifyReady, VerifyFails, Fill, Return, ReadsOnly, Advances
    <3>5. ASSUME RunStep(r) PROVE ReadSame(r) \/ VerifyReady(r)
      <4>1. ~ReadPending(r)
        <5> SUFFICES ASSUME ReadPending(r) PROVE FALSE
          OBVIOUS
        <5>1. upload' = [upload EXCEPT ![r] = AtMine(upload[r], "verify", sources)]
          BY DEF ReadPending, ReadsOnly, Advances, AtMine
        <5>2. AtMine(upload[r], "verify", sources).at = "verify"
          BY <2>1, UploadMine
        <5> QED
          BY <3>1, <5>1, <5>2
      <4>2. ~ReadOther(r)
        <5> SUFFICES ASSUME ReadOther(r) PROVE FALSE
          OBVIOUS
        <5>1. upload' = [upload EXCEPT ![r] = AtOld(upload[r], "delete", Ids(media))]
          BY DEF ReadOther, ReadsOnly, Advances, AtOld
        <5>2. AtOld(upload[r], "delete", Ids(media)).at = "delete"
          BY <2>1, UploadOld
        <5> QED
          BY <3>1, <5>1, <5>2
      <4>3. ~VerifyFails(r)
        BY <3>3 DEF VerifyFails
      <4> QED
        BY <1>1, <3>5, <4>1, <4>2, <4>3 DEF RunStep, Start, DeleteAll, DeleteFails, AppendOne, SaveIds, Fill, Return
    <3>6. ASSUME NEW q \in Uploads, Interrupt(q) PROVE FALSE
      BY <3>3, <3>6 DEF Interrupt
    <3>7. upload' # upload
      BY <1>1
    <3>8. bounds.runs \subseteq Uploads
      BY <1>1, MediaAssumption DEF MediaAssumption
    <3>9. (\E list \in Lists : ChangeImages(list)) \/ (\E i \in DOMAIN media : Process(i) \/ StaffEdit(i)) => FALSE
      BY <3>7 DEF ChangeImages, Process, StaffEdit
    <3> QED
      BY <1>1, <3>4, <3>5, <3>6, <3>8, <3>9 DEF MediaNext
  <2>3. ASSUME NEW known, Agrees(known, media), Matches(upload[r].desired, known), Ready PROVE Exact(upload[r].desired)
    BY <1>1, <2>3 DEF Agrees, Matches, Ready, Exact, MediaInv, Images
  <2> QED
    BY <1>1, <2>1, <2>2, <2>3 DEF MediaInv, ReadSame, VerifyReady
<1>2. MediaInv /\ bounds \in MediaBounds /\ [MediaNext]_mvars =>
        [\A r \in Uploads : upload[r].at \in {"read", "verify"} /\ upload'[r].at \in {"fill", "done"} => Exact(upload[r].desired)]_mvars
  BY <1>1
<1> QED
  BY <1>2, MediaInvariant, PTL DEF MediaSpec, SuccessIsShown

-----------------------------------------------------------------------------
(***************************************************************************)
(* Products                                                                *)
(***************************************************************************)
IsRow(x) == x = [sku |-> x.sku, kv |-> x.kv, item |-> x.item, option |-> x.option, status |-> x.status, hash |-> x.hash,
                  stale |-> x.stale]
RowList == IsList(rows) /\ \A r \in DOMAIN rows : IsRow(rows[r])

(* How rows change: a free SKU or the product's own row is written, or     *)
(* rows are archived, or a job leaves some behind.                         *)
Staled(s) == [r \in DOMAIN rows |-> [rows[r] EXCEPT !.stale = s[r]]]

RowMoves ==
  \/ rows' = rows
  \/ \E p, i, hash : ~Conflict(p) /\ Upsert(p, i, hash)
  \/ \E rs : rows' = Archived(rs)
  \/ \E s : rows' = Staled(s)

LEMMA StaleAgain ==
  ASSUME NEW w, Again(w)
  PROVE  \E s : rows' = Staled(s)
<1> DEFINE s == [r \in DOMAIN rows |-> rows[r].stale \/ (Wrote(w) /\ r \in NotRenewed(w))]
<1>1. rows' = Staled(s)
  BY DEF Again, Staled
<1> QED
  BY <1>1

(* Rows that are left behind are the same but for that.                    *)
SameRows ==
  /\ IsList(rows') /\ DOMAIN rows' = DOMAIN rows
  /\ \A r \in DOMAIN rows :
       /\ IsRow(rows'[r]) /\ rows'[r].sku = rows[r].sku /\ rows'[r].kv = rows[r].kv /\ rows'[r].item = rows[r].item
       /\ rows'[r].option = rows[r].option /\ rows'[r].status = rows[r].status /\ rows'[r].hash = rows[r].hash

LEMMA StaleRow ==
  ASSUME NEW x, IsRow(x), NEW b, NEW y, y = [x EXCEPT !.stale = b]
  PROVE  /\ IsRow(y) /\ y.sku = x.sku /\ y.kv = x.kv /\ y.item = x.item
         /\ y.option = x.option /\ y.status = x.status /\ y.hash = x.hash
<1>1. y = [sku |-> x.sku, kv |-> x.kv, item |-> x.item, option |-> x.option, status |-> x.status, hash |-> x.hash, stale |-> b]
  BY DEF IsRow
<1> QED
  BY <1>1 DEF IsRow

LEMMA StaleRows == ASSUME RowList, NEW s, rows' = Staled(s) PROVE SameRows
<1>1. rows' = [r \in 1 .. Len(rows) |-> rows'[r]] /\ DOMAIN rows = 1 .. Len(rows) /\ Len(rows) \in Nat
  BY DEF Staled, RowList, IsList
<1>2. IsList(rows') /\ DOMAIN rows' = DOMAIN rows
  BY <1>1, ListBy
<1>3. ASSUME NEW r \in DOMAIN rows
      PROVE  /\ IsRow(rows'[r]) /\ rows'[r].sku = rows[r].sku /\ rows'[r].kv = rows[r].kv /\ rows'[r].item = rows[r].item
             /\ rows'[r].option = rows[r].option /\ rows'[r].status = rows[r].status /\ rows'[r].hash = rows[r].hash
  <2>1. IsRow(rows[r]) /\ rows'[r] = [rows[r] EXCEPT !.stale = s[r]]
    BY DEF Staled, RowList
  <2> PICK x, b, y : x = rows[r] /\ b = s[r] /\ y = rows'[r] /\ IsRow(x) /\ y = [x EXCEPT !.stale = b]
    BY <2>1
  <2>2. IsRow(y) /\ y.sku = x.sku /\ y.kv = x.kv /\ y.item = x.item /\ y.option = x.option /\ y.status = x.status /\ y.hash = x.hash
    BY StaleRow
  <2> QED
    BY <2>2
<1> QED
  BY <1>2, <1>3 DEF SameRows

LEMMA RowSteps == CatalogNext => RowMoves
<1> SUFFICES ASSUME CatalogNext PROVE RowMoves
  OBVIOUS
<1>1. ASSUME NEW w, Work(w) PROVE RowMoves
  <2>1. Checkpoint(w) => RowMoves
    BY DEF Checkpoint, RowMoves
  <2>2. Save(w) => RowMoves
    BY DEF Save, RowMoves
  <2>3. Drop(w) \/ Forget(w) => RowMoves
    BY DEF Drop, Forget, RowMoves
  <2>4. (\/ CallRefused(w) \/ FetchFails(w) \/ Fetch(w) \/ PlanRefused(w) \/ PlanSkips(w) \/ PlanWrites(w)
         \/ Create(w) \/ SetNew(w) \/ SetGroup(w) \/ Collapse(w) \/ WriteProduct(w) \/ WriteVariant(w)
         \/ Checkpointed(w) \/ CheckpointRefused(w) \/ Mark(w) \/ Media(w)
         \/ SaveRefused(w) \/ Stock(w) \/ ReferenceDone(w) \/ Retire(w)) => rows' = rows
    BY DEF CallRefused, FetchFails, Fetch, PlanRefused, PlanSkips, PlanWrites, Create, SetNew, SetGroup, Collapse, WriteProduct,
       WriteVariant, Checkpointed, CheckpointRefused, Mark, Media, SaveRefused, Stock, ReferenceDone, Retire, Refuse, Put, ShopOnly
  <2>5. (\E p \in Products : ReferenceUnknown(w, p) \/ ReferenceUnclear(w, p) \/ Reference(w, p)) => rows' = rows
    BY DEF ReferenceUnknown, ReferenceUnclear, Reference, Refuse, ShopOnly
  <2>6. rows' = rows => RowMoves
    BY DEF RowMoves
  <2> QED
    BY <1>1, <2>1, <2>2, <2>3, <2>4, <2>5, <2>6 DEF Work
<1>2. ASSUME NEW w, Fail(w) \/ Die(w) \/ CreateAgain(w) \/ \E j \in todo : Take(w, j) PROVE RowMoves
  <2>1. Again(w) => RowMoves
    BY StaleAgain DEF RowMoves
  <2> QED
    BY <1>2, <2>1 DEF Fail, Die, CreateAgain, Take, RowMoves
<1>3. ASSUME NEW p, Edit(p) \/ Withdraw(p) \/ Offer(p) \/ Delete(p) \/ MapperReads(p) \/ EnsureReads(p) PROVE RowMoves
  BY <1>3 DEF Edit, Withdraw, Offer, Delete, MapperReads, EnsureReads, Becomes, WillMap, RowMoves
<1>4. MapperWrites => RowMoves
  BY DEF MapperWrites, RowMoves
<1> QED
  BY <1>1, <1>2, <1>3, <1>4 DEF CatalogNext, CatalogStep

(* The rows that an upsert leaves.                                         *)
NewRow(p, i, hash) == [sku |-> Sku[p], kv |-> p, item |-> i, option |-> listings[i].options,
                       status |-> IF hash = Nothing THEN "mapped" ELSE "synced", hash |-> hash, stale |-> FALSE]

LEMMA NewRowFields ==
  ASSUME NEW p, NEW i, NEW hash
  PROVE  /\ IsRow(NewRow(p, i, hash)) /\ NewRow(p, i, hash).sku = Sku[p] /\ NewRow(p, i, hash).kv = p
         /\ NewRow(p, i, hash).item = i /\ NewRow(p, i, hash).option = listings[i].options /\ NewRow(p, i, hash).hash = hash
         /\ NewRow(p, i, hash).status \in {"mapped", "synced"} /\ (hash = Nothing => NewRow(p, i, hash).status = "mapped")
  BY DEF NewRow, IsRow

LEMMA UpsertRows ==
  ASSUME IsList(rows), NEW p, NEW i, NEW hash, Upsert(p, i, hash)
  PROVE  /\ IsList(rows') /\ DOMAIN rows \subseteq DOMAIN rows'
         /\ \A r \in DOMAIN rows' :
              IF r \in DOMAIN rows /\ r \notin ActiveRows(Sku[p]) THEN rows'[r] = rows[r] ELSE rows'[r] = NewRow(p, i, hash)
         /\ \E r \in DOMAIN rows' : rows'[r] = NewRow(p, i, hash)
         /\ ActiveRows(Sku[p]) # {} => DOMAIN rows' = DOMAIN rows
         /\ ActiveRows(Sku[p]) = {} => DOMAIN rows' = DOMAIN rows \cup {Len(rows) + 1} /\ Len(rows) + 1 \notin DOMAIN rows
<1> DEFINE new == NewRow(p, i, hash)
<1>1. DOMAIN rows = 1 .. Len(rows) /\ Len(rows) \in Nat
  BY DEF IsList
<1>2. rows' = IF ActiveRows(Sku[p]) = {} THEN Append(rows, new)
              ELSE [r \in DOMAIN rows |-> IF r \in ActiveRows(Sku[p]) THEN new ELSE rows[r]]
  BY DEF Upsert, NewRow
<1> HIDE DEF new
<1>3. CASE ActiveRows(Sku[p]) = {}
  <2>1. IsList(rows') /\ Len(rows') = Len(rows) + 1 /\ rows'[Len(rows) + 1] = new /\ \A r \in 1 .. Len(rows) : rows'[r] = rows[r]
    BY <1>2, <1>3, ListAppend
  <2>2. DOMAIN rows' = 1 .. Len(rows) + 1
    BY <2>1 DEF IsList
  <2>3. DOMAIN rows' = DOMAIN rows \cup {Len(rows) + 1} /\ Len(rows) + 1 \notin DOMAIN rows
    BY <1>1, <2>2
  <2> QED
    BY <1>1, <1>3, <2>1, <2>3 DEF new
<1>4. CASE ActiveRows(Sku[p]) # {}
  <2>1. rows' = [r \in 1 .. Len(rows) |-> rows'[r]] /\ DOMAIN rows' = DOMAIN rows
    BY <1>1, <1>2, <1>4
  <2>2. IsList(rows')
    BY <1>1, <2>1, ListBy
  <2>3. \A r \in DOMAIN rows' : IF r \in ActiveRows(Sku[p]) THEN rows'[r] = new ELSE rows'[r] = rows[r]
    BY <1>2, <1>4
  <2>4. ActiveRows(Sku[p]) \subseteq DOMAIN rows
    BY DEF ActiveRows
  <2> QED
    BY <1>4, <2>1, <2>2, <2>3, <2>4 DEF new
<1> QED
  BY <1>3, <1>4

ArchivedOf(x) == [x EXCEPT !.status = "archived"]

LEMMA ArchivedRow ==
  ASSUME NEW x, IsRow(x)
  PROVE  /\ IsRow(ArchivedOf(x)) /\ ArchivedOf(x).status = "archived" /\ ArchivedOf(x).kv = x.kv
         /\ ArchivedOf(x).sku = x.sku /\ ArchivedOf(x).item = x.item
<1>1. ASSUME NEW y, y = ArchivedOf(x)
      PROVE  y = [sku |-> x.sku, kv |-> x.kv, item |-> x.item, option |-> x.option, status |-> "archived", hash |-> x.hash,
                  stale |-> x.stale]
  BY <1>1 DEF ArchivedOf, IsRow
<1> QED
  BY <1>1 DEF IsRow

LEMMA ArchivedRows ==
  ASSUME IsList(rows), NEW rs, rows' = Archived(rs)
  PROVE  /\ IsList(rows') /\ DOMAIN rows' = DOMAIN rows
         /\ \A r \in DOMAIN rows : rows'[r] = IF r \in rs THEN ArchivedOf(rows[r]) ELSE rows[r]
<1>1. rows' = [r \in 1 .. Len(rows) |-> rows'[r]] /\ DOMAIN rows = 1 .. Len(rows) /\ Len(rows) \in Nat
  BY DEF Archived, IsList
<1> QED
  BY <1>1, ListBy DEF Archived, ArchivedOf

LEMMA RowsAreListed == CatalogSpec => []RowList
<1>1. CatalogInit => RowList
  BY ListEmpty DEF CatalogInit, RowList
<1>2. RowList /\ [CatalogNext]_cvars => RowList'
  <2> SUFFICES ASSUME RowList, CatalogNext \/ UNCHANGED cvars PROVE RowList'
    OBVIOUS
  <2>1. CASE CatalogNext
    <3>1. ASSUME NEW p, NEW i, NEW hash, Upsert(p, i, hash) PROVE RowList'
      BY <3>1, UpsertRows, NewRowFields DEF RowList
    <3>2. ASSUME NEW rs, rows' = Archived(rs) PROVE RowList'
      BY <3>2, ArchivedRows, ArchivedRow DEF RowList
    <3>3. ASSUME NEW s, rows' = Staled(s) PROVE RowList'
      BY <3>3, StaleRows DEF RowList, SameRows
    <3> QED
      BY <2>1, <3>1, <3>2, <3>3, RowSteps DEF RowMoves, RowList
  <2>2. CASE UNCHANGED cvars
    BY <2>2 DEF cvars, cstate, RowList
  <2> QED
    BY <2>1, <2>2
<1> QED
  BY <1>1, <1>2, PTL DEF CatalogSpec

(***************************************************************************)
(* However many workers and mappers overlap, and whatever fails, an active *)
(* mapping never passes from one KiotViet product to another.              *)
(***************************************************************************)
THEOREM OwnersAreKept == CatalogSpec => OwnerKept
<1>1. ASSUME RowList, CatalogNext, NEW r \in DOMAIN rows, IsActive(r)
      PROVE  rows'[r].kv = rows[r].kv /\ rows'[r].sku = rows[r].sku
  <2>1. ASSUME NEW p, NEW i, NEW hash, ~Conflict(p), Upsert(p, i, hash) PROVE rows'[r].kv = rows[r].kv /\ rows'[r].sku = rows[r].sku
    <3>1. r \in ActiveRows(Sku[p]) => rows[r].kv = p /\ rows[r].sku = Sku[p]
      BY <2>1 DEF Conflict, ActiveRows
    <3> QED
      BY <1>1, <2>1, <3>1, UpsertRows, NewRowFields DEF RowList
  <2>2. ASSUME NEW rs, rows' = Archived(rs) PROVE rows'[r].kv = rows[r].kv /\ rows'[r].sku = rows[r].sku
    BY <1>1, <2>2, ArchivedRows, ArchivedRow DEF RowList
  <2>3. ASSUME NEW s, rows' = Staled(s) PROVE rows'[r].kv = rows[r].kv /\ rows'[r].sku = rows[r].sku
    BY <1>1, <2>3, StaleRows DEF SameRows
  <2> QED
    BY <1>1, <2>1, <2>2, <2>3, RowSteps DEF RowMoves
<1>2. RowList /\ [CatalogNext]_cvars =>
        [\A r \in DOMAIN rows : IsActive(r) => rows'[r].kv = rows[r].kv /\ rows'[r].sku = rows[r].sku]_cvars
  BY <1>1
<1> QED
  BY <1>2, RowsAreListed, PTL DEF CatalogSpec, OwnerKept

(***************************************************************************)
(* No product is forgotten: what one worker, which also makes the          *)
(* mappings, has read and done at each step of a job.                      *)
(***************************************************************************)
IsListing(x) ==
  x = [state |-> x.state, options |-> x.options, skus |-> x.skus, product |-> x.product, variant |-> x.variant,
       marker |-> x.marker, lost |-> x.lost, half |-> x.half]
IsWorker(x) ==
  x = [pc |-> x.pc, job |-> x.job, op |-> x.op, view |-> x.view, all |-> x.all, item |-> x.item, left |-> x.left,
       drop |-> x.drop, refs |-> x.refs]

(* One active row per SKU; a finished product is there.                    *)
RowsOK ==
  /\ IsList(rows)
  /\ \A r \in DOMAIN rows : /\ IsRow(rows[r])
                            /\ rows[r].kv \in Products /\ rows[r].sku = Sku[rows[r].kv]
                            /\ rows[r].item \in DOMAIN listings
                            /\ rows[r].status \in {"mapped", "synced", "archived"}
                            /\ rows[r].status = "synced" => Alive(rows[r].item)
  /\ \A r, q \in DOMAIN rows : IsActive(r) /\ IsActive(q) /\ rows[r].sku = rows[q].sku => r = q

ListingsOK == IsList(listings) /\ \A i \in DOMAIN listings : IsListing(listings[i]) /\ listings[i].lost \in BOOLEAN

Blanks(i) == listings[i].skus = {Blank}
Lone(i) == listings[i].state = "live" /\ ~listings[i].lost /\ ~listings[i].half /\ Blanks(i)
RowFor(i) == \E r \in DOMAIN rows : IsActive(r) /\ rows[r].item = i

Early == {"idle", "fetch", "plan", "stock", "create"}
Writing == {"create", "set", "collapse", "product", "variant", "checkpoint", "mark", "media", "save"}
Located == {"collapse", "product", "variant", "checkpoint", "mark", "media", "retire", "forget"}

(* What a job has read and has done, at each of its steps.                 *)
Plans(w) ==
  LET at == worker[w].pc IN
  /\ at \in Early \cup Writing \cup Located \cup {"reference"}
  /\ This(w) \in 0 .. Len(listings)
  /\ at \in Early => This(w) = 0
  /\ at \in Located => This(w) # 0
  /\ at \in Writing \cup {"plan", "stock"} =>
       Written(w) # {} /\ Written(w) \subseteq Products /\ Written(w) \cap worker[w].drop = {}
  /\ at = "plan" => worker[w].all = Written(w) \cup worker[w].drop
  /\ at \in Writing => worker[w].left \subseteq Written(w) /\ (at = "save" /\ This(w) = 0 => worker[w].left = {})
  /\ at = "create" => worker[w].op = "create" /\ worker[w].left = Written(w)
  /\ at = "set" => worker[w].op = "set"
  /\ at = "collapse" => worker[w].op = "collapse"
  /\ at \in {"product", "variant"} => worker[w].op \in {"create", "update", "collapse"}

(* The Shopify product of a job before and after it has a SKU.             *)
Writes(w) ==
  LET at == worker[w].pc
      i == This(w)
  IN i # 0 =>
     /\ at \in {"product", "variant", "checkpoint", "mark", "media", "save"} => Alive(i)
     /\ at \in {"mark", "media", "save"} \/ (at = "checkpoint" /\ worker[w].op # "create") => ~Blanks(i)
     /\ worker[w].op = "create" /\ (at \in {"product", "variant"} \/ (at = "checkpoint" /\ worker[w].left = {})) => RowFor(i)
     /\ at \in {"set", "collapse", "retire"} \/ (at = "product" /\ worker[w].op = "update") => (Blanks(i) => RowFor(i))
     /\ at = "forget" => listings[i].state # "live"
     /\ at = "reference" => ~Lone(i)
     /\ at = "checkpoint" /\ worker[w].op \in {"create", "new"} =>
          \A r \in DOMAIN rows : IsActive(r) /\ rows[r].item = i => rows[r].status = "mapped"

(* The rows a job replaces or archives lead to its own Shopify product.    *)
Skips(w) == worker[w].pc = "stock" \/ (worker[w].pc = "save" /\ This(w) = 0)
Covers(w) ==
  /\ worker[w].pc \in Writing /\ ~Skips(w) =>
       \A r \in DOMAIN rows : IsActive(r) /\ rows[r].kv \in Written(w) \cup worker[w].drop =>
         rows[r].item = This(w) \/ ~Lone(rows[r].item)
  /\ Skips(w) =>
       \A r \in DOMAIN rows : IsActive(r) /\ rows[r].kv \in worker[w].drop =>
         \/ ~Lone(rows[r].item)
         \/ \E q \in DOMAIN rows : IsActive(q) /\ rows[q].kv \notin worker[w].drop /\ rows[q].item = rows[r].item

(* Products that stand alone.                                              *)
Standalone(w) ==
  LET at == worker[w].pc IN
  /\ at \in Writing \cup {"plan", "stock"} => ~Several(Written(w)) /\ worker[w].drop = {}
  /\ at \notin {"set", "collapse", "mark"}
  /\ at \in {"product", "variant", "checkpoint"} => worker[w].op \in {"create", "update"}
  /\ at \in Writing /\ This(w) # 0 =>
       \A r \in DOMAIN rows : IsActive(r) /\ rows[r].item = This(w) => rows[r].kv \in Written(w)
  /\ at \in {"checkpoint", "media", "save"} /\ This(w) # 0 => listings[This(w)].skus \subseteq Skus(w) \cup {Blank}
StandaloneRows ==
  /\ \A i \in DOMAIN listings : listings[i].options = FALSE
  /\ \A r, q \in DOMAIN rows : IsActive(r) /\ IsActive(q) /\ rows[r].item = rows[q].item => r = q
  /\ \A r \in DOMAIN rows : IsActive(r) =>
       /\ listings[rows[r].item].skus \subseteq {rows[r].sku, Blank}
       /\ Blanks(rows[r].item) => Pending(r) /\ rows[r].option = listings[rows[r].item].options

WorkersOK ==
  /\ worker = [w \in Workers |-> worker[w]]
  /\ \A w \in Workers : /\ IsWorker(worker[w])
                        /\ worker[w].pc = "idle" => worker[w] = Free
                        /\ worker[w].pc # "idle" => w \in scene.workers

JobsOK == /\ \A j \in todo : j[2] \in Products
          /\ \A w \in Workers : worker[w].pc # "idle" => worker[w].job[2] \in Products

CatalogInv ==
  /\ scene \in Scenarios /\ mapper.pc = "idle"
  /\ RowsOK /\ ListingsOK /\ WorkersOK /\ JobsOK
  /\ \A w \in Workers : Plans(w) /\ Writes(w) /\ Covers(w)
  /\ ~scene.family => StandaloneRows /\ \A w \in Workers : Standalone(w)
  /\ \A i \in DOMAIN listings : Lone(i) => Held(i)

LEMMA ListOne == ASSUME NEW x PROVE IsList(<<x>>) /\ DOMAIN <<x>> = {1} /\ <<x>>[1] = x
  <1>1. <<x>> \in Seq({x}) /\ Len(<<x>>) = 1 /\ <<x>>[1] = x
    OBVIOUS
  <1>2. IsList(<<x>>)
    BY <1>1, SeqIsList
  <1> QED
    BY <1>1, <1>2 DEF IsList

LEMMA ItemIsListing == ASSUME NEW skus, NEW options, NEW content PROVE IsListing(Item(skus, options, content))
  BY DEF Item, IsListing

LEMMA ItemRecord ==
  ASSUME NEW skus, NEW options, NEW content
  PROVE  /\ Item(skus, options, content).state = "live"
         /\ Item(skus, options, content).options = options /\ Item(skus, options, content).skus = skus
  BY DEF Item

LEMMA ItemIsKept == ASSUME NEW skus, NEW options, NEW content PROVE Item(skus, options, content).lost = FALSE
  BY DEF Item

LEMMA CatalogStart == CatalogInit /\ OneWriter => CatalogInv
<1> SUFFICES ASSUME CatalogInit, OneWriter PROVE CatalogInv
  OBVIOUS
<1> USE DEF CatalogInit
<1>1. scene \in Scenarios /\ Products = DOMAIN scene.sku /\ scene.live \subseteq Products /\ \A p \in Products : Sku[p] # Blank
  BY ProductsAssumption DEF ProductsAssumption, Sku
<1>2. RowsOK
  BY ListEmpty DEF RowsOK
<1>f. ASSUME scene.unmapped PROVE ListingsOK /\ \A i \in DOMAIN listings : listings[i].options = scene.family /\ ~Blanks(i)
  <2> DEFINE first == Item({Sku[p] : p \in scene.live}, scene.family, Nothing)
  <2>1. listings = <<first>>
    BY <1>f
  <2>2. IsListing(first) /\ first.options = scene.family /\ first.skus = {Sku[p] : p \in scene.live} /\ first.lost = FALSE
    <3>1. IsListing(first)
      BY ItemIsListing
    <3>2. first.options = scene.family /\ first.skus = {Sku[p] : p \in scene.live}
      BY ItemRecord
    <3>3. first.lost = FALSE
      BY ItemIsKept
    <3> QED
      BY <3>1, <3>2, <3>3
  <2>3. IsList(listings) /\ DOMAIN listings = {1} /\ listings[1] = first
    <3> HIDE DEF first
    <3> QED
      BY <2>1, ListOne
  <2>4. {Sku[p] : p \in scene.live} # {Blank}
    BY <1>1
  <2> HIDE DEF first
  <2> QED
    BY <2>2, <2>3, <2>4 DEF ListingsOK, Blanks
<1>e. ASSUME ~scene.unmapped PROVE ListingsOK /\ \A i \in DOMAIN listings : listings[i].options = scene.family /\ ~Blanks(i)
  BY <1>e, ListEmpty DEF ListingsOK
<1>3. ListingsOK
  BY <1>e, <1>f
<1>4. \A i \in DOMAIN listings : listings[i].options = scene.family /\ ~Blanks(i)
  BY <1>e, <1>f
<1>5. WorkersOK
  BY DEF WorkersOK, IsWorker, Free
<1>6. ASSUME NEW w \in Workers PROVE Plans(w) /\ Writes(w) /\ Covers(w) /\ Standalone(w)
  <2>1. worker[w] = Free /\ worker[w].pc = "idle" /\ worker[w].item = 0
    BY DEF Free
  <2>2. Len(listings) \in Nat
    BY <1>3 DEF ListingsOK, IsList
  <2> QED
    BY <2>1, <2>2 DEF Plans, Writes, Covers, Standalone, This, Early, Located, Writing, Skips
<1>7. ~scene.family => StandaloneRows
  BY <1>4, ListEmpty DEF StandaloneRows
<1>8. mapper.pc = "idle"
  BY DEF NoOne
<1>9. JobsOK
  BY <1>1 DEF JobsOK, Free
<1> QED
  BY <1>1, <1>2, <1>3, <1>4, <1>5, <1>6, <1>7, <1>8, <1>9 DEF CatalogInv, Lone

(* What one step may do to the workers.                                    *)
OnlyMoves(w) ==
  /\ worker' = [v \in Workers |-> worker'[v]]
  /\ \A v \in Workers \ {w} : worker'[v] = worker[v]
  /\ IsWorker(worker'[w])
  /\ worker'[w].pc = "idle" => worker'[w] = Free
  /\ worker'[w].pc # "idle" => worker'[w].job[2] \in Products

LEMMA AtRest ==
  ASSUME NEW v, worker'[v] = Free, ListingsOK'
  PROVE  Plans(v)' /\ Writes(v)' /\ Covers(v)' /\ Standalone(v)'
<1>1. worker'[v].pc = "idle" /\ worker'[v].item = 0
  BY DEF Free
<1>2. Len(listings') \in Nat
  BY DEF ListingsOK, IsList
<1> QED
  BY <1>1, <1>2 DEF Plans, Writes, Covers, Standalone, This, Early, Located, Writing, Skips

LEMMA TheWorker ==
  ASSUME CatalogInv, OneWriter, NEW w \in scene.workers
  PROVE  w \in Workers /\ \A v \in Workers \ {w} : worker[v] = Free
<1>1. scene.workers \subseteq Workers
  BY ProductsAssumption DEF ProductsAssumption, CatalogInv
<1>2. \A v \in scene.workers : v = w
  BY DEF OneWriter, Several
<1> QED
  BY <1>1, <1>2 DEF CatalogInv, WorkersOK

LEMMA JobMoves ==
  ASSUME CatalogInv, OneWriter, NEW w \in scene.workers, OnlyMoves(w), scene' = scene, mapper' = mapper,
         \A j \in todo' : j[2] \in Products,
         RowsOK', ListingsOK', Plans(w)', Writes(w)', Covers(w)',
         ~scene.family => StandaloneRows' /\ Standalone(w)',
         \A i \in DOMAIN listings' : Lone(i)' => This(w)' = i \/ RowFor(i)'
  PROVE  CatalogInv'
<1>1. w \in Workers /\ \A v \in Workers \ {w} : worker'[v] = Free
  BY TheWorker DEF OnlyMoves
<1>2. ASSUME NEW v \in Workers \ {w} PROVE Plans(v)' /\ Writes(v)' /\ Covers(v)' /\ Standalone(v)'
  BY <1>1, AtRest
<1>3. WorkersOK'
  BY <1>1 DEF WorkersOK, OnlyMoves, CatalogInv, Free, IsWorker
<1>4. JobsOK'
  BY <1>1 DEF JobsOK, OnlyMoves, Free
<1>5. \A i \in DOMAIN listings' : Lone(i)' => Held(i)'
  BY <1>1 DEF Held, RowFor
<1> QED
  BY <1>1, <1>2, <1>3, <1>4, <1>5 DEF CatalogInv

LEMMA Turn ==
  ASSUME CatalogInv, OneWriter, NEW w \in scene.workers, NEW y, Now(w, y), IsWorker(y),
         y.pc = "idle" => y = Free, y.pc # "idle" => y.job[2] \in Products
  PROVE  OnlyMoves(w) /\ worker'[w] = y
  BY TheWorker DEF OnlyMoves, Now, CatalogInv, WorkersOK

(* Steps that write nothing.                                               *)
LEMMA Standing ==
  ASSUME CatalogInv, OneWriter, NEW w \in scene.workers, OnlyMoves(w), scene' = scene, mapper' = mapper,
         \A j \in todo' : j[2] \in Products,
         rows' = rows, listings' = listings, Plans(w)', Writes(w)', Covers(w)',
         ~scene.family => Standalone(w)',
         This(w)' = This(w) \/ This(w) = 0 \/ ~Lone(This(w)) \/ RowFor(This(w))
  PROVE  CatalogInv'
<1>1. RowsOK' /\ ListingsOK'
  BY DEF CatalogInv, RowsOK, ListingsOK, IsActive, Alive, Sku
<1>2. ~scene.family => StandaloneRows'
  BY DEF CatalogInv, StandaloneRows, IsActive, Blanks, Pending
<1>3. ASSUME NEW i \in DOMAIN listings, Lone(i) PROVE i # 0 /\ (This(w) = i \/ RowFor(i))
  <2>1. i # 0
    BY DEF CatalogInv, ListingsOK, IsList
  <2>2. Held(i)
    BY <1>3 DEF CatalogInv
  <2> QED
    BY <2>1, <2>2, TheWorker DEF Held, RowFor, This, Free
<1>4. \A i \in DOMAIN listings' : Lone(i)' => This(w)' = i \/ RowFor(i)'
  <2> SUFFICES ASSUME NEW i \in DOMAIN listings, Lone(i)' PROVE This(w)' = i \/ RowFor(i)'
    OBVIOUS
  <2>1. Lone(i) /\ (RowFor(i) => RowFor(i)')
    BY DEF Lone, Blanks, RowFor, IsActive
  <2> QED
    BY <1>3, <2>1
<1> QED
  BY <1>1, <1>2, <1>4, JobMoves

(* A job may end when its product has a SKU, a row or is gone.             *)
Leavable(w) == This(w) = 0 \/ ~Lone(This(w)) \/ RowFor(This(w))

(* Something was written, or collapsed, and more is to be.                 *)
Unfinished(w) == Alive(This(w)) /\ (worker[w].pc = "variant" \/ worker[w].op # "update")

LEMMA Leaving ==
  ASSUME CatalogInv, NEW w \in Workers,
         worker[w].pc \in {"product", "variant"} => worker[w].op = "create" \/ RowFor(This(w)) \/ ~Unfinished(w),
         worker[w].pc = "checkpoint" => worker[w].op # "create" \/ worker[w].left = {}
  PROVE  Leavable(w)
<1>1. Plans(w) /\ Writes(w)
  BY DEF CatalogInv
<1> SUFFICES ASSUME This(w) # 0, Lone(This(w)) PROVE RowFor(This(w))
  BY DEF Leavable
<1>2. worker[w].pc \in {"set", "collapse", "product", "variant", "checkpoint", "mark", "media", "save", "retire", "forget", "reference"}
  BY <1>1 DEF Plans, Early, Writing, Located
<1> QED
  BY <1>1, <1>2 DEF Writes, Lone, Alive, Unfinished

LEMMA FreeIsIdle == IsWorker(Free) /\ Free.pc = "idle" /\ Free.item = 0
  BY DEF Free, IsWorker

LEMMA Ended ==
  ASSUME CatalogInv, OneWriter, NEW w \in scene.workers, End(w), scene' = scene, mapper' = mapper,
         \A j \in todo' : j[2] \in Products,
         RowsOK', ListingsOK', ~scene.family => StandaloneRows',
         \A i \in DOMAIN listings' : Lone(i)' => RowFor(i)'
  PROVE  CatalogInv'
<1>1. OnlyMoves(w) /\ worker'[w] = Free
  BY FreeIsIdle, Turn DEF End
<1> QED
  BY <1>1, AtRest, JobMoves

LEMMA Stopped ==
  ASSUME CatalogInv, OneWriter, NEW w \in scene.workers, End(w), scene' = scene, mapper' = mapper,
         \A j \in todo' : j[2] \in Products,
         rows' = rows, listings' = listings, Leavable(w)
  PROVE  CatalogInv'
<1>1. OnlyMoves(w) /\ worker'[w] = Free
  BY FreeIsIdle, Turn DEF End
<1>2. ListingsOK'
  BY DEF CatalogInv, ListingsOK
<1> QED
  BY <1>1, <1>2, AtRest, Standing DEF Leavable

LEMMA JobFacts ==
  ASSUME CatalogInv, OneWriter, NEW w \in scene.workers
  PROVE  /\ w \in Workers /\ IsWorker(worker[w]) /\ RowsOK /\ ListingsOK /\ Plans(w) /\ Writes(w) /\ Covers(w)
         /\ ~scene.family => StandaloneRows /\ Standalone(w)
         /\ worker[w].pc # "idle" => worker[w].job[2] \in Products
         /\ worker[w].pc = "idle" => worker[w] = Free
         /\ \A j \in todo : j[2] \in Products
  BY TheWorker DEF CatalogInv, WorkersOK, JobsOK

LEMMA ListingPlaces ==
  ASSUME CatalogInv
  PROVE  0 \in 0 .. Len(listings) /\ \A i \in DOMAIN listings : i # 0 /\ i \in 0 .. Len(listings)
  BY DEF CatalogInv, ListingsOK, IsList

LEMMA Takes == ASSUME CatalogInv, OneWriter, NEW w \in scene.workers, NEW j, Take(w, j), scene' = scene PROVE CatalogInv'
<1> PICK y : /\ Now(w, y)
             /\ y = IF j[1] = "sync" THEN [Free EXCEPT !.pc = "fetch", !.job = j]
                     ELSE [Free EXCEPT !.pc = "reference", !.job = j, !.refs = {j[2]}]
  BY DEF Take
<1>1. y = [pc |-> y.pc, job |-> j, op |-> Nothing, view |-> Nothing, all |-> {}, item |-> 0, left |-> {}, drop |-> {},
           refs |-> y.refs] /\ y.pc \in {"fetch", "reference"}
  BY DEF Free
<1>2. IsWorker(y) /\ y.job = j /\ y.item = 0 /\ y.pc # "idle"
  BY <1>1 DEF IsWorker
<1>3. j[2] \in Products /\ \A k \in todo' : k[2] \in Products
  BY JobFacts DEF Take
<1>4. OnlyMoves(w) /\ worker'[w] = y
  BY <1>2, <1>3, Turn
<1>5. rows' = rows /\ listings' = listings /\ mapper' = mapper /\ Len(listings) \in Nat /\ This(w) = 0
  BY JobFacts DEF Take, Outside, ListingsOK, IsList, This, Free
<1>6. Plans(w)' /\ Writes(w)' /\ Covers(w)' /\ Standalone(w)'
  BY <1>1, <1>2, <1>4, <1>5 DEF Plans, Writes, Covers, Standalone, This, Early, Located, Writing, Skips
<1> QED
  BY <1>3, <1>4, <1>5, <1>6, Standing

(* Steps that leave a job where it was but for its place.                  *)
LEMMA Places ==
  ASSUME CatalogInv, OneWriter, NEW w \in scene.workers, NEW pc, pc # "idle", worker[w].pc # "idle", GoTo(w, pc)
  PROVE  /\ OnlyMoves(w) /\ worker'[w].pc = pc /\ worker'[w].job = worker[w].job /\ worker'[w].op = worker[w].op
         /\ worker'[w].view = worker[w].view /\ worker'[w].all = worker[w].all /\ worker'[w].item = worker[w].item
         /\ worker'[w].left = worker[w].left /\ worker'[w].drop = worker[w].drop /\ worker'[w].refs = worker[w].refs
<1> PICK u, y : u = worker[w] /\ y = [u EXCEPT !.pc = pc] /\ Now(w, y)
  BY DEF GoTo
<1>1. IsWorker(u) /\ u.job[2] \in Products
  BY JobFacts
<1>2. y = [pc |-> pc, job |-> u.job, op |-> u.op, view |-> u.view, all |-> u.all, item |-> u.item, left |-> u.left,
           drop |-> u.drop, refs |-> u.refs]
  BY <1>1 DEF IsWorker
<1>3. IsWorker(y) /\ y.pc # "idle" /\ y.job[2] \in Products
  BY <1>1, <1>2 DEF IsWorker
<1>4. OnlyMoves(w) /\ worker'[w] = y
  BY <1>3, Turn
<1> QED
  BY <1>2, <1>4

PlacedWith(u, pc, left) == [u EXCEPT !.pc = pc, !.left = left]

LEMMA PlacesLeft ==
  ASSUME CatalogInv, OneWriter, NEW w \in scene.workers, NEW pc, NEW left, pc # "idle", worker[w].pc # "idle",
         Now(w, PlacedWith(worker[w], pc, left))
  PROVE  /\ OnlyMoves(w) /\ worker'[w].pc = pc /\ worker'[w].job = worker[w].job /\ worker'[w].op = worker[w].op
         /\ worker'[w].view = worker[w].view /\ worker'[w].all = worker[w].all /\ worker'[w].item = worker[w].item
         /\ worker'[w].left = left /\ worker'[w].drop = worker[w].drop /\ worker'[w].refs = worker[w].refs
<1> PICK u, y : u = worker[w] /\ y = [u EXCEPT !.pc = pc, !.left = left] /\ Now(w, y)
  BY DEF PlacedWith
<1>1. IsWorker(u) /\ u.job[2] \in Products
  BY JobFacts
<1>2. y = [pc |-> pc, job |-> u.job, op |-> u.op, view |-> u.view, all |-> u.all, item |-> u.item, left |-> left,
           drop |-> u.drop, refs |-> u.refs]
  BY <1>1 DEF IsWorker
<1>3. IsWorker(y) /\ y.pc # "idle" /\ y.job[2] \in Products
  BY <1>1, <1>2 DEF IsWorker
<1>4. OnlyMoves(w) /\ worker'[w] = y
  BY <1>3, Turn
<1> QED
  BY <1>2, <1>4

LEMMA FetchKeeps == ASSUME CatalogInv, OneWriter, NEW w \in scene.workers, Fetch(w), scene' = scene PROVE CatalogInv'
<1> DEFINE p == worker[w].job[2]
           family == IF scene.family THEN {q \in Products : catalog[q].is \in {"sold", "inactive"}} ELSE {p}
<1>1. IsWorker(worker[w]) /\ p \in Products /\ worker[w].pc = "fetch" /\ This(w) = 0 /\ Len(listings) \in Nat
  BY JobFacts DEF Fetch, Plans, Early, ListingsOK, IsList
<1> PICK u, y : /\ u = worker[w] /\ Now(w, y)
                /\ y = IF Sold(family) = {} THEN [u EXCEPT !.pc = "reference", !.refs = family]
                        ELSE [u EXCEPT !.pc = "plan", !.all = family, !.view = View(Sold(family)), !.drop = family \ Sold(family)]
  BY DEF Fetch
<1>2. rows' = rows /\ listings' = listings /\ mapper' = mapper /\ todo' = todo
  BY DEF Fetch, Outside
<1>3. family \subseteq Products /\ Sold(family) \subseteq family
  BY <1>1 DEF Sold
<1>4. CASE Sold(family) = {}
  <2>1. y = [pc |-> "reference", job |-> u.job, op |-> u.op, view |-> u.view, all |-> u.all, item |-> u.item, left |-> u.left,
             drop |-> u.drop, refs |-> family]
    <3> HIDE DEF family
    <3> QED
      BY <1>1, <1>4 DEF IsWorker
  <2>2. IsWorker(y) /\ y.pc # "idle" /\ y.job[2] \in Products
    BY <1>1, <2>1 DEF IsWorker
  <2>3. OnlyMoves(w) /\ worker'[w] = y
    BY <2>2, Turn
  <2>4. worker'[w].pc = "reference" /\ worker'[w].item = 0
    BY <1>1, <2>1, <2>3 DEF This
  <2>5. Plans(w)' /\ Writes(w)' /\ Covers(w)' /\ Standalone(w)'
    BY <1>1, <1>2, <2>4 DEF Plans, Writes, Covers, Standalone, This, Early, Located, Writing, Skips
  <2> QED
    BY <1>1, <1>2, <2>3, <2>5, Standing, JobFacts
<1>5. CASE Sold(family) # {}
  <2>1. y = [pc |-> "plan", job |-> u.job, op |-> u.op, view |-> View(Sold(family)), all |-> family, item |-> u.item, left |-> u.left,
             drop |-> family \ Sold(family), refs |-> u.refs]
    <3> HIDE DEF family
    <3> QED
      BY <1>1, <1>5 DEF IsWorker
  <2>2. IsWorker(y) /\ y.pc # "idle" /\ y.job[2] \in Products
    BY <1>1, <2>1 DEF IsWorker
  <2>3. OnlyMoves(w) /\ worker'[w] = y
    BY <2>2, Turn
  <2>4. /\ worker'[w].pc = "plan" /\ worker'[w].item = 0 /\ worker'[w].all = family /\ worker'[w].drop = family \ Sold(family)
        /\ DOMAIN worker'[w].view = Sold(family)
    BY <1>1, <2>1, <2>3 DEF This, View
  <2>5. Plans(w)'
    <3> HIDE DEF family
    <3> QED
      BY <1>1, <1>2, <1>3, <1>5, <2>4 DEF Plans, This, Early, Located, Writing, Written
  <2>6. Writes(w)' /\ Covers(w)'
    BY <1>1, <1>2, <2>4 DEF Writes, Covers, This, Writing, Skips
  <2>7. ASSUME ~scene.family PROVE Standalone(w)'
    <3>1. family = {p} /\ Sold(family) = {p}
      BY <1>5, <2>7 DEF Sold
    <3>2. worker'[w].drop = {} /\ DOMAIN worker'[w].view = {p}
      BY <2>4, <3>1
    <3> QED
      BY <2>4, <3>2 DEF Standalone, Writing, Several, Written, This
  <2> QED
    BY <1>1, <1>2, <2>3, <2>5, <2>6, <2>7, Standing, JobFacts
<1> QED
  BY <1>4, <1>5

LEMMA UnknownKeeps ==
  ASSUME CatalogInv, OneWriter, NEW w \in scene.workers, NEW p, ReferenceUnknown(w, p), scene' = scene PROVE CatalogInv'
<1> PICK u, y : u = worker[w] /\ y = [u EXCEPT !.refs = @ \ {p}] /\ Now(w, y)
  BY DEF ReferenceUnknown
<1>1. IsWorker(u) /\ u.job[2] \in Products /\ u.pc = "reference"
  BY JobFacts DEF ReferenceUnknown
<1>2. y = [pc |-> u.pc, job |-> u.job, op |-> u.op, view |-> u.view, all |-> u.all, item |-> u.item, left |-> u.left,
           drop |-> u.drop, refs |-> u.refs \ {p}]
  BY <1>1 DEF IsWorker
<1>3. IsWorker(y) /\ y.pc # "idle" /\ y.job[2] \in Products
  BY <1>1, <1>2 DEF IsWorker
<1>4. OnlyMoves(w) /\ worker'[w] = y /\ y.pc = u.pc /\ y.item = u.item
  BY <1>2, <1>3, Turn
<1>5. rows' = rows /\ listings' = listings /\ mapper' = mapper /\ todo' = todo
  BY DEF ReferenceUnknown, ShopOnly, Outside
<1>6. Plans(w)' /\ Writes(w)' /\ Covers(w)' /\ Standalone(w)'
  BY <1>1, <1>4, <1>5, JobFacts DEF Plans, Writes, Covers, Standalone, This, Early, Located, Writing, Skips, Lone, Blanks
<1>7. This(w)' = This(w)
  BY <1>4 DEF This
<1> QED
  BY <1>4, <1>5, <1>6, <1>7, Standing, JobFacts

LEMMA CheckpointedKeeps ==
  ASSUME CatalogInv, OneWriter, NEW w \in scene.workers, Checkpointed(w), scene' = scene PROVE CatalogInv'
<1>1. worker[w].pc = "checkpoint" /\ worker[w].left = {} /\ Now(w, PlacedWith(worker[w], AfterCheckpoint(worker[w].op), Written(w)))
  BY DEF Checkpointed, PlacedWith
<1>2. AfterCheckpoint(worker[w].op) \in {"product", "mark", "media"}
  BY DEF AfterCheckpoint
<1>3. /\ OnlyMoves(w) /\ worker'[w].pc = AfterCheckpoint(worker[w].op) /\ worker'[w].op = worker[w].op
      /\ worker'[w].view = worker[w].view /\ worker'[w].item = worker[w].item
      /\ worker'[w].left = Written(w) /\ worker'[w].drop = worker[w].drop
  <2> PICK pc : pc = AfterCheckpoint(worker[w].op)
    OBVIOUS
  <2>1. pc # "idle" /\ worker[w].pc # "idle" /\ Now(w, PlacedWith(worker[w], pc, Written(w)))
    BY <1>1, <1>2
  <2>2. OnlyMoves(w) /\ worker'[w].pc = pc
    BY <2>1, PlacesLeft
  <2> QED
    BY <2>1, <2>2, PlacesLeft
<1>4. rows' = rows /\ listings' = listings /\ mapper' = mapper /\ todo' = todo
  BY DEF Checkpointed, ShopOnly, Outside
<1>5. This(w)' = This(w) /\ Written(w)' = Written(w) /\ Skus(w)' = Skus(w)
  BY <1>3 DEF This, Written, Skus, Sku
<1>6. Plans(w)'
  BY <1>1, <1>2, <1>3, <1>4, <1>5, JobFacts DEF Plans, Early, Located, Writing, AfterCheckpoint
<1>7. Writes(w)'
  BY <1>1, <1>2, <1>3, <1>4, <1>5, JobFacts DEF Writes, Plans, Early, Located, Writing, AfterCheckpoint, Alive, Blanks, RowFor, IsActive
<1>8. Covers(w)'
  BY <1>1, <1>2, <1>3, <1>4, <1>5, JobFacts DEF Covers, Writing, Skips, IsActive, Lone, Blanks
<1>9. ~scene.family => Standalone(w)'
  BY <1>1, <1>2, <1>3, <1>4, <1>5, JobFacts DEF Standalone, Writing, IsActive, AfterCheckpoint
<1> QED
  BY <1>3, <1>4, <1>5, <1>6, <1>7, <1>8, <1>9, Standing, JobFacts

LEMMA MediaKeeps == ASSUME CatalogInv, OneWriter, NEW w \in scene.workers, Media(w), scene' = scene PROVE CatalogInv'
<1>1. worker[w].pc = "media" /\ GoTo(w, "save")
  BY DEF Media
<1>3. /\ OnlyMoves(w) /\ worker'[w].pc = "save" /\ worker'[w].op = worker[w].op
      /\ worker'[w].view = worker[w].view /\ worker'[w].item = worker[w].item
      /\ worker'[w].left = worker[w].left /\ worker'[w].drop = worker[w].drop
  BY <1>1, Places
<1>4. rows' = rows /\ listings' = listings /\ mapper' = mapper /\ todo' = todo
  BY DEF Media, ShopOnly, Outside
<1>5. This(w)' = This(w) /\ Written(w)' = Written(w) /\ Skus(w)' = Skus(w)
  BY <1>3 DEF This, Written, Skus, Sku
<1>6. Plans(w)'
  BY <1>1, <1>3, <1>4, <1>5, JobFacts DEF Plans, Early, Located, Writing
<1>7. Writes(w)'
  BY <1>1, <1>3, <1>4, <1>5, JobFacts DEF Writes, Alive, Blanks, RowFor, IsActive
<1>8. Covers(w)'
  BY <1>1, <1>3, <1>4, <1>5, JobFacts DEF Covers, Plans, Located, Writing, Skips, IsActive, Lone, Blanks
<1>9. ~scene.family => Standalone(w)'
  BY <1>1, <1>3, <1>4, <1>5, JobFacts DEF Standalone, Writing, IsActive
<1> QED
  BY <1>3, <1>4, <1>5, <1>6, <1>7, <1>8, <1>9, Standing, JobFacts

LEMMA StockKeeps == ASSUME CatalogInv, OneWriter, NEW w \in scene.workers, Stock(w), scene' = scene PROVE CatalogInv'
<1>1. worker[w].pc = "stock" /\ Now(w, PlacedWith(worker[w], "save", {}))
  BY DEF Stock, PlacedWith
<1>3. /\ OnlyMoves(w) /\ worker'[w].pc = "save" /\ worker'[w].op = worker[w].op
      /\ worker'[w].view = worker[w].view /\ worker'[w].item = worker[w].item
      /\ worker'[w].left = {} /\ worker'[w].drop = worker[w].drop
  BY <1>1, PlacesLeft
<1>4. rows' = rows /\ listings' = listings /\ mapper' = mapper /\ todo' = todo
  BY DEF Stock, ShopOnly, Outside
<1>5. This(w)' = 0 /\ This(w) = 0 /\ Written(w)' = Written(w) /\ Skus(w)' = Skus(w)
  BY <1>1, <1>3, JobFacts DEF This, Written, Skus, Sku, Plans, Early
<1>6. Plans(w)'
  BY <1>1, <1>3, <1>4, <1>5, JobFacts DEF Plans, Early, Located, Writing
<1>7. Writes(w)'
  BY <1>5 DEF Writes
<1>8. Covers(w)'
  BY <1>1, <1>3, <1>4, <1>5, JobFacts DEF Covers, Writing, Skips, IsActive, Lone, Blanks
<1>9. ~scene.family => Standalone(w)'
  BY <1>1, <1>3, <1>4, <1>5, JobFacts DEF Standalone, Writing, IsActive
<1> QED
  BY <1>3, <1>4, <1>5, <1>6, <1>7, <1>8, <1>9, Standing, JobFacts

(* The rows of a family.                                                   *)
LEMMA OwnRows ==
  ASSUME RowsOK, NEW w, NEW r \in DOMAIN rows, IsActive(r), rows[r].kv \in worker[w].all
  PROVE  r \in FamilyRows(w) /\ rows[r].item \in DOMAIN listings
  BY DEF RowsOK, FamilyRows, RowsFor, ActiveRows

LEMMA SkipKeeps == ASSUME CatalogInv, OneWriter, NEW w \in scene.workers, PlanSkips(w), scene' = scene PROVE CatalogInv'
<1>1. worker[w].pc = "plan" /\ GoTo(w, "stock") /\ ~Unclear(w)
  BY DEF PlanSkips
<1>2. PICK p : Unchanged(w, p)
  BY DEF PlanSkips
<1>3. /\ OnlyMoves(w) /\ worker'[w].pc = "stock" /\ worker'[w].op = worker[w].op
      /\ worker'[w].view = worker[w].view /\ worker'[w].item = worker[w].item
      /\ worker'[w].left = worker[w].left /\ worker'[w].drop = worker[w].drop
  BY <1>1, Places
<1>4. rows' = rows /\ listings' = listings /\ mapper' = mapper /\ todo' = todo
  BY DEF PlanSkips, Outside
<1>5. This(w)' = 0 /\ This(w) = 0 /\ Written(w)' = Written(w) /\ Skus(w)' = Skus(w)
  BY <1>1, <1>3, JobFacts DEF This, Written, Skus, Sku, Plans, Early
<1>6. Plans(w)'
  BY <1>1, <1>3, <1>4, <1>5, JobFacts DEF Plans, Early, Located, Writing
<1>7. Writes(w)'
  BY <1>5 DEF Writes
<1>8. Covers(w)'
  <2>1. ASSUME ~scene.family PROVE worker[w].drop = {}
    BY <1>1, <2>1, JobFacts DEF Standalone
  <2>2. ASSUME scene.family, NEW r \in DOMAIN rows, IsActive(r), rows[r].kv \in worker[w].drop
        PROVE  \E q \in DOMAIN rows : IsActive(q) /\ rows[q].kv \notin worker[w].drop /\ rows[q].item = rows[r].item
    <3>1. worker[w].all = Written(w) \cup worker[w].drop /\ Written(w) # {} /\ Written(w) \cap worker[w].drop = {}
      BY <1>1, JobFacts DEF Plans
    <3>2. PICK k : k \in Written(w)
      BY <3>1
    <3>3. PICK q \in FamilyRows(w) : rows[q].kv = k
      BY <1>2, <3>2 DEF Unchanged
    <3>4. r \in FamilyRows(w)
      BY <2>2, <3>1, OwnRows, JobFacts
    <3>5. \A o \in FamilyRows(w) : rows[o].status = "synced" /\ o \in DOMAIN rows /\ IsActive(o)
      BY <1>2, <2>2 DEF Unchanged, FamilyRows, RowsFor, ActiveRows
    <3>6. \A o \in FamilyRows(w) : rows[o].item \in Targets(w)
      BY <2>2, <3>5, JobFacts DEF Targets, RowsOK
    <3>7. rows[q].item = rows[r].item
      BY <1>1, <3>3, <3>4, <3>6 DEF Unclear, Several
    <3> QED
      BY <3>1, <3>2, <3>3, <3>5, <3>7
  <2> QED
    BY <1>3, <1>4, <2>1, <2>2 DEF Covers, Writing, Skips, IsActive, Lone, Blanks
<1>9. ~scene.family => Standalone(w)'
  BY <1>1, <1>3, <1>4, <1>5, JobFacts DEF Standalone, Writing, IsActive
<1> QED
  BY <1>3, <1>4, <1>5, <1>6, <1>7, <1>8, <1>9, Standing, JobFacts

LEMMA ReferenceKeeps ==
  ASSUME CatalogInv, OneWriter, NEW w \in scene.workers, NEW p \in Products, Reference(w, p), scene' = scene PROVE CatalogInv'
<1> PICK u, y, op, stay, own, i :
      /\ u = worker[w] /\ stay = Staying(w, p) /\ own = Owners(LiveRows(w, p))
      /\ op = IF stay = {} THEN "retire" ELSE IF Several(stay) THEN "set" ELSE "collapse"
      /\ i = CHOOSE n \in Mentioned(LiveRows(w, p)) : TRUE
      /\ y = [u EXCEPT !.refs = @ \ {p}, !.pc = op, !.op = op, !.view = View(stay), !.left = stay, !.drop = own, !.item = i]
      /\ Now(w, y)
  BY DEF Reference
<1>1. IsWorker(u) /\ u.job[2] \in Products /\ u.pc = "reference"
  BY JobFacts DEF Reference
<1>2. y = [pc |-> op, job |-> u.job, op |-> op, view |-> View(stay), all |-> u.all, item |-> i, left |-> stay,
           drop |-> own, refs |-> u.refs \ {p}]
  BY <1>1 DEF IsWorker
<1>3. IsWorker(y) /\ y.pc # "idle" /\ y.job[2] \in Products
  BY <1>1, <1>2 DEF IsWorker
<1>4. OnlyMoves(w) /\ worker'[w] = y
  BY <1>3, Turn
<1>5. rows' = rows /\ listings' = listings /\ mapper' = mapper /\ todo' = todo
  BY DEF Reference, ShopOnly, Outside
<1>6. /\ worker'[w].pc = op /\ worker'[w].op = op /\ This(w)' = i /\ worker'[w].left = stay /\ worker'[w].drop = own
      /\ Written(w)' = stay
  <2>1. y.pc = op /\ y.op = op /\ y.item = i /\ y.left = stay /\ y.drop = own /\ y.view = View(stay)
    BY <1>2
  <2>2. DOMAIN View(stay) = stay
    BY DEF View
  <2> QED
    BY <1>4, <2>1, <2>2 DEF This, Written
<1>7. LiveRows(w, p) \subseteq DOMAIN rows /\ \A r \in LiveRows(w, p) : IsActive(r)
  BY DEF LiveRows, RowsNamed, RowsOf
<1>8. LiveRows(w, p) # {} /\ \A r \in LiveRows(w, p) : rows[r].item = i /\ rows[r].kv \in own
  BY DEF Reference, Mentioned, Several, Owners
<1>9. i \in DOMAIN listings /\ i # 0 /\ i \in 0 .. Len(listings)
  <2>1. PICK r \in DOMAIN rows : rows[r].item = i
    BY <1>7, <1>8
  <2>2. i \in DOMAIN listings
    BY <2>1, JobFacts DEF RowsOK
  <2> QED
    BY <2>2, ListingPlaces
<1>10. \A k \in stay : /\ k \in Products /\ k \notin own
                        /\ \E q \in DOMAIN rows : IsActive(q) /\ rows[q].item = i /\ rows[q].kv = k
  <2> SUFFICES ASSUME NEW k \in stay
               PROVE  /\ k \in Products /\ k \notin own
                      /\ \E q \in DOMAIN rows : IsActive(q) /\ rows[q].item = i /\ rows[q].kv = k
    OBVIOUS
  <2>1. PICK q \in DOMAIN rows : /\ IsActive(q) /\ rows[q].item \in Mentioned(LiveRows(w, p))
                                 /\ rows[q].kv \notin Owners(LiveRows(w, p)) /\ rows[q].kv = k
    BY DEF Staying, Sold
  <2>2. rows[q].item = i
    BY <1>8, <2>1 DEF Mentioned
  <2>3. k \in Products
    BY <2>1, JobFacts DEF RowsOK
  <2> QED
    BY <2>1, <2>2, <2>3
<1>11. \A r \in DOMAIN rows : IsActive(r) /\ rows[r].kv \in stay \cup own => rows[r].item = i
  <2> SUFFICES ASSUME NEW r \in DOMAIN rows, IsActive(r), rows[r].kv \in stay \cup own PROVE rows[r].item = i
    OBVIOUS
  <2>1. PICK q \in DOMAIN rows : IsActive(q) /\ rows[q].item = i /\ rows[q].kv = rows[r].kv
    BY <1>7, <1>8, <1>10 DEF Owners
  <2> QED
    BY <2>1, JobFacts DEF RowsOK
<1>12. Plans(w)'
  BY <1>5, <1>6, <1>9, <1>10 DEF Plans, Early, Located, Writing
<1>13. Writes(w)'
  <2>1. RowFor(i)
    BY <1>7, <1>8 DEF RowFor
  <2> QED
    BY <1>5, <1>6, <2>1 DEF Writes, RowFor, IsActive, Lone, Blanks
<1>14. Covers(w)'
  BY <1>5, <1>6, <1>11 DEF Covers, Writing, Skips, IsActive
<1>15. ASSUME ~scene.family PROVE Standalone(w)'
  <2>1. \A q \in DOMAIN rows : IsActive(q) /\ rows[q].item = i => rows[q].kv \in own
    BY <1>7, <1>8, <1>15, JobFacts DEF StandaloneRows
  <2>2. stay = {}
    BY <1>10, <2>1
  <2> QED
    BY <1>6, <2>2 DEF Standalone, Writing
<1>16. This(w) = 0 \/ ~Lone(This(w))
  BY <1>1, JobFacts DEF Writes
<1> QED
  BY <1>4, <1>5, <1>12, <1>13, <1>14, <1>15, <1>16, Standing, JobFacts

(* What a job looks for has a SKU or a row.                                *)
LEMMA Targeted ==
  ASSUME CatalogInv, OneWriter, NEW w \in scene.workers, worker[w].pc = "plan", NEW i \in Targets(w)
  PROVE  i \in DOMAIN listings /\ Alive(i) /\ (Blanks(i) => RowFor(i))
<1>1. Written(w) \subseteq Products /\ \A p \in Products : Sku[p] # Blank
  BY JobFacts, ProductsAssumption DEF Plans, Writing, ProductsAssumption, Sku, CatalogInv
<1>2. CASE i \in Searched(w)
  BY <1>1, <1>2 DEF Searched, Found, Lone, Blanks
<1>3. CASE i \notin Searched(w)
  <2>1. PICK r \in FamilyRows(w) : rows[r].item = i /\ (IF scene.family THEN Alive(rows[r].item) ELSE Reached(r))
    BY <1>3 DEF Targets
  <2>2. r \in DOMAIN rows /\ IsActive(r) /\ Alive(i)
    BY <2>1 DEF FamilyRows, RowsFor, ActiveRows, Reached
  <2> QED
    BY <2>1, <2>2, JobFacts DEF RowsOK, RowFor
<1> QED
  BY <1>2, <1>3

(* The rows of the family lead to the product that is written.             *)
LEMMA RowsLeadThere ==
  ASSUME CatalogInv, OneWriter, NEW w \in scene.workers, worker[w].pc = "plan", ~Unclear(w),
         NEW r \in DOMAIN rows, IsActive(r), rows[r].kv \in worker[w].all, Lone(rows[r].item)
  PROVE  rows[r].item \in Targets(w)
<1>1. r \in FamilyRows(w) /\ rows[r].item \in DOMAIN listings /\ Alive(rows[r].item)
  BY OwnRows, JobFacts DEF Lone, Alive
<1>2. ~scene.family => Reached(r)
  BY <1>1, JobFacts DEF StandaloneRows, Lone, Blanks, Reached
<1> QED
  BY <1>1, <1>2 DEF Targets

(* A product that stands alone has the row of the product that is written. *)
LEMMA AloneTargeted ==
  ASSUME CatalogInv, OneWriter, NEW w \in scene.workers, worker[w].pc = "plan", ~Unclear(w), ~scene.family,
         NEW r \in DOMAIN rows, IsActive(r), rows[r].item \in Targets(w)
  PROVE  rows[r].kv \in Written(w)
<1>1. /\ worker[w].all = Written(w) /\ ~Several(Written(w)) /\ StandaloneRows /\ RowsOK
      /\ Written(w) \subseteq Products /\ \A p \in Products : Sku[p] # Blank
  <2>1. ~Several(Written(w)) /\ worker[w].drop = {} /\ StandaloneRows /\ RowsOK
    BY JobFacts DEF Standalone
  <2>2. worker[w].all = Written(w) /\ Written(w) \subseteq Products
    BY <2>1, JobFacts DEF Plans, Writing
  <2> QED
    BY <2>1, <2>2, ProductsAssumption DEF ProductsAssumption, Sku, CatalogInv
<1>2. \A p \in Written(w) : \A q \in RowsFor(w, p) : rows[q].kv = p
  BY <1>1 DEF Unclear
<1>3. CASE rows[r].item \in Searched(w)
  <2>1. PICK p \in Written(w) : Sku[p] \in listings[rows[r].item].skus
    BY <1>3 DEF Searched, Found
  <2>2. rows[r].sku = Sku[p]
    BY <1>1, <2>1 DEF StandaloneRows
  <2>3. r \in RowsFor(w, p)
    BY <2>1, <2>2 DEF RowsFor, ActiveRows
  <2> QED
    BY <1>2, <2>1, <2>3
<1>4. CASE rows[r].item \notin Searched(w)
  <2>1. PICK q \in FamilyRows(w) : rows[q].item = rows[r].item
    BY <1>4 DEF Targets
  <2>2. PICK p \in Written(w) : q \in RowsFor(w, p)
    BY <1>1, <2>1 DEF FamilyRows
  <2>3. q \in DOMAIN rows /\ IsActive(q) /\ rows[q].kv = p
    BY <1>2, <2>2 DEF RowsFor, ActiveRows
  <2>4. q = r
    BY <1>1, <2>1, <2>3 DEF StandaloneRows
  <2> QED
    BY <2>2, <2>3, <2>4
<1> QED
  BY <1>3, <1>4

LEMMA WriteKeeps == ASSUME CatalogInv, OneWriter, NEW w \in scene.workers, PlanWrites(w), scene' = scene PROVE CatalogInv'
<1> PICK u, y, i, op, pc, left :
      /\ u = worker[w] /\ i = (IF Targets(w) = {} THEN 0 ELSE CHOOSE t \in Targets(w) : TRUE)
      /\ op = Operation(w, i) /\ pc = FirstCall(op) /\ left = Written(w)
      /\ y = [u EXCEPT !.op = op, !.item = i, !.left = left, !.pc = pc] /\ Now(w, y)
  BY DEF PlanWrites
<1>1. IsWorker(u) /\ u.job[2] \in Products /\ u.pc = "plan" /\ ~Unclear(w)
  BY JobFacts DEF PlanWrites
<1>2. y = [pc |-> pc, job |-> u.job, op |-> op, view |-> u.view, all |-> u.all, item |-> i, left |-> left,
           drop |-> u.drop, refs |-> u.refs]
  BY <1>1 DEF IsWorker
<1>3. /\ op \in {"resume", "set", "create", "collapse", "update"} /\ (op = "create" => i = 0)
      /\ pc = (IF op = "resume" THEN "checkpoint" ELSE IF op = "update" THEN "product" ELSE op)
      /\ (op = "resume" => i # 0 /\ Marked(w, i)) /\ (op \notin {"set", "create"} => i # 0)
      /\ (~Several(Written(w)) => op \in {"create", "collapse", "update"})
      /\ (op = "collapse" => scene.family \/ listings[i].options)
  <2>1. /\ op \in {"resume", "set", "create", "collapse", "update"} /\ (op = "create" => i = 0)
        /\ (op = "resume" => i # 0 /\ Marked(w, i)) /\ (op \notin {"set", "create"} => i # 0)
        /\ (~Several(Written(w)) => op \in {"create", "collapse", "update"})
        /\ (op = "collapse" => scene.family \/ listings[i].options)
    BY DEF Operation
  <2>2. pc = (IF op = "resume" THEN "checkpoint" ELSE IF op = "update" THEN "product" ELSE op)
    BY DEF FirstCall
  <2> QED
    BY <2>1, <2>2
<1>4. IsWorker(y) /\ y.pc # "idle" /\ y.job[2] \in Products
  BY <1>1, <1>2, <1>3 DEF IsWorker
<1>5. OnlyMoves(w) /\ worker'[w] = y
  BY <1>4, Turn
<1>6. rows' = rows /\ listings' = listings /\ mapper' = mapper /\ todo' = todo
  BY DEF PlanWrites, Outside
<1>7. /\ worker'[w].pc = pc /\ worker'[w].op = op /\ This(w)' = i /\ worker'[w].left = Written(w) /\ worker'[w].drop = u.drop
      /\ Written(w)' = Written(w) /\ Skus(w)' = Skus(w)
  BY <1>2, <1>5 DEF This, Written, Skus, Sku
<1>8. i # 0 => i \in Targets(w) /\ i \in DOMAIN listings /\ Alive(i) /\ (Blanks(i) => RowFor(i))
  BY <1>1, Targeted
<1>9. i = 0 => Targets(w) = {}
  BY <1>1, Targeted, ListingPlaces
<1>10. \A t \in Targets(w) : t = i
  BY <1>1, <1>9 DEF Unclear, Several
<1>11. /\ Written(w) # {} /\ Written(w) \subseteq Products /\ Written(w) \cap u.drop = {} /\ u.all = Written(w) \cup u.drop
       /\ \A p \in Products : Sku[p] # Blank
  BY <1>1, JobFacts, ProductsAssumption DEF Plans, Writing, ProductsAssumption, Sku, CatalogInv
<1>12. Plans(w)'
  <2>1. i \in 0 .. Len(listings)
    <3>1. CASE i = 0
      BY <3>1, ListingPlaces
    <3>2. CASE i # 0
      BY <1>8, <3>2, ListingPlaces
    <3> QED
      BY <3>1, <3>2
  <2>2. pc \in {"checkpoint", "product", "set", "create", "collapse"}
    BY <1>3
  <2>3. (pc = "create" => i = 0 /\ op = "create") /\ (pc \notin {"set", "create"} => i # 0)
    BY <1>3
  <2>4. (pc = "set" => op = "set") /\ (pc = "collapse" => op = "collapse") /\ (pc = "product" => op = "update")
    BY <1>3
  <2> QED
    BY <1>6, <1>7, <1>11, <2>1, <2>2, <2>3, <2>4 DEF Plans, Early, Located, Writing
<1>13. Writes(w)'
  <2>1. op = "resume" => ~Blanks(i)
    BY <1>3, <1>11 DEF Marked, Skus, Blanks
  <2> QED
    BY <1>3, <1>6, <1>7, <1>8, <2>1 DEF Writes, RowFor, IsActive, Lone, Blanks, Alive
<1>14. Covers(w)'
  <2>1. \A r \in DOMAIN rows : IsActive(r) /\ rows[r].kv \in Written(w) \cup u.drop => rows[r].item = i \/ ~Lone(rows[r].item)
    BY <1>1, <1>10, <1>11, RowsLeadThere
  <2>2. pc \notin {"stock", "save"}
    BY <1>3
  <2> QED
    BY <1>6, <1>7, <2>1, <2>2 DEF Covers, Writing, Skips, IsActive, Lone, Blanks
<1>15. ASSUME ~scene.family PROVE Standalone(w)'
  <2>1. ~Several(Written(w)) /\ u.drop = {} /\ StandaloneRows
    BY <1>1, <1>15, JobFacts DEF Standalone
  <2>2. op \in {"create", "update"}
    BY <1>3, <1>8, <1>15, <2>1 DEF StandaloneRows
  <2>3. pc \in {"create", "product"}
    BY <1>3, <2>2
  <2>4. i # 0 => \A r \in DOMAIN rows : IsActive(r) /\ rows[r].item = i => rows[r].kv \in Written(w)
    BY <1>1, <1>8, <1>15, AloneTargeted
  <2> QED
    BY <1>6, <1>7, <2>1, <2>2, <2>3, <2>4 DEF Standalone, Writing, IsActive
<1>16. This(w) = 0
  BY <1>1, JobFacts DEF Plans, Early
<1> QED
  BY <1>5, <1>6, <1>12, <1>13, <1>14, <1>15, <1>16, Standing, JobFacts

(* Writes to the Shopify product of a job.                                 *)
LEMMA AloneAgain ==
  ASSUME SameRows, \A j \in DOMAIN listings' : listings'[j].options = FALSE,
         \A r \in DOMAIN rows : IsActive(r) =>
           /\ listings'[rows[r].item].skus \subseteq {rows[r].sku, Blank}
           /\ listings'[rows[r].item].skus = {Blank} => Pending(r) /\ rows[r].option = FALSE,
         \A r \in DOMAIN rows : rows[r].item \in DOMAIN listings',
         \A r, q \in DOMAIN rows : IsActive(r) /\ IsActive(q) /\ rows[r].item = rows[q].item => r = q
  PROVE  StandaloneRows'
<1>1. /\ DOMAIN rows' = DOMAIN rows
      /\ \A r \in DOMAIN rows : /\ rows'[r].status = rows[r].status /\ rows'[r].hash = rows[r].hash
                               /\ rows'[r].item = rows[r].item /\ rows'[r].sku = rows[r].sku /\ rows'[r].option = rows[r].option
  BY DEF SameRows
<1>2. ASSUME NEW r \in DOMAIN rows', NEW q \in DOMAIN rows', rows'[r].status # "archived", rows'[q].status # "archived",
             rows'[r].item = rows'[q].item
      PROVE  r = q
  BY <1>1, <1>2 DEF IsActive
<1>3. ASSUME NEW r \in DOMAIN rows', rows'[r].status # "archived"
      PROVE  /\ listings'[rows'[r].item].skus \subseteq {rows'[r].sku, Blank}
             /\ listings'[rows'[r].item].skus = {Blank} =>
                  /\ rows'[r].status = "mapped" /\ rows'[r].hash = Nothing
                  /\ rows'[r].option = listings'[rows'[r].item].options
  <2>1. r \in DOMAIN rows /\ IsActive(r) /\ rows[r].item \in DOMAIN listings' /\ listings'[rows[r].item].options = FALSE
    BY <1>1, <1>3 DEF IsActive
  <2> QED
    BY <1>1, <2>1 DEF Pending
<1> QED
  BY <1>2, <1>3 DEF StandaloneRows, IsActive, Blanks, Pending

LEMMA Altered ==
  ASSUME CatalogInv, OneWriter, NEW w \in scene.workers, This(w) # 0, NEW new, Alter(w, new), IsListing(new),
         new.lost \in BOOLEAN, SameRows, scene' = scene,
         new.state = "deleted" => \A r \in DOMAIN rows : rows[r].item = This(w) => rows[r].status # "synced",
         ~scene.family =>
           /\ new.options = FALSE
           /\ \A r \in DOMAIN rows : IsActive(r) /\ rows[r].item = This(w) =>
                /\ new.skus \subseteq {rows[r].sku, Blank}
                /\ new.skus = {Blank} => Pending(r) /\ rows[r].option = FALSE
  PROVE  /\ This(w) \in DOMAIN listings /\ listings'[This(w)] = new
         /\ DOMAIN listings' = DOMAIN listings /\ Len(listings') = Len(listings)
         /\ \A j \in DOMAIN listings : j # This(w) => listings'[j] = listings[j]
         /\ RowsOK' /\ ListingsOK' /\ (~scene.family => StandaloneRows')
<1>1. This(w) \in DOMAIN listings /\ IsList(listings)
  BY JobFacts DEF Plans, ListingsOK, IsList
<1>2. listings' = [j \in 1 .. Len(listings) |-> IF j = This(w) THEN new ELSE listings[j]]
  BY <1>1 DEF Alter, IsList
<1>3. IsList(listings') /\ DOMAIN listings' = DOMAIN listings /\ Len(listings') = Len(listings)
  <2> PICK s : s = listings'
    OBVIOUS
  <2>1. s = [j \in 1 .. Len(listings) |-> s[j]] /\ Len(listings) \in Nat /\ DOMAIN listings = 1 .. Len(listings)
    BY <1>1, <1>2 DEF IsList
  <2> QED
    BY <2>1, ListBy
<1>4. listings'[This(w)] = new /\ \A j \in DOMAIN listings : j # This(w) => listings'[j] = listings[j]
  BY <1>1, <1>2 DEF IsList
<1>5. ListingsOK'
  BY <1>3, <1>4, JobFacts DEF ListingsOK
<1>6. RowsOK'
  <2>1. \A r \in DOMAIN rows : rows[r].status = "synced" => listings'[rows[r].item].state # "deleted"
    BY <1>1, <1>4, JobFacts DEF RowsOK, Alive
  <2> QED
    BY <1>3, <2>1, JobFacts DEF RowsOK, SameRows, IsActive, Alive, Sku
<1>7. ASSUME ~scene.family PROVE StandaloneRows'
  <2>1. \A j \in DOMAIN listings : listings'[j].options = FALSE
    BY <1>3, <1>4, <1>7, JobFacts DEF StandaloneRows
  <2>2. ASSUME NEW r \in DOMAIN rows, IsActive(r)
        PROVE  /\ listings'[rows[r].item].skus \subseteq {rows[r].sku, Blank}
               /\ listings'[rows[r].item].skus = {Blank} => Pending(r) /\ rows[r].option = FALSE
    <3>1. rows[r].item \in DOMAIN listings
      BY JobFacts DEF RowsOK
    <3>2. CASE rows[r].item = This(w)
      BY <1>4, <1>7, <2>2, <3>2
    <3>3. CASE rows[r].item # This(w)
      BY <1>4, <1>7, <2>2, <3>1, <3>3, JobFacts DEF StandaloneRows, Blanks
    <3> QED
      BY <3>2, <3>3
  <2>3. \A r \in DOMAIN rows : rows[r].item \in DOMAIN listings
    BY JobFacts DEF RowsOK
  <2>4. \A r, q \in DOMAIN rows : IsActive(r) /\ IsActive(q) /\ rows[r].item = rows[q].item => r = q
    BY <1>7, JobFacts DEF StandaloneRows
  <2> QED
    BY <1>3, <2>1, <2>2, <2>3, <2>4, AloneAgain
<1> QED
  BY <1>1, <1>3, <1>4, <1>5, <1>6, <1>7

LEMMA Unheld ==
  ASSUME CatalogInv, OneWriter, NEW w \in scene.workers, NEW i \in DOMAIN listings, Lone(i), i # This(w)
  PROVE  RowFor(i)
<1>1. Held(i) /\ i # 0
  BY ListingPlaces DEF CatalogInv
<1> QED
  BY <1>1, TheWorker DEF Held, RowFor, This, Free

LEMMA Rewriting ==
  ASSUME CatalogInv, OneWriter, NEW w \in scene.workers, OnlyMoves(w), scene' = scene, mapper' = mapper, todo' = todo,
         This(w)' = This(w), rows' = rows, DOMAIN listings' = DOMAIN listings,
         \A j \in DOMAIN listings : j # This(w) => listings'[j] = listings[j],
         RowsOK', ListingsOK', Plans(w)', Writes(w)', Covers(w)', ~scene.family => StandaloneRows' /\ Standalone(w)'
  PROVE  CatalogInv'
<1>1. ASSUME NEW i \in DOMAIN listings', Lone(i)', i # This(w)' PROVE RowFor(i)'
  <2>1. i # This(w) /\ i \in DOMAIN listings /\ Lone(i)
    BY <1>1 DEF Lone, Blanks
  <2>2. RowFor(i)
    BY <2>1, Unheld
  <2> QED
    BY <2>2 DEF RowFor, IsActive
<1> QED
  BY <1>1, JobMoves, JobFacts

LEMMA StillCovers ==
  ASSUME CatalogInv, OneWriter, NEW w \in scene.workers, worker[w].pc \in Writing, ~Skips(w), worker'[w].pc \in Writing,
         ~Skips(w)', This(w)' = This(w), Written(w)' = Written(w), worker'[w].drop = worker[w].drop, rows' = rows,
         \A j \in DOMAIN listings : j # This(w) => listings'[j] = listings[j]
  PROVE  Covers(w)'
<1> SUFFICES ASSUME NEW r \in DOMAIN rows, IsActive(r), rows[r].kv \in Written(w) \cup worker[w].drop, rows[r].item # This(w)
             PROVE  ~Lone(rows[r].item)'
  BY DEF Covers, IsActive, Skips
<1>1. ~Lone(rows[r].item) /\ rows[r].item \in DOMAIN listings
  BY JobFacts DEF Covers, RowsOK
<1> QED
  BY <1>1 DEF Lone, Blanks

(* A write of the product leaves it whole.                                 *)
Whole(x) == [x EXCEPT !.half = FALSE]

LEMMA WholeListing ==
  ASSUME NEW x, IsListing(x)
  PROVE  /\ IsListing(Whole(x)) /\ Whole(x).state = x.state /\ Whole(x).options = x.options /\ Whole(x).skus = x.skus
         /\ Whole(x).lost = x.lost
<1>1. ASSUME NEW y, y = Whole(x)
      PROVE  y = [state |-> x.state, options |-> x.options, skus |-> x.skus, product |-> x.product, variant |-> x.variant,
                  marker |-> x.marker, lost |-> x.lost, half |-> FALSE]
  BY <1>1 DEF Whole, IsListing
<1> QED
  BY <1>1 DEF IsListing

LEMMA PutMoves ==
  ASSUME CatalogInv, OneWriter, NEW w \in scene.workers, NEW new, NEW pc, pc # "idle", worker[w].pc # "idle",
         Put(w, new, pc), scene' = scene
  PROVE  /\ OnlyMoves(w) /\ worker'[w].pc = pc /\ worker'[w].op = worker[w].op /\ worker'[w].left = worker[w].left
         /\ worker'[w].drop = worker[w].drop /\ This(w)' = This(w) /\ Written(w)' = Written(w) /\ Skus(w)' = Skus(w)
         /\ Alter(w, Whole(new)) /\ Alive(This(w)) /\ rows' = rows /\ SameRows /\ mapper' = mapper /\ todo' = todo
<1>1. GoTo(w, pc) /\ Alter(w, Whole(new)) /\ Alive(This(w)) /\ rows' = rows /\ mapper' = mapper /\ todo' = todo
  BY DEF Put, Whole, ShopOnly, Outside
<1>2. /\ OnlyMoves(w) /\ worker'[w].pc = pc /\ worker'[w].op = worker[w].op /\ worker'[w].left = worker[w].left
      /\ worker'[w].drop = worker[w].drop /\ worker'[w].item = worker[w].item /\ worker'[w].view = worker[w].view
  BY <1>1, Places
<1>3. SameRows
  BY <1>1, JobFacts DEF SameRows, RowsOK
<1> QED
  BY <1>1, <1>2, <1>3 DEF This, Written, Skus, Sku

LEMMA ThisListing ==
  ASSUME CatalogInv, OneWriter, NEW w \in scene.workers, This(w) # 0
  PROVE  IsListing(Listing(w)) /\ Listing(w).lost \in BOOLEAN
<1>1. This(w) \in DOMAIN listings
  BY JobFacts DEF Plans, ListingsOK, IsList
<1> QED
  BY <1>1, JobFacts DEF ListingsOK, Listing

LEMMA KnownSkus ==
  ASSUME CatalogInv, OneWriter, NEW w \in scene.workers, worker[w].pc \in Writing
  PROVE  Skus(w) # {} /\ Blank \notin Skus(w)
<1>1. Written(w) # {} /\ Written(w) \subseteq Products
  BY JobFacts DEF Plans
<1> QED
  BY <1>1, ProductsAssumption DEF ProductsAssumption, Sku, Skus, CatalogInv

LEMMA GroupKeeps == ASSUME CatalogInv, OneWriter, NEW w \in scene.workers, SetGroup(w), scene' = scene PROVE CatalogInv'
<1> PICK l, skus, view, put, new :
      /\ l = Listing(w) /\ skus = Skus(w) /\ view = worker[w].view /\ Put(w, put, "checkpoint")
      /\ put = [l EXCEPT !.state = "live", !.options = TRUE, !.skus = skus, !.product = view, !.variant = view] /\ new = Whole(put)
  BY DEF SetGroup
<1>1. worker[w].pc = "set" /\ This(w) # 0 /\ worker[w].op = "set"
  BY JobFacts DEF SetGroup, Plans
<1>2. IsListing(l) /\ l.lost \in BOOLEAN
  BY <1>1, ThisListing
<1>3. put = [state |-> "live", options |-> TRUE, skus |-> skus, product |-> view, variant |-> view, marker |-> l.marker, lost |-> l.lost, half |-> l.half]
  BY <1>2 DEF IsListing
<1>p. IsListing(put) /\ put.state = "live" /\ put.skus = Skus(w) /\ put.lost \in BOOLEAN
  BY <1>2, <1>3 DEF IsListing
<1>4. IsListing(new) /\ new.state = "live" /\ new.skus = Skus(w) /\ new.lost \in BOOLEAN
  BY <1>p, WholeListing
<1>5. scene.family
  BY <1>1, JobFacts DEF Standalone
<1>6. /\ OnlyMoves(w) /\ worker'[w].pc = "checkpoint" /\ worker'[w].op = worker[w].op /\ worker'[w].left = worker[w].left
      /\ worker'[w].drop = worker[w].drop /\ This(w)' = This(w) /\ Written(w)' = Written(w) /\ Skus(w)' = Skus(w)
      /\ Alter(w, new) /\ rows' = rows /\ SameRows /\ mapper' = mapper /\ todo' = todo
  BY <1>1, PutMoves
<1>7. /\ listings'[This(w)] = new /\ DOMAIN listings' = DOMAIN listings /\ Len(listings') = Len(listings)
      /\ \A j \in DOMAIN listings : j # This(w) => listings'[j] = listings[j]
      /\ RowsOK' /\ ListingsOK'
  BY <1>1, <1>4, <1>5, <1>6, Altered
<1>8. Plans(w)'
  BY <1>1, <1>6, <1>7, JobFacts DEF Plans, Early, Located, Writing
<1>9. Writes(w)'
  BY <1>1, <1>4, <1>6, <1>7, KnownSkus DEF Writes, Alive, Blanks, Writing
<1>10. Covers(w)'
  BY <1>1, <1>6, <1>7, StillCovers DEF Writing, Skips
<1> QED
  BY <1>5, <1>6, <1>7, <1>8, <1>9, <1>10, Rewriting

LEMMA CollapseKeeps == ASSUME CatalogInv, OneWriter, NEW w \in scene.workers, Collapse(w), scene' = scene PROVE CatalogInv'
<1> PICK l, skus, view, put, new :
      /\ l = Listing(w) /\ skus = {Blank} /\ view = worker[w].view /\ Put(w, put, "product")
      /\ put = [l EXCEPT !.state = "live", !.options = FALSE, !.skus = skus, !.product = view, !.variant = Nothing] /\ new = Whole(put)
  BY DEF Collapse
<1>1. worker[w].pc = "collapse" /\ This(w) # 0 /\ worker[w].op = "collapse"
  BY JobFacts DEF Collapse, Plans, Located
<1>2. IsListing(l) /\ l.lost \in BOOLEAN
  BY <1>1, ThisListing
<1>3. put = [state |-> "live", options |-> FALSE, skus |-> skus, product |-> view, variant |-> Nothing, marker |-> l.marker, lost |-> l.lost, half |-> l.half]
  BY <1>2 DEF IsListing
<1>p. IsListing(put) /\ put.state = "live" /\ put.lost \in BOOLEAN
  BY <1>2, <1>3 DEF IsListing
<1>4. IsListing(new) /\ new.state = "live" /\ new.lost \in BOOLEAN
  BY <1>p, WholeListing
<1>5. scene.family
  BY <1>1, JobFacts DEF Standalone
<1>6. /\ OnlyMoves(w) /\ worker'[w].pc = "product" /\ worker'[w].op = worker[w].op /\ worker'[w].left = worker[w].left
      /\ worker'[w].drop = worker[w].drop /\ This(w)' = This(w) /\ Written(w)' = Written(w) /\ Skus(w)' = Skus(w)
      /\ Alter(w, new) /\ rows' = rows /\ SameRows /\ mapper' = mapper /\ todo' = todo
  BY <1>1, PutMoves
<1>7. /\ listings'[This(w)] = new /\ DOMAIN listings' = DOMAIN listings /\ Len(listings') = Len(listings)
      /\ \A j \in DOMAIN listings : j # This(w) => listings'[j] = listings[j]
      /\ RowsOK' /\ ListingsOK'
  BY <1>1, <1>4, <1>5, <1>6, Altered
<1>8. Plans(w)'
  BY <1>1, <1>6, <1>7, JobFacts DEF Plans, Early, Located, Writing
<1>9. Writes(w)'
  BY <1>1, <1>4, <1>6, <1>7 DEF Writes, Alive
<1>10. Covers(w)'
  BY <1>1, <1>6, <1>7, StillCovers DEF Writing, Skips
<1> QED
  BY <1>5, <1>6, <1>7, <1>8, <1>9, <1>10, Rewriting

LEMMA ProductKeeps == ASSUME CatalogInv, OneWriter, NEW w \in scene.workers, WriteProduct(w), scene' = scene PROVE CatalogInv'
<1> PICK l, view, put, new :
      /\ l = Listing(w) /\ view = worker[w].view /\ Put(w, put, "variant")
      /\ put = [l EXCEPT !.state = "live", !.product = view] /\ new = Whole(put)
  BY DEF WriteProduct
<1>1. worker[w].pc = "product" /\ This(w) # 0 /\ worker[w].op \in {"create", "update", "collapse"}
  BY JobFacts DEF WriteProduct, Plans, Located
<1>2. IsListing(l) /\ l.lost \in BOOLEAN
  BY <1>1, ThisListing
<1>3. put = [state |-> "live", options |-> l.options, skus |-> l.skus, product |-> view, variant |-> l.variant, marker |-> l.marker, lost |-> l.lost, half |-> l.half]
  BY <1>2 DEF IsListing
<1>p. IsListing(put) /\ put.state = "live" /\ put.lost \in BOOLEAN /\ put.skus = l.skus /\ put.options = l.options
  BY <1>2, <1>3 DEF IsListing
<1>4. IsListing(new) /\ new.state = "live" /\ new.lost \in BOOLEAN /\ new.skus = l.skus /\ new.options = l.options
  BY <1>p, WholeListing
<1>5. /\ OnlyMoves(w) /\ worker'[w].pc = "variant" /\ worker'[w].op = worker[w].op /\ worker'[w].left = worker[w].left
      /\ worker'[w].drop = worker[w].drop /\ This(w)' = This(w) /\ Written(w)' = Written(w) /\ Skus(w)' = Skus(w)
      /\ Alter(w, new) /\ rows' = rows /\ SameRows /\ mapper' = mapper /\ todo' = todo
  BY <1>1, PutMoves
<1>6. ASSUME ~scene.family
      PROVE  /\ new.options = FALSE
             /\ \A r \in DOMAIN rows : IsActive(r) /\ rows[r].item = This(w) =>
                  /\ new.skus \subseteq {rows[r].sku, Blank}
                  /\ new.skus = {Blank} => Pending(r) /\ rows[r].option = FALSE
  <2>1. This(w) \in DOMAIN listings
    BY <1>1, JobFacts DEF Plans, ListingsOK, IsList
  <2> QED
    BY <1>4, <1>6, <2>1, JobFacts DEF StandaloneRows, Listing, Blanks
<1>7. /\ listings'[This(w)] = new /\ DOMAIN listings' = DOMAIN listings /\ Len(listings') = Len(listings)
      /\ \A j \in DOMAIN listings : j # This(w) => listings'[j] = listings[j]
      /\ RowsOK' /\ ListingsOK' /\ (~scene.family => StandaloneRows')
  BY <1>1, <1>4, <1>5, <1>6, Altered
<1>8. Plans(w)'
  BY <1>1, <1>5, <1>7, JobFacts DEF Plans, Early, Located, Writing
<1>9. Writes(w)'
  BY <1>1, <1>4, <1>5, <1>7, JobFacts DEF Writes, Alive, RowFor, IsActive
<1>10. Covers(w)'
  BY <1>1, <1>5, <1>7, StillCovers DEF Writing, Skips
<1>11. ~scene.family => Standalone(w)'
  BY <1>1, <1>5, JobFacts DEF Standalone, Writing, IsActive
<1> QED
  BY <1>5, <1>7, <1>8, <1>9, <1>10, <1>11, Rewriting

LEMMA VariantKeeps == ASSUME CatalogInv, OneWriter, NEW w \in scene.workers, WriteVariant(w), scene' = scene PROVE CatalogInv'
<1> PICK l, skus, view, pc, put, new :
      /\ l = Listing(w) /\ skus = Skus(w) /\ view = worker[w].view
      /\ pc = (IF worker[w].op = "create" THEN "media" ELSE "checkpoint") /\ Put(w, put, pc)
      /\ put = [l EXCEPT !.skus = skus, !.variant = view] /\ new = Whole(put)
  BY DEF WriteVariant
<1>1. worker[w].pc = "variant" /\ This(w) # 0 /\ worker[w].op \in {"create", "update", "collapse"} /\ Alive(This(w))
  BY JobFacts DEF WriteVariant, Plans, Located, Put
<1>2. IsListing(l) /\ l.lost \in BOOLEAN
  BY <1>1, ThisListing
<1>3. put = [state |-> l.state, options |-> l.options, skus |-> skus, product |-> l.product, variant |-> view, marker |-> l.marker, lost |-> l.lost, half |-> l.half]
  BY <1>2 DEF IsListing
<1>p. IsListing(put) /\ put.state # "deleted" /\ put.lost \in BOOLEAN /\ put.skus = Skus(w) /\ put.options = l.options
  BY <1>1, <1>2, <1>3 DEF IsListing, Alive, Listing
<1>4. IsListing(new) /\ new.state # "deleted" /\ new.lost \in BOOLEAN /\ new.skus = Skus(w) /\ new.options = l.options
  BY <1>p, WholeListing
<1>5. /\ OnlyMoves(w) /\ worker'[w].pc = pc /\ worker'[w].op = worker[w].op /\ worker'[w].left = worker[w].left
      /\ worker'[w].drop = worker[w].drop /\ This(w)' = This(w) /\ Written(w)' = Written(w) /\ Skus(w)' = Skus(w)
      /\ Alter(w, new) /\ rows' = rows /\ SameRows /\ mapper' = mapper /\ todo' = todo
  <2>1. pc # "idle" /\ worker[w].pc # "idle"
    BY <1>1
  <2> QED
    BY <2>1, PutMoves
<1>6. ASSUME ~scene.family
      PROVE  /\ new.options = FALSE
             /\ \A r \in DOMAIN rows : IsActive(r) /\ rows[r].item = This(w) =>
                  /\ new.skus \subseteq {rows[r].sku, Blank}
                  /\ new.skus = {Blank} => Pending(r) /\ rows[r].option = FALSE
  <2>1. This(w) \in DOMAIN listings
    BY <1>1, JobFacts DEF Plans, ListingsOK, IsList
  <2>2. new.options = FALSE
    BY <1>4, <1>6, <2>1, JobFacts DEF StandaloneRows, Listing
  <2>3. ASSUME NEW r \in DOMAIN rows, IsActive(r), rows[r].item = This(w) PROVE Skus(w) = {rows[r].sku}
    <3>1. rows[r].kv \in Written(w) /\ ~Several(Written(w)) /\ rows[r].sku = Sku[rows[r].kv]
      BY <1>1, <1>6, <2>3, JobFacts DEF Standalone, RowsOK, Writing
    <3> QED
      BY <3>1 DEF Several, Skus
  <2>4. Blank \notin Skus(w)
    BY <1>1, KnownSkus DEF Writing
  <2> QED
    BY <1>4, <2>2, <2>3, <2>4
<1>7. /\ listings'[This(w)] = new /\ DOMAIN listings' = DOMAIN listings /\ Len(listings') = Len(listings)
      /\ \A j \in DOMAIN listings : j # This(w) => listings'[j] = listings[j]
      /\ RowsOK' /\ ListingsOK' /\ (~scene.family => StandaloneRows')
  BY <1>1, <1>4, <1>5, <1>6, Altered
<1>8. Plans(w)'
  BY <1>1, <1>5, <1>7, JobFacts DEF Plans, Early, Located, Writing
<1>9. Writes(w)'
  BY <1>1, <1>4, <1>5, <1>7, KnownSkus DEF Writes, Alive, Blanks, Writing
<1>10. Covers(w)'
  BY <1>1, <1>5, <1>7, StillCovers DEF Writing, Skips
<1>11. ~scene.family => Standalone(w)'
  BY <1>1, <1>4, <1>5, <1>7, JobFacts DEF Standalone, Writing, IsActive
<1> QED
  BY <1>5, <1>7, <1>8, <1>9, <1>10, <1>11, Rewriting

LEMMA MarkKeeps == ASSUME CatalogInv, OneWriter, NEW w \in scene.workers, Mark(w), scene' = scene PROVE CatalogInv'
<1> PICK l, view, put, new :
      l = Listing(w) /\ view = worker[w].view /\ Put(w, put, "media") /\ put = [l EXCEPT !.marker = view] /\ new = Whole(put)
  BY DEF Mark
<1>1. worker[w].pc = "mark" /\ This(w) # 0 /\ Alive(This(w)) /\ ~Blanks(This(w))
  BY JobFacts DEF Mark, Plans, Located, Put, Writes
<1>2. IsListing(l) /\ l.lost \in BOOLEAN
  BY <1>1, ThisListing
<1>3. put = [state |-> l.state, options |-> l.options, skus |-> l.skus, product |-> l.product, variant |-> l.variant, marker |-> view, lost |-> l.lost, half |-> l.half]
  BY <1>2 DEF IsListing
<1>p. IsListing(put) /\ put.state # "deleted" /\ put.lost \in BOOLEAN /\ put.skus # {Blank}
  BY <1>1, <1>2, <1>3 DEF IsListing, Alive, Listing, Blanks
<1>4. IsListing(new) /\ new.state # "deleted" /\ new.lost \in BOOLEAN /\ new.skus # {Blank}
  BY <1>p, WholeListing
<1>5. scene.family
  BY <1>1, JobFacts DEF Standalone
<1>6. /\ OnlyMoves(w) /\ worker'[w].pc = "media" /\ worker'[w].op = worker[w].op /\ worker'[w].left = worker[w].left
      /\ worker'[w].drop = worker[w].drop /\ This(w)' = This(w) /\ Written(w)' = Written(w) /\ Skus(w)' = Skus(w)
      /\ Alter(w, new) /\ rows' = rows /\ SameRows /\ mapper' = mapper /\ todo' = todo
  BY <1>1, PutMoves
<1>7. /\ listings'[This(w)] = new /\ DOMAIN listings' = DOMAIN listings /\ Len(listings') = Len(listings)
      /\ \A j \in DOMAIN listings : j # This(w) => listings'[j] = listings[j]
      /\ RowsOK' /\ ListingsOK'
  BY <1>1, <1>4, <1>5, <1>6, Altered
<1>8. Plans(w)'
  BY <1>1, <1>6, <1>7, JobFacts DEF Plans, Early, Located, Writing
<1>9. Writes(w)'
  BY <1>1, <1>4, <1>6, <1>7 DEF Writes, Alive, Blanks
<1>10. Covers(w)'
  BY <1>1, <1>6, <1>7, StillCovers DEF Writing, Skips
<1> QED
  BY <1>5, <1>6, <1>7, <1>8, <1>9, <1>10, Rewriting

LEMMA RetireKeeps == ASSUME CatalogInv, OneWriter, NEW w \in scene.workers, Retire(w), scene' = scene PROVE CatalogInv'
<1> PICK l, put, new : l = Listing(w) /\ Put(w, put, "forget") /\ put = [l EXCEPT !.state = "archived"] /\ new = Whole(put)
  BY DEF Retire
<1>1. worker[w].pc = "retire" /\ This(w) # 0
  BY JobFacts DEF Retire, Plans, Located
<1>2. IsListing(l) /\ l.lost \in BOOLEAN
  BY <1>1, ThisListing
<1>3. put = [state |-> "archived", options |-> l.options, skus |-> l.skus, product |-> l.product, variant |-> l.variant,
             marker |-> l.marker, lost |-> l.lost, half |-> l.half]
  BY <1>2 DEF IsListing
<1>p. IsListing(put) /\ put.state = "archived" /\ put.lost \in BOOLEAN /\ put.skus = l.skus /\ put.options = l.options
  BY <1>2, <1>3 DEF IsListing
<1>4. IsListing(new) /\ new.state = "archived" /\ new.lost \in BOOLEAN /\ new.skus = l.skus /\ new.options = l.options
  BY <1>p, WholeListing
<1>5. /\ OnlyMoves(w) /\ worker'[w].pc = "forget" /\ worker'[w].op = worker[w].op /\ worker'[w].left = worker[w].left
      /\ worker'[w].drop = worker[w].drop /\ This(w)' = This(w) /\ Written(w)' = Written(w) /\ Skus(w)' = Skus(w)
      /\ Alter(w, new) /\ rows' = rows /\ SameRows /\ mapper' = mapper /\ todo' = todo
  BY <1>1, PutMoves
<1>6. ASSUME ~scene.family
      PROVE  /\ new.options = FALSE
             /\ \A r \in DOMAIN rows : IsActive(r) /\ rows[r].item = This(w) =>
                  /\ new.skus \subseteq {rows[r].sku, Blank}
                  /\ new.skus = {Blank} => Pending(r) /\ rows[r].option = FALSE
  <2>1. This(w) \in DOMAIN listings
    BY <1>1, JobFacts DEF Plans, ListingsOK, IsList
  <2> QED
    BY <1>4, <1>6, <2>1, JobFacts DEF StandaloneRows, Listing, Blanks
<1>7. /\ listings'[This(w)] = new /\ DOMAIN listings' = DOMAIN listings /\ Len(listings') = Len(listings)
      /\ \A j \in DOMAIN listings : j # This(w) => listings'[j] = listings[j]
      /\ RowsOK' /\ ListingsOK' /\ (~scene.family => StandaloneRows')
  BY <1>1, <1>4, <1>5, <1>6, Altered
<1>8. Plans(w)'
  BY <1>1, <1>5, <1>7, JobFacts DEF Plans, Early, Located, Writing
<1>9. Writes(w)'
  BY <1>1, <1>4, <1>5, <1>7 DEF Writes
<1>10. Covers(w)'
  BY <1>5 DEF Covers, Writing, Skips
<1>11. Standalone(w)'
  BY <1>5 DEF Standalone, Writing
<1> QED
  BY <1>5, <1>7, <1>8, <1>9, <1>10, <1>11, Rewriting

(* A new Shopify product.                                                  *)
LEMMA Added ==
  ASSUME CatalogInv, NEW new, listings' = Append(listings, new), IsListing(new), new.lost \in BOOLEAN, rows' = rows,
         scene' = scene, ~scene.family => new.options = FALSE
  PROVE  /\ Len(listings) + 1 \notin DOMAIN listings /\ Len(listings) + 1 \in 0 .. Len(listings') /\ Len(listings) + 1 # 0
         /\ listings'[Len(listings) + 1] = new /\ DOMAIN listings' = DOMAIN listings \cup {Len(listings) + 1}
         /\ \A j \in DOMAIN listings : listings'[j] = listings[j]
         /\ \A r \in DOMAIN rows : rows[r].item \in DOMAIN listings
         /\ RowsOK' /\ ListingsOK' /\ (~scene.family => StandaloneRows')
<1> PICK n : n = Len(listings) + 1
  OBVIOUS
<1>1. RowsOK /\ ListingsOK /\ IsList(listings) /\ (~scene.family => StandaloneRows)
  BY DEF CatalogInv, ListingsOK
<1>2. IsList(listings') /\ Len(listings') = n /\ listings'[n] = new /\ \A j \in 1 .. Len(listings) : listings'[j] = listings[j]
  BY <1>1, ListAppend
<1>3. Len(listings) \in Nat /\ DOMAIN listings = 1 .. Len(listings) /\ DOMAIN listings' = 1 .. n
  BY <1>1, <1>2 DEF IsList
<1>4. DOMAIN listings' = DOMAIN listings \cup {n} /\ n \notin DOMAIN listings /\ n \in 0 .. n /\ n # 0
  BY <1>3
<1>5. \A j \in DOMAIN listings : listings'[j] = listings[j]
  BY <1>2, <1>3
<1>6. ListingsOK'
  BY <1>1, <1>2, <1>4, <1>5 DEF ListingsOK
<1>7. \A r \in DOMAIN rows : rows[r].item \in DOMAIN listings
  BY <1>1 DEF RowsOK
<1>8. RowsOK'
  <2>1. \A r \in DOMAIN rows : rows[r].status = "synced" => listings'[rows[r].item].state # "deleted"
    BY <1>1, <1>5, <1>7 DEF RowsOK, Alive
  <2> QED
    BY <1>1, <1>4, <1>7, <2>1 DEF RowsOK, IsActive, Alive, Sku
<1>9. ASSUME ~scene.family PROVE StandaloneRows'
  <2>1. \A j \in DOMAIN listings' : listings'[j].options = FALSE
    BY <1>1, <1>2, <1>4, <1>5, <1>9 DEF StandaloneRows
  <2>2. \A r \in DOMAIN rows : listings'[rows[r].item] = listings[rows[r].item]
    BY <1>5, <1>7
  <2> QED
    BY <1>1, <1>9, <2>1, <2>2 DEF StandaloneRows, IsActive, Blanks, Pending
<1> QED
  BY <1>2, <1>4, <1>5, <1>6, <1>7, <1>8, <1>9

(* The job that made it holds it.                                          *)
LEMMA AddedHeld ==
  ASSUME CatalogInv, OneWriter, NEW w \in scene.workers, NEW new, listings' = Append(listings, new), IsListing(new),
         new.lost \in BOOLEAN, rows' = rows, scene' = scene, mapper' = mapper, todo' = todo,
         ~scene.family => new.options = FALSE, This(w) = 0, OnlyMoves(w), This(w)' = Len(listings) + 1,
         Plans(w)', Writes(w)', Covers(w)', ~scene.family => Standalone(w)'
  PROVE  CatalogInv'
<1>1. /\ DOMAIN listings' = DOMAIN listings \cup {Len(listings) + 1} /\ RowsOK' /\ ListingsOK' /\ (~scene.family => StandaloneRows')
      /\ \A j \in DOMAIN listings : listings'[j] = listings[j]
  BY Added
<1>2. ASSUME NEW i \in DOMAIN listings, Lone(i)' PROVE RowFor(i)'
  <2>1. Lone(i) /\ i # This(w)
    BY <1>1, <1>2, ListingPlaces DEF Lone, Blanks
  <2>2. RowFor(i)
    BY <2>1, Unheld
  <2> QED
    BY <2>2 DEF RowFor, IsActive
<1> QED
  BY <1>1, <1>2, JobMoves, JobFacts

LEMMA CreateKeeps == ASSUME CatalogInv, OneWriter, NEW w \in scene.workers, Create(w), scene' = scene PROVE CatalogInv'
<1> PICK u, y, n, item, view, new :
      /\ u = worker[w] /\ n = Len(listings) + 1 /\ item = Item({Blank}, FALSE, Nothing) /\ view = worker[w].view
      /\ new = [item EXCEPT !.product = view] /\ listings' = Append(listings, new)
      /\ y = [u EXCEPT !.pc = "checkpoint", !.item = n] /\ Now(w, y)
  BY DEF Create, NewProduct
<1>1. /\ IsWorker(u) /\ u.job[2] \in Products /\ u.pc = "create" /\ This(w) = 0 /\ u.op = "create" /\ u.left = Written(w)
      /\ Written(w) # {} /\ Written(w) \subseteq Products /\ Written(w) \cap u.drop = {}
  BY JobFacts DEF Create, Plans, Early, Writing
<1>2. IsListing(item) /\ item.state = "live" /\ item.skus = {Blank}
  <2>1. IsListing(item)
    BY ItemIsListing
  <2>2. item.state = "live"
    BY DEF Item
  <2>3. item.skus = {Blank}
    BY DEF Item
  <2> QED
    BY <2>1, <2>2, <2>3
<1>3. item.options = FALSE
  BY DEF Item
<1>4. item.lost = FALSE
  BY ItemIsKept
<1>5. new = [state |-> item.state, options |-> item.options, skus |-> item.skus, product |-> view, variant |-> item.variant,
             marker |-> item.marker, lost |-> item.lost, half |-> item.half]
  BY <1>2 DEF IsListing
<1>6. IsListing(new) /\ new.state = "live" /\ new.skus = {Blank}
  BY <1>2, <1>5 DEF IsListing
<1>7. new.options = FALSE /\ new.lost \in BOOLEAN
  BY <1>3, <1>4, <1>5
<1>8. y = [pc |-> "checkpoint", job |-> u.job, op |-> u.op, view |-> u.view, all |-> u.all, item |-> n, left |-> u.left,
           drop |-> u.drop, refs |-> u.refs]
  BY <1>1 DEF IsWorker
<1>9. IsWorker(y) /\ y.pc # "idle" /\ y.job[2] \in Products
  BY <1>1, <1>8 DEF IsWorker
<1>10. OnlyMoves(w) /\ worker'[w] = y
  BY <1>9, Turn
<1>11. /\ worker'[w].pc = "checkpoint" /\ worker'[w].op = "create" /\ This(w)' = n /\ worker'[w].left = Written(w)
       /\ worker'[w].drop = u.drop /\ Written(w)' = Written(w) /\ Skus(w)' = Skus(w)
  BY <1>1, <1>8, <1>10 DEF This, Written, Skus, Sku, Create
<1>12. rows' = rows /\ mapper' = mapper /\ todo' = todo /\ scene' = scene
  BY DEF Create, ShopOnly, Outside
<1>13. /\ n \notin DOMAIN listings /\ n \in 0 .. Len(listings') /\ n # 0 /\ listings'[n] = new
       /\ \A r \in DOMAIN rows : rows[r].item \in DOMAIN listings
       /\ \A j \in DOMAIN listings : listings'[j] = listings[j]
  BY <1>6, <1>7, <1>12, Added
<1>14. Plans(w)'
  BY <1>1, <1>11, <1>13 DEF Plans, Early, Located, Writing
<1>15. Writes(w)'
  <2>1. worker'[w].left # {} /\ Alive(n)' /\ \A r \in DOMAIN rows : rows[r].item # n
    BY <1>1, <1>6, <1>11, <1>13 DEF Alive
  <2> QED
    BY <1>11, <1>12, <2>1 DEF Writes
<1>16. Covers(w)'
  <2>1. \A r \in DOMAIN rows : IsActive(r) /\ rows[r].kv \in Written(w) \cup u.drop => ~Lone(rows[r].item)
    BY <1>1, <1>13, ListingPlaces, JobFacts DEF Covers, Writing, Skips
  <2>2. \A r \in DOMAIN rows : ~Lone(rows[r].item) => ~Lone(rows[r].item)'
    BY <1>12, <1>13 DEF Lone, Blanks
  <2> QED
    BY <1>11, <1>12, <2>1, <2>2 DEF Covers, Writing, Skips, IsActive
<1>17. ASSUME ~scene.family PROVE Standalone(w)'
  <2>1. ~Several(Written(w)) /\ u.drop = {}
    BY <1>1, <1>17, JobFacts DEF Standalone, Writing
  <2>2. listings'[n].skus = {Blank} /\ \A r \in DOMAIN rows : rows[r].item # n
    BY <1>6, <1>13
  <2> QED
    BY <1>11, <1>12, <2>1, <2>2 DEF Standalone, Writing
<1> QED
  BY <1>1, <1>6, <1>7, <1>10, <1>11, <1>12, <1>14, <1>15, <1>16, <1>17, AddedHeld

LEMMA SetNewKeeps == ASSUME CatalogInv, OneWriter, NEW w \in scene.workers, SetNew(w), scene' = scene PROVE CatalogInv'
<1> PICK u, y, n, skus, view, new :
      /\ u = worker[w] /\ n = Len(listings) + 1 /\ skus = Skus(w) /\ view = worker[w].view
      /\ new = Item(skus, TRUE, view) /\ listings' = Append(listings, new)
      /\ y = [u EXCEPT !.pc = "checkpoint", !.item = n, !.op = "new"] /\ Now(w, y)
  BY DEF SetNew, NewProduct
<1>1. /\ IsWorker(u) /\ u.job[2] \in Products /\ u.pc = "set" /\ This(w) = 0 /\ u.left \subseteq Written(w)
      /\ Written(w) # {} /\ Written(w) \subseteq Products /\ Written(w) \cap u.drop = {}
  BY JobFacts DEF SetNew, Plans, Early, Writing
<1>2. IsListing(new) /\ new.state = "live" /\ new.skus = Skus(w)
  <2>1. IsListing(new)
    BY ItemIsListing
  <2>2. new.state = "live"
    BY DEF Item
  <2>3. new.skus = skus
    BY DEF Item
  <2> QED
    BY <2>1, <2>2, <2>3
<1>3. new.lost = FALSE
  BY ItemIsKept
<1>4. new.lost \in BOOLEAN
  BY <1>3
<1>5. scene.family
  BY <1>1, JobFacts DEF Standalone
<1>8. y = [pc |-> "checkpoint", job |-> u.job, op |-> "new", view |-> u.view, all |-> u.all, item |-> n, left |-> u.left,
           drop |-> u.drop, refs |-> u.refs]
  BY <1>1 DEF IsWorker
<1>9. IsWorker(y) /\ y.pc # "idle" /\ y.job[2] \in Products
  BY <1>1, <1>8 DEF IsWorker
<1>10. OnlyMoves(w) /\ worker'[w] = y
  BY <1>9, Turn
<1>11. /\ worker'[w].pc = "checkpoint" /\ worker'[w].op = "new" /\ This(w)' = n /\ worker'[w].left = u.left
       /\ worker'[w].drop = u.drop /\ Written(w)' = Written(w) /\ Skus(w)' = Skus(w)
  BY <1>1, <1>8, <1>10 DEF This, Written, Skus, Sku
<1>12. rows' = rows /\ mapper' = mapper /\ todo' = todo /\ scene' = scene
  BY DEF SetNew, ShopOnly, Outside
<1>13. /\ n \notin DOMAIN listings /\ n \in 0 .. Len(listings') /\ n # 0 /\ listings'[n] = new
       /\ \A r \in DOMAIN rows : rows[r].item \in DOMAIN listings
       /\ \A j \in DOMAIN listings : listings'[j] = listings[j]
  BY <1>2, <1>4, <1>5, <1>12, Added
<1>14. Plans(w)'
  BY <1>1, <1>11, <1>13 DEF Plans, Early, Located, Writing
<1>15. Writes(w)'
  <2>1. Skus(w) # {Blank}
    BY <1>1, KnownSkus DEF Writing
  <2> QED
    BY <1>1, <1>2, <1>11, <1>12, <1>13, <2>1 DEF Writes, Alive, Blanks
<1>16. Covers(w)'
  <2>1. \A r \in DOMAIN rows : IsActive(r) /\ rows[r].kv \in Written(w) \cup u.drop => ~Lone(rows[r].item)
    BY <1>1, <1>13, ListingPlaces, JobFacts DEF Covers, Writing, Skips
  <2>2. \A r \in DOMAIN rows : ~Lone(rows[r].item) => ~Lone(rows[r].item)'
    BY <1>12, <1>13 DEF Lone, Blanks
  <2> QED
    BY <1>11, <1>12, <2>1, <2>2 DEF Covers, Writing, Skips, IsActive
<1> QED
  BY <1>1, <1>2, <1>4, <1>5, <1>10, <1>11, <1>12, <1>14, <1>15, <1>16, AddedHeld

(* A mapping is saved, before or after the product's content.              *)
LessLeft(u, p) == [u EXCEPT !.left = @ \ {p}]

LEMMA LeftMoves ==
  ASSUME CatalogInv, OneWriter, NEW w \in scene.workers, NEW p, Now(w, LessLeft(worker[w], p)), scene' = scene, worker[w].pc # "idle"
  PROVE  /\ OnlyMoves(w) /\ worker'[w].pc = worker[w].pc /\ worker'[w].op = worker[w].op
         /\ worker'[w].left = worker[w].left \ {p} /\ worker'[w].drop = worker[w].drop
         /\ This(w)' = This(w) /\ Written(w)' = Written(w) /\ Skus(w)' = Skus(w)
<1> PICK u, y : u = worker[w] /\ y = [u EXCEPT !.left = @ \ {p}] /\ Now(w, y)
  BY DEF LessLeft
<1>1. IsWorker(u) /\ u.job[2] \in Products
  BY JobFacts
<1>2. y = [pc |-> u.pc, job |-> u.job, op |-> u.op, view |-> u.view, all |-> u.all, item |-> u.item, left |-> u.left \ {p},
           drop |-> u.drop, refs |-> u.refs]
  BY <1>1 DEF IsWorker
<1>3. IsWorker(y) /\ y.pc # "idle" /\ y.job[2] \in Products
  BY <1>1, <1>2 DEF IsWorker
<1>4. OnlyMoves(w) /\ worker'[w] = y
  BY <1>3, Turn
<1> QED
  BY <1>2, <1>4 DEF This, Written, Skus, Sku

LEMMA Recording ==
  ASSUME CatalogInv, OneWriter, NEW w \in scene.workers, NEW p \in worker[w].left, NEW hash,
         worker[w].pc \in {"checkpoint", "save"}, worker[w].pc = "checkpoint" => hash = Nothing,
         ~Conflict(p), Upsert(p, This(w), hash), Now(w, LessLeft(worker[w], p)),
         listings' = listings, todo' = todo, mapper' = mapper, scene' = scene
  PROVE  CatalogInv'
<1> PICK u, i, new : u = worker[w] /\ i = This(w) /\ new = NewRow(p, i, hash)
  OBVIOUS
<1>1. u.pc \in {"checkpoint", "save"}
  OBVIOUS
<1>5. /\ OnlyMoves(w) /\ worker'[w].pc = u.pc /\ worker'[w].op = u.op /\ This(w)' = i /\ worker'[w].left = u.left \ {p}
      /\ worker'[w].drop = u.drop /\ Written(w)' = Written(w) /\ Skus(w)' = Skus(w)
  BY LeftMoves
<1>6. i # 0 /\ Alive(i) /\ p \in Written(w) /\ p \in Products /\ i \in DOMAIN listings
  BY <1>1, JobFacts DEF Plans, Writes, Located, Writing, ListingsOK, IsList
<1>7. /\ \A r \in DOMAIN rows : /\ IsRow(rows[r]) /\ rows[r].kv \in Products /\ rows[r].sku = Sku[rows[r].kv]
                                 /\ rows[r].item \in DOMAIN listings /\ rows[r].status \in {"mapped", "synced", "archived"}
                                 /\ rows[r].status = "synced" => Alive(rows[r].item)
      /\ \A r, q \in DOMAIN rows : IsActive(r) /\ IsActive(q) /\ rows[r].sku = rows[q].sku => r = q
  BY JobFacts DEF RowsOK
<1> DEFINE Mine == ActiveRows(Sku[p])
<1>8. /\ IsList(rows') /\ DOMAIN rows \subseteq DOMAIN rows'
      /\ \A r \in DOMAIN rows' : IF r \in DOMAIN rows /\ r \notin Mine THEN rows'[r] = rows[r] ELSE rows'[r] = new
      /\ \E r \in DOMAIN rows' : rows'[r] = new
      /\ Mine # {} => DOMAIN rows' = DOMAIN rows
      /\ Mine = {} => DOMAIN rows' = DOMAIN rows \cup {Len(rows) + 1} /\ Len(rows) + 1 \notin DOMAIN rows
  <2>1. IsList(rows) /\ Upsert(p, i, hash)
    BY JobFacts DEF RowsOK
  <2>2. IsList(rows') /\ DOMAIN rows \subseteq DOMAIN rows'
    BY <2>1, UpsertRows
  <2>3. \A r \in DOMAIN rows' : IF r \in DOMAIN rows /\ r \notin Mine THEN rows'[r] = rows[r] ELSE rows'[r] = NewRow(p, i, hash)
    BY <2>1, UpsertRows
  <2>4. \E r \in DOMAIN rows' : rows'[r] = NewRow(p, i, hash)
    BY <2>1, UpsertRows
  <2>5. /\ Mine # {} => DOMAIN rows' = DOMAIN rows
        /\ Mine = {} => DOMAIN rows' = DOMAIN rows \cup {Len(rows) + 1} /\ Len(rows) + 1 \notin DOMAIN rows
    BY <2>1, UpsertRows
  <2> QED
    BY <2>2, <2>3, <2>4, <2>5
<1>9. /\ new.sku = Sku[p] /\ new.kv = p /\ new.item = i /\ new.option = listings[i].options /\ new.hash = hash
      /\ new.status \in {"mapped", "synced"} /\ (hash = Nothing => new.status = "mapped") /\ IsRow(new)
  BY NewRowFields
<1>10. IsList(rows') /\ DOMAIN rows \subseteq DOMAIN rows'
  BY <1>8
(* What is not the new row is an old one of another SKU. *)
<1>11. \A r \in DOMAIN rows' : rows'[r] = new \/ (r \in DOMAIN rows /\ r \notin Mine /\ rows'[r] = rows[r])
  BY <1>8
<1>12. \A r \in DOMAIN rows : IsActive(r) /\ rows[r].sku = Sku[p] => r \in Mine
  BY DEF ActiveRows
<1>13. \A r \in Mine : r \in DOMAIN rows /\ IsActive(r) /\ rows[r].kv = p /\ rows[r].sku = Sku[p] /\ rows'[r] = new
  BY <1>8, <1>10 DEF ActiveRows, Conflict
<1>14. \A r, q \in DOMAIN rows' : rows'[r] = new /\ rows'[q] = new /\ (r \in DOMAIN rows => r \in Mine) /\ (q \in DOMAIN rows => q \in Mine) => r = q
  BY <1>7, <1>8, <1>13
<1> HIDE DEF Mine
<1>15. RowsOK'
  <2>2. ASSUME NEW r \in DOMAIN rows', NEW q \in DOMAIN rows', rows'[r].status # "archived", rows'[q].status # "archived",
               rows'[r].sku = rows'[q].sku
        PROVE  r = q
    <3>1. CASE r \in DOMAIN rows /\ r \notin Mine /\ q \in DOMAIN rows /\ q \notin Mine
      <4>1. rows'[r] = rows[r] /\ rows'[q] = rows[q]
        BY <1>8, <3>1
      <4> QED
        BY <1>7, <2>2, <3>1, <4>1 DEF IsActive
    <3>2. CASE r \in DOMAIN rows /\ r \notin Mine /\ ~(q \in DOMAIN rows /\ q \notin Mine)
      <4>1. rows'[r] = rows[r] /\ rows'[q] = new
        BY <1>8, <3>2
      <4> QED
        BY <1>9, <1>12, <2>2, <3>2, <4>1 DEF IsActive
    <3>3. CASE ~(r \in DOMAIN rows /\ r \notin Mine) /\ q \in DOMAIN rows /\ q \notin Mine
      <4>1. rows'[r] = new /\ rows'[q] = rows[q]
        BY <1>8, <3>3
      <4> QED
        BY <1>9, <1>12, <2>2, <3>3, <4>1 DEF IsActive
    <3>4. CASE ~(r \in DOMAIN rows /\ r \notin Mine) /\ ~(q \in DOMAIN rows /\ q \notin Mine)
      BY <1>8, <1>14, <3>4
    <3> QED
      BY <3>1, <3>2, <3>3, <3>4
  <2>3. ASSUME NEW r \in DOMAIN rows'
        PROVE  /\ IsRow(rows'[r]) /\ rows'[r].kv \in Products /\ rows'[r].sku = scene'.sku[rows'[r].kv]
               /\ rows'[r].item \in DOMAIN listings' /\ rows'[r].status \in {"mapped", "synced", "archived"}
               /\ rows'[r].status = "synced" => listings'[rows'[r].item].state # "deleted"
    <3>1. CASE rows'[r] = new
      BY <1>6, <1>9, <3>1 DEF Sku, Alive
    <3>2. CASE r \in DOMAIN rows /\ rows'[r] = rows[r]
      BY <3>2, JobFacts DEF RowsOK, Sku, Alive
    <3> QED
      BY <1>11, <3>1, <3>2
  <2>4. \A r, q \in DOMAIN rows' : IsActive(r)' /\ IsActive(q)' /\ rows'[r].sku = rows'[q].sku => r = q
    BY <2>2 DEF IsActive
  <2> QED
    BY <1>10, <2>3, <2>4 DEF RowsOK, Sku, Alive
<1>16. ListingsOK'
  BY JobFacts DEF ListingsOK
<1>17. Plans(w)'
  BY <1>1, <1>5, <1>6, JobFacts DEF Plans, Early, Located, Writing
<1>18. RowFor(i)'
  BY <1>8, <1>9 DEF RowFor, IsActive
<1>19. Writes(w)'
  <2>1. \A r \in DOMAIN rows' : u.pc = "checkpoint" /\ u.op \in {"create", "new"} /\ IsActive(r)' /\ rows'[r].item = i =>
          rows'[r].status = "mapped"
    BY <1>6, <1>9, <1>11, JobFacts DEF Writes, IsActive
  <2> QED
    BY <1>1, <1>5, <1>6, <1>18, <2>1, JobFacts DEF Writes, Alive, Blanks
<1>20. \A r \in DOMAIN rows : IsActive(r) /\ rows[r].kv \in Written(w) \cup u.drop => rows[r].item = i \/ ~Lone(rows[r].item)
  BY <1>1, <1>6, JobFacts DEF Covers, Writing, Skips
<1>21. Covers(w)'
  <2>1. ~Skips(w)' /\ u.pc \in Writing
    BY <1>1, <1>5, <1>6 DEF Skips, Writing
  <2>2. ASSUME NEW r \in DOMAIN rows', IsActive(r)', rows'[r].kv \in Written(w) \cup u.drop
        PROVE  rows'[r].item = i \/ ~Lone(rows'[r].item)
    BY <1>9, <1>11, <1>20, <2>2 DEF IsActive
  <2> QED
    BY <1>5, <2>1, <2>2 DEF Covers, Lone, Blanks
<1>22. ASSUME ~scene.family PROVE StandaloneRows' /\ Standalone(w)'
  <2>1. /\ ~Several(Written(w)) /\ StandaloneRows /\ listings[i].skus \subseteq Skus(w) \cup {Blank} /\ u.drop = {}
        /\ (u.pc = "checkpoint" => u.op \in {"create", "update"})
        /\ \A r \in DOMAIN rows : IsActive(r) /\ rows[r].item = i => rows[r].kv \in Written(w)
    BY <1>1, <1>6, <1>22, JobFacts DEF Standalone, Writing
  <2>2. Written(w) = {p} /\ Skus(w) = {Sku[p]}
    BY <1>6, <2>1 DEF Several, Skus
  <2>3. \A r \in DOMAIN rows : IsActive(r) /\ rows[r].item = i => r \in Mine
    <3> SUFFICES ASSUME NEW r \in DOMAIN rows, IsActive(r), rows[r].item = i PROVE r \in Mine
      OBVIOUS
    <3>1. rows[r].kv = p
      BY <2>1, <2>2
    <3>2. rows[r].sku = Sku[rows[r].kv]
      BY JobFacts DEF RowsOK
    <3> QED
      BY <1>12, <3>1, <3>2
  <2>4. \A r \in DOMAIN rows' : IsActive(r)' /\ rows'[r].item = i => rows'[r] = new
    BY <1>11, <2>3 DEF IsActive
  <2>5. Standalone(w)'
    <3>1. \A r \in DOMAIN rows' : IsActive(r)' /\ rows'[r].item = i => rows'[r].kv \in Written(w)
      BY <1>6, <1>9, <2>4
    <3> QED
      BY <1>1, <1>5, <2>1, <3>1 DEF Standalone, Writing
  <2>6. ASSUME NEW r \in DOMAIN rows', NEW q \in DOMAIN rows', rows'[r].status # "archived", rows'[q].status # "archived",
               rows'[r].item = rows'[q].item
        PROVE  r = q
    <3>1. CASE rows'[r].item = i
      <4>1. rows'[r] = new /\ rows'[q] = new
        BY <2>4, <2>6, <3>1 DEF IsActive
      <4> QED
        BY <1>15, <2>6, <4>1 DEF RowsOK, IsActive
    <3>2. CASE rows'[r].item # i
      <4>1. r \in DOMAIN rows /\ q \in DOMAIN rows /\ rows'[r] = rows[r] /\ rows'[q] = rows[q]
        BY <1>9, <1>11, <2>6, <3>2
      <4> QED
        BY <2>1, <2>6, <4>1 DEF StandaloneRows, IsActive
    <3> QED
      BY <3>1, <3>2
  <2>7. ASSUME NEW r \in DOMAIN rows', rows'[r].status # "archived"
        PROVE  /\ listings[rows'[r].item].skus \subseteq {rows'[r].sku, Blank}
               /\ Blanks(rows'[r].item) =>
                    rows'[r].status = "mapped" /\ rows'[r].hash = Nothing /\ rows'[r].option = listings[rows'[r].item].options
    <3>1. CASE rows'[r] = new
      <4>1. u.pc = "save" => ~Blanks(i)
        BY <1>6, JobFacts DEF Writes
      <4> QED
        BY <1>1, <1>9, <2>1, <2>2, <3>1, <4>1
    <3>2. CASE r \in DOMAIN rows /\ rows'[r] = rows[r]
      BY <2>1, <2>7, <3>2 DEF StandaloneRows, IsActive, Pending
    <3> QED
      BY <1>11, <3>1, <3>2
  <2> QED
    BY <2>1, <2>5, <2>6, <2>7 DEF StandaloneRows, IsActive, Blanks, Pending
<1>23. ASSUME NEW j \in DOMAIN listings, Lone(j)', j # i PROVE RowFor(j)'
  <2>1. Lone(j)
    BY <1>23 DEF Lone, Blanks
  <2>2. PICK r \in DOMAIN rows : IsActive(r) /\ rows[r].item = j
    BY <1>23, <2>1, Unheld DEF RowFor
  <2>3. r \notin Mine
    BY <1>6, <1>13, <1>20, <1>23, <2>1, <2>2
  <2> QED
    BY <1>8, <1>10, <2>2, <2>3 DEF RowFor, IsActive
<1> QED
  BY <1>5, <1>15, <1>16, <1>17, <1>19, <1>21, <1>22, <1>23, JobMoves, JobFacts

LEMMA CheckpointKeeps == ASSUME CatalogInv, OneWriter, NEW w \in scene.workers, Checkpoint(w), scene' = scene PROVE CatalogInv'
<1> PICK p \in worker[w].left : ~Conflict(p) /\ Upsert(p, This(w), Nothing) /\ Now(w, LessLeft(worker[w], p))
  BY DEF Checkpoint, LessLeft
<1>1. worker[w].pc = "checkpoint" /\ listings' = listings /\ todo' = todo /\ mapper' = mapper
  BY DEF Checkpoint, Outside
<1> QED
  BY <1>1, Recording

LEMMA SaveKeeps == ASSUME CatalogInv, OneWriter, NEW w \in scene.workers, Save(w), scene' = scene PROVE CatalogInv'
<1> PICK p \in worker[w].left : ~Conflict(p) /\ Upsert(p, This(w), worker[w].view) /\ Now(w, LessLeft(worker[w], p))
  BY DEF Save, LessLeft
<1>1. worker[w].pc = "save" /\ listings' = listings /\ todo' = todo /\ mapper' = mapper
  BY DEF Save, Outside
<1> QED
  BY <1>1, Recording

(* Rows are archived.                                                      *)
LEMMA Archiving ==
  ASSUME CatalogInv, OneWriter, NEW w \in scene.workers, NEW rs, rows' = Archived(rs), listings' = listings, todo' = todo,
         mapper' = mapper, scene' = scene, worker[w].pc # "idle", End(w) \/ GoTo(w, "reference"),
         This(w) # 0 => ~Lone(This(w)),
         \A i \in DOMAIN listings : Lone(i) /\ i # This(w) =>
           \E r \in DOMAIN rows : IsActive(r) /\ rows[r].item = i /\ r \notin rs
  PROVE  CatalogInv'
<1>1. IsList(rows') /\ DOMAIN rows' = DOMAIN rows
  BY JobFacts, ArchivedRows DEF RowsOK
<1>2. \A r \in DOMAIN rows : rows'[r] = IF r \in rs THEN ArchivedOf(rows[r]) ELSE rows[r]
  BY JobFacts, ArchivedRows DEF RowsOK
<1>3. \A r \in DOMAIN rows : IsRow(rows[r])
  BY JobFacts DEF RowsOK
<1>4. ASSUME NEW r \in DOMAIN rows, r \in rs
      PROVE  /\ IsRow(rows'[r]) /\ rows'[r].status = "archived" /\ rows'[r].kv = rows[r].kv
             /\ rows'[r].sku = rows[r].sku /\ rows'[r].item = rows[r].item
  BY <1>2, <1>3, <1>4, ArchivedRow
<1>5. \A r \in DOMAIN rows : r \notin rs => rows'[r] = rows[r]
  BY <1>2
<1>6. ASSUME NEW r \in DOMAIN rows, rows'[r].status # "archived" PROVE rows'[r] = rows[r] /\ IsActive(r)
  BY <1>4, <1>5, <1>6 DEF IsActive
<1>7. RowsOK'
  <2>1. ASSUME NEW r \in DOMAIN rows
        PROVE  /\ IsRow(rows'[r]) /\ rows'[r].kv \in Products /\ rows'[r].sku = scene'.sku[rows'[r].kv]
               /\ rows'[r].item \in DOMAIN listings' /\ rows'[r].status \in {"mapped", "synced", "archived"}
               /\ rows'[r].status = "synced" => listings'[rows'[r].item].state # "deleted"
    <3>1. CASE r \in rs
      BY <1>4, <3>1, JobFacts DEF RowsOK, Sku
    <3>2. CASE r \notin rs
      BY <1>5, <3>2, JobFacts DEF RowsOK, Sku, Alive
    <3> QED
      BY <3>1, <3>2
  <2>2. ASSUME NEW r \in DOMAIN rows, NEW q \in DOMAIN rows, rows'[r].status # "archived", rows'[q].status # "archived",
               rows'[r].sku = rows'[q].sku
        PROVE  r = q
    BY <1>6, <2>2, JobFacts DEF RowsOK
  <2>3. \A r, q \in DOMAIN rows' : IsActive(r)' /\ IsActive(q)' /\ rows'[r].sku = rows'[q].sku => r = q
    BY <1>1, <2>2 DEF IsActive
  <2> QED
    BY <1>1, <2>1, <2>3 DEF RowsOK, Sku, Alive
<1>8. ASSUME ~scene.family PROVE StandaloneRows'
  <2>1. ASSUME NEW r \in DOMAIN rows, NEW q \in DOMAIN rows, rows'[r].status # "archived", rows'[q].status # "archived",
               rows'[r].item = rows'[q].item
        PROVE  r = q
    BY <1>6, <1>8, <2>1, JobFacts DEF StandaloneRows
  <2>2. ASSUME NEW r \in DOMAIN rows, rows'[r].status # "archived"
        PROVE  /\ listings[rows'[r].item].skus \subseteq {rows'[r].sku, Blank}
               /\ Blanks(rows'[r].item) =>
                    rows'[r].status = "mapped" /\ rows'[r].hash = Nothing /\ rows'[r].option = listings[rows'[r].item].options
    BY <1>6, <1>8, <2>2, JobFacts DEF StandaloneRows, Pending
  <2> QED
    BY <1>1, <1>8, <2>1, <2>2, JobFacts DEF StandaloneRows, IsActive, Blanks, Pending
<1>9. ListingsOK'
  BY JobFacts DEF ListingsOK
<1>10. ASSUME NEW i \in DOMAIN listings, Lone(i)' PROVE RowFor(i)'
  <2>1. Lone(i) /\ i # 0
    BY <1>10, ListingPlaces DEF Lone, Blanks
  <2>2. PICK r \in DOMAIN rows : IsActive(r) /\ rows[r].item = i /\ r \notin rs
    BY <2>1
  <2> QED
    BY <1>1, <1>5, <2>2 DEF RowFor, IsActive
<1>11. CASE End(w)
  BY <1>7, <1>8, <1>9, <1>10, <1>11, Ended, JobFacts
<1>12. CASE GoTo(w, "reference")
  <2>1. OnlyMoves(w) /\ worker'[w].pc = "reference" /\ worker'[w].item = worker[w].item
    BY <1>12, Places
  <2>2. This(w)' = This(w) /\ Len(listings') = Len(listings)
    BY <2>1 DEF This
  <2>3. Plans(w)'
    BY <2>1, <2>2, JobFacts DEF Plans, Early, Located, Writing
  <2>4. Writes(w)'
    BY <2>1, <2>2 DEF Writes, Lone, Blanks
  <2>5. Covers(w)' /\ Standalone(w)'
    BY <2>1 DEF Covers, Standalone, Writing, Skips
  <2> QED
    BY <1>7, <1>8, <1>9, <1>10, <2>1, <2>3, <2>4, <2>5, JobMoves, JobFacts
<1> QED
  BY <1>11, <1>12

LEMMA DropKeeps == ASSUME CatalogInv, OneWriter, NEW w \in scene.workers, Drop(w), scene' = scene PROVE CatalogInv'
<1> PICK rs : rs = RowsOf(worker[w].drop)
  OBVIOUS
<1>1. /\ worker[w].pc = "save" /\ rows' = Archived(rs) /\ listings' = listings /\ todo' = todo /\ mapper' = mapper
      /\ End(w) \/ GoTo(w, "reference")
  BY DEF Drop, Outside
<1>2. This(w) # 0 => ~Lone(This(w))
  BY <1>1, JobFacts DEF Writes, Lone
<1>3. ASSUME NEW i \in DOMAIN listings, Lone(i), i # This(w)
      PROVE  \E r \in DOMAIN rows : IsActive(r) /\ rows[r].item = i /\ r \notin rs
  <2>1. PICK r \in DOMAIN rows : IsActive(r) /\ rows[r].item = i
    BY <1>3, Unheld DEF RowFor
  <2>2. CASE rows[r].kv \notin worker[w].drop
    BY <2>1, <2>2 DEF RowsOf
  <2>3. CASE rows[r].kv \in worker[w].drop
    <3>1. CASE This(w) = 0
      BY <1>1, <1>3, <2>1, <2>3, <3>1, JobFacts DEF Covers, Skips, RowsOf
    <3>2. CASE This(w) # 0
      BY <1>1, <1>3, <2>1, <2>3, <3>2, JobFacts DEF Covers, Skips, Writing
    <3> QED
      BY <3>1, <3>2
  <2> QED
    BY <2>2, <2>3
<1> QED
  BY <1>1, <1>2, <1>3, Archiving

LEMMA ForgetKeeps == ASSUME CatalogInv, OneWriter, NEW w \in scene.workers, Forget(w), scene' = scene PROVE CatalogInv'
<1> PICK rs : rs = {r \in DOMAIN rows : rows[r].item = This(w)}
  OBVIOUS
<1>1. /\ worker[w].pc = "forget" /\ rows' = Archived(rs) /\ listings' = listings /\ todo' = todo /\ mapper' = mapper
      /\ GoTo(w, "reference")
  BY DEF Forget, Outside
<1>2. This(w) # 0 => ~Lone(This(w))
  BY <1>1, JobFacts DEF Writes, Lone
<1>3. ASSUME NEW i \in DOMAIN listings, Lone(i), i # This(w)
      PROVE  \E r \in DOMAIN rows : IsActive(r) /\ rows[r].item = i /\ r \notin rs
  BY <1>3, Unheld DEF RowFor
<1> QED
  BY <1>1, <1>2, <1>3, Archiving

(* Jobs that end, and what is left of them.                                *)
LEMMA RefuseKeeps ==
  ASSUME CatalogInv, OneWriter, NEW w \in scene.workers, scene' = scene,
         \/ CallRefused(w) \/ FetchFails(w) \/ PlanRefused(w) \/ SaveRefused(w) \/ ReferenceDone(w)
         \/ \E p \in Products : ReferenceUnclear(w, p)
  PROVE  CatalogInv'
<1>1. End(w) /\ rows' = rows /\ listings' = listings /\ todo' = todo /\ mapper' = mapper
  BY DEF CallRefused, FetchFails, PlanRefused, SaveRefused, ReferenceDone, ReferenceUnclear, Refuse, ShopOnly, Outside
<1>2. worker[w].pc \in {"product", "variant"} => ~Alive(This(w))
  BY DEF CallRefused, FetchFails, PlanRefused, SaveRefused, ReferenceDone, ReferenceUnclear
<1>3. worker[w].pc # "checkpoint"
  BY DEF CallRefused, FetchFails, PlanRefused, SaveRefused, ReferenceDone, ReferenceUnclear
<1>4. Leavable(w)
  BY <1>2, <1>3, JobFacts, Leaving DEF Unfinished
<1> QED
  BY <1>1, <1>4, Stopped, JobFacts

LEMMA Interrupted ==
  ASSUME CatalogInv, OneWriter, NEW w \in scene.workers, NEW new, This(w) # 0, Alter(w, new), IsListing(new),
         new.lost \in BOOLEAN, new.skus = Listing(w).skus, new.options = Listing(w).options,
         new.state = "deleted" => \A r \in DOMAIN rows : rows[r].item = This(w) => rows[r].status # "synced",
         new.state = "live" /\ ~new.lost /\ ~new.half /\ new.skus = {Blank} => RowFor(This(w)),
         End(w), SameRows, mapper' = mapper, scene' = scene, \A j \in todo' : j[2] \in Products
  PROVE  CatalogInv'
<1>1. This(w) \in DOMAIN listings
  BY JobFacts DEF Plans, ListingsOK, IsList
<1>3. ASSUME ~scene.family
      PROVE  /\ new.options = FALSE
             /\ \A r \in DOMAIN rows : IsActive(r) /\ rows[r].item = This(w) =>
                  /\ new.skus \subseteq {rows[r].sku, Blank}
                  /\ new.skus = {Blank} => Pending(r) /\ rows[r].option = FALSE
  BY <1>1, <1>3, JobFacts DEF StandaloneRows, Listing, Blanks
<1>4. /\ listings'[This(w)] = new /\ DOMAIN listings' = DOMAIN listings
      /\ \A j \in DOMAIN listings : j # This(w) => listings'[j] = listings[j]
      /\ RowsOK' /\ ListingsOK' /\ (~scene.family => StandaloneRows')
  BY <1>3, Altered
<1>5. ASSUME NEW i \in DOMAIN listings, Lone(i)' PROVE RowFor(i)'
  <2>1. CASE i = This(w)
    <3>1. RowFor(i)
      BY <1>4, <1>5, <2>1 DEF Lone, Blanks
    <3> QED
      BY <3>1 DEF RowFor, IsActive, SameRows
  <2>2. CASE i # This(w)
    <3>1. Lone(i)
      BY <1>4, <1>5, <2>2 DEF Lone, Blanks
    <3>2. RowFor(i)
      BY <2>2, <3>1, Unheld
    <3> QED
      BY <3>2 DEF RowFor, IsActive, SameRows
  <2> QED
    BY <2>1, <2>2
<1> QED
  BY <1>4, <1>5, Ended

LEMMA Standstill ==
  ASSUME CatalogInv, OneWriter, NEW w \in scene.workers, End(w), SameRows, listings' = listings, mapper' = mapper,
         scene' = scene, \A j \in todo' : j[2] \in Products, Leavable(w)
  PROVE  CatalogInv'
<1>1. RowsOK'
  <2>1. \A r \in DOMAIN rows : IsActive(r)' <=> IsActive(r)
    BY DEF IsActive, SameRows
  <2> QED
    BY <2>1, JobFacts DEF RowsOK, SameRows, Alive, Sku
<1>2. ListingsOK'
  BY JobFacts DEF ListingsOK
<1>3. ~scene.family => StandaloneRows'
  BY AloneAgain, JobFacts DEF StandaloneRows, RowsOK, Blanks
<1>4. ASSUME NEW i \in DOMAIN listings, Lone(i)' PROVE RowFor(i)'
  <2>1. Lone(i) /\ i # 0
    BY <1>4, ListingPlaces DEF Lone, Blanks
  <2>2. RowFor(i)
    BY <2>1, Unheld DEF Leavable
  <2> QED
    BY <2>2 DEF RowFor, IsActive, SameRows
<1> QED
  BY <1>1, <1>2, <1>3, <1>4, Ended

LEMMA CleanedKeeps ==
  ASSUME CatalogInv, OneWriter, NEW w \in scene.workers, Cleaned(w), End(w), SameRows, mapper' = mapper, scene' = scene,
         \A j \in todo' : j[2] \in Products,
         worker[w].pc \in {"product", "variant"} => worker[w].op = "create" \/ RowFor(This(w)) \/ ~Unfinished(w)
  PROVE  CatalogInv'
<1>1. CASE worker[w].pc = "checkpoint" /\ worker[w].left # {} /\ worker[w].op \in {"create", "new"}
  <2> PICK l, end, lost, new : /\ l = Listing(w) /\ end \in {"deleted", "live"} /\ Alter(w, new)
                               /\ lost = (end = "live" /\ worker[w].op = "create")
                               /\ new = [l EXCEPT !.state = end, !.lost = lost]
    BY <1>1 DEF Cleaned
  <2>1. This(w) # 0 /\ This(w) \in DOMAIN listings
    BY <1>1, JobFacts DEF Plans, Located, ListingsOK, IsList
  <2>2. IsListing(l) /\ l.lost \in BOOLEAN
    BY <2>1, ThisListing
  <2>3. new = [state |-> end, options |-> l.options, skus |-> l.skus, product |-> l.product, variant |-> l.variant,
               marker |-> l.marker, lost |-> lost, half |-> l.half]
    BY <2>2 DEF IsListing
  <2>4. IsListing(new) /\ new.state = end /\ new.skus = l.skus /\ new.options = l.options
    BY <2>3 DEF IsListing
  <2>5. new.lost = lost
    BY <2>3
  <2>6. lost \in BOOLEAN
    OBVIOUS
  <2>7. new.lost \in BOOLEAN
    BY <2>5, <2>6
  <2>8. new.state = "live" => new.lost = TRUE \/ worker[w].op # "create"
    BY <2>4, <2>5
  <2>9. worker[w].op # "create" => new.skus # {Blank}
    BY <1>1, <2>1, <2>4, JobFacts DEF Writes, Blanks, Listing
  <2>10. \A r \in DOMAIN rows : rows[r].item = This(w) => rows[r].status # "synced"
    BY <1>1, <2>1, JobFacts DEF Writes, IsActive
  <2> QED
    BY <2>1, <2>4, <2>7, <2>8, <2>9, <2>10, Interrupted
<1>2. CASE ~(worker[w].pc = "checkpoint" /\ worker[w].left # {} /\ worker[w].op \in {"create", "new"})
  <2>1. listings' = listings
    BY <1>2 DEF Cleaned
  <2>2. worker[w].pc = "checkpoint" => worker[w].op # "create" \/ worker[w].left = {}
    BY <1>2
  <2>3. Leavable(w)
    BY <2>2, Leaving, JobFacts
  <2> QED
    BY <2>1, <2>3, Standstill
<1> QED
  BY <1>1, <1>2

LEMMA CheckpointRefusedKeeps ==
  ASSUME CatalogInv, OneWriter, NEW w \in scene.workers, CheckpointRefused(w), scene' = scene PROVE CatalogInv'
<1>1. worker[w].pc = "checkpoint" /\ Cleaned(w) /\ End(w) /\ rows' = rows /\ mapper' = mapper /\ todo' = todo
  BY DEF CheckpointRefused, Outside
<1>2. SameRows
  BY <1>1, JobFacts DEF SameRows, RowsOK
<1> QED
  BY <1>1, <1>2, CleanedKeeps, JobFacts

(* A job that is interrupted.                                              *)
LEMMA RunsAgain ==
  ASSUME CatalogInv, OneWriter, NEW w \in scene.workers, worker[w].pc # "idle", Again(w)
  PROVE  /\ End(w) /\ SameRows /\ mapper' = mapper /\ \A j \in todo' : j[2] \in Products
         /\ ~LeavesHalf(w) /\ worker[w].pc \in {"product", "variant"} =>
              worker[w].op = "create" \/ RowFor(This(w)) \/ ~Unfinished(w)
<1>1. worker[w].job[2] \in Products /\ \A j \in todo : j[2] \in Products
  BY JobFacts
<1>2. SameRows
  BY StaleAgain, StaleRows, JobFacts DEF RowList, RowsOK
<1>3. ASSUME ~LeavesHalf(w), worker[w].pc \in {"product", "variant"}
      PROVE  worker[w].op = "create" \/ RowFor(This(w)) \/ ~Unfinished(w)
  <2>1. This(w) # 0 /\ worker[w].op \in {"create", "update", "collapse"}
    BY <1>3, JobFacts DEF Plans, Located
  <2>2. RowsAt(This(w)) # {} => RowFor(This(w))
    BY DEF RowsAt, RowFor
  <2> QED
    BY <1>3, <2>1, <2>2 DEF LeavesHalf, Wrote, Unfinished
<1> QED
  BY <1>1, <1>2, <1>3 DEF Again

(* What it leaves of the Shopify product is noted.                         *)
LEMMA NotedKeeps ==
  ASSUME CatalogInv, OneWriter, NEW w \in scene.workers, End(w), SameRows, mapper' = mapper, scene' = scene,
         \A j \in todo' : j[2] \in Products, This(w) # 0, NEW lost \in BOOLEAN, NEW half \in BOOLEAN, lost \/ half,
         Alter(w, [Listing(w) EXCEPT !.lost = lost, !.half = half])
  PROVE  CatalogInv'
<1> PICK l, new : l = Listing(w) /\ new = [l EXCEPT !.lost = lost, !.half = half] /\ Alter(w, new)
  OBVIOUS
<1>1. IsListing(l) /\ This(w) \in DOMAIN listings
  BY ThisListing, JobFacts DEF Plans, ListingsOK, IsList
<1>2. new = [state |-> l.state, options |-> l.options, skus |-> l.skus, product |-> l.product, variant |-> l.variant,
             marker |-> l.marker, lost |-> lost, half |-> half]
  BY <1>1 DEF IsListing
<1>3. IsListing(new) /\ new.state = l.state /\ new.skus = l.skus /\ new.options = l.options
  BY <1>2 DEF IsListing
<1>4. new.lost = lost /\ new.half = half
  BY <1>2
<1>5. new.lost \in BOOLEAN /\ (new.lost \/ new.half)
  BY <1>4
<1>6. l.state = "deleted" => \A r \in DOMAIN rows : rows[r].item = This(w) => rows[r].status # "synced"
  BY <1>1, JobFacts DEF RowsOK, Alive, Listing
<1> QED
  BY <1>1, <1>3, <1>5, <1>6, Interrupted

LEMMA FailKeeps == ASSUME CatalogInv, OneWriter, NEW w \in scene.workers, Fail(w), scene' = scene PROVE CatalogInv'
<1>1. worker[w].pc # "idle" /\ Again(w)
  BY DEF Fail
<1>2. /\ End(w) /\ SameRows /\ mapper' = mapper /\ \A j \in todo' : j[2] \in Products
      /\ ~LeavesHalf(w) /\ worker[w].pc \in {"product", "variant"} =>
           worker[w].op = "create" \/ RowFor(This(w)) \/ ~Unfinished(w)
  BY <1>1, RunsAgain
<1>3. CASE LeavesHalf(w)
  <2> PICK l, new : l = Listing(w) /\ new = [l EXCEPT !.half = TRUE] /\ Alter(w, new)
    BY <1>3 DEF Fail
  <2>1. This(w) # 0
    BY <1>3 DEF LeavesHalf, Wrote
  <2>2. IsListing(l) /\ l.lost \in BOOLEAN
    BY <2>1, ThisListing
  <2>3. [l EXCEPT !.half = TRUE] = [l EXCEPT !.lost = l.lost, !.half = TRUE]
    BY <2>2 DEF IsListing
  <2> QED
    BY <1>2, <2>1, <2>2, <2>3, NotedKeeps
<1>4. CASE ~LeavesHalf(w)
  BY <1>2, <1>4, CleanedKeeps DEF Fail
<1> QED
  BY <1>3, <1>4

LEMMA DieKeeps == ASSUME CatalogInv, OneWriter, NEW w \in scene.workers, Die(w), scene' = scene PROVE CatalogInv'
<1>1. worker[w].pc # "idle" /\ Again(w)
  BY DEF Die
<1>2. /\ End(w) /\ SameRows /\ mapper' = mapper /\ \A j \in todo' : j[2] \in Products
      /\ ~LeavesHalf(w) /\ worker[w].pc \in {"product", "variant"} =>
           worker[w].op = "create" \/ RowFor(This(w)) \/ ~Unfinished(w)
  BY <1>1, RunsAgain
<1>3. CASE LeavesLost(w) \/ LeavesHalf(w)
  <2> PICK lost, half : /\ lost = (Listing(w).lost \/ LeavesLost(w)) /\ half = (Listing(w).half \/ LeavesHalf(w))
                        /\ Alter(w, [Listing(w) EXCEPT !.lost = lost, !.half = half])
    BY <1>3 DEF Die
  <2>1. This(w) # 0
    BY <1>3, JobFacts DEF LeavesHalf, Wrote, LeavesLost, Plans, Located
  <2>2. lost \in BOOLEAN /\ half \in BOOLEAN /\ (lost \/ half)
    BY <1>3
  <2> QED
    BY <1>2, <2>1, <2>2, NotedKeeps
<1>4. CASE ~(LeavesLost(w) \/ LeavesHalf(w))
  <2>1. listings' = listings
    BY <1>4 DEF Die
  <2>2. worker[w].pc = "checkpoint" => worker[w].op # "create" \/ worker[w].left = {}
    BY <1>4 DEF LeavesLost
  <2>3. Leavable(w)
    BY <1>2, <1>4, <2>2, Leaving, JobFacts
  <2> QED
    BY <1>2, <2>1, <2>3, Standstill
<1> QED
  BY <1>3, <1>4

(* A creation is sent again: the first product is lost.                    *)
LEMMA CreateAgainKeeps ==
  ASSUME CatalogInv, OneWriter, NEW w \in scene.workers, CreateAgain(w), scene' = scene PROVE CatalogInv'
<1> PICK item, new : item = NewProduct(w) /\ new = [item EXCEPT !.lost = TRUE] /\ listings' = Append(listings, new)
  BY DEF CreateAgain
<1>1. /\ worker[w].pc = "create" \/ (worker[w].pc = "set" /\ This(w) = 0)
      /\ rows' = rows /\ worker' = worker /\ mapper' = mapper /\ todo' = todo
  BY DEF CreateAgain
<1>2. IsListing(item) /\ (worker[w].pc = "create" => item.options = FALSE)
  <2>1. CASE worker[w].pc = "create"
    <3> PICK first, view : first = Item({Blank}, FALSE, Nothing) /\ view = worker[w].view /\ item = [first EXCEPT !.product = view]
      BY <2>1 DEF NewProduct
    <3>1. IsListing(first) /\ first.options = FALSE
      <4>1. IsListing(first)
        BY ItemIsListing
      <4>2. first.options = FALSE
        BY DEF Item
      <4> QED
        BY <4>1, <4>2
    <3>2. item = [state |-> first.state, options |-> first.options, skus |-> first.skus, product |-> view,
                  variant |-> first.variant, marker |-> first.marker, lost |-> first.lost, half |-> first.half]
      BY <3>1 DEF IsListing
    <3> QED
      BY <3>1, <3>2 DEF IsListing
  <2>2. CASE worker[w].pc # "create"
    BY <2>2, ItemIsListing DEF NewProduct
  <2> QED
    BY <2>1, <2>2
<1>3. new = [state |-> item.state, options |-> item.options, skus |-> item.skus, product |-> item.product,
             variant |-> item.variant, marker |-> item.marker, lost |-> TRUE, half |-> item.half]
  BY <1>2 DEF IsListing
<1>4. IsListing(new) /\ new.options = item.options
  BY <1>3 DEF IsListing
<1>5. new.lost = TRUE
  BY <1>3
<1>6. new.lost \in BOOLEAN
  BY <1>5
<1>7. ~scene.family => new.options = FALSE
  BY <1>1, <1>2, <1>4, JobFacts DEF Standalone
<1>8. /\ Len(listings) + 1 \in 0 .. Len(listings') /\ listings'[Len(listings) + 1] = new
      /\ DOMAIN listings' = DOMAIN listings \cup {Len(listings) + 1}
      /\ \A j \in DOMAIN listings : listings'[j] = listings[j]
      /\ \A r \in DOMAIN rows : rows[r].item \in DOMAIN listings
      /\ RowsOK' /\ ListingsOK' /\ (~scene.family => StandaloneRows')
  BY <1>1, <1>4, <1>6, <1>7, Added
<1>9. OnlyMoves(w)
  BY <1>1, JobFacts DEF OnlyMoves, CatalogInv, WorkersOK
<1>10. This(w) = 0 /\ This(w)' = 0 /\ Written(w)' = Written(w) /\ Skus(w)' = Skus(w)
  BY <1>1, JobFacts DEF This, Written, Skus, Sku, Plans, Early
<1>11. Plans(w)'
  <2>1. 0 \in 0 .. Len(listings')
    BY <1>8 DEF ListingsOK, IsList
  <2> QED
    BY <1>1, <1>10, <2>1, JobFacts DEF Plans
<1>12. Writes(w)'
  BY <1>10 DEF Writes
<1>13. Covers(w)'
  <2>1. \A r \in DOMAIN rows : Lone(rows[r].item)' => Lone(rows[r].item)
    BY <1>1, <1>8 DEF Lone, Blanks
  <2>2. \A r \in DOMAIN rows : IsActive(r)' <=> IsActive(r)
    BY <1>1 DEF IsActive
  <2> QED
    BY <1>1, <1>10, <2>1, <2>2, JobFacts DEF Covers, Writing, Skips
<1>14. ~scene.family => Standalone(w)'
  BY <1>1, <1>10, JobFacts DEF Standalone, Writing
<1>15. ASSUME NEW i \in DOMAIN listings', Lone(i)' PROVE RowFor(i)'
  <2>1. i \in DOMAIN listings
    BY <1>5, <1>8, <1>15 DEF Lone
  <2>2. Lone(i) /\ i # This(w)
    BY <1>8, <1>10, <1>15, <2>1, ListingPlaces DEF Lone, Blanks
  <2>3. RowFor(i)
    BY <2>1, <2>2, Unheld
  <2> QED
    BY <1>1, <2>3 DEF RowFor, IsActive
<1> QED
  BY <1>1, <1>8, <1>9, <1>11, <1>12, <1>13, <1>14, <1>15, JobMoves, JobFacts

(* KiotViet changes a product, or nothing happens.                         *)
LEMMA WorldStays ==
  ASSUME CatalogInv, rows' = rows, listings' = listings, worker' = worker, mapper' = mapper, scene' = scene,
         \A j \in todo' : j[2] \in Products
  PROVE  CatalogInv'
<1>1. RowsOK' /\ ListingsOK' /\ WorkersOK' /\ JobsOK'
  BY DEF CatalogInv, RowsOK, ListingsOK, WorkersOK, JobsOK, IsActive, Alive, Sku
<1>2. ASSUME NEW w \in Workers PROVE Plans(w)' /\ Writes(w)' /\ Covers(w)'
  <2>1. Plans(w)'
    BY DEF CatalogInv, Plans, This, Written
  <2>2. Writes(w)'
    BY DEF CatalogInv, Writes, This, Alive, Blanks, Lone, RowFor, IsActive
  <2>3. Covers(w)'
    BY DEF CatalogInv, Covers, Skips, This, Written, Blanks, Lone, IsActive
  <2> QED
    BY <2>1, <2>2, <2>3
<1>3. ASSUME ~scene.family PROVE StandaloneRows' /\ \A w \in Workers : Standalone(w)'
  <2>1. StandaloneRows'
    BY <1>3 DEF CatalogInv, StandaloneRows, IsActive, Blanks, Pending
  <2>2. ASSUME NEW w \in Workers PROVE Standalone(w)'
    BY <1>3 DEF CatalogInv, Standalone, This, Written, Skus, Sku, IsActive
  <2> QED
    BY <2>1, <2>2
<1>4. \A i \in DOMAIN listings' : Lone(i)' => Held(i)'
  BY DEF CatalogInv, Lone, Blanks, Held, This, IsActive
<1> QED
  BY <1>1, <1>2, <1>3, <1>4 DEF CatalogInv

LEMMA ChangeKeeps ==
  ASSUME CatalogInv, OneWriter, NEW p \in Products, scene' = scene,
         Edit(p) \/ Withdraw(p) \/ Offer(p) \/ Delete(p) \/ MapperReads(p) \/ EnsureReads(p)
  PROVE  CatalogInv'
<1>1. ~scene.mapper
  BY DEF OneWriter
<1>2. PICK s, ver, kind : Becomes(p, s, ver, kind)
  BY <1>1 DEF Edit, Withdraw, Offer, Delete, MapperReads, EnsureReads, WillMap
<1>3. rows' = rows /\ listings' = listings /\ worker' = worker /\ mapper' = mapper /\ todo' = todo \cup {<<kind, p>>}
  BY <1>2 DEF Becomes
<1>4. \A j \in todo' : j[2] \in Products
  BY <1>3 DEF CatalogInv, JobsOK
<1> QED
  BY <1>3, <1>4, WorldStays

LEMMA CatalogStays == ASSUME CatalogInv, OneWriter, CatalogNext PROVE CatalogInv'
<1>1. scene' = scene
  BY DEF CatalogNext
<1>2. ASSUME NEW p \in Products, Edit(p) \/ Withdraw(p) \/ Offer(p) \/ Delete(p) \/ MapperReads(p) \/ EnsureReads(p)
      PROVE  CatalogInv'
  BY <1>1, <1>2, ChangeKeeps
<1>3. ~MapperWrites
  BY DEF MapperWrites, CatalogInv
<1>4. ASSUME NEW w \in scene.workers, Work(w) PROVE CatalogInv'
  <2>1. CASE \/ CallRefused(w) \/ FetchFails(w) \/ PlanRefused(w) \/ SaveRefused(w) \/ ReferenceDone(w)
             \/ \E p \in Products : ReferenceUnclear(w, p)
    BY <1>1, <2>1, RefuseKeeps
  <2>2. CASE Fetch(w) \/ PlanSkips(w) \/ PlanWrites(w)
    BY <1>1, <2>2, FetchKeeps, SkipKeeps, WriteKeeps
  <2>3. CASE Create(w) \/ SetNew(w) \/ SetGroup(w) \/ Collapse(w)
    BY <1>1, <2>3, CreateKeeps, SetNewKeeps, GroupKeeps, CollapseKeeps
  <2>4. CASE WriteProduct(w) \/ WriteVariant(w) \/ Mark(w) \/ Media(w) \/ Retire(w)
    BY <1>1, <2>4, ProductKeeps, VariantKeeps, MarkKeeps, MediaKeeps, RetireKeeps
  <2>5. CASE Checkpoint(w) \/ Checkpointed(w) \/ CheckpointRefused(w)
    BY <1>1, <2>5, CheckpointKeeps, CheckpointedKeeps, CheckpointRefusedKeeps
  <2>6. CASE Save(w) \/ Stock(w) \/ Drop(w) \/ Forget(w)
    BY <1>1, <2>6, SaveKeeps, StockKeeps, DropKeeps, ForgetKeeps
  <2>7. CASE \E p \in Products : ReferenceUnknown(w, p) \/ Reference(w, p)
    BY <1>1, <2>7, UnknownKeeps, ReferenceKeeps
  <2> QED
    BY <1>4, <2>1, <2>2, <2>3, <2>4, <2>5, <2>6, <2>7 DEF Work
<1>5. ASSUME NEW w \in scene.workers, CreateAgain(w) \/ Fail(w) \/ Die(w) \/ \E j \in todo : Take(w, j) PROVE CatalogInv'
  BY <1>1, <1>5, CreateAgainKeeps, FailKeeps, DieKeeps, Takes
<1>6. CatalogStep
  BY DEF CatalogNext
<1> QED
  BY <1>2, <1>3, <1>4, <1>5, <1>6 DEF CatalogStep

LEMMA CatalogInvariant == CatalogSpec => [](OneWriter => CatalogInv)
<1>1. CatalogInit => (OneWriter => CatalogInv)
  BY CatalogStart
<1>2. (OneWriter => CatalogInv) /\ [CatalogNext]_cvars => (OneWriter => CatalogInv)'
  <2> SUFFICES ASSUME OneWriter => CatalogInv, CatalogNext \/ UNCHANGED cvars, OneWriter' PROVE CatalogInv'
    OBVIOUS
  <2>1. scene' = scene
    BY DEF CatalogNext, cvars
  <2>2. OneWriter /\ CatalogInv
    BY <2>1 DEF OneWriter
  <2>3. CASE CatalogNext
    BY <2>2, <2>3, CatalogStays
  <2>4. CASE UNCHANGED cvars
    <3>1. rows' = rows /\ listings' = listings /\ worker' = worker /\ mapper' = mapper /\ todo' = todo
      BY <2>4 DEF cvars, cstate
    <3>2. \A j \in todo' : j[2] \in Products
      BY <2>2, <3>1 DEF CatalogInv, JobsOK
    <3> QED
      BY <2>1, <2>2, <3>1, <3>2, WorldStays
  <2> QED
    BY <2>3, <2>4
<1> QED
  BY <1>1, <1>2, PTL DEF CatalogSpec

(***************************************************************************)
(* As long as one worker writes products and makes the mappings, no        *)
(* Shopify product is forgotten: a mapping, its SKU or a running job leads *)
(* to each one, whatever KiotViet changes and whichever calls fail, but    *)
(* for those that a creation sent twice, the death of a worker, a clean-up *)
(* that Shopify refused or the interrupted collapse of a product without a *)
(* mapping left behind.                                                    *)
(***************************************************************************)
THEOREM NothingIsForgotten == CatalogSpec => []NoOrphan
<1>1. (OneWriter => CatalogInv) => NoOrphan
  BY DEF NoOrphan, CatalogInv, Lone, Blanks, Nameless
<1> QED
  BY <1>1, CatalogInvariant, PTL
=============================================================================

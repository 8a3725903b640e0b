----------------------------- MODULE InventorySync -----------------------------
(***************************************************************************)
(* Pushing the KiotViet stock of one product to its Shopify level.         *)
(*                                                                         *)
(* Stock events, reconciliation pages and invoice jobs run concurrently;   *)
(* all of them read the stock anew (refreshFromKiotViet) under the session *)
(* lock of the branch and product.  Customers buy at any moment,   *)
(* and Shopify lowers `available' itself; KiotViet learns of a sale later. *)
(* One SKU and the one active Shopify location of the store are modelled;  *)
(* quantities are small numbers, log lines and messages are left out.      *)
(*                                                                         *)
(* Definitions named Bug... are wrong variants of the one that follows.    *)
(***************************************************************************)
EXTENDS Naturals, Integers, Sequences, FiniteSets

CONSTANTS
  Branches,
  Runs,        \* stock events, reconciliation pages, invoice and product jobs
  MaxStock,    \* bound on the on-hand quantities
  Null,
  Environments \* who takes part and what happens meanwhile: runs, branches, hold (conflictStrategy
               \*   is "hold", else "kiotviet_wins"), safety (safety_stock of the mapping),
               \*   mapped (branches mapped at the start), start (available, also last
               \*   verified, at the start), stock (on-hand of each branch at the start),
               \*   admins (administrators answer conflicts), changes, sales, aborts,
               \*   ignored, edits (of mappings), cuts (lost lock sessions, late writes): bounds

ASSUME InventoryAssumption ==
  /\ Null \notin Runs
  /\ \A e \in Environments :
       /\ e.branches \subseteq Branches /\ e.mapped \subseteq e.branches /\ e.runs \subseteq Runs
       /\ {e.hold, e.admins} \subseteq BOOLEAN
       /\ {e.safety, e.start, e.stock, e.changes, e.sales, e.aborts, e.ignored, e.edits, e.cuts} \subseteq Nat

VARIABLES
  env,       \* the environment of the behaviour, chosen once
  kiot,      \* KiotViet: on-hand of each branch and how often it changed
  shop,      \* Shopify: the inventory level
  unsaid,    \* sales that KiotViet does not reflect yet
  maps,      \* branch_location_mappings of the location
  lock,      \* advisory lock of each branch
  verified,  \* the newest snapshot that counts, or Null
  open,      \* open conflicts of the SKU: `available' at detection
  run,       \* one record of local state per run
  written,   \* version of each branch's KiotViet stock last written to Shopify
  late,      \* sets given up by their run that Shopify may still execute
  crossed,   \* a branch was enabled when a run was past reading its mapping (see Crosses)
  sales, aborts, ignored, edits, cuts  \* counters behind the bounds

counters == <<sales, aborts, ignored, edits, cuts>>
world == <<kiot, shop, unsaid>>
state == <<world, maps, lock, verified, open, run, written, late, crossed, counters>>
vars == <<env, state>>

NoNote == [qty |-> 0, version |-> 0]
Idle == [pc |-> "idle", branch |-> Null, note |-> NoNote, seen |-> 0, last |-> Null, after |-> 0, active |-> FALSE, file |-> FALSE]

(* calculateInventory of a mapping that allows no negative stock           *)
Expected(note) == IF note.qty > env.safety THEN note.qty - env.safety ELSE 0

(* detectUnreflectedShopifyDeduction                                       *)
Deducted(last, seen, expected) == last # Null /\ last > seen /\ expected > seen
Deduction(s) == Deducted(run[s].last, run[s].seen, Expected(run[s].note))

Init ==
  /\ env \in Environments
  /\ kiot = [b \in Branches |-> [qty |-> env.stock, version |-> 0]]
  /\ shop \in [available : {env.start}, active : BOOLEAN]
  /\ unsaid = 0 /\ verified = env.start /\ open = <<>> /\ written = [b \in Branches |-> 0]
  /\ maps \in {m \in [Branches -> {"none", "disabled", "enabled"}] :
                \A b \in Branches : /\ m[b] = "enabled" <=> b \in env.mapped
                                    /\ b \notin env.branches => m[b] = "none"}
  /\ lock = [b \in Branches |-> Null]
  /\ run = [s \in Runs |-> Idle]
  /\ late = {} /\ crossed = FALSE
  /\ sales = 0 /\ aborts = 0 /\ ignored = 0 /\ edits = 0 /\ cuts = 0

Others(b) == {o \in Branches \ {b} : maps[o] = "enabled"}
-----------------------------------------------------------------------------
(* The world.                                                              *)
Buy ==
  /\ shop.active /\ shop.available > 0 /\ sales < env.sales
  /\ shop' = [shop EXCEPT !.available = @ - 1]
  /\ unsaid' = unsaid + 1 /\ sales' = sales + 1
  /\ UNCHANGED <<kiot, maps, lock, verified, open, run, written, late, crossed, aborts, ignored, edits, cuts>>

Reflect(b) ==  \* the invoice of a sale lowers the KiotViet stock
  /\ unsaid > 0 /\ kiot[b].qty > 0
  /\ unsaid' = unsaid - 1
  /\ kiot' = [kiot EXCEPT ![b] = [qty |-> @.qty - 1, version |-> @.version + 1]]
  /\ UNCHANGED <<shop, maps, lock, verified, open, run, written, late, crossed, counters>>

Change(b) ==  \* purchase, counter sale or stock-taking
  /\ kiot[b].version < env.changes
  /\ \E n \in (0..MaxStock) \ {kiot[b].qty} :
       kiot' = [kiot EXCEPT ![b] = [qty |-> n, version |-> @.version + 1]]
  /\ UNCHANGED <<shop, unsaid, maps, lock, verified, open, run, written, late, crossed, counters>>
-----------------------------------------------------------------------------
(* syncInventoryNotification                                               *)
Goto(s, pc) == run' = [run EXCEPT ![s].pc = pc]

Begin(s, b) ==
  /\ run[s].pc = "idle" /\ s \in env.runs /\ b \in env.branches
  /\ run' = [run EXCEPT ![s] = [Idle EXCEPT !.pc = "lock", !.branch = b]]
  /\ UNCHANGED <<world, maps, lock, verified, open, written, late, crossed, counters>>

BugTakeLock(s) ==  \* runs without the lock
  /\ run[s].pc = "lock"
  /\ Goto(s, "stock")
  /\ UNCHANGED <<world, maps, lock, verified, open, written, late, crossed, counters>>

TakeLock(s) ==
  /\ run[s].pc = "lock" /\ lock[run[s].branch] = Null
  /\ lock' = [lock EXCEPT ![run[s].branch] = s]
  /\ Goto(s, "stock")
  /\ UNCHANGED <<world, maps, verified, open, written, late, crossed, counters>>

Refused(s) ==
  /\ run[s].pc = "lock" /\ lock[run[s].branch] # Null
  /\ run' = [run EXCEPT ![s] = Idle]
  /\ UNCHANGED <<world, maps, lock, verified, open, written, late, crossed, counters>>

(* Leaving, normally or by an error, unlocks; so does the end of a session. *)
Leave(s) ==
  /\ run' = [run EXCEPT ![s] = Idle]
  /\ lock' = [b \in Branches |-> IF lock[b] = s THEN Null ELSE lock[b]]

(* A call fails, or its answer is lost, or the process dies: the set whose *)
(* answer is missing was executed (Write), or is not, or will be.          *)
Abort(s) ==
  /\ run[s].pc # "idle" /\ aborts < env.aborts
  /\ aborts' = aborts + 1
  /\ Leave(s)
  /\ \/ UNCHANGED <<late, cuts>>
     \/ /\ run[s].pc = "set" /\ cuts < env.cuts /\ cuts' = cuts + 1
        /\ late' = late \cup {[branch |-> run[s].branch, note |-> run[s].note, seen |-> run[s].seen]}
  /\ UNCHANGED <<world, maps, verified, open, written, crossed, sales, ignored, edits>>

Land(q) ==  \* changeFromQuantity is compared when the set is executed
  /\ q \in late /\ late' = late \ {q}
  /\ IF shop.available = q.seen
       THEN /\ shop' = [shop EXCEPT !.available = Expected(q.note)]
            /\ written' = [written EXCEPT ![q.branch] = q.note.version]
       ELSE UNCHANGED <<shop, written>>
  /\ UNCHANGED <<kiot, unsaid, maps, lock, verified, open, run, crossed, counters>>

(* The connection of the lock is lost while the work goes on.              *)
LoseSession(s) ==
  /\ \E b \in Branches : lock[b] = s /\ lock' = [lock EXCEPT ![b] = Null]
  /\ cuts < env.cuts /\ cuts' = cuts + 1
  /\ UNCHANGED <<world, maps, verified, open, run, written, late, crossed, sales, aborts, ignored, edits>>

ReadStock(s) ==
  /\ run[s].pc = "stock"
  /\ run' = [run EXCEPT ![s].pc = "map", ![s].note = kiot[run[s].branch]]
  /\ UNCHANGED <<world, maps, lock, verified, open, written, late, crossed, counters>>

BugReadMapping(s) ==  \* several branches may write a location
  /\ run[s].pc = "map"
  /\ Goto(s, IF maps[run[s].branch] = "enabled" THEN "level" ELSE "automap")
  /\ UNCHANGED <<world, maps, lock, verified, open, written, late, crossed, counters>>

ReadMapping(s) ==
  /\ run[s].pc = "map"
  /\ LET b == run[s].branch IN
       \/ maps[b] = "enabled" /\ Others(b) = {} /\ Goto(s, "level") /\ UNCHANGED lock
       \/ maps[b] = "enabled" /\ Others(b) # {} /\ Leave(s)
       \/ maps[b] # "enabled" /\ Goto(s, "automap") /\ UNCHANGED lock
  /\ UNCHANGED <<world, maps, verified, open, written, late, crossed, counters>>

(* A second branch of the location becomes enabled while a run has read    *)
(* that there is none, and goes on.                                        *)
Past == {"automap", "insert", "existing", "level", "activate", "compare", "flag", "file", "set",
         "readback", "snapshot", "close"}
Crosses(b, S) ==
  \/ \E s \in S : run[s].pc \in Past /\ (run[s].branch # b \/ Others(b) # {})
  \/ \E q \in late : q.branch # b

(* INSERT ... WHERE NOT EXISTS: the rows it looks at, then the row it adds; *)
(* without a new row, the row that is there, which other branches may share. *)
BugAutoMap(s) ==  \* any branch without a mapping
  /\ run[s].pc = "automap"
  /\ Goto(s, IF maps[run[s].branch] = "none" THEN "insert" ELSE "existing")
  /\ UNCHANGED <<world, maps, lock, verified, open, written, late, crossed, counters>>

AutoMap(s) ==
  /\ run[s].pc = "automap"
  /\ LET b == run[s].branch IN
       Goto(s, IF maps[b] = "none" /\ Others(b) = {} THEN "insert" ELSE "existing")
  /\ UNCHANGED <<world, maps, lock, verified, open, written, late, crossed, counters>>

InsertMapping(s) ==
  /\ run[s].pc = "insert" /\ maps[run[s].branch] = "none"
  /\ maps' = [maps EXCEPT ![run[s].branch] = "enabled"]
  /\ crossed' = (crossed \/ Crosses(run[s].branch, Runs \ {s}))
  /\ Goto(s, "level")
  /\ UNCHANGED <<world, lock, verified, open, written, late, counters>>

InsertConflicts(s) ==
  /\ run[s].pc = "insert" /\ maps[run[s].branch] # "none"
  /\ Goto(s, "existing")
  /\ UNCHANGED <<world, maps, lock, verified, open, written, late, crossed, counters>>

ReadExisting(s) ==
  /\ run[s].pc = "existing"
  /\ \/ maps[run[s].branch] = "enabled" /\ Goto(s, "level") /\ UNCHANGED lock
     \/ maps[run[s].branch] # "enabled" /\ Leave(s)
  /\ UNCHANGED <<world, maps, verified, open, written, late, crossed, counters>>

(* ensureShopifyInventoryActive                                            *)
ReadLevel(s) ==
  /\ run[s].pc = "level"
  /\ run' = [run EXCEPT ![s].pc = IF shop.active THEN "compare" ELSE "activate", ![s].seen = shop.available]
  /\ UNCHANGED <<world, maps, lock, verified, open, written, late, crossed, counters>>

Activate(s) ==
  /\ run[s].pc = "activate"
  /\ shop' = [shop EXCEPT !.active = TRUE]
  /\ Goto(s, "level")
  /\ UNCHANGED <<kiot, unsaid, maps, lock, verified, open, written, late, crossed, counters>>

(* lastSyncedShopifyQuantity and the decision                              *)
Compare(s) ==
  /\ run[s].pc = "compare"
  /\ LET r == run[s] IN
       run' = [run EXCEPT ![s].last = verified,
                 ![s].pc = IF Deducted(verified, r.seen, Expected(r.note)) THEN "flag"
                           ELSE IF r.seen # Expected(r.note) THEN "set" ELSE "readback"]
  /\ UNCHANGED <<world, maps, lock, verified, open, written, late, crossed, counters>>

Flag(s) ==
  /\ run[s].pc = "flag"
  /\ run' = [run EXCEPT ![s].pc = "file", ![s].file = open = <<>>]
  /\ UNCHANGED <<world, maps, lock, verified, open, written, late, crossed, counters>>

File(s) ==
  /\ run[s].pc = "file"
  /\ open' = IF run[s].file THEN Append(open, run[s].seen) ELSE open
  /\ \/ env.hold /\ Leave(s)
     \/ ~env.hold /\ Goto(s, "set") /\ UNCHANGED lock
  /\ UNCHANGED <<world, maps, verified, written, late, crossed, counters>>

(* inventorySetQuantities with changeFromQuantity                          *)
BugWrite(s) ==  \* no changeFromQuantity
  /\ run[s].pc = "set"
  /\ shop' = [shop EXCEPT !.available = Expected(run[s].note)]
  /\ written' = [written EXCEPT ![run[s].branch] = run[s].note.version]
  /\ Goto(s, "readback")
  /\ UNCHANGED <<kiot, unsaid, maps, lock, verified, open, late, crossed, counters>>

Write(s) ==
  /\ run[s].pc = "set" /\ shop.available = run[s].seen
  /\ shop' = [shop EXCEPT !.available = Expected(run[s].note)]
  /\ written' = [written EXCEPT ![run[s].branch] = run[s].note.version]
  /\ Goto(s, "readback")
  /\ UNCHANGED <<kiot, unsaid, maps, lock, verified, open, late, crossed, counters>>

WriteStale(s) ==
  /\ run[s].pc = "set" /\ shop.available # run[s].seen
  /\ Leave(s)
  /\ UNCHANGED <<world, maps, verified, open, written, late, crossed, counters>>

ReadBack(s) ==
  /\ run[s].pc = "readback"
  /\ run' = [run EXCEPT ![s].pc = "snapshot", ![s].after = shop.available, ![s].active = shop.active]
  /\ UNCHANGED <<world, maps, lock, verified, open, written, late, crossed, counters>>

Snapshot(s) ==
  /\ run[s].pc = "snapshot"
  /\ LET matches == run[s].after = Expected(run[s].note) IN
       /\ verified' = IF matches THEN run[s].after ELSE verified
       /\ \/ matches /\ run[s].active /\ Goto(s, "close") /\ UNCHANGED lock
          \/ ~(matches /\ run[s].active) /\ Leave(s)
  /\ UNCHANGED <<world, maps, open, written, late, crossed, counters>>

Close(s) ==
  /\ run[s].pc = "close"
  /\ open' = IF ~Deduction(s) /\ run[s].last # Null /\ run[s].seen < run[s].last THEN <<>> ELSE open
  /\ Leave(s)
  /\ UNCHANGED <<world, maps, verified, written, late, crossed, counters>>
-----------------------------------------------------------------------------
(* PUT /api/admin/branches: any branch is enabled or disabled, any time.   *)
PutBranch(b) ==
  /\ edits < env.edits /\ edits' = edits + 1
  /\ \E m \in {"enabled", "disabled"} \ {maps[b]} :
       /\ maps' = [maps EXCEPT ![b] = m]
       /\ crossed' = (crossed \/ (m = "enabled" /\ Crosses(b, Runs)))
  /\ UNCHANGED <<world, lock, verified, open, run, written, late, sales, aborts, ignored, cuts>>

(* POST /api/admin/conflicts/[id]; the two statements are one step here.   *)
Without(i) == SubSeq(open, 1, i - 1) \o SubSeq(open, i + 1, Len(open))

BugResolve ==  \* closes the conflict and nothing else
  /\ env.admins
  /\ \E i \in DOMAIN open : open' = Without(i)
  /\ UNCHANGED <<world, maps, lock, verified, run, written, late, crossed, counters>>

Resolve ==
  /\ env.admins
  /\ \E i \in DOMAIN open : open' = Without(i) /\ verified' = open[i]
  /\ UNCHANGED <<world, maps, lock, run, written, late, crossed, counters>>

Ignore ==
  /\ env.admins /\ ignored < env.ignored /\ ignored' = ignored + 1
  /\ \E i \in DOMAIN open : open' = Without(i)
  /\ UNCHANGED <<world, maps, lock, verified, run, written, late, crossed, sales, aborts, edits, cuts>>

Step(s) ==
  \/ TakeLock(s) \/ Refused(s) \/ ReadStock(s) \/ ReadMapping(s) \/ AutoMap(s) \/ InsertMapping(s)
  \/ InsertConflicts(s) \/ ReadExisting(s)
  \/ ReadLevel(s) \/ Activate(s) \/ Compare(s) \/ Flag(s) \/ File(s)
  \/ Write(s) \/ WriteStale(s) \/ ReadBack(s) \/ Snapshot(s) \/ Close(s)

Act ==
  \/ Buy \/ Resolve \/ Ignore
  \/ \E b \in env.branches : Reflect(b) \/ Change(b) \/ PutBranch(b)
  \/ \E s \in Runs : Abort(s) \/ LoseSession(s) \/ Step(s) \/ \E b \in Branches : Begin(s, b)
  \/ \E q \in late : Land(q)

Next == Act /\ UNCHANGED env

Spec == Init /\ [][Next]_vars

(* Reconciliation recurs every hour and jobs retry, so runs of each branch *)
(* keep starting and get the lock, which is never held for ever; invoices  *)
(* of sales are made, requests are executed or dropped, and administrators *)
(* answer conflicts.                                                       *)
FairSpec ==
  /\ Spec /\ WF_state(Resolve) /\ WF_state(\E q \in late : Land(q))
  /\ \A b \in Branches :
       /\ WF_state(b \in env.branches /\ Reflect(b))
       /\ SF_state(\E s \in Runs : Begin(s, b))
       /\ SF_state(\E s \in Runs : run[s].branch = b /\ TakeLock(s))
  /\ \A s \in Runs : WF_state(Step(s))
-----------------------------------------------------------------------------
(* A run raises the Shopify level only when the level has not fallen below *)
(* the value last verified: what customers bought since then stays sold,   *)
(* even when they bought between the comparison and the write              *)
(* (inventory-sync.ts:215-247, shopify/inventory.ts:59-68).  The guard is  *)
(* a read of the snapshots long before the write, and holds as long as the *)
(* run is the only writer: until a second branch is enabled beside a run,  *)
(* a lock session is lost while its run goes on, or a set lands late.      *)
HeldIsNotRaised ==
  [][shop'.available > shop.available /\ env.hold /\ ~env.admins /\ ~crossed /\ cuts = 0
       => verified = Null \/ shop.available >= verified]_state

(* As the stock is read under the lock, a run never overwrites a newer     *)
(* KiotViet stock of its branch with an older one, whatever the order of   *)
(* the events and whatever happens to the mappings, until a lock session   *)
(* is lost or a set lands late (inventory-sync.ts:90-102).                 *)
StockGoesForward == [][cuts' = 0 => \A b \in Branches : written'[b] >= written[b]]_vars

(* While several branches share the location none of them is pushed: a     *)
(* push of a branch never lands beside another enabled branch, unless one  *)
(* of the two was enabled after the run had read its mapping               *)
(* (inventory-sync.ts:115-127, 196-197).                                   *)
NoSharedWrite ==
  [][~crossed =>
       /\ \A s \in Runs : run[s].pc = "set" /\ run'[s].pc = "readback" => Others(run[s].branch) = {}
       /\ \A q \in late : shop' # shop /\ q \notin late' => Others(q.branch) = {}]_vars

(* When neither stock changes any more, one branch has the location, every *)
(* sale is reflected and conflicts are answered, Shopify ends up with the  *)
(* KiotViet stock: neither a hold, a stale event, a lost baseline, a run   *)
(* without its lock nor a shared location in between blocks it for good.   *)
Settled == \E b \in Branches : maps[b] = "enabled" /\ shop.available = Expected(kiot[b])
Converges ==
  /\ env.admins
  /\ <>[][~Buy /\ ~(\E b \in Branches : Change(b))]_state
  /\ <>[](\E b \in Branches : maps[b] = "enabled" /\ Others(b) = {})
  => <>[]Settled
=============================================================================

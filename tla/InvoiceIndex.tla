---------------------------- MODULE InvoiceIndex ----------------------------
(***************************************************************************)
(* The local index of all KiotViet invoices and the lookup that uses it to *)
(* prove that an order has no invoice.                                     *)
(*                                                                         *)
(* The remote list is read page by page, in the order of the ids, while    *)
(* invoices are appended and deleted; a checkpoint (scanned_count,         *)
(* last_invoice_id) says how far the pass has come.  Maintenance runs take *)
(* a lease, lookups run or join a refresh of their own process, and every  *)
(* write is guarded only by generation and scanned_count.                  *)
(*                                                                         *)
(* An invoice is its id, and the clock is the number of invoices issued so *)
(* far: two instants with no invoice issued between them are one.  Details *)
(* of an invoice and the reason texts are left out.                        *)
(*                                                                         *)
(* Definitions named Bug... are wrong variants of the one that follows.    *)
(***************************************************************************)
EXTENDS Naturals, Integers, FiniteSets, FiniteSetsExt

CONSTANTS
  Runners,     \* maintenance runs (scheduled job, build script)
  Shared,      \* the one refresh the lookups of a process share
  Lookups,
  PageSize,    \* INVOICE_INDEX_PAGE_SIZE
  FloorPages,  \* FLOOR_SCAN_MAX_PAGES
  MaxIssued,   \* bound on the invoices issued
  Null,
  Environments \* who takes part and what happens meanwhile: runners, lookups,
               \*   catchUp (INVOICE_INDEX_LOOKUP_CATCH_UP),
               \*   floor (invoice_id_floor of the order looked up, 0: it has none),
               \*   start (invoices at the start), issued, deleted, resets (bounds)

ASSUME IndexAssumption ==
  /\ Shared \notin Runners /\ Null \notin Runners
  /\ {PageSize, FloorPages, MaxIssued} \subseteq Nat /\ PageSize > 1
  /\ \A e \in Environments :
       /\ e.runners \subseteq Runners /\ e.lookups \subseteq Lookups
       /\ {e.catchUp, e.floor, e.start, e.issued, e.deleted, e.resets} \subseteq Nat
       /\ e.start <= e.issued /\ e.issued <= MaxIssued

VARIABLES
  env,      \* the environment of the behaviour, chosen once
  remote, issued, deleted,   \* KiotViet: invoices, ids issued, deletions so far
  st,       \* kiotviet_invoice_index_state
  indexed,  \* kiotviet_invoice_index
  lease,    \* lease_owner while lease_until has not passed
  rpc, mine, clock, page, span, result,  \* refreshes: place, state read, startedAt, page, search, outcome
  sharedAt,  \* when the shared refresh was started
  lpc, since, known, cand, existed, join, progress, tried, scan  \* lookups

remoteVars == <<remote, issued, deleted>>
indexVars == <<st, indexed>>
refreshVars == <<rpc, mine, clock, page, span, result>>
lookupVars == <<sharedAt, lpc, since, known, cand, existed, join, progress, tried, scan>>
state == <<remoteVars, indexVars, lease, refreshVars, lookupVars>>
vars == <<env, state>>

Refreshes == Runners \cup {Shared}
Ids == 1..MaxIssued
Never == -1    \* current_as_of IS NULL; before every instant
Unread == -1   \* remote_total IS NULL
None == 0      \* last_invoice_id IS NULL; below every id

NoPage == [ids |-> {}, total |-> 0]
NoSpan == [low |-> 0, high |-> 0, below |-> None]
NoResult == [current |-> FALSE, asOf |-> Never, scanned |-> 0]
NoScan == [offset |-> 0, last |-> None, pages |-> 0]
Empty(gen) == [generation |-> gen, scanned |-> 0, last |-> None, total |-> Unread, asOf |-> Never]

(* GET /invoices from a position of the list, oldest or newest first: the  *)
(* position of an invoice is the number of those listed before it.         *)
Older(i) == Cardinality({j \in remote : j < i})
Newer(i) == Cardinality({j \in remote : i < j})
On(position) == position..(position + PageSize - 1)
Ascending(position) == {i \in remote : Older(i) \in On(position)}
Descending(position) == {i \in remote : Newer(i) \in On(position)}
-----------------------------------------------------------------------------
Init ==
  /\ env \in Environments
  /\ remote = 1..env.start /\ issued = env.start /\ deleted = 0
  /\ st = Empty(0) /\ indexed = {} /\ lease = Null
  /\ rpc = [r \in Refreshes |-> "idle"] /\ mine = [r \in Refreshes |-> Empty(0)]
  /\ clock = [r \in Refreshes |-> 0] /\ page = [r \in Refreshes |-> NoPage]
  /\ span = [r \in Refreshes |-> NoSpan] /\ result = [r \in Refreshes |-> NoResult]
  /\ lpc = [l \in Lookups |-> "idle"] /\ since = [l \in Lookups |-> 0]
  /\ known = [l \in Lookups |-> Empty(0)] /\ cand = [l \in Lookups |-> {}]
  /\ existed = [l \in Lookups |-> {}] /\ join = [l \in Lookups |-> "none"]
  /\ sharedAt = 0 /\ progress = [l \in Lookups |-> NoResult]
  /\ tried = [l \in Lookups |-> {}] /\ scan = [l \in Lookups |-> NoScan]
-----------------------------------------------------------------------------
(* KiotViet: ids are issued in increasing order.                           *)
Issue ==
  /\ issued < env.issued
  /\ issued' = issued + 1 /\ remote' = remote \cup {issued + 1}
  /\ UNCHANGED <<deleted, indexVars, lease, refreshVars, lookupVars>>

Delete ==
  /\ deleted < env.deleted /\ deleted' = deleted + 1
  /\ \E i \in remote : remote' = remote \ {i}
  /\ UNCHANGED <<issued, indexVars, lease, refreshVars, lookupVars>>
-----------------------------------------------------------------------------
(* withInvoiceIndexLease                                                   *)
Acquire(r) ==
  /\ r \in env.runners /\ rpc[r] = "idle"
  /\ lease = Null
  /\ lease' = r
  /\ mine' = [mine EXCEPT ![r] = st]
  /\ rpc' = [rpc EXCEPT ![r] = "clock"]
  /\ UNCHANGED <<remoteVars, indexVars, clock, page, span, result, lookupVars>>

LeaseExpires ==
  /\ lease # Null /\ lease' = Null
  /\ UNCHANGED <<remoteVars, indexVars, refreshVars, lookupVars>>

Release(r) ==
  /\ r \in Runners /\ rpc[r] = "done"
  /\ lease' = IF lease = r THEN Null ELSE lease
  /\ rpc' = [rpc EXCEPT ![r] = "idle"]
  /\ result' = [result EXCEPT ![r] = NoResult]
  /\ UNCHANGED <<remoteVars, indexVars, mine, clock, page, span, lookupVars>>
-----------------------------------------------------------------------------
(* advanceInvoiceIndex                                                     *)
OnlyRefresh == UNCHANGED <<remoteVars, indexVars, lease, lookupVars>>

Finish(r, outcome) ==
  /\ rpc' = [rpc EXCEPT ![r] = "done"]
  /\ result' = [result EXCEPT ![r] = outcome]
  /\ page' = [page EXCEPT ![r] = NoPage]
  /\ span' = [span EXCEPT ![r] = NoSpan]
  /\ mine' = [mine EXCEPT ![r] = Empty(0)]
  /\ clock' = [clock EXCEPT ![r] = 0]

TakeClock(r) ==
  /\ rpc[r] = "clock"
  /\ clock' = [clock EXCEPT ![r] = issued]
  /\ rpc' = [rpc EXCEPT ![r] = "request"]
  /\ UNCHANGED <<mine, page, span, result>> /\ OnlyRefresh

Overlap(s) == IF s.scanned > 0 /\ s.last # None THEN 1 ELSE 0

ReadPage(r) ==
  /\ rpc[r] = "request"
  /\ page' = [page EXCEPT ![r] = [ids |-> Ascending(mine[r].scanned - Overlap(mine[r])),
                                   total |-> Cardinality(remote)]]
  /\ rpc' = [rpc EXCEPT ![r] = "page"]
  /\ UNCHANGED <<mine, clock, span, result>> /\ OnlyRefresh

(* Pages or time used up, a request failed, a page was malformed.          *)
GiveUp(r) ==
  /\ rpc[r] \in {"clock", "request", "search"}
  /\ Finish(r, NoResult)
  /\ OnlyRefresh

BugOverlapHolds(r) == TRUE  \* the page is not compared with the checkpoint

OverlapHolds(r) == Overlap(mine[r]) = 1 => mine[r].last \in page[r].ids /\ \A i \in page[r].ids : mine[r].last <= i

(* What the page adds: all of it but the overlap, its first invoice.       *)
Fresh(r) == {i \in page[r].ids : Overlap(mine[r]) = 1 => \E j \in page[r].ids : j < i}
Scanned(r) == mine[r].scanned + Cardinality(Fresh(r))
NewLast(r) == IF Fresh(r) = {} THEN mine[r].last ELSE Max(Fresh(r))

(* Guard of every checkpoint write; last_invoice_id is not part of it.     *)
Unmoved(r) == st.generation = mine[r].generation /\ st.scanned = mine[r].scanned

BugSavePage(r) ==  \* confirmed as of the moment of the save
  /\ st' = [st EXCEPT !.scanned = Scanned(r),
                      !.last = NewLast(r),
                      !.total = page[r].total,
                      !.asOf = IF Scanned(r) >= page[r].total THEN issued ELSE @]
  /\ indexed' = indexed \cup Fresh(r)

SavePage(r) ==
  /\ st' = [st EXCEPT !.scanned = Scanned(r),
                      !.last = NewLast(r),
                      !.total = page[r].total,
                      !.asOf = IF Scanned(r) >= page[r].total THEN clock[r] ELSE @]
  /\ indexed' = indexed \cup Fresh(r)

Save(r) ==
  /\ rpc[r] = "page" /\ OverlapHolds(r)
  /\ Fresh(r) # {} \/ mine[r].scanned >= page[r].total
  /\ IF Unmoved(r)
       THEN /\ SavePage(r)
            /\ IF Scanned(r) >= page[r].total
                 THEN Finish(r, [current |-> TRUE, asOf |-> clock[r], scanned |-> Scanned(r)])
                 ELSE /\ mine' = [mine EXCEPT ![r] = st']
                      /\ rpc' = [rpc EXCEPT ![r] = "clock"]
                      /\ page' = [page EXCEPT ![r] = NoPage]
                      /\ UNCHANGED <<clock, span, result>>
       ELSE /\ mine' = [mine EXCEPT ![r] = st]  \* another run advanced first
            /\ rpc' = [rpc EXCEPT ![r] = "clock"]
            /\ page' = [page EXCEPT ![r] = NoPage]
            /\ UNCHANGED <<indexVars, clock, span, result>>
  /\ UNCHANGED <<remoteVars, lease, lookupVars>>

NoProgress(r) ==
  /\ rpc[r] = "page" /\ OverlapHolds(r)
  /\ Fresh(r) = {} /\ mine[r].scanned < page[r].total
  /\ Finish(r, NoResult)
  /\ OnlyRefresh

(* A page that is not strictly increasing restarts the pass.               *)
ResetIndex(r) ==
  /\ rpc[r] = "page"
  /\ st.generation < env.resets
  /\ st' = IF st.generation = mine[r].generation THEN Empty(st.generation + 1) ELSE st
  /\ Finish(r, NoResult)
  /\ UNCHANGED <<remoteVars, indexed, lease, lookupVars>>

(* repositionIndex: binary search of the first id after last_invoice_id.   *)
Mismatch(r) ==
  /\ rpc[r] = "page" /\ ~OverlapHolds(r)
  /\ span' = [span EXCEPT ![r] = [low |-> 0, high |-> page[r].total, below |-> None]]
  /\ rpc' = [rpc EXCEPT ![r] = "search"]
  /\ UNCHANGED <<mine, clock, page, result>> /\ OnlyRefresh

Probe(r) ==
  LET middle == (span[r].low + span[r].high) \div 2 IN
  /\ rpc[r] = "search" /\ span[r].low < span[r].high
  /\ \E i \in remote :
       /\ Older(i) = middle
       /\ span' = [span EXCEPT ![r] = IF i <= mine[r].last
                                       THEN [@ EXCEPT !.low = middle + 1, !.below = i]
                                       ELSE [@ EXCEPT !.high = middle]]
  /\ UNCHANGED <<rpc, mine, clock, page, result>> /\ OnlyRefresh

BugReposition(r) ==  \* the position found is not saved
  /\ rpc[r] = "search" /\ span[r].low = span[r].high
  /\ mine' = [mine EXCEPT ![r] = st]
  /\ rpc' = [rpc EXCEPT ![r] = "clock"]
  /\ page' = [page EXCEPT ![r] = NoPage]
  /\ span' = [span EXCEPT ![r] = NoSpan]
  /\ UNCHANGED <<remoteVars, indexVars, lease, clock, result, lookupVars>>

Reposition(r) ==
  /\ rpc[r] = "search" /\ span[r].low = span[r].high
  /\ st' = IF Unmoved(r)
             THEN [st EXCEPT !.scanned = span[r].low, !.last = span[r].below, !.total = page[r].total]
             ELSE st
  /\ mine' = [mine EXCEPT ![r] = st']
  /\ rpc' = [rpc EXCEPT ![r] = "clock"]
  /\ page' = [page EXCEPT ![r] = NoPage]
  /\ span' = [span EXCEPT ![r] = NoSpan]
  /\ UNCHANGED <<remoteVars, indexed, lease, clock, result, lookupVars>>

Advance(r) ==
  \/ TakeClock(r) \/ ReadPage(r) \/ Save(r) \/ NoProgress(r) \/ ResetIndex(r)
  \/ Mismatch(r) \/ Probe(r) \/ Reposition(r) \/ GiveUp(r)
-----------------------------------------------------------------------------
(* findKiotVietInvoicesForOrder.  A lookup that joins a refresh waits for  *)
(* the one that runs ("now") or for the one queued behind it ("next").     *)
OnlyLookup == UNCHANGED <<remoteVars, indexVars, lease, refreshVars, sharedAt>>

Path(l, path) == lpc' = [lpc EXCEPT ![l] = path]
Joins(l, how) == join' = [join EXCEPT ![l] = how]

Lag(s) == IF s.total > s.scanned THEN s.total - s.scanned ELSE 0
IndexFirst(s) == s.total # Unread /\ Lag(s) <= env.catchUp

(* localLookupSnapshot: clock, checkpoint and candidates in one statement. *)
Snapshot(l) ==
  /\ lpc[l] = "idle" /\ l \in env.lookups
  /\ since' = [since EXCEPT ![l] = issued]
  /\ known' = [known EXCEPT ![l] = st]
  /\ cand' = [cand EXCEPT ![l] = indexed]
  /\ existed' = [existed EXCEPT ![l] = remote]
  /\ Path(l, IF IndexFirst(st) \/ env.floor = 0 THEN "index" ELSE "floor")
  /\ UNCHANGED <<join, progress, tried, scan>> /\ OnlyLookup

(* One path gave no proof: the other one, or none.                         *)
Fails(l, path) ==
  LET other == IF path = "index" THEN "floor" ELSE "index" IN
  /\ tried' = [tried EXCEPT ![l] = @ \cup {path}]
  /\ Path(l, IF other \in tried[l] \/ (other = "floor" /\ env.floor = 0) THEN "unproven" ELSE other)

(* ensureIndexFresh *)
Reusable(l) == known[l].asOf >= since[l] /\ known[l].total # Unread /\ known[l].scanned >= known[l].total
Running == rpc[Shared] # "idle"
Wants(l) == lpc[l] = "index" /\ join[l] = "none" /\ ~Reusable(l)

Reuse(l) ==
  /\ lpc[l] = "index" /\ Reusable(l)
  /\ Path(l, "indexed")
  /\ UNCHANGED <<since, known, cand, existed, join, progress, tried, scan>> /\ OnlyLookup

Join(l) ==
  /\ Wants(l) /\ Running /\ sharedAt >= since[l]
  /\ Joins(l, "now")
  /\ UNCHANGED <<lpc, since, known, cand, existed, progress, tried, scan>> /\ OnlyLookup

Queue(l) ==
  /\ Wants(l) /\ Running /\ sharedAt <= since[l]
  /\ Joins(l, "next")
  /\ UNCHANGED <<lpc, since, known, cand, existed, progress, tried, scan>> /\ OnlyLookup

StartRefresh ==
  /\ sharedAt' = issued
  /\ mine' = [mine EXCEPT ![Shared] = st]
  /\ rpc' = [rpc EXCEPT ![Shared] = "clock"]

Fetch(l) ==
  /\ Wants(l) /\ ~Running
  /\ StartRefresh
  /\ Joins(l, "now")
  /\ UNCHANGED <<clock, page, span, result>>
  /\ UNCHANGED <<remoteVars, indexVars, lease, lpc, since, known, cand, existed, progress, tried, scan>>

(* The shared refresh ends: everybody who waited gets its outcome, and the *)
(* queued refresh starts.                                                  *)
Deliver ==
  /\ rpc[Shared] = "done"
  /\ progress' = [l \in Lookups |-> IF join[l] = "now" THEN result[Shared] ELSE progress[l]]
  /\ join' = [l \in Lookups |-> CASE join[l] = "now" -> "got"
                                  [] join[l] = "next" -> "now"
                                  [] OTHER -> join[l]]
  /\ result' = [result EXCEPT ![Shared] = NoResult]
  /\ IF \E l \in Lookups : join[l] = "next"
       THEN StartRefresh
       ELSE rpc' = [rpc EXCEPT ![Shared] = "idle"] /\ UNCHANGED <<mine, sharedAt>>
  /\ UNCHANGED <<clock, page, span>>
  /\ UNCHANGED <<remoteVars, indexVars, lease, lpc, since, known, cand, existed, tried, scan>>

(* judge: only a confirmation as young as the lookup proves anything.      *)
Confirms(l) == progress[l].current /\ progress[l].asOf >= since[l]

BugCandidates(l) == cand[l]  \* the invoices the refresh appended are not looked at

(* The index is read again only if the refresh ended at a higher count.    *)
Candidates(l) == IF progress[l].scanned > known[l].scanned THEN cand[l] \cup indexed ELSE cand[l]

Judge(l) ==
  /\ lpc[l] = "index" /\ join[l] = "got"
  /\ Joins(l, "none")
  /\ IF Confirms(l)
       THEN /\ cand' = [cand EXCEPT ![l] = Candidates(l)]
            /\ Path(l, "indexed")
            /\ UNCHANGED tried
       ELSE Fails(l, "index") /\ UNCHANGED cand
  /\ progress' = [progress EXCEPT ![l] = NoResult]
  /\ UNCHANGED <<since, known, existed, scan>> /\ OnlyLookup

(* scanInvoicesAboveFloor, newest first.                                   *)
ScanOverlap(l) == IF scan[l].last = None THEN 0 ELSE 1

BugScanHolds(l, list) == TRUE  \* the overlap of the pages is not checked

ScanHolds(l, list) == ScanOverlap(l) = 1 => scan[l].last \in list /\ \A i \in list : i <= scan[l].last

Scan(l) ==
  LET list  == Descending(scan[l].offset - ScanOverlap(l))
      fresh == {i \in list : ScanOverlap(l) = 1 => \E j \in list : i < j}
      above == {i \in fresh : i > env.floor}
      offset == scan[l].offset + Cardinality(fresh)
  IN
  /\ lpc[l] = "floor"
  /\ \/ /\ scan[l].pages < FloorPages /\ ScanHolds(l, list)
        /\ cand' = [cand EXCEPT ![l] = @ \cup above]
        /\ \/ /\ above # fresh \/ offset >= Cardinality(remote)
              /\ Path(l, "scanned") /\ UNCHANGED <<scan, tried>>
           \/ /\ above = fresh /\ offset < Cardinality(remote) /\ fresh # {}
              /\ scan' = [scan EXCEPT ![l] = [offset |-> offset, last |-> Min(fresh), pages |-> @.pages + 1]]
              /\ UNCHANGED <<lpc, tried>>
     \/ Fails(l, "floor") /\ UNCHANGED <<cand, scan>>  \* changed meanwhile, out of pages, failed
  /\ UNCHANGED <<since, known, existed, join, progress>> /\ OnlyLookup

(* currentInvoices: an invoice deleted in KiotViet leaves the index too.   *)
Reread(l) ==
  /\ lpc[l] \in {"indexed", "scanned", "unproven"}
  /\ indexed' = indexed \ (cand[l] \ remote)
  /\ lpc' = [lpc EXCEPT ![l] = "idle"] /\ cand' = [cand EXCEPT ![l] = {}]
  /\ since' = [since EXCEPT ![l] = 0] /\ known' = [known EXCEPT ![l] = Empty(0)]
  /\ existed' = [existed EXCEPT ![l] = {}] /\ tried' = [tried EXCEPT ![l] = {}]
  /\ scan' = [scan EXCEPT ![l] = NoScan]
  /\ UNCHANGED <<remoteVars, st, lease, refreshVars, sharedAt, join, progress>>

Lookup(l) ==
  Snapshot(l) \/ Reuse(l) \/ Join(l) \/ Queue(l) \/ Fetch(l) \/ Judge(l) \/ Scan(l) \/ Reread(l)
-----------------------------------------------------------------------------
Step ==
  \/ Issue \/ Delete \/ LeaseExpires \/ Deliver
  \/ \E r \in Runners : Acquire(r) \/ Release(r)
  \/ \E r \in Refreshes : Advance(r)
  \/ \E l \in Lookups : Lookup(l)

Next == Step /\ UNCHANGED env

Spec == Init /\ [][Next]_vars

(* The job is scheduled every minute, a run goes on to its end, and a lease*)
(* that is not released expires.                                           *)
Fairness ==
  /\ WF_state(LeaseExpires)
  /\ \A r \in Runners : WF_state(Acquire(r) \/ Advance(r) \/ Release(r))

FairSpec == Spec /\ Fairness
-----------------------------------------------------------------------------
(***************************************************************************)
(* "Every invoice that still exists with id <= last_invoice_id is already  *)
(* indexed", whatever is deleted and appended between two requests and     *)
(* whoever else moves the checkpoint: the pass never steps over an invoice.*)
(***************************************************************************)
NothingSkipped == \A i \in remote : i <= st.last => i \in indexed

(***************************************************************************)
(* current_as_of is true: every invoice issued by then is indexed, or was  *)
(* deleted.                                                                *)
(***************************************************************************)
ConfirmedIsIndexed == \A i \in remote : i <= st.asOf => i \in indexed

KnowsAll(l) == \A i \in existed[l] \cap remote : i > env.floor => i \in cand[l]

(***************************************************************************)
(* A lookup that reports completeness knows every invoice (of an order     *)
(* created by this program, one above its floor) that existed when it      *)
(* began: "complete: true (proof of absence)", while nothing is deleted.   *)
(***************************************************************************)
CompleteIsProof ==
  deleted = 0 => \A l \in Lookups : lpc[l] \in {"indexed", "scanned"} => KnowsAll(l)

(***************************************************************************)
(* The same for proofs by the newest-first scan alone, which needs no      *)
(* index and must notice every insertion and deletion under its feet.      *)
(***************************************************************************)
ScanIsProof == \A l \in Lookups : lpc[l] = "scanned" => KnowsAll(l)

(***************************************************************************)
(* Maintenance catches up: again and again the index is confirmed for      *)
(* everything issued so far, unless its requests keep failing.             *)
(***************************************************************************)
CatchesUp == env.runners = {} \/ []<>(st.asOf = issued) \/ []<><<\E r \in Runners : GiveUp(r)>>_state

(***************************************************************************)
(* What the checkpoint says of the index is true, in both respects.        *)
(***************************************************************************)
IndexIsTrue == NothingSkipped /\ ConfirmedIsIndexed

(***************************************************************************)
(* Whatever says "no invoice yet" has seen every invoice: both proofs.     *)
(***************************************************************************)
AbsenceIsProof == CompleteIsProof /\ ScanIsProof
=============================================================================

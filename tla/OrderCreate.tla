---------------------------- MODULE OrderCreate ----------------------------
(***************************************************************************)
(* How one Shopify order becomes at most one KiotViet order.               *)
(*                                                                         *)
(* The order_mappings row is the claim: no PostgreSQL transaction is open  *)
(* during an HTTP call, so every worker step below is separated from the   *)
(* next one by an await at which other workers, the recovery script,       *)
(* KiotViet and time may move.  One instance of this module is one Shopify *)
(* order; rows of different orders share nothing but the UNIQUE KiotViet   *)
(* id, and the KiotViet ids of one order are those of its own requests.    *)
(*                                                                         *)
(* A claim token (randomUUID) names the claim, the one create request sent *)
(* under it and the KiotViet order that request creates.                   *)
(*                                                                         *)
(* Definitions named Bug... are deliberately wrong variants of the one that*)
(* follows them; they only serve to show that a property can fail.         *)
(***************************************************************************)
EXTENDS Naturals

CONSTANTS
  Workers,      \* concurrent job attempts of this order (BullMQ workers)
  Operators,    \* concurrent runs of scripts/recover-shopify-order-sync.ts
  Tokens,       \* claim tokens; also the KiotViet orders created under them
  StaffIds,     \* KiotViet orders staff create by hand, with the reference
  NoId,         \* SQL NULL
  Stalls,       \* TRUE: a worker may outlive its claim's lease or window,
                \* and its job may be recorded as finished meanwhile
  MaxCrashes    \* bound on lost attempts (worker crash, lost connection)

ASSUME IdsAssumption ==
  /\ Tokens \cap StaffIds = {}
  /\ NoId \notin Tokens \cup StaffIds
ASSUME FlagsAssumption ==
  /\ Stalls \in BOOLEAN
  /\ MaxCrashes \in Nat

VARIABLES
  status,     \* the order's row of order_mappings: status ("absent": no row),
  kvId,       \* kiotviet_order_id,
  claimToken, \* claim_token,
  expired,    \* claimed_at is older than the lease (or window) of the status,
  syncStatus, \* sync_status
  kv,         \* what KiotViet knows of each id
  abandoned,  \* claims that recovery reset while `creating` (observation only)
  cancelled,  \* the Shopify order has cancelled_at
  pc,         \* where each worker attempt stands
  ref,        \* its claim token, the token it verifies, or the id it found
  openRead,   \* its fresh Shopify read saw no cancelled_at
  opc,        \* where each recovery run stands
  oref,       \* the KiotViet id it will link
  fresh,      \* the row's updated_at is still the one its plan read
  crashes

rowVars == <<status, kvId, claimToken, expired, syncStatus>>
vars == <<rowVars, kv, abandoned, cancelled, pc, ref, openRead, opc, oref, fresh, crashes>>

Ids == Tokens \cup StaffIds

(* "hidden": created, but GET /orders?searchTerm does not return it yet.   *)
Landed == {"hidden", "listed"}
KvStates == {"none", "sent", "refused", "lost"} \cup Landed

Statuses == {"absent", "pending_create", "creating", "create_failed", "created"}
SyncStatuses == {"pending", "failed", "uncertain", "manual_review", "synced"}

(* The worker owns a claim token between its claim and the recorded result.*)
HoldingPcs == {"prepare", "send", "await", "record"}
ClaimTxnPcs == {"insert", "update_claim"}
WorkerPcs == {"idle", "claim", "update", "invalid", "lookup", "link", "missed"}
               \cup HoldingPcs \cup ClaimTxnPcs
OperatorPcs == {"idle", "search", "check", "link", "reset"}

Holders(t) == {p \in Workers : pc[p] \in HoldingPcs /\ ref[p] = t}

(* The transaction-scoped advisory lock `shopify-order:<id>`.              *)
LockFree == \A p \in Workers : pc[p] \notin ClaimTxnPcs

LeaseActive == status \in {"pending_create", "creating"} /\ ~expired

(* The writes to the row.  Each sets updated_at=now(), so it outdates the  *)
(* plan of every recovery run.  `expired` says nothing of a row without a  *)
(* claim and is cleared with it.                                           *)
Touch == fresh' = [o \in Operators |-> FALSE]

BugLinkTo(i) ==  \* the status stays as it was
  /\ kvId' = i /\ claimToken' = NoId
  /\ expired' = FALSE /\ syncStatus' = "synced"
  /\ UNCHANGED status
  /\ Touch

LinkTo(i) ==
  /\ status' = "created" /\ kvId' = i /\ claimToken' = NoId
  /\ expired' = FALSE /\ syncStatus' = "synced"
  /\ Touch

Release(s) ==
  /\ status' = "create_failed" /\ claimToken' = NoId
  /\ expired' = FALSE /\ syncStatus' = s
  /\ UNCHANGED kvId
  /\ Touch

SetSync(s) ==
  /\ syncStatus' = s
  /\ UNCHANGED <<status, kvId, claimToken, expired>>
  /\ Touch

NoWrite == UNCHANGED <<rowVars, fresh>>

Goto(p, l) == pc' = [pc EXCEPT ![p] = l]
Finish(p) == Goto(p, "idle") /\ ref' = [ref EXCEPT ![p] = NoId]

(* WHERE status=$s AND claim_token=$t, the fence of every claim holder.    *)
Fenced(p, s) == status = s /\ claimToken = ref[p]

External == <<kv, abandoned, cancelled, openRead, opc, oref, crashes>>
-----------------------------------------------------------------------------
Init ==
  /\ status = "absent" /\ kvId = NoId /\ claimToken = NoId
  /\ expired = FALSE /\ syncStatus = "pending"
  /\ kv = [i \in Ids |-> "none"]
  /\ abandoned = {}
  /\ cancelled = FALSE
  /\ pc = [p \in Workers |-> "idle"]
  /\ ref = [p \in Workers |-> NoId]
  /\ openRead = [p \in Workers |-> FALSE]
  /\ opc = [o \in Operators |-> "idle"]
  /\ oref = [o \in Operators |-> NoId]
  /\ fresh = [o \in Operators |-> FALSE]
  /\ crashes = 0

-----------------------------------------------------------------------------
(* runShopifyOrderSync: the fresh Shopify read.  (A linked order skips the *)
(* read; what it would have seen is then never used.)                      *)
Begin(p) ==
  /\ pc[p] = "idle"
  /\ Goto(p, "claim")
  /\ openRead' = [openRead EXCEPT ![p] = ~cancelled]
  /\ NoWrite
  /\ UNCHANGED <<ref, kv, abandoned, cancelled, opc, oref, crashes>>

(* The claim transaction's SELECT, under the advisory lock.  All decisions *)
(* but "create" write nothing, so their transaction ends here.             *)
BugAtClaim(p) == pc[p] = "claim"  \* no advisory lock
AtClaim(p) == pc[p] = "claim" /\ LockFree

BugClaimable ==  \* an old `creating` claim is taken over as well
  /\ kvId = NoId
  /\ \/ status \in {"absent", "create_failed"}
     \/ status \in {"pending_create", "creating"} /\ expired

Claimable ==
  /\ kvId = NoId
  /\ \/ status \in {"absent", "create_failed"}
     \/ status = "pending_create" /\ expired

ClaimSeesLink(p) ==
  /\ AtClaim(p)
  /\ kvId # NoId
  /\ Goto(p, "update")
  /\ NoWrite
  /\ UNCHANGED <<ref, External>>

ClaimSeesCreating(p) ==
  /\ AtClaim(p)
  /\ kvId = NoId /\ status = "creating"
  /\ Goto(p, "lookup")
  /\ ref' = [ref EXCEPT ![p] = claimToken]
  /\ NoWrite
  /\ UNCHANGED External

(* "busy" behind an active lease, or "skip": autoCreate off, unpaid,       *)
(* cancelled, nothing left to send.                                        *)
ClaimStops(p) ==
  /\ AtClaim(p)
  /\ \/ kvId = NoId /\ status = "pending_create" /\ ~expired
     \/ Claimable
  /\ Finish(p)
  /\ NoWrite
  /\ UNCHANGED External

ClaimInvalid(p) ==
  /\ AtClaim(p)
  /\ Claimable
  /\ openRead[p]
  /\ Goto(p, "invalid")
  /\ NoWrite
  /\ UNCHANGED <<ref, External>>

(* A token nobody refers to any more stands for a new randomUUID.          *)
NewTokens == {t \in Tokens : /\ kv[t] = "none" /\ t # claimToken /\ t \notin abandoned
                             /\ \A q \in Workers : ref[q] # t}

(* Decision "create": the transaction still has to write the claim, as an  *)
(* UPDATE or an INSERT depending on the row it has just read.  The supply  *)
(* of Tokens bounds the number of claims.                                  *)
ClaimDecides(p) ==
  /\ AtClaim(p)
  /\ Claimable
  /\ openRead[p]
  /\ NewTokens # {}
  /\ Goto(p, IF status = "absent" THEN "insert" ELSE "update_claim")
  /\ NoWrite
  /\ UNCHANGED <<ref, External>>

BugClaimWrites(p) ==  \* the claim is written without its token
  /\ pc[p] \in ClaimTxnPcs
  /\ pc[p] = "insert" => status = "absent"
  /\ \E t \in NewTokens :
       /\ status' = "pending_create" /\ expired' = FALSE /\ syncStatus' = "pending"
       /\ UNCHANGED <<kvId, claimToken>>
       /\ Touch
       /\ ref' = [ref EXCEPT ![p] = t]
  /\ Goto(p, "prepare")
  /\ UNCHANGED External

(* The claim's UPDATE names only the order, not the row version it read.   *)
ClaimWrites(p) ==
  /\ pc[p] \in ClaimTxnPcs
  /\ pc[p] = "insert" => status = "absent"
  /\ \E t \in NewTokens :
       /\ status' = "pending_create" /\ claimToken' = t
       /\ expired' = FALSE /\ syncStatus' = "pending"
       /\ UNCHANGED kvId
       /\ Touch
       /\ ref' = [ref EXCEPT ![p] = t]
  /\ Goto(p, "prepare")
  /\ UNCHANGED External

(* The INSERT meets a row that appeared meanwhile: unique violation,       *)
(* ROLLBACK, the job is retried.                                           *)
ClaimInsertFails(p) ==
  /\ pc[p] = "insert" /\ status # "absent"
  /\ Finish(p)
  /\ NoWrite
  /\ UNCHANGED External
-----------------------------------------------------------------------------
BugRecordInvalid(p) ==  \* overwrites a row that is being created
  /\ pc[p] = "invalid"
  /\ IF kvId = NoId THEN Release("manual_review") ELSE NoWrite
  /\ Finish(p)
  /\ UNCHANGED External

(* recordUnclaimedFailure, after an "invalid" decision released the lock.  *)
RecordInvalid(p) ==
  /\ pc[p] = "invalid"
  /\ IF kvId = NoId /\ status \notin {"creating", "pending_create"}
       THEN Release("manual_review")
       ELSE NoWrite
  /\ Finish(p)
  /\ UNCHANGED External

(* updateMappedOrder: the status is left alone.                            *)
UpdateMapped(p) ==
  /\ pc[p] = "update"
  /\ SetSync("synced")
  /\ Finish(p)
  /\ UNCHANGED External
-----------------------------------------------------------------------------
(* createMappedOrder.  Branch, seller, customer and product lookups come   *)
(* first; a failure there releases the claim, nothing having been sent.    *)
PrepareFails(p) ==
  /\ pc[p] = "prepare"
  /\ IF Fenced(p, "pending_create")
       THEN \E s \in {"failed", "manual_review"} : Release(s)
       ELSE NoWrite
  /\ Finish(p)
  /\ UNCHANGED External

MarkCreating(p) ==
  /\ pc[p] = "prepare"
  /\ Fenced(p, "pending_create")
  /\ status' = "creating" /\ expired' = FALSE
  /\ UNCHANGED <<kvId, claimToken, syncStatus>>
  /\ Touch
  /\ Goto(p, "send")
  /\ UNCHANGED <<ref, External>>

(* The claim was taken over: RetryableError.                               *)
ClaimLost(p) ==
  /\ pc[p] = "prepare"
  /\ ~Fenced(p, "pending_create")
  /\ Finish(p)
  /\ NoWrite
  /\ UNCHANGED External

Send(p) ==
  /\ pc[p] = "send"
  /\ kv' = [kv EXCEPT ![ref[p]] = "sent"]
  /\ Goto(p, "await")
  /\ NoWrite
  /\ UNCHANGED <<ref, abandoned, cancelled, openRead, opc, oref, crashes>>

BugReplyCreated(p) ==  \* any answer counts as a created order
  /\ pc[p] = "await" /\ kv[ref[p]] \in Landed \cup {"refused"}
  /\ Goto(p, "record")
  /\ NoWrite
  /\ UNCHANGED <<ref, External>>

ReplyCreated(p) ==
  /\ pc[p] = "await" /\ kv[ref[p]] \in Landed
  /\ Goto(p, "record")
  /\ NoWrite
  /\ UNCHANGED <<ref, External>>

(* isDefiniteRejection: KiotViet answered and nothing was created.         *)
ReplyRejected(p) ==
  /\ pc[p] = "await" /\ kv[ref[p]] = "refused"
  /\ IF Fenced(p, "creating") THEN Release("failed") ELSE NoWrite
  /\ Finish(p)
  /\ UNCHANGED External

BugReplyUncertain(p) ==  \* a timeout is taken for a rejection
  /\ pc[p] = "await"
  /\ IF Fenced(p, "creating") THEN Release("failed") ELSE NoWrite
  /\ Finish(p)
  /\ UNCHANGED External

(* UncertainResultError: timeout, network failure, 5xx, unreadable body.   *)
(* The request may have landed, may land later or may be lost.             *)
ReplyUncertain(p) ==
  /\ pc[p] = "await"
  /\ IF Fenced(p, "creating") THEN SetSync("uncertain") ELSE NoWrite
  /\ Finish(p)
  /\ UNCHANGED External

BugRecordMapping(p) ==  \* no fence
  /\ pc[p] = "record"
  /\ LinkTo(ref[p])
  /\ Finish(p)
  /\ UNCHANGED External

(* Record the KiotViet id, or report a mapping that changed concurrently.  *)
RecordMapping(p) ==
  /\ pc[p] = "record"
  /\ IF Fenced(p, "creating") THEN LinkTo(ref[p]) ELSE NoWrite
  /\ Finish(p)
  /\ UNCHANGED External
-----------------------------------------------------------------------------
(* verifyUncertainOrder: a `creating` row is looked up, never re-sent.     *)
Listed == {i \in Ids : kv[i] = "listed"}

VerifyFinds(p) ==
  /\ pc[p] = "lookup"
  /\ \E i \in Listed : ref' = [ref EXCEPT ![p] = i]
  /\ Goto(p, "link")
  /\ NoWrite
  /\ UNCHANGED External

VerifyMisses(p) ==
  /\ pc[p] = "lookup"
  /\ Listed = {}
  /\ Goto(p, "missed")
  /\ NoWrite
  /\ UNCHANGED <<ref, External>>

LinkFound(p) ==
  /\ pc[p] = "link"
  /\ IF status = "creating" /\ kvId = NoId THEN LinkTo(ref[p]) ELSE NoWrite
  /\ Finish(p)
  /\ UNCHANGED External

(* The window is judged by the claimed_at this worker read when it claimed;*)
(* if the row has moved on, that time may lie on either side of it.        *)
WindowJudged(p, open) == Fenced(p, "creating") => (open <=> ~expired)

MissRetried(p) ==
  /\ pc[p] = "missed" /\ WindowJudged(p, TRUE)
  /\ Finish(p)
  /\ NoWrite
  /\ UNCHANGED External

BugMissReleases(p) ==  \* gives the claim up when the window has closed
  /\ pc[p] = "missed" /\ WindowJudged(p, FALSE)
  /\ IF status = "creating" THEN Release("manual_review") ELSE NoWrite
  /\ Finish(p)
  /\ UNCHANGED External

BugMissSilent(p) ==  \* nobody is told
  /\ pc[p] = "missed" /\ WindowJudged(p, FALSE)
  /\ IF status = "creating" THEN SetSync("uncertain") ELSE NoWrite
  /\ Finish(p)
  /\ UNCHANGED External

MissReviewed(p) ==
  /\ pc[p] = "missed" /\ WindowJudged(p, FALSE)
  /\ IF status = "creating"
       THEN SetSync("manual_review")
       ELSE NoWrite
  /\ Finish(p)
  /\ UNCHANGED External
-----------------------------------------------------------------------------
(* A lost attempt: process crash, dropped connection, or a failed write    *)
(* that the code ignores (.catch).  An open claim transaction rolls back.  *)
Crash(p) ==
  /\ pc[p] # "idle"
  /\ crashes < MaxCrashes
  /\ crashes' = crashes + 1
  /\ Finish(p)
  /\ NoWrite
  /\ UNCHANGED <<kv, abandoned, cancelled, openRead, opc, oref>>

Worker(p) ==
  \/ ClaimSeesLink(p) \/ ClaimSeesCreating(p) \/ ClaimStops(p) \/ ClaimInvalid(p)
  \/ ClaimDecides(p) \/ ClaimWrites(p) \/ ClaimInsertFails(p)
  \/ RecordInvalid(p) \/ UpdateMapped(p)
  \/ PrepareFails(p) \/ MarkCreating(p) \/ ClaimLost(p) \/ Send(p)
  \/ ReplyCreated(p) \/ ReplyRejected(p) \/ ReplyUncertain(p) \/ RecordMapping(p)
  \/ VerifyFinds(p) \/ VerifyMisses(p) \/ LinkFound(p) \/ MissRetried(p) \/ MissReviewed(p)
-----------------------------------------------------------------------------
(* planOrderRecovery and applyOrderRecovery.                               *)
OperatorFrame == UNCHANGED <<kv, cancelled, pc, ref, openRead, crashes>>
OGoto(o, l) == opc' = [opc EXCEPT ![o] = l]
OFinish(o) == OGoto(o, "idle") /\ oref' = [oref EXCEPT ![o] = NoId]

PlanReads(o) ==
  /\ opc[o] = "idle"
  /\ kvId = NoId
  /\ OGoto(o, "search")
  /\ fresh' = [fresh EXCEPT ![o] = TRUE]
  /\ UNCHANGED <<rowVars, abandoned, oref>>
  /\ OperatorFrame

PlanFindsOrder(o) ==
  /\ opc[o] = "search"
  /\ \E i \in Listed : oref' = [oref EXCEPT ![o] = i]
  /\ OGoto(o, "link")
  /\ UNCHANGED <<rowVars, abandoned, fresh>>
  /\ OperatorFrame

PlanFindsNone(o) ==
  /\ opc[o] = "search"
  /\ Listed = {}
  /\ OGoto(o, "check")
  /\ UNCHANGED <<rowVars, abandoned, fresh, oref>>
  /\ OperatorFrame

(* Blocked while the claim read by the plan is young, or while a job of    *)
(* this order may still run.                                               *)
PlanResets(o) ==
  /\ opc[o] = "check"
  /\ fresh[o] => ~LeaseActive
  /\ Stalls \/ \A p \in Workers : pc[p] = "idle"
  /\ OGoto(o, "reset")
  /\ UNCHANGED <<rowVars, abandoned, fresh, oref>>
  /\ OperatorFrame

(* Blocked, manual creation required, or nothing to do.                    *)
PlanStops(o) ==
  /\ opc[o] \in {"search", "check"}
  /\ OFinish(o)
  /\ UNCHANGED <<rowVars, abandoned, fresh>>
  /\ OperatorFrame

BugApplyLink(o) ==  \* trusts the plan
  /\ opc[o] = "link" /\ LockFree
  /\ LinkTo(oref[o])
  /\ OFinish(o)
  /\ UNCHANGED abandoned
  /\ OperatorFrame

ApplyLink(o) ==
  /\ opc[o] = "link" /\ LockFree
  /\ IF kvId = NoId THEN LinkTo(oref[o]) ELSE NoWrite
  /\ OFinish(o)
  /\ UNCHANGED abandoned
  /\ OperatorFrame

(* Guarded by the status and updated_at the plan read.  The requeued job   *)
(* is a Begin of any worker.                                               *)
ApplyReset(o) ==
  /\ opc[o] = "reset" /\ LockFree
  /\ IF fresh[o] /\ kvId = NoId
       THEN /\ Release("failed")
            /\ abandoned' = abandoned \cup (IF status = "creating" THEN {claimToken} ELSE {})
       ELSE NoWrite /\ UNCHANGED abandoned
  /\ OFinish(o)
  /\ OperatorFrame

Operator(o) ==
  \/ PlanReads(o) \/ PlanFindsOrder(o) \/ PlanFindsNone(o) \/ PlanResets(o) \/ PlanStops(o)
  \/ ApplyLink(o) \/ ApplyReset(o)
-----------------------------------------------------------------------------
(* KiotViet, KiotViet staff, Shopify and time.                             *)
Settle(i, from, to) ==
  /\ kv[i] = from
  /\ kv' = [kv EXCEPT ![i] = to]
  /\ NoWrite
  /\ UNCHANGED <<abandoned, cancelled, pc, ref, openRead, opc, oref, crashes>>

KiotViet ==
  \/ \E t \in Tokens, answer \in {"hidden", "refused", "lost"} : Settle(t, "sent", answer)
  \/ \E i \in Ids : Settle(i, "hidden", "listed")

StaffCreates == kvId = NoId /\ \E i \in StaffIds : Settle(i, "none", "hidden")

ShopifyCancels ==
  /\ ~cancelled
  /\ cancelled' = TRUE
  /\ NoWrite
  /\ UNCHANGED <<kv, abandoned, pc, ref, openRead, opc, oref, crashes>>

(* ORDER_CLAIM_LEASE_MS of a pending_create row or ORDER_RECOVERY_WINDOW_MS*)
(* of a creating one runs out: unless workers may stall, not while the     *)
(* claim's own attempt is still running.                                   *)
LeaseRunsOut ==
  /\ LeaseActive
  /\ Stalls \/ Holders(claimToken) = {}
  /\ expired' = TRUE
  /\ UNCHANGED <<status, kvId, claimToken, syncStatus, kv, abandoned, cancelled, pc, ref, openRead, opc, oref, fresh, crashes>>

Next ==
  \/ \E p \in Workers : Begin(p) \/ Worker(p) \/ Crash(p)
  \/ \E o \in Operators : Operator(o)
  \/ KiotViet \/ StaffCreates \/ ShopifyCancels \/ LeaseRunsOut

Spec == Init /\ [][Next]_vars

(* HTTP calls end (20 s timeout), time passes, and jobs of the order keep  *)
(* coming: BullMQ retries after 1, 5 and 15 minutes and more, further      *)
(* webhooks of the order, recovery.  Nothing is assumed of KiotViet, of    *)
(* staff or of the operator.                                               *)
FairSpec ==
  /\ Spec
  /\ \A p \in Workers : WF_vars(Worker(p)) /\ WF_vars(Begin(p))
  /\ WF_vars(LeaseRunsOut)
-----------------------------------------------------------------------------
TypeOK ==
  /\ status \in Statuses
  /\ kvId \in Ids \cup {NoId}
  /\ claimToken \in Tokens \cup {NoId}
  /\ expired \in BOOLEAN
  /\ syncStatus \in SyncStatuses
  /\ kv \in [Ids -> KvStates]
  /\ abandoned \subseteq Tokens
  /\ cancelled \in BOOLEAN
  /\ pc \in [Workers -> WorkerPcs]
  /\ ref \in [Workers -> Ids \cup {NoId}]
  /\ openRead \in [Workers -> BOOLEAN]
  /\ opc \in [Operators -> OperatorPcs]
  /\ oref \in [Operators -> Ids \cup {NoId}]
  /\ fresh \in [Operators -> BOOLEAN]
  /\ crashes \in 0 .. MaxCrashes
  /\ \A p \in Workers : pc[p] \in HoldingPcs => ref[p] \in Tokens
  /\ status \in {"pending_create", "creating"} => claimToken \in Tokens

(* Requests that may have created, or may still create, a KiotViet order.  *)
Live == {t \in Tokens : kv[t] \in {"sent"} \cup Landed}
Unresolved == Live \ abandoned

(***************************************************************************)
(* "A `creating` row is never re-sent blindly": of all create requests     *)
(* that may have had an effect, at most one was not explicitly given up by *)
(* an operator who reset the row in recovery.                              *)
(***************************************************************************)
NoBlindResend == \A t, u \in Unresolved : t = u

(***************************************************************************)
(* The row never forgets a request that may have had an effect: until the  *)
(* order is linked, the row still says `creating` under that request's own *)
(* claim.  In particular create_failed and pending_create mean what the    *)
(* module comment says: nothing was created, nothing was sent.             *)
(***************************************************************************)
NothingForgotten ==
  \A t \in Unresolved : kvId # NoId \/ (status = "creating" /\ claimToken = t)

(***************************************************************************)
(* A link names an order KiotViet really holds, and goes with the status   *)
(* `created`; neither a lost reply nor a stale search result can leave a   *)
(* row that claims more or less than KiotViet knows.                       *)
(***************************************************************************)
LinkIsReal ==
  /\ kvId # NoId => kv[kvId] \in Landed
  /\ kvId # NoId <=> status = "created"

(***************************************************************************)
(* The inductive strengthening of the properties above, for workers that   *)
(* do not outlive their claims; OrderProofs proves it inductive.           *)
(***************************************************************************)
(* One attempt owns a token; one holds the advisory lock; one can send.    *)
Exclusion ==
  /\ \A p, q \in Workers :
       (pc[p] \in HoldingPcs /\ pc[q] \in HoldingPcs /\ ref[p] = ref[q]) => p = q
  /\ \A p, q \in Workers : pc[p] \in ClaimTxnPcs /\ pc[q] \in ClaimTxnPcs => p = q
  /\ \A p, q \in Workers : pc[p] = "send" /\ pc[q] = "send" => p = q

(* What a claim transaction decided on stays true until it commits.        *)
DecisionHolds ==
  \A p \in Workers : pc[p] \in ClaimTxnPcs => Claimable

(* A token is unsent before "send", and its row is `creating` or was linked*)
(* by somebody else while nothing else is unresolved.                      *)
SendIsSafe ==
  \A p \in Workers :
    /\ pc[p] \in {"prepare", "send"} => (kv[ref[p]] = "none" /\ ref[p] \notin abandoned)
    /\ pc[p] = "send" => (Fenced(p, "creating") \/ (kvId # NoId /\ Unresolved = {}))

(* A lease that ran out was not held by a running attempt any more.        *)
ExpiredIsIdle ==
  /\ status \in {"pending_create", "creating"} /\ expired => Holders(claimToken) = {}
  /\ \A o \in Operators : opc[o] = "reset" /\ fresh[o] => ~LeaseActive

(* An id about to be linked names an order KiotViet holds.                 *)
CandidatesAreReal ==
  /\ \A p \in Workers : pc[p] \in {"link", "record"} => ref[p] \in Ids /\ kv[ref[p]] \in Landed
  /\ \A o \in Operators : opc[o] = "link" => oref[o] \in Ids /\ kv[oref[o]] \in Landed

ClaimInv ==
  /\ TypeOK /\ NoBlindResend /\ NothingForgotten /\ LinkIsReal
  /\ Exclusion /\ DecisionHolds /\ SendIsSafe /\ ExpiredIsIdle /\ CandidatesAreReal

(***************************************************************************)
(* Once linked, a Shopify order is never linked to another KiotViet order  *)
(* nor unlinked, whichever of worker, verifier and recovery comes last.    *)
(***************************************************************************)
LinkIsPermanent == [][kvId # NoId => kvId' = kvId]_kvId

(***************************************************************************)
(* The claim protocol implements the promise of AtMostOnce for one order   *)
(* (when no worker outlives its claim): every request that leaves does so  *)
(* after the fate of the earlier ones is settled or waived.                *)
(***************************************************************************)
Outcome == [i \in Ids |-> CASE kv[i] = "none" -> "none"
                           [] kv[i] = "sent" -> "open"
                           [] kv[i] \in {"refused", "lost"} -> "dead"
                           [] OTHER -> "exists"]

Once == INSTANCE AtMostOnce WITH Requests <- Tokens, ByHand <- StaffIds, NoResult <- NoId,
                                  outcome <- Outcome, waived <- abandoned, link <- kvId

ImplementsAtMostOnce == Once!Spec

(***************************************************************************)
(* An uncertain create does not stay silent: the row leaves `creating` or  *)
(* is flagged for manual review.                                           *)
(***************************************************************************)
UncertainIsResolved ==
  status = "creating" ~> (status # "creating" \/ syncStatus = "manual_review")
=============================================================================

---------------------------- MODULE ReturnRefund ----------------------------
(***************************************************************************)
(* How one KiotViet return becomes at most one Shopify refund.             *)
(*                                                                         *)
(* refund_mappings holds one row per return.  A run of syncKiotVietReturn  *)
(* claims the row in a short transaction and then reads, writes and calls  *)
(* Shopify in separate steps, so runs of several queue jobs, the lease and *)
(* late Shopify answers interleave with it at every await.  One instance   *)
(* of this module is one return; other returns of the same order only show *)
(* as refunds that need a person ("suspicious").                           *)
(*                                                                         *)
(* Claim n of the row has attempt_count n and a claim_token of its own, so *)
(* n names the claim, its token and the refundCreate sent under it.        *)
(*                                                                         *)
(* Definitions named Bug... are deliberately wrong variants of the one that*)
(* follows them; they only serve to show that a property can fail.         *)
(***************************************************************************)
EXTENDS Naturals

CONSTANTS
  Workers,      \* concurrent runs
  MaxClaims,    \* bound on the number of claims
  AttemptCap,   \* the scheduler leaves a row alone from this attempt_count on (10)
  MaxTries,     \* JOB_MAX_ATTEMPTS
  LongTries,    \* failures after which retryDelay is longer than the verify window (3)
  MaxFaults,    \* bound on failed reads and writes
  MaxCrashes,   \* bound on worker crashes
  Stalls        \* TRUE: a run may outlive the lease of its claim

ASSUME BoundsAssumption ==
  /\ MaxClaims \in Nat /\ AttemptCap \in Nat /\ MaxTries \in Nat \ {0} /\ LongTries \in Nat
  /\ MaxFaults \in Nat /\ MaxCrashes \in Nat
  /\ Stalls \in BOOLEAN

VARIABLES
  status,     \* refund_mappings.status ("absent": no row),
  claimToken, \* claim_token (0: NULL),
  attempts,   \* attempt_count,
  leaseOver,  \* claimed_at is older than RETURN_CLAIM_LEASE_MS,
  sentAt,     \* sent_at, as the claim that set it (0: NULL),
  sentLate,   \* sent_at is older than RETURN_SEND_VERIFY_MS,
  refundId,   \* financial_refund_id, as the claim whose refund it is (0: NULL)
  request,    \* what became of the refundCreate of each claim
  pc, token,  \* where each run stands, and its claim
  job,        \* the queue job it runs
  jobs, tries,\* BullMQ: state and used attempts of each job,
  since,      \* and sent_at when its last long delay began
  faults, crashes

sendTime == <<sentAt, sentLate>>
rowVars == <<status, claimToken, attempts, leaseOver, sendTime, refundId>>
jobVars == <<job, jobs, tries, since>>
vars == <<rowVars, request, pc, token, jobVars, faults, crashes>>

Claims == 1 .. MaxClaims

(* `kiotviet-return-<id>` is job 0, `kiotviet-return-<id>-a<n>` is job n.  *)
JobIds == 0 .. MaxClaims

Statuses == {"absent", "processing", "sending", "financial_refunded", "needs_review", "failed"}
RequestStates == {"none", "sent", "refused", "lost", "made"}
RunPcs == {"idle", "claim", "check", "reconcile", "link", "review", "unseen", "validate",
           "mark", "send", "await", "record"}
ClaimedPcs == RunPcs \ {"idle", "claim"}
JobStates == {"unknown", "queued", "running", "finished"}

Holds(p) == claimToken = token[p]     \* WHERE claim_token=$token
Held == \E p \in Workers : pc[p] \in ClaimedPcs /\ Holds(p)

NoWrite == UNCHANGED rowVars
Quiet == UNCHANGED <<request, faults, crashes>>
Step(p, l) == pc' = [pc EXCEPT ![p] = l] /\ UNCHANGED <<token, jobVars>>

(* The end of a run: the queue job finished, or failed with a retryable    *)
(* error and attempts left.                                                *)
Leave(p) == pc' = [pc EXCEPT ![p] = "idle"] /\ token' = [token EXCEPT ![p] = 0] /\ UNCHANGED job
End(p) ==
  /\ Leave(p)
  /\ jobs' = [jobs EXCEPT ![job[p]] = "finished"]
  /\ UNCHANGED <<tries, since>>
Retry(p) ==
  /\ Leave(p)
  /\ tries' = [tries EXCEPT ![job[p]] = @ + 1]
  /\ jobs' = [jobs EXCEPT ![job[p]] = IF tries'[job[p]] < MaxTries THEN "queued" ELSE "finished"]
  /\ since' = [since EXCEPT ![job[p]] = IF tries'[job[p]] < LongTries THEN 0 ELSE sentAt]

Fault == faults < MaxFaults /\ faults' = faults + 1 /\ UNCHANGED <<request, crashes>>
-----------------------------------------------------------------------------
Init ==
  /\ status = "absent" /\ claimToken = 0 /\ attempts = 0
  /\ leaseOver = FALSE /\ sentAt = 0 /\ sentLate = FALSE /\ refundId = 0
  /\ request = [c \in Claims |-> "none"]
  /\ pc = [p \in Workers |-> "idle"]
  /\ token = [p \in Workers |-> 0]
  /\ job = [p \in Workers |-> 0]
  /\ jobs = [j \in JobIds |-> "unknown"]
  /\ tries = [j \in JobIds |-> 0]
  /\ since = [j \in JobIds |-> 0]
  /\ faults = 0 /\ crashes = 0
-----------------------------------------------------------------------------
(* BullMQ hands a waiting job to a free worker slot.  A long delay outlasts*)
(* the verify window of what had been sent when it began.                  *)
Take(p, j) ==
  /\ pc[p] = "idle" /\ jobs[j] = "queued"
  /\ since[j] # 0 /\ since[j] = sentAt => sentLate
  /\ jobs' = [jobs EXCEPT ![j] = "running"]
  /\ job' = [job EXCEPT ![p] = j]
  /\ pc' = [pc EXCEPT ![p] = "claim"]
  /\ UNCHANGED <<token, tries, since>>
  /\ NoWrite /\ Quiet

(* The reads before the claim fail, or the return is not ready: not (yet)  *)
(* completed, its invoice without an order, the order not (yet) mapped.    *)
(* What was ready for an earlier claim is taken to stay ready.             *)
ReadsFail(p) ==
  /\ pc[p] = "claim"
  /\ Retry(p) \/ (attempts = 0 /\ End(p))
  /\ NoWrite /\ Fault

(* The claim transaction holds the advisory lock and the row lock.         *)
Settled == refundId # 0 \/ status \in {"financial_refunded", "needs_review"}

BugBusy == status = "processing" /\ ~leaseOver  \* a live `sending` claim is taken over

Busy ==
  /\ \/ status = "processing"
     \/ status = "sending" /\ claimToken # 0
  /\ ~leaseOver

ClaimSettled(p) ==
  /\ pc[p] = "claim"
  /\ Settled
  /\ End(p)
  /\ NoWrite /\ Quiet

ClaimBusy(p) ==
  /\ pc[p] = "claim"
  /\ ~Settled /\ Busy
  /\ Retry(p)
  /\ NoWrite /\ Quiet

BugClaim(p) ==  \* an old `sending` row starts over
  /\ pc[p] = "claim"
  /\ ~Settled /\ ~Busy
  /\ attempts < MaxClaims
  /\ attempts' = attempts + 1 /\ claimToken' = attempts' /\ leaseOver' = FALSE
  /\ status' = "processing"
  /\ UNCHANGED <<sendTime, refundId>>
  /\ pc' = [pc EXCEPT ![p] = "check"]
  /\ token' = [token EXCEPT ![p] = attempts']
  /\ UNCHANGED jobVars
  /\ Quiet

BugClaimToken(p) ==  \* the run keeps an older token than the row
  /\ pc[p] = "claim"
  /\ ~Settled /\ ~Busy
  /\ attempts < MaxClaims
  /\ attempts' = attempts + 1 /\ claimToken' = attempts' /\ leaseOver' = FALSE
  /\ status' = IF status = "sending" THEN "sending" ELSE "processing"
  /\ UNCHANGED <<sendTime, refundId>>
  /\ pc' = [pc EXCEPT ![p] = IF status = "sending" THEN "reconcile" ELSE "check"]
  /\ token' = [token EXCEPT ![p] = attempts]
  /\ UNCHANGED jobVars
  /\ Quiet

Claim(p) ==
  /\ pc[p] = "claim"
  /\ ~Settled /\ ~Busy
  /\ attempts < MaxClaims
  /\ attempts' = attempts + 1 /\ claimToken' = attempts' /\ leaseOver' = FALSE
  /\ status' = IF status = "sending" THEN "sending" ELSE "processing"
  /\ UNCHANGED <<sendTime, refundId>>
  /\ pc' = [pc EXCEPT ![p] = IF status = "sending" THEN "reconcile" ELSE "check"]
  /\ token' = [token EXCEPT ![p] = attempts']
  /\ UNCHANGED jobVars
  /\ Quiet
-----------------------------------------------------------------------------
(* setState and its siblings: one UPDATE ... WHERE claim_token=$token.     *)
SetState(p, s, refund) ==
  IF Holds(p)
    THEN /\ status' = s /\ claimToken' = 0 /\ leaseOver' = FALSE
         /\ refundId' = IF refund # 0 THEN refund ELSE refundId
         /\ UNCHANGED <<attempts, sendTime>>
    ELSE NoWrite

LetGo(p) ==
  IF Holds(p)
    THEN claimToken' = 0 /\ leaseOver' = FALSE /\ UNCHANGED <<status, attempts, sendTime, refundId>>
    ELSE NoWrite

(* The catch block of syncKiotVietReturn.                                  *)
Release(p) == IF status = "processing" THEN SetState(p, "failed", 0) ELSE LetGo(p)

(* processClaimedReturn: what Shopify's refunds say about this return.     *)
Ours == {c \in Claims : request[c] = "made"}

CheckFindsOne(p) ==
  /\ pc[p] \in {"check", "reconcile"}
  /\ \E c \in Ours : Ours = {c}
  /\ Step(p, "link")
  /\ NoWrite /\ Quiet

(* Several refunds of ours, or none and one that may cover the return.     *)
CheckNeedsPerson(p) ==
  /\ pc[p] \in {"check", "reconcile"}
  /\ \/ Ours # {} /\ \A c \in Ours : Ours # {c}
     \/ Ours = {} /\ pc[p] = "check"
  /\ Step(p, "review")
  /\ NoWrite /\ Quiet

CheckFindsNone(p) ==
  /\ pc[p] \in {"check", "reconcile"}
  /\ Ours = {}
  /\ Step(p, IF pc[p] = "check" THEN "validate" ELSE "unseen")
  /\ NoWrite /\ Quiet

(* The refund is linked; an amount that differs from the return's is left  *)
(* to a person.                                                            *)
Link(p) ==
  /\ pc[p] = "link"
  /\ \E c \in Ours, s \in {"financial_refunded", "needs_review"} : SetState(p, s, c)
  /\ End(p)
  /\ Quiet

Review(p) ==
  /\ pc[p] = "review"
  /\ SetState(p, "needs_review", 0)
  /\ End(p)
  /\ Quiet

(* refundCreate was sent and its refund is not there.  The window is judged*)
(* by the sent_at read at the claim; a row that moved on may have another. *)
SoonAfter(p, soon) == Holds(p) => (soon <=> ~sentLate)

UnseenEarly(p) ==
  /\ pc[p] = "unseen" /\ SoonAfter(p, TRUE)
  /\ LetGo(p)
  /\ Retry(p)
  /\ Quiet

BugUnseenLate(p) ==  \* what is not there after the window was not made
  /\ pc[p] = "unseen" /\ SoonAfter(p, FALSE)
  /\ SetState(p, "failed", 0)
  /\ End(p)
  /\ Quiet

BugUnseenWaits(p) ==  \* waits on when the window has closed
  /\ pc[p] = "unseen" /\ SoonAfter(p, FALSE)
  /\ LetGo(p)
  /\ Retry(p)
  /\ Quiet

UnseenLate(p) ==
  /\ pc[p] = "unseen" /\ SoonAfter(p, FALSE)
  /\ SetState(p, "needs_review", 0)
  /\ End(p)
  /\ Quiet

(* Amount, lines and refundable payment.  Invalid data goes to a person or *)
(* fails the job for good; a failed read is retried.                       *)
ValidatePasses(p) ==
  /\ pc[p] = "validate"
  /\ Step(p, "mark")
  /\ NoWrite /\ Quiet

ValidateReviews(p) ==
  /\ pc[p] = "validate"
  /\ SetState(p, "needs_review", 0)
  /\ End(p)
  /\ Quiet

ValidateRejects(p) ==
  /\ pc[p] = "validate"
  /\ Release(p)
  /\ End(p)
  /\ Quiet

(* A read or a write before the request fails.                             *)
StepFails(p) ==
  /\ pc[p] \in ClaimedPcs \ {"send", "await", "record"}
  /\ Release(p)
  /\ Retry(p)
  /\ Fault

BugMark(p) ==  \* the request leaves under whatever claim there is
  /\ pc[p] = "mark"
  /\ status' = "sending" /\ sentAt' = token[p] /\ sentLate' = FALSE
  /\ UNCHANGED <<claimToken, attempts, leaseOver, refundId>>
  /\ Step(p, "send")
  /\ Quiet

Mark(p) ==
  /\ pc[p] = "mark"
  /\ Holds(p) /\ status = "processing"
  /\ status' = "sending" /\ sentAt' = token[p] /\ sentLate' = FALSE
  /\ UNCHANGED <<claimToken, attempts, leaseOver, refundId>>
  /\ Step(p, "send")
  /\ Quiet

MarkLost(p) ==
  /\ pc[p] = "mark"
  /\ ~(Holds(p) /\ status = "processing")
  /\ End(p)
  /\ NoWrite /\ Quiet
-----------------------------------------------------------------------------
Send(p) ==
  /\ pc[p] = "send"
  /\ request' = [request EXCEPT ![token[p]] = "sent"]
  /\ Step(p, "await")
  /\ NoWrite
  /\ UNCHANGED <<faults, crashes>>

BugReplyMade(p) ==  \* any answer counts as a refund
  /\ pc[p] = "await" /\ request[token[p]] \in {"made", "refused"}
  /\ Step(p, "record")
  /\ NoWrite /\ Quiet

ReplyMade(p) ==
  /\ pc[p] = "await" /\ request[token[p]] = "made"
  /\ Step(p, "record")
  /\ NoWrite /\ Quiet

(* userErrors end the job; 401, 403, 429 and other 4xx are tried again.    *)
ReplyRejected(p) ==
  /\ pc[p] = "await" /\ request[token[p]] = "refused"
  /\ SetState(p, "failed", 0)
  /\ End(p) \/ Retry(p)
  /\ Quiet

BugReplyUncertain(p) ==  \* an unknown outcome is taken for a failure
  /\ pc[p] = "await"
  /\ SetState(p, "failed", 0)
  /\ Retry(p)
  /\ Quiet

(* Timeout, network failure, 5xx, unreadable or empty answer.              *)
ReplyUncertain(p) ==
  /\ pc[p] = "await"
  /\ LetGo(p)
  /\ Retry(p)
  /\ Quiet

BugRecord(p) ==  \* does not look at its claim
  /\ pc[p] = "record"
  /\ status' = "financial_refunded" /\ claimToken' = 0 /\ leaseOver' = FALSE /\ refundId' = token[p]
  /\ UNCHANGED <<attempts, sendTime>>
  /\ End(p)
  /\ Quiet

Record(p) ==
  /\ pc[p] = "record"
  /\ SetState(p, "financial_refunded", token[p])
  /\ End(p)
  /\ Quiet

(* The write of the refund id fails: the catch block lets the claim go.    *)
RecordFails(p) ==
  /\ pc[p] = "record"
  /\ Release(p)
  /\ Retry(p)
  /\ Fault

(* The worker process dies; BullMQ hands its job out again.                *)
Crash(p) ==
  /\ pc[p] # "idle"
  /\ crashes < MaxCrashes
  /\ crashes' = crashes + 1
  /\ Leave(p)
  /\ jobs' = [jobs EXCEPT ![job[p]] = "queued"]
  /\ UNCHANGED <<tries, since, request, faults>>
  /\ NoWrite

Run(p) ==
  \/ ReadsFail(p) \/ ClaimSettled(p) \/ ClaimBusy(p) \/ Claim(p)
  \/ CheckFindsOne(p) \/ CheckNeedsPerson(p) \/ CheckFindsNone(p)
  \/ Link(p) \/ Review(p) \/ UnseenEarly(p) \/ UnseenLate(p)
  \/ ValidatePasses(p) \/ ValidateReviews(p) \/ ValidateRejects(p) \/ StepFails(p)
  \/ Mark(p) \/ MarkLost(p) \/ Send(p)
  \/ ReplyMade(p) \/ ReplyRejected(p) \/ ReplyUncertain(p) \/ Record(p) \/ RecordFails(p)
-----------------------------------------------------------------------------
(* reconcileKiotVietReturns, every minute.  Adding a job under the id of a *)
(* job the queue still keeps (finished ones included) adds nothing.        *)
Enqueue(j) ==
  /\ jobs[j] = "unknown"
  /\ jobs' = [jobs EXCEPT ![j] = "queued"]
  /\ UNCHANGED <<job, tries, since, pc, token>>
  /\ NoWrite /\ Quiet

BugStuck ==  \* waits for a claim nobody gives back
  /\ refundId = 0 /\ attempts < AttemptCap
  /\ \/ status = "processing" /\ leaseOver
     \/ status = "sending" /\ claimToken = 0

Stuck ==
  /\ refundId = 0 /\ attempts < AttemptCap
  /\ \/ status = "processing" /\ leaseOver
     \/ status = "sending" /\ (claimToken = 0 \/ leaseOver)

QueueNew == status = "absent" /\ Enqueue(0)
QueueStuck == Stuck /\ Enqueue(attempts)

(* Shopify settles a request, however late.                                *)
Shopify ==
  \E c \in Claims, answer \in {"made", "refused", "lost"} :
    /\ request[c] = "sent"
    /\ request' = [request EXCEPT ![c] = answer]
    /\ NoWrite
    /\ UNCHANGED <<pc, token, jobVars, faults, crashes>>

(* Time.  Unless Stalls, a run ends within the lease of its claim.         *)
LeaseRunsOut ==
  /\ claimToken # 0 /\ ~leaseOver
  /\ Stalls \/ ~Held
  /\ leaseOver' = TRUE
  /\ UNCHANGED <<status, claimToken, attempts, sendTime, refundId>>
  /\ UNCHANGED <<pc, token, jobVars>> /\ Quiet

SendWindowCloses ==
  /\ status = "sending" /\ ~sentLate
  /\ sentLate' = TRUE
  /\ UNCHANGED <<status, claimToken, attempts, leaseOver, sentAt, refundId>>
  /\ UNCHANGED <<pc, token, jobVars>> /\ Quiet

Next ==
  \/ \E p \in Workers : Run(p) \/ Crash(p) \/ \E j \in JobIds : Take(p, j)
  \/ QueueNew \/ QueueStuck
  \/ Shopify \/ LeaseRunsOut \/ SendWindowCloses

Spec == Init /\ [][Next]_vars

(* Workers run queued jobs, the scheduler runs every minute, time passes.  *)
FairSpec ==
  /\ Spec
  /\ \A p \in Workers : WF_vars(Run(p)) /\ WF_vars(\E j \in JobIds : Take(p, j))
  /\ WF_vars(QueueNew) /\ WF_vars(QueueStuck)
  /\ WF_vars(LeaseRunsOut) /\ WF_vars(SendWindowCloses)
-----------------------------------------------------------------------------
(* Types: the row, the runs with their jobs, the rest.                     *)
RowOK ==
  /\ status \in Statuses
  /\ claimToken \in 0 .. MaxClaims
  /\ attempts \in 0 .. MaxClaims
  /\ leaseOver \in BOOLEAN
  /\ sentAt \in 0 .. MaxClaims
  /\ sentLate \in BOOLEAN
  /\ refundId \in 0 .. MaxClaims

RunsOK ==
  /\ pc \in [Workers -> RunPcs]
  /\ token \in [Workers -> 0 .. MaxClaims]
  /\ job \in [Workers -> JobIds]
  /\ jobs \in [JobIds -> JobStates]
  /\ tries \in [JobIds -> Nat]
  /\ since \in [JobIds -> 0 .. MaxClaims]
  /\ \A p \in Workers : pc[p] \in ClaimedPcs => token[p] \in Claims

RestOK ==
  /\ request \in [Claims -> RequestStates]
  /\ faults \in 0 .. MaxFaults
  /\ crashes \in 0 .. MaxCrashes

TypeOK == RowOK /\ RunsOK /\ RestOK

(* Refund requests that moved money, or may still.                         *)
Live == {c \in Claims : request[c] \in {"sent", "made"}}

(***************************************************************************)
(* A `sending` return is "never sent again": of all refundCreate requests  *)
(* for a return at most one has or may still have an effect, whatever runs *)
(* overlap, stall or crash and without counting on Shopify's own           *)
(* idempotency key.                                                        *)
(***************************************************************************)
RefundedOnce == \A c, d \in Live : c = d

(***************************************************************************)
(* `processing` means nothing was sent and `failed` that definitely no     *)
(* refund was made: money that moved, or may, never hides behind a row that*)
(* a later run is allowed to refund again.                                 *)
(***************************************************************************)
MoneyIsAccounted ==
  Live # {} => status \in {"sending", "financial_refunded", "needs_review"}

(***************************************************************************)
(* A recorded refund id belongs to a refund Shopify made for this return,  *)
(* and a return counts as refunded only with one.                          *)
(***************************************************************************)
RefundIsReal ==
  /\ refundId # 0 => request[refundId] = "made"
  /\ status = "financial_refunded" => refundId # 0
  /\ refundId # 0 => status \in {"financial_refunded", "needs_review"}

(***************************************************************************)
(* The inductive strengthening of the three properties above.              *)
(***************************************************************************)
(* No two runs share a claim, and every claim is older than attempt_count. *)
ClaimsAreDistinct ==
  /\ \A p, q \in Workers :
       (pc[p] \in ClaimedPcs /\ pc[q] \in ClaimedPcs /\ token[p] = token[q]) => p = q
  /\ \A p \in Workers : pc[p] \in ClaimedPcs => token[p] <= attempts
  /\ claimToken <= attempts
  /\ \A c \in Claims : c > attempts => request[c] = "none"

(* Where a claim's own request stands while its run is under way.          *)
RequestsFollowRuns ==
  \A p \in Workers :
    /\ pc[p] \in ClaimedPcs \ {"await", "record"} => request[token[p]] = "none"
    /\ pc[p] = "record" => request[token[p]] = "made"

(* A request about to leave is the only one, and its row says `sending` or *)
(* was given to a person.                                                  *)
SendIsSafe ==
  \A p \in Workers : pc[p] = "send" =>
    /\ Live = {} /\ refundId = 0
    /\ status \in {"sending", "needs_review"}
    /\ Holds(p) => status = "sending"
    /\ \A q \in Workers : pc[q] = "send" => p = q
    /\ \A q \in Workers : pc[q] \in {"await", "record"} => ~Holds(q)

(* While a row carries the token of a run that waits for its answer, no    *)
(* other request has an effect.                                            *)
AwaitIsAlone ==
  \A p \in Workers : pc[p] \in {"await", "record"} /\ Holds(p) => Live \subseteq {token[p]}

(* A `processing` row has a claim whose lease will run out, and runs that  *)
(* believe the row is `processing` (or `sending`) are right as long as it  *)
(* carries their token.                                                    *)
BeliefsHold ==
  /\ status = "processing" => claimToken \in Claims
  /\ \A p \in Workers :
       /\ pc[p] \in {"check", "validate", "mark"} /\ Holds(p) => status = "processing"
       /\ pc[p] \in {"reconcile", "unseen", "send", "await", "record"} /\ Holds(p) => status = "sending"
       /\ pc[p] = "link" => Ours # {}
       /\ pc[p] \in {"link", "review"} /\ Holds(p) => status \in {"processing", "sending"}

RefundInv ==
  /\ TypeOK /\ RefundedOnce /\ MoneyIsAccounted /\ RefundIsReal
  /\ ClaimsAreDistinct /\ RequestsFollowRuns /\ SendIsSafe /\ AwaitIsAlone /\ BeliefsHold

(***************************************************************************)
(* What is settled stays settled: no run, however late its answer, changes *)
(* a recorded refund or takes a return back from a person.                 *)
(***************************************************************************)
SettledStays == [][Settled => status' = status /\ refundId' = refundId]_rowVars

(***************************************************************************)
(* `needs_review`: "no automatic money movement".  No request leaves after *)
(* the return was given to a person.                                       *)
(***************************************************************************)
NoMoneyAfterReview ==
  [][status = "needs_review" => \A c \in Claims : request[c] = "none" => request'[c] = "none"]_request

(***************************************************************************)
(* The refund protocol implements the at-most-once promise.                *)
(***************************************************************************)
Outcome == [c \in Claims |-> CASE request[c] = "none" -> "none"
                              [] request[c] = "sent" -> "open"
                              [] request[c] = "made" -> "exists"
                              [] OTHER -> "dead"]

Once == INSTANCE AtMostOnce WITH Requests <- Claims, ByHand <- {}, NoResult <- 0,
                                 outcome <- Outcome, waived <- {}, link <- refundId

ImplementsAtMostOnce == Once!Spec

(***************************************************************************)
(* An unknown outcome does not stay unknown when no worker dies: a row that*)
(* is `sending` while the scheduler still has attempts for it ends as a    *)
(* recorded refund, as a definite failure or in front of a person, also    *)
(* when the attempts are used up before the verify window closes.          *)
(***************************************************************************)
UnknownIsResolved ==
  status = "sending" /\ attempts < AttemptCap /\ crashes = 0 ~> status # "sending" \/ crashes > 0

(***************************************************************************)
(* Nor is it dropped when a worker dies with the request or the            *)
(* reconciliation in hand: it is pursued until it is resolved or the       *)
(* attempts are used up.                                                   *)
(***************************************************************************)
UnknownIsPursued == status = "sending" ~> (status # "sending" \/ attempts >= AttemptCap)
=============================================================================

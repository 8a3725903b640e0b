------------------------- MODULE ReturnRefundProofs -------------------------
(***************************************************************************)
(* Theorems about ReturnRefund for any runs, claims, attempts and faults.  *)
(***************************************************************************)
EXTENDS ReturnRefund, TLAPS

LEMMA Zero == 0 \in 0 .. MaxClaims /\ Claims \subseteq 0 .. MaxClaims
BY BoundsAssumption DEF Claims

LEMMA InitType == Init => TypeOK
<1> SUFFICES ASSUME Init PROVE TypeOK OBVIOUS
<1>1. RowOK BY Zero DEF Init, RowOK, Statuses
<1>2. RunsOK BY BoundsAssumption DEF Init, RunsOK, RunPcs, ClaimedPcs, JobIds, JobStates
<1>3. RestOK BY BoundsAssumption DEF Init, RestOK, RequestStates
<1> QED BY <1>1, <1>2, <1>3 DEF TypeOK

(* The end of a run keeps the types, whatever became of its job.           *)
LEMMA LeaveType ==
  ASSUME RowOK, RunsOK, NEW p \in Workers, End(p) \/ Retry(p)
  PROVE  RunsOK'
<1>1. Leave(p) BY DEF End, Retry
<1>2. /\ pc' \in [Workers -> RunPcs] /\ token' \in [Workers -> 0 .. MaxClaims] /\ job' = job
      /\ \A q \in Workers : pc'[q] \in ClaimedPcs => token'[q] \in Claims
  BY <1>1, BoundsAssumption DEF Leave, RunsOK, RunPcs, ClaimedPcs
<1>3. job[p] \in JobIds BY DEF RunsOK
<1>4. CASE End(p)
  BY <1>2, <1>3, <1>4 DEF End, RunsOK, JobStates
<1>5. CASE Retry(p)
  <2>1. tries' \in [JobIds -> Nat] BY <1>3, <1>5 DEF Retry, RunsOK
  <2>2. PICK s \in {"queued", "finished"} : jobs' = [jobs EXCEPT ![job[p]] = s]
    BY <1>5 DEF Retry
  <2>3. jobs' \in [JobIds -> JobStates] BY <1>3, <2>2 DEF RunsOK, JobStates
  <2>4. since' \in [JobIds -> 0 .. MaxClaims] BY <1>3, <1>5, Zero DEF Retry, RowOK, RunsOK
  <2> QED BY <1>2, <2>1, <2>3, <2>4 DEF RunsOK
<1> QED BY <1>4, <1>5

(* So do the fenced writes of the row.                                     *)
LEMMA WriteType ==
  ASSUME RowOK, NEW p \in Workers,
         \/ LetGo(p)
         \/ Release(p)
         \/ \E s \in Statuses, c \in 0 .. MaxClaims : SetState(p, s, c)
  PROVE  RowOK'
<1>1. CASE UNCHANGED rowVars BY <1>1 DEF RowOK, rowVars, sendTime
<1>2. CASE \E s \in Statuses, c \in 0 .. MaxClaims : SetState(p, s, c)
  BY <1>1, <1>2, Zero DEF SetState, NoWrite, rowVars, sendTime, RowOK
<1>3. CASE LetGo(p)
  BY <1>1, <1>3, Zero DEF LetGo, NoWrite, rowVars, sendTime, RowOK
<1>4. "failed" \in Statuses /\ 0 \in 0 .. MaxClaims BY Zero DEF Statuses
<1> QED BY <1>2, <1>3, <1>4 DEF Release

LEMMA TakeType ==
  ASSUME TypeOK, NEW p \in Workers, NEW j \in JobIds, Take(p, j)
  PROVE  TypeOK'
BY DEF TypeOK, RowOK, RunsOK, RestOK, Take, JobIds, JobStates, RunPcs, ClaimedPcs, NoWrite, Quiet, rowVars, sendTime

LEMMA RunType ==
  ASSUME TypeOK, NEW p \in Workers, Run(p) \/ Crash(p)
  PROVE  TypeOK'
<1> USE DEF TypeOK
<1>1. RowOK /\ RunsOK /\ RestOK OBVIOUS
<1>2. NoWrite => RowOK' BY <1>1 DEF NoWrite, rowVars, sendTime, RowOK
<1>3. Quiet \/ Fault => RestOK' BY <1>1, BoundsAssumption DEF Quiet, Fault, RestOK
<1>4. ASSUME NEW l \in RunPcs, Step(p, l), l \in ClaimedPcs => token[p] \in Claims
      PROVE  RunsOK'
  BY <1>1, <1>4 DEF Step, jobVars, RunsOK
<1>5. pc[p] \in ClaimedPcs => token[p] \in Claims BY <1>1 DEF RunsOK
<1>6. {"financial_refunded", "needs_review", "failed"} \subseteq Statuses /\ 0 \in 0 .. MaxClaims
      /\ Claims \subseteq 0 .. MaxClaims
  BY Zero DEF Statuses
<1>7. CASE ReadsFail(p) BY <1>7, <1>1, <1>2, <1>3, LeaveType DEF ReadsFail
<1>8. CASE ClaimSettled(p) BY <1>8, <1>1, <1>2, <1>3, LeaveType DEF ClaimSettled
<1>9. CASE ClaimBusy(p) BY <1>9, <1>1, <1>2, <1>3, LeaveType DEF ClaimBusy
<1>10. CASE Claim(p)
  <2>0. attempts' \in Claims /\ claimToken' = attempts'
    BY <1>10, <1>1, BoundsAssumption DEF Claim, RowOK, Claims
  <2>1. RowOK' BY <1>10, <1>1, <2>0, Zero DEF Claim, RowOK, Statuses, sendTime
  <2>2. RunsOK' BY <1>10, <1>1, BoundsAssumption DEF Claim, RowOK, RunsOK, RunPcs, ClaimedPcs, Claims, jobVars
  <2> QED BY <1>10, <1>3, <2>1, <2>2 DEF Claim
<1>11. CASE CheckFindsOne(p) BY <1>11, <1>2, <1>3, <1>4, <1>5 DEF CheckFindsOne, RunPcs, ClaimedPcs
<1>12. CASE CheckNeedsPerson(p) BY <1>12, <1>2, <1>3, <1>4, <1>5 DEF CheckNeedsPerson, RunPcs, ClaimedPcs
<1>13. CASE CheckFindsNone(p) BY <1>13, <1>2, <1>3, <1>4, <1>5 DEF CheckFindsNone, RunPcs, ClaimedPcs
<1>14. CASE Link(p) BY <1>14, <1>1, <1>3, <1>5, <1>6, LeaveType, WriteType DEF Link, Ours, ClaimedPcs
<1>15. CASE Review(p) BY <1>15, <1>1, <1>3, <1>5, <1>6, LeaveType, WriteType DEF Review, Ours, ClaimedPcs
<1>16. CASE UnseenEarly(p) BY <1>16, <1>1, <1>3, <1>5, <1>6, LeaveType, WriteType DEF UnseenEarly, Ours, ClaimedPcs
<1>17. CASE UnseenLate(p) BY <1>17, <1>1, <1>3, <1>5, <1>6, LeaveType, WriteType DEF UnseenLate, Ours, ClaimedPcs
<1>18. CASE ValidatePasses(p) BY <1>18, <1>2, <1>3, <1>4, <1>5 DEF ValidatePasses, RunPcs, ClaimedPcs
<1>19. CASE ValidateReviews(p) BY <1>19, <1>1, <1>3, <1>5, <1>6, LeaveType, WriteType DEF ValidateReviews, Ours, ClaimedPcs
<1>20. CASE ValidateRejects(p) BY <1>20, <1>1, <1>3, <1>5, <1>6, LeaveType, WriteType DEF ValidateRejects, Ours, ClaimedPcs
<1>21. CASE StepFails(p) BY <1>21, <1>1, <1>3, <1>5, <1>6, LeaveType, WriteType DEF StepFails, Ours, ClaimedPcs
<1>22. CASE Mark(p)
  <2>0. token[p] \in 0 .. MaxClaims BY <1>1 DEF RunsOK
  <2>1. RowOK' BY <1>22, <1>1, <2>0 DEF Mark, RowOK, Statuses
  <2>2. RunsOK' BY <1>22, <1>4, <1>5 DEF Mark, RunPcs, ClaimedPcs
  <2> QED BY <1>22, <1>3, <2>1, <2>2 DEF Mark
<1>23. CASE MarkLost(p) BY <1>23, <1>1, <1>2, <1>3, LeaveType DEF MarkLost
<1>24. CASE Send(p)
  <2>1. RestOK' BY <1>24, <1>1 DEF Send, RestOK, RequestStates
  <2>2. RunsOK' BY <1>24, <1>4, <1>5 DEF Send, RunPcs, ClaimedPcs
  <2> QED BY <1>24, <1>2, <2>1, <2>2 DEF Send
<1>25. CASE ReplyMade(p) BY <1>25, <1>2, <1>3, <1>4, <1>5 DEF ReplyMade, RunPcs, ClaimedPcs
<1>26. CASE ReplyRejected(p) BY <1>26, <1>1, <1>3, <1>5, <1>6, LeaveType, WriteType DEF ReplyRejected, Ours, ClaimedPcs
<1>27. CASE ReplyUncertain(p) BY <1>27, <1>1, <1>3, <1>5, <1>6, LeaveType, WriteType DEF ReplyUncertain, Ours, ClaimedPcs
<1>28. CASE Record(p)
  <2>1. token[p] \in 0 .. MaxClaims BY <1>1 DEF RunsOK
  <2> QED BY <1>28, <1>1, <1>3, <1>6, <2>1, LeaveType, WriteType DEF Record
<1>29. CASE RecordFails(p) BY <1>29, <1>1, <1>3, <1>5, <1>6, LeaveType, WriteType DEF RecordFails, Ours, ClaimedPcs
<1>30. CASE Crash(p)
  <2>1. RunsOK'
    BY <1>30, <1>1, BoundsAssumption DEF Crash, Leave, RunsOK, RunPcs, ClaimedPcs, JobStates
  <2>2. RestOK' BY <1>30, <1>1, BoundsAssumption DEF Crash, RestOK
  <2> QED BY <1>30, <1>2, <2>1, <2>2 DEF Crash
<1> QED
  BY <1>7, <1>8, <1>9, <1>10, <1>11, <1>12, <1>13, <1>14, <1>15, <1>16, <1>17, <1>18, <1>19, <1>20, <1>21, <1>22, <1>23, <1>24, <1>25, <1>26, <1>27, <1>28, <1>29, <1>30 DEF Run

LEMMA EnvironmentType ==
  ASSUME TypeOK, QueueNew \/ QueueStuck \/ Shopify \/ LeaseRunsOut \/ SendWindowCloses
  PROVE  TypeOK'
<1> USE BoundsAssumption
    DEF TypeOK, RowOK, RunsOK, RestOK, Claims, JobIds, Statuses, RequestStates, ClaimedPcs, JobStates, NoWrite, Quiet, rowVars, sendTime, jobVars
<1>1. CASE QueueNew BY <1>1 DEF QueueNew, Enqueue
<1>2. CASE QueueStuck BY <1>2 DEF QueueStuck, Enqueue
<1>3. CASE Shopify BY <1>3 DEF Shopify
<1>4. CASE LeaseRunsOut BY <1>4 DEF LeaseRunsOut
<1>5. CASE SendWindowCloses BY <1>5 DEF SendWindowCloses
<1> QED BY <1>1, <1>2, <1>3, <1>4, <1>5

(***************************************************************************)
(* Type correctness of the refund row, the runs and the queue jobs.        *)
(***************************************************************************)
THEOREM TypeCorrect == Spec => []TypeOK
<1>1. TypeOK /\ [Next]_vars => TypeOK'
  <2> SUFFICES ASSUME TypeOK, [Next]_vars PROVE TypeOK' OBVIOUS
  <2>1. CASE UNCHANGED vars BY <2>1 DEF TypeOK, RowOK, RunsOK, RestOK, vars, rowVars, sendTime, jobVars
  <2>2. CASE Next BY <2>2, RunType, TakeType, EnvironmentType DEF Next
  <2> QED BY <2>1, <2>2
<1> QED BY InitType, <1>1, PTL DEF Spec

-----------------------------------------------------------------------------
(* What a run's write can do to the row: nothing, let an unsettled claim   *)
(* go, hand the return to a person, call it failed when nothing was made   *)
(* and nothing is on its way, or record a refund that was made.            *)
FencedWrite(p) ==
  \/ UNCHANGED <<status, claimToken, attempts, refundId>>
  \/ /\ Holds(p) /\ claimToken' = 0 /\ attempts' = attempts
     /\ \/ status' = status /\ status # "processing" /\ refundId' = refundId
        \/ status' = "needs_review" /\ refundId' = refundId
        \/ /\ status' = "failed" /\ refundId' = refundId /\ refundId = 0 /\ Live = {}
           /\ \A q \in Workers : pc[q] # "send"
        \/ status' \in {"financial_refunded", "needs_review"} /\ refundId' \in Ours

(* A claim that is held is neither settled nor absent.                     *)
LEMMA HeldIsOpen ==
  ASSUME RefundInv, NEW p \in Workers, pc[p] \in ClaimedPcs, Holds(p)
  PROVE  status \in {"processing", "sending"} /\ refundId = 0
<1>1. status \in {"processing", "sending"} BY DEF RefundInv, BeliefsHold, ClaimedPcs, RunPcs
<1> QED BY <1>1 DEF RefundInv, RefundIsReal

(* A run that ends with a fenced write keeps the invariant.                *)
LEMMA Closing ==
  ASSUME RefundInv, TypeOK', NEW p \in Workers, pc[p] # "idle",
         Leave(p), request' = request, FencedWrite(p)
  PROVE  RefundInv'
<1>1. /\ pc'[p] = "idle" /\ token'[p] = 0
      /\ \A q \in Workers : q # p => pc'[q] = pc[q] /\ token'[q] = token[q]
  BY DEF Leave, RefundInv, TypeOK, RunsOK
<1>2. pc'[p] \notin ClaimedPcs BY <1>1 DEF ClaimedPcs
<1>3. Live' = Live /\ Ours' = Ours /\ Ours \subseteq Live BY DEF Live, Ours
<1>4. \A q \in Workers : pc[q] \in ClaimedPcs => token[q] # 0
  BY DEF RefundInv, TypeOK, RunsOK, Claims
<1>5. \A q \in Workers : pc'[q] \in ClaimedPcs /\ Holds(q)' =>
         Holds(q) /\ UNCHANGED <<status, claimToken, attempts, refundId>>
  BY <1>1, <1>2, <1>4 DEF Holds, FencedWrite
<1>6. attempts' = attempts /\ claimToken' \in {0, claimToken} BY DEF FencedWrite
<1>7. RefundedOnce' BY <1>3 DEF RefundInv, RefundedOnce
<1>8. MoneyIsAccounted' BY <1>3 DEF RefundInv, MoneyIsAccounted, FencedWrite
<1>9. RefundIsReal'
  <2>1. refundId' \in Ours => refundId' # 0 /\ request[refundId'] = "made" BY DEF Ours, Claims
  <2>2. CASE refundId' \in Ours /\ status' \in {"financial_refunded", "needs_review"}
    BY <2>1, <2>2 DEF RefundIsReal
  <2>3. CASE refundId' = refundId BY <2>3 DEF RefundInv, RefundIsReal, FencedWrite, Ours, Claims
  <2> QED BY <2>2, <2>3 DEF FencedWrite
<1>10. ClaimsAreDistinct'
  BY <1>1, <1>2, <1>6, Zero DEF RefundInv, TypeOK, RowOK, ClaimsAreDistinct
<1>11. RequestsFollowRuns' BY <1>1, <1>2 DEF RefundInv, RequestsFollowRuns, ClaimedPcs
<1>12. SendIsSafe'
  <2> SUFFICES ASSUME NEW q \in Workers, pc'[q] = "send"
               PROVE /\ Live' = {} /\ refundId' = 0
                     /\ status' \in {"sending", "needs_review"}
                     /\ Holds(q)' => status' = "sending"
                     /\ \A r \in Workers : pc'[r] = "send" => q = r
                     /\ \A r \in Workers : pc'[r] \in {"await", "record"} => ~Holds(r)'
    BY DEF SendIsSafe
  <2>1. q # p /\ pc[q] = "send" BY <1>1
  <2>2. /\ Live = {} /\ refundId = 0 /\ status \in {"sending", "needs_review"}
        /\ Holds(q) => status = "sending"
        /\ \A r \in Workers : pc[r] = "send" => q = r
        /\ \A r \in Workers : pc[r] \in {"await", "record"} => ~Holds(r)
    BY <2>1 DEF RefundInv, SendIsSafe
  <2>3. refundId' = 0 /\ status' \in {"sending", "needs_review"}
    BY <1>3, <2>1, <2>2 DEF FencedWrite
  <2>4. Holds(q)' => status' = "sending" BY <1>5, <2>2 DEF ClaimedPcs, RunPcs
  <2>5. \A r \in Workers : pc'[r] = "send" => q = r BY <1>1, <2>2
  <2>6. ASSUME NEW r \in Workers, pc'[r] \in {"await", "record"} PROVE ~Holds(r)'
    <3>1. r # p /\ pc[r] = pc'[r] /\ pc'[r] \in ClaimedPcs BY <1>1, <2>6 DEF ClaimedPcs, RunPcs
    <3> QED BY <1>5, <2>2, <2>6, <3>1
  <2> QED BY <1>3, <2>2, <2>3, <2>4, <2>5, <2>6
<1>13. AwaitIsAlone'
  <2> SUFFICES ASSUME NEW q \in Workers, pc'[q] \in {"await", "record"}, Holds(q)'
               PROVE  Live' \subseteq {token'[q]}
    BY DEF AwaitIsAlone
  <2>1. q # p /\ pc[q] = pc'[q] /\ token'[q] = token[q] /\ pc'[q] \in ClaimedPcs
    BY <1>1 DEF ClaimedPcs, RunPcs
  <2>2. Holds(q) BY <1>5, <2>1
  <2> QED BY <1>3, <2>1, <2>2 DEF RefundInv, AwaitIsAlone
<1>14. BeliefsHold'
  <2>1. status' = "processing" => claimToken' \in Claims BY DEF RefundInv, BeliefsHold, FencedWrite
  <2>2. ASSUME NEW q \in Workers, q # p
        PROVE  /\ pc'[q] \in {"check", "validate", "mark"} /\ Holds(q)' => status' = "processing"
               /\ pc'[q] \in {"reconcile", "unseen", "send", "await", "record"} /\ Holds(q)' => status' = "sending"
               /\ pc'[q] = "link" => Ours' # {}
               /\ pc'[q] \in {"link", "review"} /\ Holds(q)' => status' \in {"processing", "sending"}
    BY <1>1, <1>3, <1>5, <2>2 DEF RefundInv, BeliefsHold, ClaimedPcs, RunPcs
  <2> QED BY <1>1, <2>1, <2>2 DEF BeliefsHold
<1> QED BY <1>7, <1>8, <1>9, <1>10, <1>11, <1>12, <1>13, <1>14 DEF RefundInv

(* A run that moves on and writes nothing keeps the invariant when its new *)
(* place rests on what it has seen.                                        *)
LEMMA Moving ==
  ASSUME RefundInv, TypeOK', NEW p \in Workers, NEW l \in ClaimedPcs \ {"send", "await"},
         pc[p] \in ClaimedPcs \ {"send", "record"}, Step(p, l), NoWrite, request' = request,
         l = "record" <=> pc[p] = "await",
         l = "record" => request[token[p]] = "made",
         l = "link" => Ours # {},
         l \in {"check", "validate", "mark"} /\ Holds(p) => status = "processing",
         l \in {"reconcile", "unseen"} /\ Holds(p) => status = "sending"
  PROVE  RefundInv'
<1>1. /\ pc'[p] = l /\ token' = token
      /\ \A q \in Workers : q # p => pc'[q] = pc[q]
  BY DEF Step, RefundInv, TypeOK, RunsOK
<1>2. UNCHANGED <<status, claimToken, attempts, refundId>> BY DEF NoWrite, rowVars
<1>3. Live' = Live /\ Ours' = Ours BY DEF Live, Ours
<1>4. \A q \in Workers : Holds(q)' <=> Holds(q) BY <1>1, <1>2 DEF Holds
<1>5. \A q \in Workers : pc'[q] \in ClaimedPcs => pc[q] \in ClaimedPcs BY <1>1
<1>6. \A q \in Workers : pc'[q] \in {"await", "record"} => pc[q] \in {"await", "record"}
  BY <1>1
<1>7. RefundedOnce' BY <1>3 DEF RefundInv, RefundedOnce
<1>8. MoneyIsAccounted' BY <1>2, <1>3 DEF RefundInv, MoneyIsAccounted
<1>9. RefundIsReal' BY <1>2 DEF RefundInv, RefundIsReal
<1>10. ClaimsAreDistinct' BY <1>1, <1>2, <1>5 DEF RefundInv, ClaimsAreDistinct
<1>11. RequestsFollowRuns' BY <1>1 DEF RefundInv, RequestsFollowRuns, ClaimedPcs
<1>12. SendIsSafe'
  <2>1. \A q \in Workers : pc'[q] = "send" => pc[q] = "send" BY <1>1
  <2> QED BY <1>2, <1>3, <1>4, <1>6, <2>1 DEF RefundInv, SendIsSafe
<1>13. AwaitIsAlone' BY <1>1, <1>3, <1>4, <1>6 DEF RefundInv, AwaitIsAlone
<1>14. BeliefsHold'
  <2>1. ASSUME NEW q \in Workers
        PROVE  /\ pc'[q] \in {"check", "validate", "mark"} /\ Holds(q) => status = "processing"
               /\ pc'[q] \in {"reconcile", "unseen", "send", "await", "record"} /\ Holds(q) => status = "sending"
               /\ pc'[q] = "link" => Ours # {}
               /\ pc'[q] \in {"link", "review"} /\ Holds(q) => status \in {"processing", "sending"}
    <3>1. CASE q = p BY <1>1, <3>1, HeldIsOpen DEF RefundInv, BeliefsHold
    <3>2. CASE q # p BY <1>1, <3>2 DEF RefundInv, BeliefsHold
    <3> QED BY <3>1, <3>2
  <2> QED BY <1>2, <1>3, <1>4, <2>1 DEF RefundInv, BeliefsHold
<1> QED BY <1>7, <1>8, <1>9, <1>10, <1>11, <1>12, <1>13, <1>14 DEF RefundInv

(* Entering a claim: the lock makes it the only one the row carries.       *)
LEMMA ClaimKeeps ==
  ASSUME RefundInv, TypeOK', NEW p \in Workers, Claim(p)
  PROVE  RefundInv'
<1>1. /\ pc[p] = "claim" /\ pc'[p] \in {"check", "reconcile"} /\ token'[p] = attempts + 1
      /\ pc'[p] = "reconcile" <=> status = "sending"
      /\ \A q \in Workers : q # p => pc'[q] = pc[q] /\ token'[q] = token[q]
  BY DEF Claim, RefundInv, TypeOK, RunsOK
<1>2. /\ attempts \in Nat /\ attempts' = attempts + 1 /\ claimToken' = attempts + 1
      /\ attempts + 1 \in Claims /\ refundId' = refundId /\ refundId = 0
      /\ request' = request
      /\ status \in {"absent", "processing", "sending", "failed"}
      /\ status' = IF status = "sending" THEN "sending" ELSE "processing"
  BY BoundsAssumption DEF Claim, Settled, Quiet, RefundInv, TypeOK, RowOK, Statuses, Claims
<1>3. Live' = Live /\ Ours' = Ours BY <1>2 DEF Live, Ours
<1>4. request[attempts + 1] = "none" BY <1>2 DEF RefundInv, ClaimsAreDistinct
<1>5. \A q \in Workers : q # p /\ pc'[q] \in ClaimedPcs => ~Holds(q)' /\ token[q] \in 0 .. attempts
  BY <1>1, <1>2 DEF RefundInv, TypeOK, RowOK, RunsOK, Holds, ClaimsAreDistinct, Claims
<1>6. pc[p] \notin ClaimedPcs BY <1>1 DEF ClaimedPcs
<1>7. RefundedOnce' BY <1>3 DEF RefundInv, RefundedOnce
<1>8. MoneyIsAccounted' BY <1>2, <1>3 DEF RefundInv, MoneyIsAccounted
<1>9. RefundIsReal' BY <1>2 DEF RefundIsReal
<1>10. ClaimsAreDistinct'
  <2>1. ASSUME NEW q \in Workers, NEW r \in Workers,
               pc'[q] \in ClaimedPcs, pc'[r] \in ClaimedPcs, token'[q] = token'[r]
        PROVE  q = r
    BY <1>1, <1>2, <1>5, <2>1 DEF RefundInv, ClaimsAreDistinct
  <2>2. \A q \in Workers : pc'[q] \in ClaimedPcs => token'[q] <= attempts' BY <1>1, <1>2, <1>5
  <2>3. \A c \in Claims : c > attempts' => request'[c] = "none"
    BY <1>2 DEF RefundInv, ClaimsAreDistinct, Claims
  <2> QED BY <1>2, <2>1, <2>2, <2>3 DEF ClaimsAreDistinct
<1>11. RequestsFollowRuns' BY <1>1, <1>2, <1>4 DEF RefundInv, RequestsFollowRuns, ClaimedPcs
<1>12. SendIsSafe'
  <2> SUFFICES ASSUME NEW q \in Workers, pc'[q] = "send"
               PROVE /\ Live' = {} /\ refundId' = 0
                     /\ status' \in {"sending", "needs_review"}
                     /\ Holds(q)' => status' = "sending"
                     /\ \A r \in Workers : pc'[r] = "send" => q = r
                     /\ \A r \in Workers : pc'[r] \in {"await", "record"} => ~Holds(r)'
    BY DEF SendIsSafe
  <2>1. pc[q] = "send" /\ status = "sending" /\ Live = {}
        /\ \A r \in Workers : pc[r] = "send" => q = r
    BY <1>1, <1>2 DEF RefundInv, SendIsSafe
  <2>2. \A r \in Workers : pc'[r] \in {"await", "record"} => ~Holds(r)'
    BY <1>1, <1>5 DEF ClaimedPcs, RunPcs
  <2> QED BY <1>1, <1>2, <1>3, <2>1, <2>2
<1>13. AwaitIsAlone' BY <1>1, <1>5 DEF AwaitIsAlone, ClaimedPcs, RunPcs
<1>14. BeliefsHold'
  <2>1. ASSUME NEW q \in Workers, q # p
        PROVE  /\ pc'[q] \in ClaimedPcs => ~Holds(q)'
               /\ pc'[q] = "link" => Ours' # {}
    BY <1>1, <1>3, <1>5, <2>1 DEF RefundInv, BeliefsHold
  <2> QED BY <1>1, <1>2, <2>1 DEF BeliefsHold, ClaimedPcs, RunPcs
<1> QED BY <1>7, <1>8, <1>9, <1>10, <1>11, <1>12, <1>13, <1>14 DEF RefundInv

(* A row that is still this claim's `processing` is marked `sending`.      *)
LEMMA MarkKeeps ==
  ASSUME RefundInv, TypeOK', NEW p \in Workers, Mark(p)
  PROVE  RefundInv'
<1>1. /\ pc[p] = "mark" /\ pc'[p] = "send" /\ token' = token
      /\ \A q \in Workers : q # p => pc'[q] = pc[q]
  BY DEF Mark, Step, RefundInv, TypeOK, RunsOK
<1>2. /\ Holds(p) /\ status = "processing" /\ status' = "sending"
      /\ UNCHANGED <<claimToken, attempts, refundId, request>>
  BY DEF Mark, Quiet
<1>3. Live' = Live /\ Ours' = Ours BY <1>2 DEF Live, Ours
<1>4. \A q \in Workers : Holds(q)' <=> Holds(q) BY <1>1, <1>2 DEF Holds
<1>5. \A q \in Workers : q # p /\ pc[q] \in ClaimedPcs => ~Holds(q)
  BY <1>1, <1>2 DEF RefundInv, ClaimsAreDistinct, Holds, ClaimedPcs, RunPcs
<1>6. Live = {} /\ refundId = 0 /\ \A q \in Workers : pc[q] # "send"
  BY <1>2 DEF RefundInv, MoneyIsAccounted, RefundIsReal, SendIsSafe
<1>7. RefundedOnce' BY <1>3 DEF RefundInv, RefundedOnce
<1>8. MoneyIsAccounted' BY <1>2 DEF MoneyIsAccounted
<1>9. RefundIsReal' BY <1>2, <1>6 DEF RefundIsReal
<1>10. ClaimsAreDistinct' BY <1>1, <1>2 DEF RefundInv, ClaimsAreDistinct, ClaimedPcs, RunPcs
<1>11. RequestsFollowRuns' BY <1>1, <1>2 DEF RefundInv, RequestsFollowRuns, ClaimedPcs, RunPcs
<1>12. SendIsSafe'
  <2>1. \A q \in Workers : pc'[q] \in {"await", "record"} => ~Holds(q)'
    BY <1>1, <1>4, <1>5 DEF ClaimedPcs, RunPcs
  <2> QED BY <1>1, <1>2, <1>3, <1>6, <2>1 DEF SendIsSafe
<1>13. AwaitIsAlone' BY <1>1, <1>4, <1>5 DEF AwaitIsAlone, ClaimedPcs, RunPcs
<1>14. BeliefsHold'
  <2>1. ASSUME NEW q \in Workers, q # p
        PROVE  /\ pc'[q] \in ClaimedPcs => ~Holds(q)'
               /\ pc'[q] = "link" => Ours' # {}
    BY <1>1, <1>3, <1>4, <1>5, <2>1 DEF RefundInv, BeliefsHold
  <2> QED BY <1>1, <1>2, <2>1 DEF BeliefsHold, ClaimedPcs, RunPcs
<1> QED BY <1>7, <1>8, <1>9, <1>10, <1>11, <1>12, <1>13, <1>14 DEF RefundInv

(* The request leaves: it is the only one that has or may have an effect.  *)
LEMMA SendKeeps ==
  ASSUME RefundInv, TypeOK', NEW p \in Workers, Send(p)
  PROVE  RefundInv'
<1>1. /\ pc[p] = "send" /\ pc'[p] = "await" /\ token' = token
      /\ \A q \in Workers : q # p => pc'[q] = pc[q]
  BY DEF Send, Step, RefundInv, TypeOK, RunsOK
<1>2. UNCHANGED <<status, claimToken, attempts, refundId>> BY DEF Send, NoWrite, rowVars
<1>3. token[p] \in Claims /\ token[p] <= attempts
  BY <1>1 DEF RefundInv, TypeOK, RunsOK, ClaimsAreDistinct, ClaimedPcs, RunPcs
<1>4. request'[token[p]] = "sent" /\ \A c \in Claims : c # token[p] => request'[c] = request[c]
  BY <1>3 DEF Send, RefundInv, TypeOK, RestOK
<1>5. /\ Live = {} /\ refundId = 0 /\ status \in {"sending", "needs_review"}
      /\ \A q \in Workers : pc[q] = "send" => p = q
      /\ \A q \in Workers : pc[q] \in {"await", "record"} => ~Holds(q)
      /\ Holds(p) => status = "sending"
  BY <1>1 DEF RefundInv, SendIsSafe
<1>6. Live' = {token[p]} BY <1>3, <1>4, <1>5 DEF Live
<1>7. request[token[p]] = "none"
  BY <1>1 DEF RefundInv, RequestsFollowRuns, ClaimedPcs, RunPcs
<1>8. Ours' = Ours BY <1>4, <1>7 DEF Ours
<1>9. \A q \in Workers : Holds(q)' <=> Holds(q) BY <1>1, <1>2 DEF Holds
<1>10. \A q \in Workers : q # p /\ pc[q] \in ClaimedPcs => token[q] # token[p]
  BY <1>1 DEF RefundInv, ClaimsAreDistinct, ClaimedPcs, RunPcs
<1>11. RefundedOnce' BY <1>6 DEF RefundedOnce
<1>12. MoneyIsAccounted' BY <1>2, <1>5 DEF MoneyIsAccounted
<1>13. RefundIsReal' BY <1>2, <1>5 DEF RefundInv, RefundIsReal
<1>14. ClaimsAreDistinct'
  BY <1>1, <1>2, <1>3, <1>4, BoundsAssumption
  DEF RefundInv, TypeOK, RowOK, ClaimsAreDistinct, Claims, ClaimedPcs, RunPcs
<1>15. RequestsFollowRuns'
  <2>1. ASSUME NEW q \in Workers, q # p, pc[q] \in ClaimedPcs PROVE request'[token[q]] = request[token[q]]
    BY <1>4, <1>10, <2>1 DEF RefundInv, TypeOK, RunsOK
  <2> QED BY <1>1, <2>1 DEF RefundInv, RequestsFollowRuns, ClaimedPcs, RunPcs
<1>16. SendIsSafe' BY <1>1, <1>5 DEF SendIsSafe
<1>17. AwaitIsAlone' BY <1>1, <1>5, <1>6, <1>9 DEF AwaitIsAlone
<1>18. BeliefsHold' BY <1>1, <1>2, <1>5, <1>8, <1>9 DEF RefundInv, BeliefsHold
<1> QED BY <1>11, <1>12, <1>13, <1>14, <1>15, <1>16, <1>17, <1>18 DEF RefundInv

(* Steps that touch no run, claim, request or refund.                      *)
LEMMA Aside ==
  ASSUME RefundInv, TypeOK',
         UNCHANGED <<status, claimToken, attempts, refundId, request, token>>,
         \/ UNCHANGED pc
         \/ \E p \in Workers : pc' = [pc EXCEPT ![p] = "claim"] /\ pc[p] = "idle"
  PROVE  RefundInv'
<1>1. \A q \in Workers : pc'[q] = pc[q] \/ (pc[q] = "idle" /\ pc'[q] = "claim")
  BY DEF RefundInv, TypeOK, RunsOK
<1>2. Live' = Live /\ Ours' = Ours BY DEF Live, Ours
<1>3. \A q \in Workers : Holds(q)' <=> Holds(q) BY DEF Holds
<1>4. \A q \in Workers : pc'[q] \in ClaimedPcs => pc[q] = pc'[q] BY <1>1 DEF ClaimedPcs
<1>5. RefundedOnce' /\ MoneyIsAccounted' /\ RefundIsReal'
  BY <1>2 DEF RefundInv, RefundedOnce, MoneyIsAccounted, RefundIsReal
<1>6. ClaimsAreDistinct' /\ RequestsFollowRuns'
  BY <1>4 DEF RefundInv, ClaimsAreDistinct, RequestsFollowRuns, ClaimedPcs, RunPcs
<1>7. SendIsSafe' BY <1>1, <1>2, <1>3 DEF RefundInv, SendIsSafe
<1>8. AwaitIsAlone' BY <1>1, <1>2, <1>3 DEF RefundInv, AwaitIsAlone
<1>9. BeliefsHold' BY <1>1, <1>2, <1>3 DEF RefundInv, BeliefsHold
<1> QED BY <1>5, <1>6, <1>7, <1>8, <1>9 DEF RefundInv

(* Shopify's answer only ever reduces what may still move money.           *)
LEMMA ShopifyKeeps ==
  ASSUME RefundInv, TypeOK', Shopify
  PROVE  RefundInv'
<1>1. PICK c \in Claims, a \in {"made", "refused", "lost"} :
        request[c] = "sent" /\ request' = [request EXCEPT ![c] = a]
  BY DEF Shopify
<1>2. UNCHANGED <<status, claimToken, attempts, refundId, pc, token>> BY DEF Shopify, NoWrite, rowVars
<1>3. \A d \in Claims : request'[d] = IF d = c THEN a ELSE request[d]
  BY <1>1 DEF RefundInv, TypeOK, RestOK
<1>4. Live' \subseteq Live /\ Ours \subseteq Ours' BY <1>1, <1>3 DEF Live, Ours
<1>5. \A q \in Workers : Holds(q)' <=> Holds(q) BY <1>2 DEF Holds
<1>6. RefundedOnce' BY <1>4 DEF RefundInv, RefundedOnce
<1>7. MoneyIsAccounted' BY <1>2, <1>4 DEF RefundInv, MoneyIsAccounted
<1>8. RefundIsReal' BY <1>1, <1>2, <1>3 DEF RefundInv, RefundIsReal, TypeOK, RowOK, Claims
<1>9. ClaimsAreDistinct' BY <1>1, <1>2, <1>3 DEF RefundInv, ClaimsAreDistinct
<1>10. RequestsFollowRuns'
  <2>1. ASSUME NEW q \in Workers, pc[q] \in ClaimedPcs, request[token[q]] # "sent"
        PROVE  request'[token[q]] = request[token[q]]
    BY <1>1, <1>3, <2>1 DEF RefundInv, TypeOK, RunsOK
  <2> QED BY <1>2, <2>1 DEF RefundInv, RequestsFollowRuns, ClaimedPcs, RunPcs
<1>11. SendIsSafe' BY <1>2, <1>4, <1>5 DEF RefundInv, SendIsSafe
<1>12. AwaitIsAlone' BY <1>2, <1>4, <1>5 DEF RefundInv, AwaitIsAlone
<1>13. BeliefsHold' BY <1>2, <1>4, <1>5 DEF RefundInv, BeliefsHold
<1> QED BY <1>6, <1>7, <1>8, <1>9, <1>10, <1>11, <1>12, <1>13 DEF RefundInv

(* The writes of a run, in the terms of FencedWrite.                       *)
LEMMA NoWriteIsFenced == ASSUME NEW p \in Workers, NoWrite PROVE FencedWrite(p)
BY DEF NoWrite, rowVars, FencedWrite

LEMMA ReviewIsFenced ==
  ASSUME NEW p \in Workers, SetState(p, "needs_review", 0)
  PROVE  FencedWrite(p)
<1>1. CASE Holds(p) BY <1>1 DEF SetState, FencedWrite
<1>2. CASE ~Holds(p) BY <1>2, NoWriteIsFenced DEF SetState
<1> QED BY <1>1, <1>2

LEMMA LinkIsFenced ==
  ASSUME NEW p \in Workers, NEW c \in Ours, NEW s \in {"financial_refunded", "needs_review"},
         SetState(p, s, c)
  PROVE  FencedWrite(p)
<1>1. c # 0 BY DEF Ours, Claims
<1>2. CASE Holds(p) BY <1>1, <1>2 DEF SetState, FencedWrite
<1>3. CASE ~Holds(p) BY <1>3, NoWriteIsFenced DEF SetState
<1> QED BY <1>2, <1>3

LEMMA LetGoIsFenced ==
  ASSUME NEW p \in Workers, LetGo(p), Holds(p) => status # "processing"
  PROVE  FencedWrite(p)
<1>1. CASE Holds(p) BY <1>1 DEF LetGo, FencedWrite
<1>2. CASE ~Holds(p) BY <1>2, NoWriteIsFenced DEF LetGo
<1> QED BY <1>1, <1>2

LEMMA FailIsFenced ==
  ASSUME NEW p \in Workers, SetState(p, "failed", 0),
         Holds(p) => refundId = 0 /\ Live = {} /\ \A q \in Workers : pc[q] # "send"
  PROVE  FencedWrite(p)
<1>1. CASE Holds(p) BY <1>1 DEF SetState, FencedWrite
<1>2. CASE ~Holds(p) BY <1>2, NoWriteIsFenced DEF SetState
<1> QED BY <1>1, <1>2

LEMMA ReleaseIsFenced ==
  ASSUME RefundInv, NEW p \in Workers, Release(p)
  PROVE  FencedWrite(p)
<1>1. CASE status = "processing"
  <2>1. refundId = 0 /\ Live = {} /\ \A q \in Workers : pc[q] # "send"
    BY <1>1 DEF RefundInv, MoneyIsAccounted, RefundIsReal, SendIsSafe
  <2>2. SetState(p, "failed", 0) BY <1>1 DEF Release
  <2> QED BY <2>1, <2>2, FailIsFenced
<1>2. CASE status # "processing"
  <2>1. LetGo(p) BY <1>2 DEF Release
  <2> QED BY <1>2, <2>1, LetGoIsFenced
<1> QED BY <1>1, <1>2

(* A step that ends a run writes at most what FencedWrite allows.          *)
Ends(p) ==
  \/ ReadsFail(p) \/ ClaimSettled(p) \/ ClaimBusy(p) \/ Link(p) \/ Review(p)
  \/ UnseenEarly(p) \/ UnseenLate(p) \/ ValidateReviews(p) \/ ValidateRejects(p)
  \/ StepFails(p) \/ MarkLost(p) \/ ReplyRejected(p) \/ ReplyUncertain(p)
  \/ Record(p) \/ RecordFails(p) \/ Crash(p)

LEMMA EndsFenced ==
  ASSUME RefundInv, NEW p \in Workers, Ends(p)
  PROVE  pc[p] # "idle" /\ Leave(p) /\ request' = request /\ FencedWrite(p)
<1> USE DEF Quiet, Fault, End, Retry
<1>1. CASE ReadsFail(p) BY <1>1, NoWriteIsFenced DEF ReadsFail
<1>2. CASE ClaimSettled(p) BY <1>2, NoWriteIsFenced DEF ClaimSettled
<1>3. CASE ClaimBusy(p) BY <1>3, NoWriteIsFenced DEF ClaimBusy
<1>4. CASE Link(p) BY <1>4, LinkIsFenced DEF Link
<1>5. CASE Review(p) BY <1>5, ReviewIsFenced DEF Review
<1>6. CASE UnseenEarly(p)
  <2>1. Holds(p) => status # "processing" BY <1>6 DEF UnseenEarly, RefundInv, BeliefsHold
  <2> QED BY <1>6, <2>1, LetGoIsFenced DEF UnseenEarly
<1>7. CASE UnseenLate(p) BY <1>7, ReviewIsFenced DEF UnseenLate
<1>8. CASE ValidateReviews(p) BY <1>8, ReviewIsFenced DEF ValidateReviews
<1>9. CASE ValidateRejects(p) BY <1>9, ReleaseIsFenced DEF ValidateRejects
<1>10. CASE StepFails(p) BY <1>10, ReleaseIsFenced DEF StepFails, ClaimedPcs
<1>11. CASE MarkLost(p) BY <1>11, NoWriteIsFenced DEF MarkLost
<1>12. CASE ReplyRejected(p)
  <2>1. ASSUME Holds(p) PROVE refundId = 0 /\ Live = {} /\ \A q \in Workers : pc[q] # "send"
    <3>1. pc[p] = "await" /\ request[token[p]] = "refused" BY <1>12 DEF ReplyRejected
    <3>2. refundId = 0 BY <2>1, <3>1, HeldIsOpen DEF ClaimedPcs, RunPcs
    <3>3. Live = {} BY <2>1, <3>1 DEF RefundInv, AwaitIsAlone, Live
    <3>4. \A q \in Workers : pc[q] # "send" BY <2>1, <3>1 DEF RefundInv, SendIsSafe
    <3> QED BY <3>2, <3>3, <3>4
  <2>2. pc[p] = "await" /\ SetState(p, "failed", 0) /\ (End(p) \/ Retry(p)) /\ request' = request
    BY <1>12 DEF ReplyRejected
  <2>3. FencedWrite(p) BY <2>1, <2>2, FailIsFenced
  <2> QED BY <2>2, <2>3
<1>13. CASE ReplyUncertain(p)
  <2>1. Holds(p) => status # "processing" BY <1>13 DEF ReplyUncertain, RefundInv, BeliefsHold
  <2> QED BY <1>13, <2>1, LetGoIsFenced DEF ReplyUncertain
<1>14. CASE Record(p)
  <2>1. pc[p] = "record" BY <1>14 DEF Record
  <2>2. token[p] \in Ours
    BY <2>1 DEF RefundInv, RequestsFollowRuns, TypeOK, RunsOK, Ours, ClaimedPcs, RunPcs
  <2> QED BY <1>14, <2>1, <2>2, LinkIsFenced DEF Record
<1>15. CASE RecordFails(p) BY <1>15, ReleaseIsFenced DEF RecordFails
<1>16. CASE Crash(p) BY <1>16, NoWriteIsFenced DEF Crash
<1> QED BY <1>1, <1>2, <1>3, <1>4, <1>5, <1>6, <1>7, <1>8, <1>9, <1>10, <1>11, <1>12, <1>13, <1>14, <1>15, <1>16 DEF Ends

(* The steps by which a run only moves on.                                 *)
Moves(p) ==
  CheckFindsOne(p) \/ CheckNeedsPerson(p) \/ CheckFindsNone(p) \/ ValidatePasses(p) \/ ReplyMade(p)

LEMMA MovesKeep ==
  ASSUME RefundInv, TypeOK', NEW p \in Workers, Moves(p)
  PROVE  RefundInv'
<1>1. PICK l \in {"link", "review", "validate", "unseen", "mark", "record"} :
        /\ Step(p, l) /\ NoWrite /\ request' = request
        /\ pc[p] \in ClaimedPcs \ {"send", "record"}
        /\ l = "record" <=> pc[p] = "await"
        /\ l = "record" => request[token[p]] = "made"
        /\ l = "link" => Ours # {}
        /\ l = "validate" => pc[p] = "check"
        /\ l = "mark" => pc[p] = "validate"
        /\ l = "unseen" => pc[p] = "reconcile"
  <2> USE DEF ClaimedPcs, RunPcs, Quiet
  <2>1. CASE CheckFindsOne(p) BY <2>1 DEF CheckFindsOne
  <2>2. CASE CheckNeedsPerson(p) BY <2>2 DEF CheckNeedsPerson
  <2>3. CASE CheckFindsNone(p) BY <2>3 DEF CheckFindsNone
  <2>4. CASE ValidatePasses(p) BY <2>4 DEF ValidatePasses
  <2>5. CASE ReplyMade(p) BY <2>5 DEF ReplyMade
  <2> QED BY <2>1, <2>2, <2>3, <2>4, <2>5 DEF Moves
<1>2. l \in {"check", "validate", "mark"} /\ Holds(p) => status = "processing"
  BY <1>1 DEF RefundInv, BeliefsHold
<1>3. l \in {"reconcile", "unseen"} /\ Holds(p) => status = "sending"
  BY <1>1 DEF RefundInv, BeliefsHold
<1>4. l \in ClaimedPcs \ {"send", "await"} BY DEF ClaimedPcs, RunPcs
<1> QED BY <1>1, <1>2, <1>3, <1>4, Moving

LEMMA RunCases ==
  ASSUME NEW p \in Workers, Run(p) \/ Crash(p)
  PROVE  Ends(p) \/ Moves(p) \/ Claim(p) \/ Mark(p) \/ Send(p)
BY DEF Run, Ends, Moves

LEMMA RunKeeps ==
  ASSUME RefundInv, NEW p \in Workers, Run(p) \/ Crash(p)
  PROVE  RefundInv'
<1>1. TypeOK' BY RunType DEF RefundInv
<1>2. CASE Ends(p) BY <1>1, <1>2, EndsFenced, Closing
<1>3. CASE Moves(p) BY <1>1, <1>3, MovesKeep
<1> QED BY <1>1, <1>2, <1>3, RunCases, ClaimKeeps, MarkKeeps, SendKeeps

LEMMA EnvironmentAside ==
  ASSUME \/ QueueNew \/ QueueStuck \/ LeaseRunsOut \/ SendWindowCloses
         \/ \E p \in Workers, j \in JobIds : Take(p, j)
         \/ UNCHANGED vars
  PROVE  /\ UNCHANGED <<status, claimToken, attempts, refundId, request, token>>
         /\ \/ UNCHANGED pc
            \/ \E p \in Workers : pc' = [pc EXCEPT ![p] = "claim"] /\ pc[p] = "idle"
BY DEF QueueNew, QueueStuck, Enqueue, LeaseRunsOut, SendWindowCloses, Take, NoWrite, Quiet,
       rowVars, jobVars, vars

LEMMA InitInv == Init => RefundInv
<1> SUFFICES ASSUME Init PROVE RefundInv OBVIOUS
<1>1. TypeOK BY InitType
<1>2. Live = {} BY DEF Init, Live
<1>3. \A p \in Workers : pc[p] = "idle" BY DEF Init
<1>4. \A c \in Claims : request[c] = "none" BY DEF Init
<1> QED
  BY <1>1, <1>2, <1>3, <1>4, Zero
  DEF Init, RefundInv, RefundedOnce, MoneyIsAccounted, RefundIsReal, ClaimsAreDistinct,
      RequestsFollowRuns, SendIsSafe, AwaitIsAlone, BeliefsHold, ClaimedPcs

LEMMA NextKeeps == RefundInv /\ [Next]_vars => RefundInv'
<1> SUFFICES ASSUME RefundInv, [Next]_vars PROVE RefundInv' OBVIOUS
<1>1. TypeOK'
  <2>1. CASE UNCHANGED vars BY <2>1 DEF RefundInv, TypeOK, RowOK, RunsOK, RestOK, vars, rowVars, sendTime, jobVars
  <2>2. CASE Next BY <2>2, RunType, TakeType, EnvironmentType DEF Next, RefundInv
  <2> QED BY <2>1, <2>2
<1>2. CASE \E p \in Workers : Run(p) \/ Crash(p) BY <1>2, RunKeeps
<1>3. CASE Shopify BY <1>1, <1>3, ShopifyKeeps
<1>4. CASE \/ QueueNew \/ QueueStuck \/ LeaseRunsOut \/ SendWindowCloses
           \/ \E p \in Workers, j \in JobIds : Take(p, j)
           \/ UNCHANGED vars
  BY <1>1, <1>4, EnvironmentAside, Aside
<1> QED BY <1>2, <1>3, <1>4 DEF Next

(***************************************************************************)
(* The invariant of the refund protocol, for any number of runs, claims,   *)
(* retries, crashes, late answers and runs that outlive their lease.       *)
(***************************************************************************)
THEOREM RefundsAreSafe == Spec => []RefundInv
BY InitInv, NextKeeps, PTL DEF Spec

(***************************************************************************)
(* At most one refundCreate of a return has or may still have an effect.   *)
(***************************************************************************)
THEOREM NeverRefundedTwice == Spec => []RefundedOnce
<1>1. RefundInv => RefundedOnce BY DEF RefundInv
<1> QED BY RefundsAreSafe, <1>1, PTL

(***************************************************************************)
(* Money that moved, or may, never hides behind a row a run may refund.    *)
(***************************************************************************)
THEOREM MoneyNeverHides == Spec => []MoneyIsAccounted
<1>1. RefundInv => MoneyIsAccounted BY DEF RefundInv
<1> QED BY RefundsAreSafe, <1>1, PTL

(***************************************************************************)
(* A recorded refund was made for this return.                             *)
(***************************************************************************)
THEOREM RefundsAreReal == Spec => []RefundIsReal
<1>1. RefundInv => RefundIsReal BY DEF RefundInv
<1> QED BY RefundsAreSafe, <1>1, PTL

-----------------------------------------------------------------------------
(* No run holds the claim of a settled return, so none writes its row.     *)
LEMMA SettledStep ==
  ASSUME RefundInv, [Next]_vars, Settled
  PROVE  status' = status /\ refundId' = refundId
<1>1. \A p \in Workers : pc[p] \in ClaimedPcs => ~Holds(p)
  <2> SUFFICES ASSUME NEW p \in Workers, pc[p] \in ClaimedPcs, Holds(p) PROVE FALSE OBVIOUS
  <2> QED BY HeldIsOpen DEF Settled
<1>2. ASSUME NEW p \in Workers, Ends(p) PROVE status' = status /\ refundId' = refundId
  <2>1. CASE pc[p] \in ClaimedPcs
    <3>1. ~Holds(p) BY <1>1, <2>1
    <3> QED BY <1>2, <3>1, EndsFenced DEF FencedWrite
  <2>2. CASE pc[p] \notin ClaimedPcs
    <3>1. NoWrite
      BY <1>2, <2>2
      DEF Ends, ReadsFail, ClaimSettled, ClaimBusy, Crash, Link, Review, UnseenEarly, UnseenLate,
          ValidateReviews, ValidateRejects, StepFails, MarkLost, ReplyRejected, ReplyUncertain,
          Record, RecordFails, ClaimedPcs, RunPcs
    <3> QED BY <3>1 DEF NoWrite, rowVars
  <2> QED BY <2>1, <2>2
<1>3. ASSUME NEW p \in Workers, Moves(p) \/ Send(p) PROVE status' = status /\ refundId' = refundId
  BY <1>3 DEF Moves, CheckFindsOne, CheckNeedsPerson, CheckFindsNone, ValidatePasses, ReplyMade,
              Send, NoWrite, rowVars
<1>4. ASSUME NEW p \in Workers PROVE ~Claim(p) /\ ~Mark(p)
  <2>1. ~Claim(p) BY DEF Claim
  <2>2. ~Mark(p) BY <1>1 DEF Mark, ClaimedPcs, RunPcs
  <2> QED BY <2>1, <2>2
<1>5. CASE \E p \in Workers : Run(p) \/ Crash(p) BY <1>2, <1>3, <1>4, <1>5, RunCases
<1>6. CASE Shopify BY <1>6 DEF Shopify, NoWrite, rowVars
<1>7. CASE \/ QueueNew \/ QueueStuck \/ LeaseRunsOut \/ SendWindowCloses
           \/ \E p \in Workers, j \in JobIds : Take(p, j)
           \/ UNCHANGED vars
  BY <1>7, EnvironmentAside
<1> QED BY <1>5, <1>6, <1>7 DEF Next

(***************************************************************************)
(* A recorded refund and a return in front of a person stay as they are.   *)
(***************************************************************************)
THEOREM SettledForGood == Spec => SettledStays
<1>1. RefundInv /\ [Next]_vars => [Settled => status' = status /\ refundId' = refundId]_rowVars
  BY SettledStep
<1> QED BY RefundsAreSafe, <1>1, PTL DEF Spec, SettledStays
-----------------------------------------------------------------------------
(* Refinement of AtMostOnce: only Send, Shopify's answers and the writes   *)
(* that record a refund are visible there.                                 *)
LEMMA OutcomeOf ==
  ASSUME NEW c \in Claims
  PROVE  Outcome[c] = CASE request[c] = "none" -> "none"
                        [] request[c] = "sent" -> "open"
                        [] request[c] = "made" -> "exists"
                        [] OTHER -> "dead"
BY DEF Outcome

LEMMA Unseen == UNCHANGED <<request, refundId>> => UNCHANGED Once!vars
BY DEF Once!vars, Outcome

LEMMA SendOnce ==
  ASSUME RefundInv, NEW p \in Workers, Send(p)
  PROVE  Once!Next
<1>1. pc[p] = "send" /\ token[p] \in Claims
  BY DEF Send, RefundInv, TypeOK, RunsOK, ClaimedPcs, RunPcs
<1>2. request[token[p]] = "none" /\ Live = {}
  BY <1>1 DEF RefundInv, RequestsFollowRuns, SendIsSafe, ClaimedPcs, RunPcs
<1>3. \A c \in Claims : Outcome[c] \notin {"open", "exists"}
  BY <1>2, OutcomeOf DEF Live
<1>4. Outcome[token[p]] = "none" BY <1>1, <1>2, OutcomeOf
<1>5. Outcome' = [Outcome EXCEPT ![token[p]] = "open"]
  BY <1>1 DEF Send, Outcome, RefundInv, TypeOK, RestOK
<1>6. refundId' = refundId BY DEF Send, NoWrite, rowVars
<1> QED BY <1>1, <1>3, <1>4, <1>5, <1>6 DEF Once!Next, Once!Send, Once!MayHaveEffect

LEMMA LinkOnce ==
  ASSUME RefundInv, request' = request, refundId = 0, refundId' \in Ours
  PROVE  Once!Next
<1>1. refundId' \in Claims /\ request[refundId'] = "made" BY DEF Ours
<1>2. Outcome[refundId'] = "exists" BY <1>1, OutcomeOf
<1>3. Outcome' = Outcome BY DEF Outcome
<1> QED BY <1>1, <1>2, <1>3 DEF Once!Next, Once!Link, Once!Results

LEMMA SettleOnce ==
  ASSUME RefundInv, Shopify
  PROVE  Once!Next
<1>1. PICK c \in Claims, a \in {"made", "refused", "lost"} :
        request[c] = "sent" /\ request' = [request EXCEPT ![c] = a]
  BY DEF Shopify
<1>2. Outcome[c] = "open" BY <1>1, OutcomeOf
<1>3. \E r \in {"exists", "dead"} : Outcome' = [Outcome EXCEPT ![c] = r]
  <2>1. CASE a = "made" BY <1>1, <2>1 DEF Outcome, RefundInv, TypeOK, RestOK
  <2>2. CASE a # "made" BY <1>1, <2>2 DEF Outcome, RefundInv, TypeOK, RestOK
  <2> QED BY <2>1, <2>2
<1>4. refundId' = refundId BY DEF Shopify, NoWrite, rowVars
<1> QED BY <1>2, <1>3, <1>4 DEF Once!Next, Once!Settle

LEMMA RunOnce ==
  ASSUME RefundInv, NEW p \in Workers, Run(p) \/ Crash(p)
  PROVE  Once!Next \/ UNCHANGED Once!vars
<1>1. CASE Ends(p)
  <2>1. pc[p] # "idle" /\ request' = request /\ FencedWrite(p) BY <1>1, EndsFenced
  <2>2. CASE refundId' = refundId BY <2>1, <2>2, Unseen
  <2>3. CASE refundId' # refundId
    <3>1. Holds(p) /\ refundId' \in Ours BY <2>1, <2>3 DEF FencedWrite
    <3>2. refundId = 0
      <4>1. CASE pc[p] \in ClaimedPcs BY <3>1, <4>1, HeldIsOpen
      <4>2. CASE pc[p] \notin ClaimedPcs
        <5>1. NoWrite
          BY <1>1, <4>2
          DEF Ends, ReadsFail, ClaimSettled, ClaimBusy, Crash, Link, Review, UnseenEarly, UnseenLate,
              ValidateReviews, ValidateRejects, StepFails, MarkLost, ReplyRejected, ReplyUncertain,
              Record, RecordFails, ClaimedPcs, RunPcs
        <5> QED BY <2>3, <5>1 DEF NoWrite, rowVars
      <4> QED BY <4>1, <4>2
    <3> QED BY <2>1, <3>1, <3>2, LinkOnce
  <2> QED BY <2>2, <2>3
<1>2. CASE Moves(p)
  BY <1>2, Unseen DEF Moves, CheckFindsOne, CheckNeedsPerson, CheckFindsNone, ValidatePasses,
                      ReplyMade, NoWrite, rowVars, Quiet
<1>3. CASE Claim(p) \/ Mark(p) BY <1>3, Unseen DEF Claim, Mark, Quiet
<1>4. CASE Send(p) BY <1>4, SendOnce
<1> QED BY <1>1, <1>2, <1>3, <1>4, RunCases

(***************************************************************************)
(* The refund protocol implements the promise of AtMostOnce.               *)
(***************************************************************************)
THEOREM RefundedAtMostOnce == Spec => ImplementsAtMostOnce
<1>1. Init => Once!Init BY DEF Init, Once!Init, Outcome, Once!Results
<1>2. RefundInv /\ [Next]_vars => [Once!Next]_(Once!vars)
  <2> SUFFICES ASSUME RefundInv, [Next]_vars PROVE Once!Next \/ UNCHANGED Once!vars
    OBVIOUS
  <2>1. CASE \E p \in Workers : Run(p) \/ Crash(p) BY <2>1, RunOnce
  <2>2. CASE Shopify BY <2>2, SettleOnce
  <2>3. CASE \/ QueueNew \/ QueueStuck \/ LeaseRunsOut \/ SendWindowCloses
             \/ \E p \in Workers, j \in JobIds : Take(p, j)
             \/ UNCHANGED vars
    BY <2>3, EnvironmentAside, Unseen
  <2> QED BY <2>1, <2>2, <2>3 DEF Next
<1> QED BY RefundsAreSafe, <1>1, <1>2, PTL DEF Spec, ImplementsAtMostOnce, Once!Spec
-----------------------------------------------------------------------------
(* When no run outlives its lease, a run past its claim holds the row.     *)
RunsHold == \A p \in Workers : pc[p] \in ClaimedPcs => Holds(p) /\ ~leaseOver

LEMMA HoldsStep ==
  ASSUME ~Stalls, RefundInv, RunsHold, [Next]_vars
  PROVE  RunsHold'
<1>1. ASSUME NEW p \in Workers, NEW q \in Workers, pc[p] \in ClaimedPcs, pc[q] \in ClaimedPcs PROVE p = q
  BY <1>1 DEF RunsHold, Holds, RefundInv, ClaimsAreDistinct
<1>2. ASSUME NEW p \in Workers, Ends(p) PROVE RunsHold'
  <2>1. pc'[p] \notin ClaimedPcs /\ \A q \in Workers : q # p => pc'[q] = pc[q] /\ token'[q] = token[q]
    BY <1>2, EndsFenced DEF Leave, RefundInv, TypeOK, RunsOK, ClaimedPcs
  <2>2. CASE pc[p] \in ClaimedPcs BY <1>1, <2>1, <2>2 DEF RunsHold
  <2>3. CASE pc[p] \notin ClaimedPcs
    <3>1. NoWrite
      BY <1>2, <2>3
      DEF Ends, ReadsFail, ClaimSettled, ClaimBusy, Crash, Link, Review, UnseenEarly, UnseenLate,
          ValidateReviews, ValidateRejects, StepFails, MarkLost, ReplyRejected, ReplyUncertain,
          Record, RecordFails, ClaimedPcs, RunPcs
    <3>2. UNCHANGED <<claimToken, leaseOver>> BY <3>1 DEF NoWrite, rowVars
    <3> QED BY <2>1, <3>2 DEF RunsHold, Holds
  <2> QED BY <2>2, <2>3
<1>3. ASSUME NEW p \in Workers, Moves(p) \/ Mark(p) \/ Send(p) PROVE RunsHold'
  <2>1. pc[p] \in ClaimedPcs /\ token' = token /\ \A q \in Workers : q # p => pc'[q] = pc[q]
    BY <1>3 DEF Moves, CheckFindsOne, CheckNeedsPerson, CheckFindsNone, ValidatePasses, ReplyMade,
                Mark, Send, Step, RefundInv, TypeOK, RunsOK, ClaimedPcs, RunPcs
  <2>2. UNCHANGED <<claimToken, leaseOver>>
    BY <1>3 DEF Moves, CheckFindsOne, CheckNeedsPerson, CheckFindsNone, ValidatePasses, ReplyMade,
                Mark, Send, NoWrite, rowVars
  <2> QED BY <2>1, <2>2 DEF RunsHold, Holds
<1>4. ASSUME NEW p \in Workers, Claim(p) PROVE RunsHold'
  <2>1. ASSUME NEW q \in Workers PROVE pc[q] \notin ClaimedPcs
    <3> SUFFICES ASSUME pc[q] \in ClaimedPcs PROVE FALSE OBVIOUS
    <3>1. Holds(q) /\ ~leaseOver BY DEF RunsHold
    <3>2. status \in {"processing", "sending"} BY <3>1, HeldIsOpen
    <3>3. claimToken # 0 BY <3>1 DEF Holds, RefundInv, TypeOK, RunsOK, Claims
    <3> QED BY <1>4, <3>1, <3>2, <3>3 DEF Claim, Busy
  <2>2. \A q \in Workers : q # p => pc'[q] = pc[q] BY <1>4 DEF Claim, RefundInv, TypeOK, RunsOK
  <2>3. token'[p] = attempts' /\ claimToken' = attempts' /\ ~leaseOver'
    BY <1>4 DEF Claim, RefundInv, TypeOK, RunsOK
  <2> QED BY <2>1, <2>2, <2>3 DEF RunsHold, Holds
<1>5. CASE \E p \in Workers : Run(p) \/ Crash(p) BY <1>2, <1>3, <1>4, <1>5, RunCases
<1>6. CASE Shopify BY <1>6 DEF Shopify, NoWrite, rowVars, RunsHold, Holds
<1>7. CASE LeaseRunsOut BY <1>7 DEF LeaseRunsOut, Held, RunsHold, Holds
<1>8. CASE QueueNew \/ QueueStuck \/ SendWindowCloses \/ UNCHANGED vars
  BY <1>8 DEF QueueNew, QueueStuck, Enqueue, SendWindowCloses, NoWrite, rowVars, vars, RunsHold, Holds
<1>9. CASE \E p \in Workers, j \in JobIds : Take(p, j)
  <2>1. PICK p \in Workers : pc' = [pc EXCEPT ![p] = "claim"] /\ UNCHANGED <<token, rowVars>>
    BY <1>9 DEF Take, NoWrite
  <2>2. \A q \in Workers : pc'[q] \in ClaimedPcs => pc[q] \in ClaimedPcs
    BY <2>1 DEF RefundInv, TypeOK, RunsOK, ClaimedPcs
  <2> QED BY <2>1, <2>2 DEF rowVars, RunsHold, Holds
<1> QED BY <1>5, <1>6, <1>7, <1>8, <1>9 DEF Next

(***************************************************************************)
(* "No automatic money movement" once a return is in front of a person, as *)
(* long as no run outlives the lease of its claim.                         *)
(***************************************************************************)
THEOREM NothingAfterReview == ASSUME ~Stalls PROVE Spec => NoMoneyAfterReview
<1>1. Init => RunsHold BY DEF Init, RunsHold, ClaimedPcs
<1>2. RunsHold /\ RefundInv /\ [Next]_vars => RunsHold' BY HoldsStep
<1>3. RefundInv /\ RunsHold /\ [Next]_vars =>
        [status = "needs_review" => \A c \in Claims : request[c] = "none" => request'[c] = "none"]_request
  <2> SUFFICES ASSUME RefundInv, RunsHold, [Next]_vars, status = "needs_review",
                      NEW c \in Claims, request[c] = "none"
               PROVE  request'[c] = "none"
    OBVIOUS
  <2>1. ASSUME NEW p \in Workers PROVE pc[p] \notin ClaimedPcs
    BY HeldIsOpen DEF RunsHold
  <2>2. ASSUME NEW p \in Workers, Ends(p) \/ Moves(p) \/ Claim(p) \/ Mark(p) PROVE request' = request
    BY <2>2, EndsFenced DEF Moves, CheckFindsOne, CheckNeedsPerson, CheckFindsNone, ValidatePasses,
                            ReplyMade, Claim, Mark, Quiet
  <2>3. ASSUME NEW p \in Workers PROVE ~Send(p) BY <2>1 DEF Send, ClaimedPcs, RunPcs
  <2>4. CASE \E p \in Workers : Run(p) \/ Crash(p) BY <2>2, <2>3, <2>4, RunCases
  <2>5. CASE Shopify BY <2>5 DEF Shopify, RefundInv, TypeOK, RestOK
  <2>6. CASE \/ QueueNew \/ QueueStuck \/ LeaseRunsOut \/ SendWindowCloses
             \/ \E p \in Workers, j \in JobIds : Take(p, j)
             \/ UNCHANGED vars
    BY <2>6, EnvironmentAside
  <2> QED BY <2>4, <2>5, <2>6 DEF Next
<1> QED BY RefundsAreSafe, <1>1, <1>2, <1>3, PTL DEF Spec, NoMoneyAfterReview
=============================================================================

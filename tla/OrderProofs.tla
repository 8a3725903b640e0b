------------------------------ MODULE OrderProofs ------------------------------
(***************************************************************************)
(* Theorems about an order: its creation (OrderCreate), its cancellation   *)
(* and completion (OrderStatus), and what its invoice holds                *)
(* (InvoiceAmounts): what an override sends, and the sums of units and of  *)
(* money of every invoice.                                                 *)
(***************************************************************************)
EXTENDS OrderCreate, OrderStatus, InvoiceAmounts, Integers, Sequences, FiniteSets, FiniteSetTheorems, WellFoundedInduction,
        NaturalsInduction, TLAPS

LEMMA InitType == Init => TypeOK
<1> SUFFICES ASSUME Init PROVE TypeOK OBVIOUS
<1> USE DEF Init, Ids
<1>1. crashes \in 0 .. MaxCrashes BY FlagsAssumption
<1>2. kv \in [Ids -> KvStates] BY DEF KvStates
<1>3. pc \in [Workers -> WorkerPcs] /\ \A p \in Workers : pc[p] \notin HoldingPcs
  BY DEF WorkerPcs, HoldingPcs, ClaimTxnPcs
<1>4. opc \in [Operators -> OperatorPcs] BY DEF OperatorPcs
<1> QED BY <1>1, <1>2, <1>3, <1>4 DEF TypeOK, Statuses, SyncStatuses

LEMMA WorkerType ==
  ASSUME TypeOK, NEW p \in Workers, Begin(p) \/ Worker(p) \/ Crash(p)
  PROVE  TypeOK'
<1> USE IdsAssumption, FlagsAssumption
    DEF TypeOK, Statuses, SyncStatuses, Ids, KvStates, Landed, WorkerPcs, OperatorPcs, HoldingPcs,
        ClaimTxnPcs, Goto, Finish, NoWrite, rowVars, Touch, External
<1>1. CASE Begin(p) BY <1>1 DEF Begin
<1>2. CASE ClaimSeesLink(p) BY <1>2 DEF ClaimSeesLink, AtClaim
<1>3. CASE ClaimSeesCreating(p) BY <1>3 DEF ClaimSeesCreating, AtClaim
<1>4. CASE ClaimStops(p) BY <1>4 DEF ClaimStops, AtClaim
<1>5. CASE ClaimInvalid(p) BY <1>5 DEF ClaimInvalid, AtClaim
<1>6. CASE ClaimDecides(p) BY <1>6 DEF ClaimDecides, AtClaim
<1>7. CASE ClaimWrites(p)
  <2>1. PICK t \in Tokens : claimToken' = t /\ ref' = [ref EXCEPT ![p] = t] BY <1>7 DEF ClaimWrites, NewTokens
  <2>2. ref' \in [Workers -> Ids \cup {NoId}] BY <2>1
  <2> QED BY <1>7, <2>1, <2>2 DEF ClaimWrites
<1>8. CASE ClaimInsertFails(p) BY <1>8 DEF ClaimInsertFails
<1>9. CASE RecordInvalid(p) BY <1>9 DEF RecordInvalid, Release
<1>10. CASE UpdateMapped(p) BY <1>10 DEF UpdateMapped, SetSync
<1>11. CASE PrepareFails(p) BY <1>11 DEF PrepareFails, Release
<1>12. CASE MarkCreating(p) BY <1>12 DEF MarkCreating, Fenced
<1>13. CASE ClaimLost(p) BY <1>13 DEF ClaimLost
<1>14. CASE Send(p) BY <1>14 DEF Send
<1>15. CASE ReplyCreated(p) BY <1>15 DEF ReplyCreated
<1>16. CASE ReplyRejected(p)
  <2>1. CASE Fenced(p, "creating")
    <3>1. Release("failed") BY <1>16, <2>1 DEF ReplyRejected
    <3>2. status' \in Statuses /\ syncStatus' \in SyncStatuses /\ claimToken' = NoId
          /\ expired' = FALSE /\ kvId' = kvId /\ status' = "create_failed"
      BY <3>1 DEF Release
    <3>3. fresh' \in [Operators -> BOOLEAN] BY <3>1 DEF Release, Touch
    <3> QED BY <1>16, <3>2, <3>3 DEF ReplyRejected
  <2>2. CASE ~Fenced(p, "creating") BY <1>16, <2>2 DEF ReplyRejected
  <2> QED BY <2>1, <2>2
<1>17. CASE ReplyUncertain(p) BY <1>17 DEF ReplyUncertain, SetSync
<1>18. CASE RecordMapping(p) BY <1>18 DEF RecordMapping, LinkTo
<1>19. CASE VerifyFinds(p) BY <1>19 DEF VerifyFinds, Listed
<1>20. CASE VerifyMisses(p) BY <1>20 DEF VerifyMisses
<1>21. CASE LinkFound(p) BY <1>21 DEF LinkFound, LinkTo
<1>22. CASE MissRetried(p) BY <1>22 DEF MissRetried
<1>23. CASE MissReviewed(p) BY <1>23 DEF MissReviewed, SetSync
<1>24. CASE Crash(p) BY <1>24 DEF Crash
<1> QED
  BY <1>1, <1>2, <1>3, <1>4, <1>5, <1>6, <1>7, <1>8, <1>9, <1>10, <1>11, <1>12, <1>13,
     <1>14, <1>15, <1>16, <1>17, <1>18, <1>19, <1>20, <1>21, <1>22, <1>23, <1>24 DEF Worker

LEMMA OperatorType ==
  ASSUME TypeOK, NEW o \in Operators, Operator(o)
  PROVE  TypeOK'
<1> USE IdsAssumption, FlagsAssumption
    DEF TypeOK, Statuses, SyncStatuses, Ids, KvStates, Landed, OperatorPcs, HoldingPcs,
        OGoto, OFinish, OperatorFrame, NoWrite, rowVars, Touch
<1>1. CASE PlanReads(o) BY <1>1 DEF PlanReads
<1>2. CASE PlanFindsOrder(o) BY <1>2 DEF PlanFindsOrder, Listed
<1>3. CASE PlanFindsNone(o) BY <1>3 DEF PlanFindsNone
<1>4. CASE PlanResets(o) BY <1>4 DEF PlanResets
<1>5. CASE PlanStops(o) BY <1>5 DEF PlanStops
<1>6. CASE ApplyLink(o) BY <1>6 DEF ApplyLink, LinkTo
<1>7. CASE ApplyReset(o)
  <2>1. CASE fresh[o] /\ kvId = NoId
    <3>1. abandoned' \subseteq Tokens BY <1>7, <2>1 DEF ApplyReset
    <3>2. /\ status' = "create_failed" /\ claimToken' = NoId /\ expired' = FALSE
          /\ syncStatus' = "failed" /\ kvId' = kvId
          /\ fresh' = [q \in Operators |-> FALSE]
      BY <1>7, <2>1 DEF ApplyReset, Release
    <3>3. syncStatus' \in SyncStatuses BY <3>2
    <3>4. status' \in Statuses BY <3>2
    <3>5. fresh' \in [Operators -> BOOLEAN] BY <3>2
    <3>6. /\ opc' \in [Operators -> OperatorPcs]
          /\ oref' \in [Operators -> Ids \cup {NoId}] BY <1>7 DEF ApplyReset
    <3>7. UNCHANGED <<kv, cancelled, pc, ref, openRead, crashes>> BY <1>7 DEF ApplyReset
    <3> QED BY <3>1, <3>2, <3>3, <3>4, <3>5, <3>6, <3>7
  <2>2. CASE ~(fresh[o] /\ kvId = NoId) BY <1>7, <2>2 DEF ApplyReset
  <2> QED BY <2>1, <2>2
<1> QED BY <1>1, <1>2, <1>3, <1>4, <1>5, <1>6, <1>7 DEF Operator

LEMMA EnvironmentType ==
  ASSUME TypeOK, KiotViet \/ StaffCreates \/ ShopifyCancels \/ LeaseRunsOut
  PROVE  TypeOK'
<1> USE IdsAssumption, FlagsAssumption
    DEF TypeOK, Statuses, SyncStatuses, Ids, KvStates, Landed, HoldingPcs, NoWrite, rowVars
<1>1. CASE KiotViet BY <1>1 DEF KiotViet, Settle
<1>2. CASE StaffCreates BY <1>2 DEF StaffCreates, Settle
<1>3. CASE ShopifyCancels BY <1>3 DEF ShopifyCancels
<1>4. CASE LeaseRunsOut BY <1>4 DEF LeaseRunsOut
<1> QED BY <1>1, <1>2, <1>3, <1>4

(***************************************************************************)
(* Type correctness: every write of the claim protocol keeps the row, the  *)
(* workers and the recovery runs in the states the code can be in.         *)
(***************************************************************************)
THEOREM TypeCorrect == Spec => []TypeOK
<1>1. TypeOK /\ [Next]_vars => TypeOK'
  <2> SUFFICES ASSUME TypeOK, [Next]_vars PROVE TypeOK' OBVIOUS
  <2>1. CASE UNCHANGED vars BY <2>1 DEF TypeOK, vars, rowVars
  <2>2. CASE Next BY <2>2, WorkerType, OperatorType, EnvironmentType DEF Next
  <2> QED BY <2>1, <2>2
<1> QED BY InitType, <1>1, PTL DEF Spec
-----------------------------------------------------------------------------
(* ClaimInv is preserved by every step when no worker outlives its claim.  *)
LEMMA WorkerClaimInv ==
  ASSUME ~Stalls, ClaimInv, TypeOK', NEW p \in Workers, Begin(p) \/ Worker(p) \/ Crash(p)
  PROVE  ClaimInv'
<1> USE IdsAssumption
    DEF TypeOK, Ids, HoldingPcs, ClaimTxnPcs, Landed, Goto, Finish, Touch, NoWrite, rowVars, External,
        ClaimInv, NoBlindResend, NothingForgotten, LinkIsReal, Exclusion, DecisionHolds, SendIsSafe,
        ExpiredIsIdle, CandidatesAreReal, Live, Unresolved, Holders, LeaseActive, Fenced, Claimable
<1>1. CASE Begin(p) BY <1>1 DEF Begin
<1>2. CASE ClaimSeesLink(p) BY <1>2 DEF ClaimSeesLink, AtClaim
<1>3. CASE ClaimSeesCreating(p) BY <1>3 DEF ClaimSeesCreating, AtClaim
<1>4. CASE ClaimStops(p) BY <1>4 DEF ClaimStops, AtClaim
<1>5. CASE ClaimInvalid(p) BY <1>5 DEF ClaimInvalid, AtClaim
<1>6. CASE ClaimDecides(p) BY <1>6 DEF ClaimDecides, AtClaim, LockFree
<1>7. CASE ClaimWrites(p) BY <1>7 DEF ClaimWrites, NewTokens
<1>8. CASE ClaimInsertFails(p) BY <1>8 DEF ClaimInsertFails
<1>9. CASE RecordInvalid(p) BY <1>9 DEF RecordInvalid, Release
<1>10. CASE UpdateMapped(p) BY <1>10 DEF UpdateMapped, SetSync
<1>11. CASE PrepareFails(p) BY <1>11 DEF PrepareFails, Release
<1>12. CASE MarkCreating(p) BY <1>12 DEF MarkCreating
<1>13. CASE ClaimLost(p) BY <1>13 DEF ClaimLost
<1>14. CASE Send(p) BY <1>14 DEF Send
<1>15. CASE ReplyCreated(p) BY <1>15 DEF ReplyCreated
<1>16. CASE ReplyRejected(p) BY <1>16 DEF ReplyRejected, Release
<1>17. CASE ReplyUncertain(p) BY <1>17 DEF ReplyUncertain, SetSync
<1>18. CASE RecordMapping(p) BY <1>18 DEF RecordMapping, LinkTo
<1>19. CASE VerifyFinds(p) BY <1>19 DEF VerifyFinds, Listed
<1>20. CASE VerifyMisses(p) BY <1>20 DEF VerifyMisses
<1>21. CASE LinkFound(p)
  <2>1. CASE status = "creating" /\ kvId = NoId
    <3>1. LinkTo(ref[p]) /\ Finish(p) /\ UNCHANGED External BY <1>21, <2>1 DEF LinkFound
    <3>2. /\ status' = "created" /\ kvId' = ref[p] /\ kvId' # NoId /\ kv[kvId'] \in Landed
          /\ fresh' = [o \in Operators |-> FALSE]
      BY <1>21, <3>1 DEF LinkFound, LinkTo
    <3>3. /\ pc' = [pc EXCEPT ![p] = "idle"] /\ ref' = [ref EXCEPT ![p] = NoId]
          /\ UNCHANGED <<kv, abandoned, opc, oref>> BY <3>1
    <3>4. \A q \in Workers : pc[q] \notin ClaimTxnPcs BY <2>1
    <3>5. \A q \in Workers : pc[q] = "send" => Unresolved = {} BY <2>1
    <3>6. Unresolved' = Unresolved BY <3>3
    <3>7. SendIsSafe' BY <3>2, <3>3, <3>5, <3>6
    <3>8. Exclusion' BY <3>3
    <3>9. DecisionHolds' BY <3>3, <3>4
    <3>10. ExpiredIsIdle' BY <3>2
    <3>11. CandidatesAreReal' BY <3>3
    <3>12. LinkIsReal' BY <3>2, <3>3
    <3>13. NoBlindResend' /\ NothingForgotten' BY <3>2, <3>3
    <3> QED BY <3>7, <3>8, <3>9, <3>10, <3>11, <3>12, <3>13
  <2>2. CASE ~(status = "creating" /\ kvId = NoId) BY <1>21, <2>2 DEF LinkFound
  <2> QED BY <2>1, <2>2
<1>22. CASE MissRetried(p) BY <1>22 DEF MissRetried
<1>23. CASE MissReviewed(p) BY <1>23 DEF MissReviewed, SetSync
<1>24. CASE Crash(p) BY <1>24 DEF Crash
<1> QED
  BY <1>1, <1>2, <1>3, <1>4, <1>5, <1>6, <1>7, <1>8, <1>9, <1>10, <1>11, <1>12, <1>13, <1>14, <1>15, <1>16, <1>17, <1>18, <1>19, <1>20, <1>21, <1>22, <1>23, <1>24 DEF Worker

LEMMA OperatorClaimInv ==
  ASSUME ~Stalls, ClaimInv, TypeOK', NEW o \in Operators, Operator(o)
  PROVE  ClaimInv'
<1> USE IdsAssumption
    DEF TypeOK, Ids, HoldingPcs, ClaimTxnPcs, Landed, OGoto, OFinish, OperatorFrame, Touch, NoWrite, rowVars,
        ClaimInv, NoBlindResend, NothingForgotten, LinkIsReal, Exclusion, DecisionHolds, SendIsSafe,
        ExpiredIsIdle, CandidatesAreReal, Live, Unresolved, Holders, LeaseActive, Fenced, Claimable
<1>1. CASE PlanReads(o) BY <1>1 DEF PlanReads
<1>2. CASE PlanFindsOrder(o) BY <1>2 DEF PlanFindsOrder, Listed
<1>3. CASE PlanFindsNone(o) BY <1>3 DEF PlanFindsNone
<1>4. CASE PlanResets(o) BY <1>4 DEF PlanResets
<1>5. CASE PlanStops(o) BY <1>5 DEF PlanStops
<1>6. CASE ApplyLink(o)
  <2>1. CASE kvId = NoId
    <3>1. LinkTo(oref[o]) BY <1>6, <2>1 DEF ApplyLink
    <3>2. /\ status' = "created" /\ kvId' = oref[o] /\ kvId' # NoId /\ kv[kvId'] \in Landed
          /\ fresh' = [q \in Operators |-> FALSE]
      BY <1>6, <3>1 DEF ApplyLink, LinkTo
    <3>3. /\ opc' = [opc EXCEPT ![o] = "idle"] /\ oref' = [oref EXCEPT ![o] = NoId]
          /\ UNCHANGED <<kv, abandoned, pc, ref>> BY <1>6 DEF ApplyLink
    <3>4. \A q \in Workers : pc[q] \notin ClaimTxnPcs BY <1>6 DEF ApplyLink, LockFree
    <3>5. \A q \in Workers : pc[q] = "send" => Unresolved = {} BY <2>1
    <3>6. Unresolved' = Unresolved BY <3>3
    <3>7. SendIsSafe' BY <3>2, <3>3, <3>5, <3>6
    <3>8. Exclusion' BY <3>3
    <3>9. DecisionHolds' BY <3>3, <3>4
    <3>10. ExpiredIsIdle' BY <3>2
    <3>11. CandidatesAreReal' BY <3>3
    <3>12. LinkIsReal' BY <3>2, <3>3
    <3>13. NoBlindResend' /\ NothingForgotten' BY <3>2, <3>3
    <3> QED BY <3>7, <3>8, <3>9, <3>10, <3>11, <3>12, <3>13
  <2>2. CASE kvId # NoId BY <1>6, <2>2 DEF ApplyLink
  <2> QED BY <2>1, <2>2
<1>7. CASE ApplyReset(o) BY <1>7 DEF ApplyReset, Release, LockFree
<1> QED
  BY <1>1, <1>2, <1>3, <1>4, <1>5, <1>6, <1>7 DEF Operator

LEMMA EnvironmentClaimInv ==
  ASSUME ~Stalls, ClaimInv, TypeOK', KiotViet \/ StaffCreates \/ ShopifyCancels \/ LeaseRunsOut
  PROVE  ClaimInv'
<1> USE IdsAssumption
    DEF TypeOK, Ids, HoldingPcs, ClaimTxnPcs, Landed, NoWrite, rowVars,
        ClaimInv, NoBlindResend, NothingForgotten, LinkIsReal, Exclusion, DecisionHolds, SendIsSafe,
        ExpiredIsIdle, CandidatesAreReal, Live, Unresolved, Holders, LeaseActive, Fenced, Claimable
<1>1. CASE KiotViet
  <2>1. PICK i \in Ids : \/ i \in Tokens /\ \E a \in {"hidden", "refused", "lost"} : Settle(i, "sent", a)
                         \/ Settle(i, "hidden", "listed")
    BY <1>1 DEF KiotViet
  <2>2. /\ kv[i] # "none" /\ kv'[i] # "none" /\ \A j \in Ids \ {i} : kv'[j] = kv[j]
        /\ kv[i] \in Landed => kv'[i] \in Landed
        /\ kv' \in [Ids -> KvStates]
    BY <2>1 DEF Settle
  <2>3. /\ UNCHANGED <<rowVars, abandoned, pc, ref, opc, oref, fresh>> BY <2>1 DEF Settle
  <2>4. Unresolved' \subseteq Unresolved BY <2>1, <2>3 DEF Settle
  <2>5. NoBlindResend' /\ NothingForgotten' BY <2>3, <2>4
  <2>6. LinkIsReal' /\ CandidatesAreReal' BY <2>2, <2>3
  <2>7. SendIsSafe' BY <2>2, <2>3, <2>4
  <2>8. Exclusion' /\ DecisionHolds' /\ ExpiredIsIdle' BY <2>3
  <2> QED BY <2>5, <2>6, <2>7, <2>8
<1>2. CASE StaffCreates BY <1>2 DEF StaffCreates, Settle
<1>3. CASE ShopifyCancels BY <1>3 DEF ShopifyCancels
<1>4. CASE LeaseRunsOut BY <1>4 DEF LeaseRunsOut
<1> QED BY <1>1, <1>2, <1>3, <1>4

LEMMA InitClaimInv == Init => ClaimInv
<1> SUFFICES ASSUME Init PROVE ClaimInv OBVIOUS
<1>1. TypeOK BY InitType
<1>2. \A p \in Workers : pc[p] = "idle" BY DEF Init
<1>3. \A o \in Operators : opc[o] = "idle" BY DEF Init
<1>4. Live = {} BY DEF Init, Live, Landed, Ids
<1>5. kvId = NoId /\ status = "absent" BY DEF Init
<1>6. NoBlindResend /\ NothingForgotten BY <1>4 DEF NoBlindResend, NothingForgotten, Unresolved
<1>7. LinkIsReal BY <1>5 DEF LinkIsReal
<1>8. Exclusion /\ DecisionHolds /\ SendIsSafe
  BY <1>2 DEF Exclusion, DecisionHolds, SendIsSafe, HoldingPcs, ClaimTxnPcs
<1>9. ExpiredIsIdle /\ CandidatesAreReal BY <1>2, <1>3, <1>5 DEF ExpiredIsIdle, CandidatesAreReal
<1> QED BY <1>1, <1>6, <1>7, <1>8, <1>9 DEF ClaimInv

LEMMA NextClaimInv == ~Stalls /\ ClaimInv /\ [Next]_vars => ClaimInv'
<1> SUFFICES ASSUME ~Stalls, ClaimInv, [Next]_vars PROVE ClaimInv' OBVIOUS
<1>1. CASE UNCHANGED vars
  BY <1>1 DEF vars, rowVars, ClaimInv, TypeOK, NoBlindResend, NothingForgotten, LinkIsReal, Exclusion,
              DecisionHolds, SendIsSafe, ExpiredIsIdle, CandidatesAreReal, Live, Unresolved, Holders,
              LeaseActive, Fenced, Claimable
<1>2. CASE Next
  <2>1. TypeOK BY DEF ClaimInv
  <2>2. TypeOK' BY <1>2, <2>1, WorkerType, OperatorType, EnvironmentType DEF Next
  <2> QED BY <1>2, <2>2, WorkerClaimInv, OperatorClaimInv, EnvironmentClaimInv DEF Next
<1> QED BY <1>1, <1>2

(***************************************************************************)
(* The inductive invariant of the claim protocol, for workers that do not  *)
(* outlive the lease of their claim.                                       *)
(***************************************************************************)
THEOREM ClaimsAreSafe == ASSUME ~Stalls PROVE Spec => []ClaimInv
<1>1. ClaimInv /\ [Next]_vars => ClaimInv' BY NextClaimInv
<1> QED BY InitClaimInv, <1>1, PTL DEF Spec

(***************************************************************************)
(* A `creating` row is never re-sent blindly (order-sync.ts), whatever the *)
(* number of workers, recovery runs, claims and crashes.                   *)
(***************************************************************************)
THEOREM NeverResent == ASSUME ~Stalls PROVE Spec => []NoBlindResend
<1>1. ClaimInv => NoBlindResend BY DEF ClaimInv
<1> QED BY ClaimsAreSafe, <1>1, PTL

(***************************************************************************)
(* create_failed and pending_create rows mean that nothing was sent: a     *)
(* request that may have had an effect stays on the row until it is linked.*)
(***************************************************************************)
THEOREM NeverForgotten == ASSUME ~Stalls PROVE Spec => []NothingForgotten
<1>1. ClaimInv => NothingForgotten BY DEF ClaimInv
<1> QED BY ClaimsAreSafe, <1>1, PTL

(***************************************************************************)
(* A recorded kiotviet_order_id names an order KiotViet holds.             *)
(***************************************************************************)
THEOREM LinksAreReal == ASSUME ~Stalls PROVE Spec => []LinkIsReal
<1>1. ClaimInv => LinkIsReal BY DEF ClaimInv
<1> QED BY ClaimsAreSafe, <1>1, PTL
-----------------------------------------------------------------------------
(* What a step does to the three things AtMostOnce sees.                   *)
Seen == <<kv, abandoned, kvId>>

(* A link is written only into a row without one, and to a real order.     *)
Links == /\ kvId = NoId /\ kvId' \in Ids /\ kv[kvId'] \in Landed
         /\ UNCHANGED <<kv, abandoned>>

LEMMA WorkerSeen ==
  ASSUME ClaimInv, NEW p \in Workers, Begin(p) \/ Worker(p) \/ Crash(p)
  PROVE  \/ UNCHANGED Seen
         \/ Links
         \/ Send(p)
<1> USE DEF Seen, NoWrite, rowVars, External
<1>1. CASE LinkFound(p)
  <2>1. CASE status = "creating" /\ kvId = NoId
    <3>1. kvId' = ref[p] /\ UNCHANGED <<kv, abandoned>> BY <1>1, <2>1 DEF LinkFound, LinkTo
    <3>2. ref[p] \in Ids /\ kv[ref[p]] \in Landed BY <1>1 DEF LinkFound, ClaimInv, CandidatesAreReal
    <3> QED BY <2>1, <3>1, <3>2 DEF Links
  <2>2. CASE ~(status = "creating" /\ kvId = NoId) BY <1>1, <2>2 DEF LinkFound
  <2> QED BY <2>1, <2>2
<1>2. CASE RecordMapping(p)
  <2>1. CASE Fenced(p, "creating")
    <3>1. kvId' = ref[p] /\ UNCHANGED <<kv, abandoned>> BY <1>2, <2>1 DEF RecordMapping, LinkTo
    <3>2. ref[p] \in Ids /\ kv[ref[p]] \in Landed BY <1>2 DEF RecordMapping, ClaimInv, CandidatesAreReal
    <3>3. kvId = NoId BY <2>1 DEF Fenced, ClaimInv, LinkIsReal
    <3> QED BY <3>1, <3>2, <3>3 DEF Links
  <2>2. CASE ~Fenced(p, "creating") BY <1>2, <2>2 DEF RecordMapping
  <2> QED BY <2>1, <2>2
<1>3. CASE Begin(p) \/ Crash(p) BY <1>3 DEF Begin, Crash
<1>4. CASE Worker(p)
  BY <1>1, <1>2, <1>4
  DEF Worker, Release, SetSync, ClaimSeesLink, ClaimSeesCreating, ClaimStops, ClaimInvalid, ClaimDecides, ClaimWrites, ClaimInsertFails, RecordInvalid, UpdateMapped, PrepareFails, MarkCreating, ClaimLost, ReplyCreated, ReplyRejected, ReplyUncertain, VerifyFinds, VerifyMisses, MissRetried, MissReviewed
<1> QED BY <1>3, <1>4

LEMMA OperatorSeen ==
  ASSUME ClaimInv, NEW o \in Operators, Operator(o)
  PROVE  \/ UNCHANGED Seen
         \/ Links
         \/ /\ kvId = NoId /\ UNCHANGED <<kv, kvId>>
            /\ \E t \in Tokens : abandoned' = abandoned \cup {t}
<1> USE DEF Seen, NoWrite, rowVars, OperatorFrame
<1>1. CASE ApplyLink(o)
  <2>1. CASE kvId = NoId
    <3>1. kvId' = oref[o] /\ UNCHANGED <<kv, abandoned>> BY <1>1, <2>1 DEF ApplyLink, LinkTo
    <3>2. oref[o] \in Ids /\ kv[oref[o]] \in Landed BY <1>1 DEF ApplyLink, ClaimInv, CandidatesAreReal
    <3> QED BY <2>1, <3>1, <3>2 DEF Links
  <2>2. CASE kvId # NoId BY <1>1, <2>2 DEF ApplyLink
  <2> QED BY <2>1, <2>2
<1>2. CASE ApplyReset(o)
  <2>1. CASE fresh[o] /\ kvId = NoId /\ status = "creating"
    <3>1. claimToken \in Tokens BY <2>1 DEF ClaimInv, TypeOK
    <3>2. abandoned' = abandoned \cup {claimToken} /\ UNCHANGED <<kv, kvId>>
      BY <1>2, <2>1 DEF ApplyReset, Release
    <3> QED BY <2>1, <3>1, <3>2
  <2>2. CASE ~(fresh[o] /\ kvId = NoId /\ status = "creating")
    BY <1>2, <2>2 DEF ApplyReset, Release
  <2> QED BY <2>1, <2>2
<1> QED
  BY <1>1, <1>2 DEF Operator, PlanReads, PlanFindsOrder, PlanFindsNone, PlanResets, PlanStops

(***************************************************************************)
(* Once linked, an order keeps its KiotViet id through every later claim,  *)
(* verification and recovery.                                              *)
(***************************************************************************)
THEOREM LinkNeverChanges == ASSUME ~Stalls PROVE Spec => LinkIsPermanent
<1>1. ClaimInv /\ [Next]_vars => [kvId # NoId => kvId' = kvId]_kvId
  <2> SUFFICES ASSUME ClaimInv, [Next]_vars, kvId # NoId PROVE kvId' = kvId OBVIOUS
  <2>1. CASE UNCHANGED vars BY <2>1 DEF vars, rowVars
  <2>2. ASSUME NEW p \in Workers, Begin(p) \/ Worker(p) \/ Crash(p) PROVE kvId' = kvId
    BY <2>2, WorkerSeen DEF Seen, Links, Send, NoWrite, rowVars
  <2>3. ASSUME NEW o \in Operators, Operator(o) PROVE kvId' = kvId
    BY <2>3, OperatorSeen DEF Seen, Links
  <2>4. CASE KiotViet \/ StaffCreates \/ ShopifyCancels \/ LeaseRunsOut
    BY <2>4 DEF KiotViet, StaffCreates, ShopifyCancels, LeaseRunsOut, Settle, NoWrite, rowVars
  <2> QED BY <2>1, <2>2, <2>3, <2>4 DEF Next
<1> QED BY ClaimsAreSafe, <1>1, PTL DEF Spec, LinkIsPermanent

(* The refinement, step by step.                                           *)
LEMMA OutcomeOf ==
  ASSUME TypeOK, NEW i \in Ids
  PROVE  /\ Outcome[i] = "none" <=> kv[i] = "none"
         /\ Outcome[i] = "open" <=> kv[i] = "sent"
         /\ Outcome[i] = "dead" <=> kv[i] \in {"refused", "lost"}
         /\ Outcome[i] = "exists" <=> kv[i] \in Landed
BY DEF Outcome, TypeOK, KvStates, Landed

LEMMA SeenStutter == UNCHANGED Seen => UNCHANGED Once!vars
BY DEF Seen, Once!vars, Outcome

LEMMA LinksOnce == ClaimInv /\ Links => Once!Next
<1> SUFFICES ASSUME ClaimInv, Links PROVE \E i \in Once!Results : Once!Link(i)
  BY DEF Once!Next
<1>1. kvId' \in Once!Results BY DEF Links, Ids, Once!Results
<1>2. Outcome[kvId'] = "exists" BY OutcomeOf DEF Links, ClaimInv
<1>3. Outcome' = Outcome BY DEF Links, Outcome
<1>4. Once!Link(kvId') BY <1>2, <1>3 DEF Once!Link, Links
<1> QED BY <1>1, <1>4

LEMMA SendOnce ==
  ASSUME ClaimInv, NEW p \in Workers, Send(p)
  PROVE  Once!Next
<1>1. /\ ref[p] \in Tokens /\ kv[ref[p]] = "none" /\ kv' = [kv EXCEPT ![ref[p]] = "sent"]
      /\ UNCHANGED <<abandoned, kvId>>
  BY DEF Send, ClaimInv, TypeOK, SendIsSafe, HoldingPcs, NoWrite, rowVars
<1>2. Unresolved = {}
  BY <1>1 DEF Send, ClaimInv, SendIsSafe, NothingForgotten, LinkIsReal, Fenced, Unresolved, Live, Landed
<1>3. \A q \in Tokens \ abandoned : Outcome[q] \notin {"open", "exists"}
  BY <1>2, OutcomeOf DEF ClaimInv, Unresolved, Live, Ids
<1>4. Outcome[ref[p]] = "none" BY <1>1, OutcomeOf DEF ClaimInv, Ids
<1>5. Outcome' = [Outcome EXCEPT ![ref[p]] = "open"]
  BY <1>1 DEF Outcome, ClaimInv, TypeOK, Ids
<1> QED BY <1>1, <1>3, <1>4, <1>5 DEF Once!Next, Once!Send, Once!MayHaveEffect

LEMMA EnvironmentOnce ==
  ASSUME ClaimInv, KiotViet \/ StaffCreates \/ ShopifyCancels \/ LeaseRunsOut
  PROVE  Once!Next \/ UNCHANGED Once!vars
<1> USE DEF ClaimInv, TypeOK, Settle, NoWrite, rowVars
<1>1. CASE KiotViet
  <2>1. ASSUME NEW t \in Tokens, NEW a \in {"hidden", "refused", "lost"}, Settle(t, "sent", a)
        PROVE  Once!Next
    <3>1. Outcome[t] = "open" BY <2>1, OutcomeOf DEF Ids
    <3>2. \E r \in {"exists", "dead"} : Outcome' = [Outcome EXCEPT ![t] = r]
      <4>1. CASE a = "hidden" BY <2>1, <4>1 DEF Outcome, Ids
      <4>2. CASE a # "hidden" BY <2>1, <4>2 DEF Outcome, Ids
      <4> QED BY <4>1, <4>2
    <3> QED BY <2>1, <3>1, <3>2 DEF Once!Next, Once!Settle
  <2>2. ASSUME NEW i \in Ids, Settle(i, "hidden", "listed")
        PROVE  UNCHANGED Once!vars
    <3>1. Outcome' = Outcome BY <2>2 DEF Outcome
    <3> QED BY <2>2, <3>1 DEF Once!vars
  <2> QED BY <1>1, <2>1, <2>2 DEF KiotViet
<1>2. CASE StaffCreates
  <2>1. PICK i \in StaffIds : Settle(i, "none", "hidden") BY <1>2 DEF StaffCreates
  <2>2. Outcome[i] = "none" BY <2>1, OutcomeOf DEF Ids
  <2>3. Outcome' = [Outcome EXCEPT ![i] = "exists"] BY <2>1 DEF Outcome, Ids
  <2> QED BY <1>2, <2>1, <2>2, <2>3 DEF StaffCreates, Once!Next, Once!CreateByHand
<1>3. CASE ShopifyCancels \/ LeaseRunsOut BY <1>3, SeenStutter DEF ShopifyCancels, LeaseRunsOut, Seen
<1> QED BY <1>1, <1>2, <1>3

(***************************************************************************)
(* The claim protocol implements the promise of AtMostOnce: a create       *)
(* request leaves only once every earlier one is settled or waived.        *)
(***************************************************************************)
THEOREM OrderedOnce == ASSUME ~Stalls PROVE Spec => ImplementsAtMostOnce
<1>1. Init => Once!Init BY DEF Init, Once!Init, Outcome, Once!Results, Ids
<1>2. ClaimInv /\ [Next]_vars => [Once!Next]_(Once!vars)
  <2> SUFFICES ASSUME ClaimInv, [Next]_vars PROVE Once!Next \/ UNCHANGED Once!vars
    OBVIOUS
  <2>1. CASE UNCHANGED vars BY <2>1, SeenStutter DEF vars, rowVars, Seen
  <2>2. ASSUME NEW p \in Workers, Begin(p) \/ Worker(p) \/ Crash(p)
        PROVE  Once!Next \/ UNCHANGED Once!vars
    BY <2>2, WorkerSeen, SeenStutter, LinksOnce, SendOnce
  <2>3. ASSUME NEW o \in Operators, Operator(o)
        PROVE  Once!Next \/ UNCHANGED Once!vars
    <3>1. ASSUME NEW t \in Tokens, kvId = NoId, UNCHANGED <<kv, kvId>>, abandoned' = abandoned \cup {t}
          PROVE  Once!Next
      BY <3>1 DEF Once!Next, Once!Waive, Outcome
    <3> QED BY <2>3, <3>1, OperatorSeen, SeenStutter, LinksOnce
  <2>4. CASE KiotViet \/ StaffCreates \/ ShopifyCancels \/ LeaseRunsOut
    BY <2>4, EnvironmentOnce, SeenStutter
  <2> QED BY <2>1, <2>2, <2>3, <2>4 DEF Next
<1> QED BY ClaimsAreSafe, <1>1, <1>2, PTL DEF Spec, ImplementsAtMostOnce, Once!Spec
-----------------------------------------------------------------------------
(***************************************************************************)
(* The same order later: its cancellation and completion (OrderStatus),    *)
(* for any number of jobs, attempts and changes of mind.                   *)
(***************************************************************************)
Shops == {"open", "shipped", "fulfilled", "cancelled"}
Kinds == {"create", "cancel", "kvCancelled", "kvCompleted", "kvInvoice"}
Over == {"done", "failed", "review"}
JobPcs == {"waiting", "claim", "prepare", "send", "record", "look", "delete", "cancel", "fulfil"} \cup Over
JobRecord == [kind : Kinds, pc : JobPcs, left : Int, shop : Shops]

StatusType ==
  /\ shop \in Shops
  /\ kvOrder \in {"none", "open", "invoiced", "completed", "cancelled"}
  /\ mapping \in {"none", "pending_create", "creating", "created", "failed", "completed", "cancelled"}
  /\ shopJob \in {"none", "running", "failed"}
  /\ invoice \in {"none", "claimed", "linked"} /\ released \in BOOLEAN
  /\ jobs \in Seq(JobRecord)

Asked == shop = "cancelled" \/ shopJob # "none"  \* what a recorded cancellation knows of Shopify

Is(j, kind, pcs) == jobs[j].kind = kind /\ jobs[j].pc \in pcs

(* The order is created once, and linked when its creation has ended.      *)
CreatesFirst ==
  /\ 1 \in DOMAIN jobs /\ jobs[1].kind = "create"
  /\ \A j \in DOMAIN jobs : jobs[j].kind = "create" => j = 1
  /\ jobs[1].pc \in {"waiting", "claim", "prepare", "send"} => kvOrder = "none"
  /\ Linked => jobs[1].pc = "done"
  /\ \A j \in DOMAIN jobs : jobs[j].kind # "create" /\ jobs[j].pc \notin {"waiting"} \cup Over => Linked

(* Jobs are there for what they tell, and a job that records a             *)
(* cancellation has seen it on the other side.                             *)
JobsTellTruth ==
  \A j \in DOMAIN jobs :
    /\ jobs[j].kind = "cancel" => shop = "cancelled"
    /\ Is(j, "cancel", {"record"}) => kvOrder = "cancelled"
    /\ jobs[j].kind = "kvCancelled" => kvOrder = "cancelled"
    /\ Is(j, "kvCancelled", {"record"}) => Asked

(* A cancellation of one side is recorded, or a job for it has not ended.  *)
CancellationsAreKept ==
  /\ mapping = "cancelled" => Asked /\ kvOrder = "cancelled"
  /\ shop = "cancelled" => mapping = "cancelled" \/ \E j \in DOMAIN jobs : jobs[j].kind = "cancel" /\ jobs[j].pc # "done"
  /\ kvOrder = "cancelled" =>
       mapping = "cancelled" \/ \E j \in DOMAIN jobs : jobs[j].kind = "kvCancelled" /\ jobs[j].pc # "done"

(* While the app's invoice stands and no link of it has failed, no         *)
(* completion goes to Shopify.                                             *)
InvoicesWait ==
  \A j \in DOMAIN jobs : jobs[j].kind \in {"kvCompleted", "kvInvoice"} =>
    /\ kvOrder \notin {"none", "open"}
    /\ kvOrder = "invoiced" /\ ~released => hasAppInvoice /\ jobs[j].pc \notin {"fulfil", "send", "record"}

InvoiceStands == kvOrder = "invoiced" /\ ~released => hasAppInvoice

StatusInv == StatusType /\ CreatesFirst /\ JobsTellTruth /\ CancellationsAreKept /\ InvoicesWait /\ InvoiceStands

(* What a step does to the jobs: job j goes to a place of pcs (no job does *)
(* when j is 0), and one waiting job of each of kinds is new.              *)
JobsMove(j, pcs, kinds) ==
  /\ jobs' \in Seq(JobRecord) /\ DOMAIN jobs \subseteq DOMAIN jobs'
  /\ \A i \in DOMAIN jobs \ {j} : jobs'[i] = jobs[i]
  /\ j \in DOMAIN jobs => jobs'[j].kind = jobs[j].kind /\ jobs'[j].pc \in pcs
  /\ \A i \in DOMAIN jobs' \ DOMAIN jobs : jobs'[i].kind \in kinds /\ jobs'[i].pc = "waiting"
  /\ \A k \in kinds : \E i \in DOMAIN jobs' \ DOMAIN jobs : jobs'[i].kind = k

USE DEF sides, records  \* abbreviations of the frames

LEMMA SetMoves ==
  ASSUME jobs \in Seq(JobRecord), NEW j \in DOMAIN jobs, NEW e \in JobRecord, e.kind = jobs[j].kind, NEW pcs, e.pc \in pcs,
         jobs' = [jobs EXCEPT ![j] = e]
  PROVE  JobsMove(j, pcs, {})
<1>1. jobs \in [1..Len(jobs) -> JobRecord] /\ Len(jobs) \in Nat /\ DOMAIN jobs = 1..Len(jobs) OBVIOUS
<1>2. jobs' \in [1..Len(jobs) -> JobRecord] BY <1>1
<1>3. jobs' \in Seq(JobRecord) /\ DOMAIN jobs' = DOMAIN jobs BY <1>1, <1>2
<1> QED BY <1>1, <1>3 DEF JobsMove

LEMMA AppendMoves ==
  ASSUME NEW s \in Seq(JobRecord), DOMAIN s = DOMAIN jobs, NEW j, j \in DOMAIN jobs \/ j = 0, NEW pcs, NEW kind \in Kinds,
         \A i \in DOMAIN jobs \ {j} : s[i] = jobs[i],
         j \in DOMAIN jobs => s[j].kind = jobs[j].kind /\ s[j].pc \in pcs,
         Attempts \in Nat, jobs' = Append(s, NewJob(kind))
  PROVE  JobsMove(j, pcs, {kind})
<1>1. NewJob(kind) \in JobRecord /\ NewJob(kind).kind = kind /\ NewJob(kind).pc = "waiting"
  BY DEF NewJob, JobRecord, JobPcs, Shops
<1> DEFINE e == NewJob(kind)
<1> HIDE DEF e
<1>2. /\ jobs' \in Seq(JobRecord) /\ Len(s) \in Nat /\ DOMAIN s = 1..Len(s) /\ DOMAIN jobs' = 1..(Len(s) + 1)
      /\ \A i \in DOMAIN s : jobs'[i] = s[i]
      /\ jobs'[Len(s) + 1] = e /\ e.kind = kind /\ e.pc = "waiting"
  BY <1>1 DEF e
<1>3. DOMAIN jobs' \ DOMAIN jobs = {Len(s) + 1} BY <1>2
<1> QED BY <1>2, <1>3 DEF JobsMove

LEMMA GotoMoves ==
  ASSUME StatusType, NEW j \in DOMAIN jobs, NEW place \in JobPcs, GoesTo(j, place)
  PROVE  JobsMove(j, {place}, {})
<1>1. jobs[j] \in JobRecord BY DEF StatusType
<1>2. [jobs[j] EXCEPT !.pc = place] \in JobRecord BY <1>1 DEF JobRecord
<1>3. [jobs[j] EXCEPT !.pc = place].kind = jobs[j].kind /\ [jobs[j] EXCEPT !.pc = place].pc = place BY <1>1 DEF JobRecord
<1>4. jobs' = [jobs EXCEPT ![j] = [jobs[j] EXCEPT !.pc = place]] BY DEF GoesTo, Set
<1>5. jobs \in Seq(JobRecord) BY DEF StatusType
<1> HIDE DEF JobRecord
<1> QED BY <1>2, <1>3, <1>4, <1>5, SetMoves

LEMMA TriedOnce ==
  ASSUME NEW e \in JobRecord
  PROVE  Tried(e) \in JobRecord /\ Tried(e).kind = e.kind /\ Tried(e).pc \in {"waiting", "failed"}
<1>1. CASE e.left > 1
  <2>1. e.left - 1 \in Int BY DEF JobRecord
  <2> QED BY <1>1, <2>1 DEF Tried, JobRecord, JobPcs
<1>2. CASE ~(e.left > 1) BY <1>2 DEF Tried, JobRecord, JobPcs, Over
<1> QED BY <1>1, <1>2

LEMMA RetryMoves ==
  ASSUME StatusType, NEW j \in DOMAIN jobs, Retry(j)
  PROVE  JobsMove(j, {"waiting", "failed"}, {})
<1>1. jobs \in Seq(JobRecord) /\ jobs[j] \in JobRecord BY DEF StatusType
<1> QED BY <1>1, TriedOnce, SetMoves DEF Retry

LEMMA AddedMoves ==
  ASSUME StatusType, Attempts \in Nat, NEW j \in DOMAIN jobs, NEW e \in JobRecord, e.kind = jobs[j].kind,
         NEW pcs, e.pc \in pcs, NEW kind \in Kinds, jobs' = Append([jobs EXCEPT ![j] = e], NewJob(kind))
  PROVE  JobsMove(j, pcs, {kind})
<1> DEFINE s == [jobs EXCEPT ![j] = e]
<1>1. jobs \in [1..Len(jobs) -> JobRecord] /\ Len(jobs) \in Nat BY DEF StatusType
<1>2. s \in [1..Len(jobs) -> JobRecord] BY <1>1
<1>3. s \in Seq(JobRecord) /\ DOMAIN s = DOMAIN jobs /\ s[j] = e /\ \A i \in DOMAIN jobs \ {j} : s[i] = jobs[i] BY <1>1, <1>2
<1>4. jobs' = Append(s, NewJob(kind)) OBVIOUS
<1> HIDE DEF s
<1> QED BY <1>3, <1>4, AppendMoves

LEMMA DoneAndMoves ==
  ASSUME StatusType, Attempts \in Nat, NEW j \in DOMAIN jobs, NEW place \in JobPcs, NEW kind \in Kinds, DoneAnd(j, place, kind)
  PROVE  JobsMove(j, {place}, {kind})
<1>1. jobs[j] \in JobRecord BY DEF StatusType
<1>2. [jobs[j] EXCEPT !.pc = place] \in JobRecord BY <1>1 DEF JobRecord
<1>3. [jobs[j] EXCEPT !.pc = place].kind = jobs[j].kind /\ [jobs[j] EXCEPT !.pc = place].pc = place BY <1>1 DEF JobRecord
<1>4. jobs' = Append([jobs EXCEPT ![j] = [jobs[j] EXCEPT !.pc = place]], NewJob(kind)) BY DEF DoneAnd, Set
<1> HIDE DEF JobRecord
<1> QED BY <1>2, <1>3, <1>4, AddedMoves

LEMMA RetryAndMoves ==
  ASSUME StatusType, Attempts \in Nat, NEW j \in DOMAIN jobs, NEW kind \in Kinds, RetryAnd(j, kind)
  PROVE  JobsMove(j, {"waiting", "failed"}, {kind})
<1>1. jobs[j] \in JobRecord BY DEF StatusType
<1> QED BY <1>1, TriedOnce, AddedMoves DEF RetryAnd

LEMMA NoticeMoves ==
  ASSUME StatusType, Attempts \in Nat, NEW kind \in Kinds, Notice(kind)
  PROVE  JobsMove(0, {}, {kind})
<1>1. jobs \in Seq(JobRecord) /\ 0 \notin DOMAIN jobs BY DEF StatusType
<1> QED BY <1>1, AppendMoves DEF Notice

LEMMA BothMove ==
  ASSUME StatusType, Attempts \in Nat, jobs' = jobs \o <<NewJob("kvCompleted"), NewJob("kvInvoice")>>
  PROVE  JobsMove(0, {}, {"kvCompleted", "kvInvoice"})
<1> DEFINE c == NewJob("kvCompleted")  i == NewJob("kvInvoice")
<1>1. /\ c \in JobRecord /\ c.kind = "kvCompleted" /\ c.pc = "waiting"
      /\ i \in JobRecord /\ i.kind = "kvInvoice" /\ i.pc = "waiting"
  BY DEF NewJob, JobRecord, JobPcs, Shops, Kinds
<1>2. jobs \in Seq(JobRecord) /\ jobs' = jobs \o <<c, i>> BY DEF StatusType
<1> HIDE DEF c, i
<1>3. /\ jobs' \in Seq(JobRecord) /\ Len(jobs) \in Nat /\ DOMAIN jobs = 1..Len(jobs) /\ DOMAIN jobs' = 1..(Len(jobs) + 2)
      /\ \A k \in DOMAIN jobs : jobs'[k] = jobs[k]
      /\ jobs'[Len(jobs) + 1] = c /\ jobs'[Len(jobs) + 2] = i
  BY <1>1, <1>2
<1>4. DOMAIN jobs' \ DOMAIN jobs = {Len(jobs) + 1, Len(jobs) + 2} BY <1>3
<1>5. \A k \in {"kvCompleted", "kvInvoice"} : \E n \in DOMAIN jobs' \ DOMAIN jobs : jobs'[n].kind = k BY <1>1, <1>3, <1>4
<1>6. \A n \in DOMAIN jobs' \ DOMAIN jobs : jobs'[n].kind \in {"kvCompleted", "kvInvoice"} /\ jobs'[n].pc = "waiting"
  BY <1>1, <1>3, <1>4
<1>7. 0 \notin DOMAIN jobs /\ DOMAIN jobs \subseteq DOMAIN jobs' BY <1>3
<1> QED BY <1>3, <1>5, <1>6, <1>7 DEF JobsMove
-----------------------------------------------------------------------------
LEMMA InitStatus == Attempts \in Nat /\ StatusInit => StatusInv
<1> SUFFICES ASSUME Attempts \in Nat, StatusInit PROVE StatusInv OBVIOUS
<1>1. NewJob("create") \in JobRecord BY DEF NewJob, JobRecord, Kinds, JobPcs, Shops
<1>2. jobs \in Seq(JobRecord) /\ DOMAIN jobs = {1} /\ jobs[1] = NewJob("create") BY <1>1 DEF StatusInit
<1>3. jobs[1].kind = "create" /\ jobs[1].pc = "waiting" BY <1>2 DEF NewJob
<1> QED BY <1>2, <1>3 DEF StatusInit, StatusInv, StatusType, CreatesFirst, JobsTellTruth, CancellationsAreKept,
                         InvoicesWait, InvoiceStands, Linked, Shops, Is, Asked

(* What every step of a job, of the app or of a person comes to: j, pcs    *)
(* and kinds are those of JobsMove.                                        *)
StaysCancelled ==
  /\ shop = "cancelled" => shop' = "cancelled"
  /\ kvOrder = "cancelled" => kvOrder' = "cancelled"
  /\ mapping = "cancelled" => mapping' = "cancelled"
  /\ Linked => Linked'
  /\ Asked => Asked'
  /\ released => released'

CreateGoes(j, pcs) ==
  IF j \in DOMAIN jobs /\ jobs[j].kind = "create"
  THEN /\ kvOrder' = "none" \/ pcs \cap {"waiting", "claim", "prepare", "send"} = {}
       /\ Linked' => pcs = {"done"}
  ELSE (kvOrder = "none" => kvOrder' = "none" \/ Linked) /\ (Linked' => Linked)

NewTell(kinds) ==
  /\ kinds \subseteq Kinds \ {"create"}
  /\ "cancel" \in kinds => shop' = "cancelled"
  /\ "kvCancelled" \in kinds => kvOrder' = "cancelled"
  /\ kinds \cap {"kvCompleted", "kvInvoice"} # {} => kvOrder' \notin {"none", "open"}

JobGoes(j, pcs) ==
  j \in DOMAIN jobs /\ jobs[j].kind # "create" =>
    /\ pcs \subseteq {"waiting"} \cup Over \/ Linked'
    /\ jobs[j].kind = "cancel" => ("record" \in pcs => kvOrder' = "cancelled") /\ ("done" \in pcs => mapping' = "cancelled")
    /\ jobs[j].kind = "kvCancelled" => ("record" \in pcs => Asked') /\ ("done" \in pcs => mapping' = "cancelled")
    /\ jobs[j].kind \in {"kvCompleted", "kvInvoice"} /\ kvOrder' = "invoiced" /\ ~released' => pcs \cap {"fulfil", "send", "record"} = {}

CancelsOnce(kinds) ==
  /\ mapping' = "cancelled" /\ mapping # "cancelled" => Asked' /\ kvOrder' = "cancelled"
  /\ shop' = "cancelled" /\ shop # "cancelled" => "cancel" \in kinds
  /\ kvOrder' = "cancelled" /\ kvOrder # "cancelled" => "kvCancelled" \in kinds

OrderGoes ==
  /\ kvOrder' \in {"none", "open"} => kvOrder \in {"none", "open"}
  /\ kvOrder' = "invoiced" => kvOrder \in {"open", "invoiced"}
  /\ kvOrder' = "invoiced" /\ ~released' => hasAppInvoice'

StepGoes(j, pcs, kinds) ==
  StaysCancelled /\ CreateGoes(j, pcs) /\ NewTell(kinds) /\ JobGoes(j, pcs) /\ CancelsOnce(kinds) /\ OrderGoes

StatusesType ==
  /\ shop \in Shops
  /\ kvOrder \in {"none", "open", "invoiced", "completed", "cancelled"}
  /\ mapping \in {"none", "pending_create", "creating", "created", "failed", "completed", "cancelled"}
  /\ shopJob \in {"none", "running", "failed"}
  /\ invoice \in {"none", "claimed", "linked"} /\ released \in BOOLEAN

LEMMA StepKeeps ==
  ASSUME StatusInv, NEW j, NEW pcs, NEW kinds, JobsMove(j, pcs, kinds), StepGoes(j, pcs, kinds), StatusesType'
  PROVE  StatusInv'
<1>1. StatusType' BY DEF JobsMove, StatusesType, StatusType
<1>2. CreatesFirst'
  <2>1. /\ 1 \in DOMAIN jobs' /\ jobs'[1].kind = "create"
        /\ \A i \in DOMAIN jobs' : jobs'[i].kind = "create" => i = 1
    BY DEF StatusInv, CreatesFirst, JobsMove, StepGoes, NewTell
  <2>2. /\ jobs'[1].pc \in {"waiting", "claim", "prepare", "send"} => kvOrder' = "none"
        /\ Linked' => jobs'[1].pc = "done"
    <3>1. CASE j = 1 BY <3>1 DEF StatusInv, CreatesFirst, JobsMove, StepGoes, CreateGoes
    <3>2. CASE j # 1
      <4>1. jobs'[1] = jobs[1] BY <3>2 DEF StatusInv, CreatesFirst, JobsMove
      <4> QED BY <3>2, <4>1 DEF StatusInv, CreatesFirst, StepGoes, CreateGoes
    <3> QED BY <3>1, <3>2
  <2>3. ASSUME NEW i \in DOMAIN jobs', jobs'[i].kind # "create", jobs'[i].pc \notin {"waiting"} \cup Over
        PROVE  Linked'
    <3>1. i \in DOMAIN jobs BY <2>3 DEF JobsMove
    <3>2. CASE i = j BY <2>3, <3>1, <3>2 DEF JobsMove, StepGoes, JobGoes
    <3>3. CASE i # j BY <2>3, <3>1, <3>3 DEF JobsMove, StatusInv, CreatesFirst, StepGoes, StaysCancelled
    <3> QED BY <3>2, <3>3
  <2> QED BY <2>1, <2>2, <2>3 DEF CreatesFirst
<1>3. JobsTellTruth'
  <2> SUFFICES ASSUME NEW i \in DOMAIN jobs'
               PROVE  /\ jobs'[i].kind = "cancel" => shop' = "cancelled" /\ (jobs'[i].pc = "record" => kvOrder' = "cancelled")
                      /\ jobs'[i].kind = "kvCancelled" => kvOrder' = "cancelled" /\ (jobs'[i].pc = "record" => Asked')
    BY DEF JobsTellTruth, Is
  <2>1. CASE i \notin DOMAIN jobs BY <2>1 DEF JobsMove, StepGoes, NewTell
  <2>2. CASE i \in DOMAIN jobs /\ i = j
    BY <2>2 DEF JobsMove, StepGoes, JobGoes, StaysCancelled, StatusInv, JobsTellTruth
  <2>3. CASE i \in DOMAIN jobs /\ i # j
    BY <2>3 DEF JobsMove, StepGoes, StaysCancelled, StatusInv, JobsTellTruth, Is
  <2> QED BY <2>1, <2>2, <2>3
<1>4. CancellationsAreKept'
  <2>1. mapping' = "cancelled" => Asked' /\ kvOrder' = "cancelled"
    BY DEF StepGoes, CancelsOnce, StaysCancelled, StatusInv, CancellationsAreKept
  <2>2. ASSUME NEW kind \in {"cancel", "kvCancelled"}, mapping' # "cancelled",
               kind \in kinds \/ \E i \in DOMAIN jobs : jobs[i].kind = kind /\ jobs[i].pc # "done"
        PROVE  \E i \in DOMAIN jobs' : jobs'[i].kind = kind /\ jobs'[i].pc # "done"
    <3>1. CASE kind \in kinds BY <3>1 DEF JobsMove
    <3>2. ASSUME NEW i \in DOMAIN jobs, jobs[i].kind = kind, jobs[i].pc # "done"
          PROVE  i \in DOMAIN jobs' /\ jobs'[i].kind = kind /\ jobs'[i].pc # "done"
      <4>1. CASE i = j BY <2>2, <3>2, <4>1 DEF JobsMove, StepGoes, JobGoes
      <4>2. CASE i # j BY <3>2, <4>2 DEF JobsMove
      <4> QED BY <4>1, <4>2
    <3> QED BY <2>2, <3>1, <3>2
  <2>3. shop' = "cancelled" /\ mapping' # "cancelled" =>
          "cancel" \in kinds \/ \E i \in DOMAIN jobs : jobs[i].kind = "cancel" /\ jobs[i].pc # "done"
    BY DEF StepGoes, CancelsOnce, StaysCancelled, StatusInv, CancellationsAreKept
  <2>4. kvOrder' = "cancelled" /\ mapping' # "cancelled" =>
          "kvCancelled" \in kinds \/ \E i \in DOMAIN jobs : jobs[i].kind = "kvCancelled" /\ jobs[i].pc # "done"
    BY DEF StepGoes, CancelsOnce, StaysCancelled, StatusInv, CancellationsAreKept
  <2> QED BY <2>1, <2>2, <2>3, <2>4 DEF CancellationsAreKept
<1>5. InvoiceStands' BY DEF StepGoes, OrderGoes, InvoiceStands
<1>6. InvoicesWait'
  <2> SUFFICES ASSUME NEW i \in DOMAIN jobs', jobs'[i].kind \in {"kvCompleted", "kvInvoice"}
               PROVE  /\ kvOrder' \notin {"none", "open"}
                      /\ kvOrder' = "invoiced" /\ ~released' => hasAppInvoice' /\ jobs'[i].pc \notin {"fulfil", "send", "record"}
    BY DEF InvoicesWait
  <2>1. CASE i \notin DOMAIN jobs
    <3>1. jobs'[i].kind \in kinds /\ jobs'[i].pc = "waiting" BY <2>1 DEF JobsMove
    <3> QED BY <3>1, <1>5 DEF StepGoes, NewTell, InvoiceStands
  <2>2. CASE i \in DOMAIN jobs
    <3>1. jobs[i].kind \in {"kvCompleted", "kvInvoice"} BY <2>2 DEF JobsMove
    <3>2. kvOrder' \notin {"none", "open"} BY <2>2, <3>1 DEF StatusInv, InvoicesWait, StepGoes, OrderGoes
    <3>3. kvOrder' = "invoiced" /\ ~released' => kvOrder = "invoiced" /\ ~released
      BY <2>2, <3>1 DEF StatusInv, InvoicesWait, StepGoes, OrderGoes, StaysCancelled
    <3>4. kvOrder' = "invoiced" /\ ~released' => jobs'[i].pc \notin {"fulfil", "send", "record"}
      <4>1. CASE i = j BY <2>2, <3>1, <4>1 DEF JobsMove, StepGoes, JobGoes
      <4>2. CASE i # j BY <2>2, <3>1, <3>3, <4>2 DEF JobsMove, StatusInv, InvoicesWait
      <4> QED BY <4>1, <4>2
    <3> QED BY <3>2, <3>4, <1>5 DEF InvoiceStands
  <2> QED BY <2>1, <2>2
<1> QED BY <1>1, <1>2, <1>3, <1>4, <1>5, <1>6 DEF StatusInv

LEMMA QuietKeeps ==
  ASSUME StatusInv, NEW j, NEW pcs, JobsMove(j, pcs, {}), UNCHANGED <<sides, invoice, released>>,
         CreateGoes(j, pcs), JobGoes(j, pcs)
  PROVE  StatusInv'
<1>1. StatusesType' BY DEF StatusInv, StatusType, StatusesType
<1>2. StaysCancelled /\ NewTell({}) /\ CancelsOnce({}) BY DEF StaysCancelled, NewTell, CancelsOnce, Linked, Asked
<1>3. OrderGoes
  <2>1. kvOrder' = "invoiced" /\ ~released' => hasAppInvoice' BY DEF StatusInv, InvoiceStands, hasAppInvoice
  <2> QED BY <2>1 DEF OrderGoes
<1> QED BY <1>1, <1>2, <1>3, StepKeeps DEF StepGoes

LEMMA CreateKeeps ==
  ASSUME StatusInv, Attempts \in Nat, NEW j \in DOMAIN jobs, Create(j)
  PROVE  StatusInv'
<1> DEFINE Early == {"waiting", "claim", "prepare", "send"}
<1>1. j = 1 /\ jobs[j].kind = "create" /\ jobs[j].pc \in {"waiting", "claim", "prepare", "send", "record"}
  BY DEF StatusInv, CreatesFirst, Create, At, CreateReads, CreateClaims, CreateFails,
         CreateMarks, CreateSends, CreateRecords
<1>2. ~Linked /\ mapping # "cancelled" BY <1>1 DEF StatusInv, CreatesFirst, Linked
<1>3. StatusType /\ (jobs[j].pc # "record" => kvOrder = "none") BY <1>1 DEF StatusInv, CreatesFirst
<1>4. ASSUME NEW pcs, JobsMove(j, pcs, {}), UNCHANGED <<shop, shopJob, invoice, released>>,
             kvOrder' = kvOrder \/ (kvOrder = "none" /\ kvOrder' = "open"),
             kvOrder' = "none" \/ pcs \cap Early = {},
             mapping' \in {"none", "pending_create", "creating", "failed"} \/ (mapping' = "created" /\ pcs = {"done"}) \/ mapping' = mapping
      PROVE  StatusInv'
  <2>1. StatusesType' BY <1>3, <1>4 DEF StatusType, StatusesType, Shops
  <2>2. StaysCancelled /\ NewTell({}) /\ CancelsOnce({})
    BY <1>2, <1>4 DEF StaysCancelled, NewTell, CancelsOnce, Asked, Linked
  <2>3. OrderGoes
    <3>1. kvOrder = "invoiced" /\ ~released => hasAppInvoice BY DEF StatusInv, InvoiceStands
    <3> QED BY <1>4, <3>1 DEF OrderGoes, hasAppInvoice
  <2>4. CreateGoes(j, pcs) BY <1>1, <1>2, <1>4 DEF CreateGoes, Linked
  <2>5. JobGoes(j, pcs) BY <1>1 DEF JobGoes
  <2> QED BY <1>4, <2>1, <2>2, <2>3, <2>4, <2>5, StepKeeps DEF StepGoes
<1>5. CASE CreateReads(j)
  <2>1. jobs[j] \in JobRecord /\ jobs \in Seq(JobRecord) BY <1>3 DEF StatusType
  <2> DEFINE e == [jobs[j] EXCEPT !.pc = "claim", !.shop = shop]
  <2>2. e \in JobRecord /\ e.kind = jobs[j].kind /\ e.pc = "claim" BY <1>3, <2>1 DEF JobRecord, JobPcs, StatusType
  <2>3. jobs' = [jobs EXCEPT ![j] = e] BY <1>5, <2>1 DEF CreateReads, JobRecord
  <2> HIDE DEF e
  <2>4. JobsMove(j, {"claim"}, {}) BY <2>1, <2>2, <2>3, SetMoves
  <2>5. kvOrder' = "none" \/ {"claim"} \cap Early = {} BY <1>3, <1>5 DEF CreateReads, At
  <2> QED BY <1>4, <1>5, <2>4, <2>5 DEF CreateReads
<1>6. CASE CreateClaims(j)
  <2>1. kvOrder' = "none" BY <1>3, <1>6 DEF CreateClaims, At
  <2>2. CASE Done(j) /\ UNCHANGED mapping
    <3>1. JobsMove(j, {"done"}, {}) BY <1>3, <2>2, GotoMoves DEF Done, JobPcs, Over
    <3>2. kvOrder' = "none" \/ {"done"} \cap Early = {} BY <2>1
    <3> QED BY <1>4, <1>6, <2>2, <3>1, <3>2 DEF CreateClaims
  <2>3. CASE GoesTo(j, "prepare") /\ mapping' = "pending_create"
    <3>1. JobsMove(j, {"prepare"}, {}) BY <1>3, <2>3, GotoMoves DEF JobPcs
    <3>2. kvOrder' = "none" \/ {"prepare"} \cap Early = {} BY <2>1
    <3> QED BY <1>4, <1>6, <2>3, <3>1, <3>2 DEF CreateClaims
  <2> QED BY <1>6, <2>2, <2>3 DEF CreateClaims
<1>7. CASE CreateFails(j)
  <2>1. kvOrder' = "none" \/ {"waiting", "failed"} \cap Early = {} BY <1>3, <1>7 DEF CreateFails, At
  <2>2. JobsMove(j, {"waiting", "failed"}, {}) BY <1>3, <1>7, RetryMoves DEF CreateFails
  <2> QED BY <1>4, <1>7, <2>1, <2>2 DEF CreateFails
<1>8. CASE CreateMarks(j)
  <2>1. kvOrder' = "none" \/ {"send"} \cap Early = {} BY <1>3, <1>8 DEF CreateMarks, At
  <2>2. JobsMove(j, {"send"}, {}) BY <1>3, <1>8, GotoMoves DEF CreateMarks, JobPcs
  <2> QED BY <1>4, <1>8, <2>1, <2>2 DEF CreateMarks
<1>9. CASE CreateSends(j)
  <2>1. kvOrder = "none" BY <1>3, <1>9 DEF CreateSends, At
  <2>2. JobsMove(j, {"record"}, {}) BY <1>3, <1>9, GotoMoves DEF CreateSends, JobPcs
  <2> QED BY <1>4, <1>9, <2>1, <2>2 DEF CreateSends
<1>10. CASE CreateRecords(j)
  <2>1. JobsMove(j, {"done"}, {}) BY <1>3, <1>10, GotoMoves DEF CreateRecords, Done, JobPcs, Over
  <2>2. kvOrder' = "none" \/ {"done"} \cap Early = {} OBVIOUS
  <2> QED BY <1>4, <1>10, <2>1, <2>2 DEF CreateRecords
<1> QED BY <1>5, <1>6, <1>7, <1>8, <1>9, <1>10 DEF Create

LEMMA CancelKeeps ==
  ASSUME StatusInv, Attempts \in Nat, NEW j \in DOMAIN jobs, Cancel(j)
  PROVE  StatusInv'
<1>1. StatusType BY DEF StatusInv
<1>2. jobs[j].kind = "cancel"
  BY DEF Cancel, At, CancelReads, CancelLooks, CancelDeletes, CancelRecords
<1>3. shop = "cancelled" /\ (jobs[j].pc = "record" => kvOrder = "cancelled") BY <1>2 DEF StatusInv, JobsTellTruth, Is
<1>4. jobs[j].pc \in {"look", "delete", "record"} => Linked BY <1>2 DEF StatusInv, CreatesFirst, Over
<1>5. CASE CancelReads(j)
  <2>1. ASSUME NEW pcs, JobsMove(j, pcs, {}), pcs \subseteq {"waiting"} \cup Over \/ Linked, "done" \notin pcs,
               "record" \in pcs => kvOrder = "cancelled"
        PROVE  StatusInv'
    <3>1. UNCHANGED <<sides, invoice, released>> BY <1>5 DEF CancelReads
    <3>2. CreateGoes(j, pcs) /\ JobGoes(j, pcs)
      BY <1>2, <2>1, <3>1 DEF CreateGoes, JobGoes, Linked
    <3> QED BY <2>1, <3>1, <3>2, QuietKeeps
  <2>2. CASE Linked /\ mapping = "cancelled"
    <3>1. JobsMove(j, {"record"}, {}) BY <1>1, <1>5, <2>2, GotoMoves DEF CancelReads, JobPcs
    <3>2. kvOrder = "cancelled" BY <2>2 DEF StatusInv, CancellationsAreKept
    <3> QED BY <2>1, <2>2, <3>1, <3>2
  <2>3. CASE Linked /\ mapping # "cancelled"
    <3>1. JobsMove(j, {"look"}, {}) BY <1>1, <1>5, <2>3, GotoMoves DEF CancelReads, JobPcs
    <3> QED BY <2>1, <2>3, <3>1
  <2>4. CASE Retry(j)
    <3>1. JobsMove(j, {"waiting", "failed"}, {}) BY <1>1, <2>4, RetryMoves
    <3> QED BY <2>1, <3>1 DEF Over
  <2>5. CASE Review(j)
    <3>1. JobsMove(j, {"review"}, {}) BY <1>1, <2>5, GotoMoves DEF Review, JobPcs, Over
    <3> QED BY <2>1, <3>1 DEF Over
  <2> QED BY <1>5, <2>2, <2>3, <2>4, <2>5 DEF CancelReads
<1>6. CASE CancelLooks(j)
  <2>1. UNCHANGED <<sides, invoice, released>> /\ Linked BY <1>4, <1>6 DEF CancelLooks, At
  <2>2. ASSUME NEW pcs, JobsMove(j, pcs, {}), "done" \notin pcs, "record" \in pcs => kvOrder = "cancelled" PROVE StatusInv'
    <3>1. CreateGoes(j, pcs) /\ JobGoes(j, pcs) BY <1>2, <2>1, <2>2 DEF CreateGoes, JobGoes, Linked
    <3> QED BY <2>1, <2>2, <3>1, QuietKeeps
  <2>3. CASE kvOrder = "cancelled"
    <3>1. JobsMove(j, {"record"}, {}) BY <1>1, <1>6, <2>3, GotoMoves DEF CancelLooks, JobPcs
    <3> QED BY <2>2, <2>3, <3>1
  <2>4. CASE kvOrder # "cancelled"
    <3>1. JobsMove(j, {"delete"}, {}) BY <1>1, <1>6, <2>4, GotoMoves DEF CancelLooks, JobPcs
    <3> QED BY <2>2, <3>1
  <2> QED BY <2>3, <2>4
<1>7. CASE CancelDeletes(j)
  <2>1. UNCHANGED <<shop, shopJob, records>> /\ Linked BY <1>4, <1>7 DEF CancelDeletes, At
  <2>2. ASSUME kvOrder' = "cancelled", NEW pcs, JobsMove(j, pcs, {"kvCancelled"}), "done" \notin pcs PROVE StatusInv'
    <3>1. StatusesType' BY <1>1, <2>1, <2>2 DEF StatusType, StatusesType
    <3>2. StaysCancelled /\ CreateGoes(j, pcs) BY <1>2, <2>1, <2>2 DEF StaysCancelled, CreateGoes, Linked, Asked
    <3>3. NewTell({"kvCancelled"}) /\ CancelsOnce({"kvCancelled"}) /\ OrderGoes
      BY <1>3, <2>1, <2>2 DEF NewTell, CancelsOnce, OrderGoes, Kinds, Asked
    <3>4. JobGoes(j, pcs) BY <1>2, <2>1, <2>2 DEF JobGoes, Linked
    <3> QED BY <2>2, <3>1, <3>2, <3>3, <3>4, StepKeeps DEF StepGoes
  <2>3. CASE kvOrder' = "cancelled" /\ DoneAnd(j, "record", "kvCancelled")
    <3>1. JobsMove(j, {"record"}, {"kvCancelled"}) BY <1>1, <2>3, DoneAndMoves DEF JobPcs, Kinds
    <3> QED BY <2>2, <2>3, <3>1
  <2>4. CASE kvOrder' = "cancelled" /\ RetryAnd(j, "kvCancelled")
    <3>1. JobsMove(j, {"waiting", "failed"}, {"kvCancelled"}) BY <1>1, <2>4, RetryAndMoves DEF Kinds
    <3> QED BY <2>2, <2>4, <3>1
  <2>5. CASE Retry(j) /\ UNCHANGED kvOrder
    <3>1. JobsMove(j, {"waiting", "failed"}, {}) BY <1>1, <2>5, RetryMoves
    <3>2. CreateGoes(j, {"waiting", "failed"}) /\ JobGoes(j, {"waiting", "failed"})
      BY <1>2, <2>1, <2>5 DEF CreateGoes, JobGoes, Linked
    <3> QED BY <2>1, <2>5, <3>1, <3>2, QuietKeeps
  <2> QED BY <1>7, <2>3, <2>4, <2>5 DEF CancelDeletes
<1>8. CASE CancelRecords(j)
  <2>1. /\ UNCHANGED <<shop, shopJob, kvOrder, invoice, released>> /\ mapping' = "cancelled" /\ Linked
        /\ shop = "cancelled" /\ kvOrder = "cancelled"
    BY <1>3, <1>4, <1>8 DEF CancelRecords, At
  <2>2. JobsMove(j, {"done"}, {}) BY <1>1, <1>8, GotoMoves DEF CancelRecords, Done, JobPcs, Over
  <2>3. StatusesType' BY <1>1, <2>1 DEF StatusType, StatusesType
  <2>4. StaysCancelled /\ CreateGoes(j, {"done"}) BY <1>2, <2>1 DEF StaysCancelled, CreateGoes, Linked, Asked
  <2>5. NewTell({}) /\ CancelsOnce({}) /\ OrderGoes BY <2>1 DEF NewTell, CancelsOnce, OrderGoes, Asked, hasAppInvoice
  <2>6. JobGoes(j, {"done"}) BY <1>2, <2>1 DEF JobGoes, Linked
  <2> QED BY <2>2, <2>3, <2>4, <2>5, <2>6, StepKeeps DEF StepGoes
<1> QED BY <1>5, <1>6, <1>7, <1>8 DEF Cancel

LEMMA CancelledKeeps ==
  ASSUME StatusInv, Attempts \in Nat, NEW j \in DOMAIN jobs, jobs[j].kind = "kvCancelled", SyncStatus(j)
  PROVE  StatusInv'
<1>1. StatusType BY DEF StatusInv
<1>2. kvOrder = "cancelled" /\ (jobs[j].pc = "record" => Asked) BY DEF StatusInv, JobsTellTruth, Is
<1>3. jobs[j].pc \in {"cancel", "send", "record"} => Linked BY DEF StatusInv, CreatesFirst, Over
<1>4. ASSUME UNCHANGED <<sides, invoice, released>>,
             NEW pcs, JobsMove(j, pcs, {}), pcs \subseteq {"waiting"} \cup Over \/ Linked,
             "record" \in pcs => Asked, "done" \in pcs => mapping = "cancelled"
      PROVE  StatusInv'
  <2>1. CreateGoes(j, pcs) /\ JobGoes(j, pcs) BY <1>4 DEF CreateGoes, JobGoes, Linked, Asked
  <2> QED BY <1>4, <2>1, QuietKeeps
<1>5. CASE StatusUnmapped(j)
  <2>1. JobsMove(j, {"review"}, {}) BY <1>1, <1>5, GotoMoves DEF StatusUnmapped, Review, JobPcs, Over
  <2>2. UNCHANGED <<sides, invoice, released>> BY <1>5 DEF StatusUnmapped
  <2> QED BY <1>4, <2>1, <2>2 DEF Over
<1>6. CASE CancelledReads(j)
  <2>1. UNCHANGED <<sides, invoice, released>> /\ Linked BY <1>6 DEF CancelledReads
  <2>2. CASE mapping = "cancelled"
    <3>1. JobsMove(j, {"done"}, {}) BY <1>1, <1>6, <2>2, GotoMoves DEF CancelledReads, Done, JobPcs, Over
    <3> QED BY <1>4, <2>1, <2>2, <3>1
  <2>3. CASE mapping # "cancelled"
    <3>1. JobsMove(j, {"cancel"}, {}) BY <1>1, <1>6, <2>3, GotoMoves DEF CancelledReads, JobPcs
    <3> QED BY <1>4, <2>1, <3>1
  <2> QED BY <2>2, <2>3
<1>7. CASE ShopifyLooks(j)
  <2>1. UNCHANGED <<sides, invoice, released>> /\ Linked BY <1>3, <1>7 DEF ShopifyLooks, At
  <2>2. CASE shop = "cancelled"
    <3>1. JobsMove(j, {"record"}, {}) BY <1>1, <1>7, <2>2, GotoMoves DEF ShopifyLooks, JobPcs
    <3> QED BY <1>4, <2>1, <2>2, <3>1 DEF Asked
  <2>3. CASE shop # "cancelled"
    <3>1. JobsMove(j, {"send"}, {}) BY <1>1, <1>7, <2>3, GotoMoves DEF ShopifyLooks, JobPcs
    <3> QED BY <1>4, <2>1, <3>1
  <2> QED BY <2>2, <2>3
<1>8. CASE ShopifyCancelled(j)
  <2>1. UNCHANGED <<shop, kvOrder, records>> /\ Linked BY <1>3, <1>8 DEF ShopifyCancelled, At
  <2>2. ASSUME shopJob' = "running", NEW pcs, JobsMove(j, pcs, {}), "done" \notin pcs PROVE StatusInv'
    <3>1. StatusesType' BY <1>1, <2>1, <2>2 DEF StatusType, StatusesType
    <3>2. StaysCancelled /\ CreateGoes(j, pcs) BY <2>1, <2>2 DEF StaysCancelled, CreateGoes, Linked, Asked
    <3>3. NewTell({}) /\ CancelsOnce({}) /\ OrderGoes BY <1>2, <2>1, <2>2 DEF NewTell, CancelsOnce, OrderGoes
    <3>4. JobGoes(j, pcs) BY <2>1, <2>2 DEF JobGoes, Linked, Asked
    <3> QED BY <2>2, <3>1, <3>2, <3>3, <3>4, StepKeeps DEF StepGoes
  <2>3. CASE shopJob' = "running" /\ GoesTo(j, "record")
    <3>1. JobsMove(j, {"record"}, {}) BY <1>1, <2>3, GotoMoves DEF JobPcs
    <3> QED BY <2>2, <2>3, <3>1
  <2>4. CASE shopJob' = "running" /\ Retry(j)
    <3>1. JobsMove(j, {"waiting", "failed"}, {}) BY <1>1, <2>4, RetryMoves
    <3> QED BY <2>2, <2>4, <3>1
  <2>5. CASE Retry(j) /\ UNCHANGED shopJob
    <3>1. JobsMove(j, {"waiting", "failed"}, {}) BY <1>1, <2>5, RetryMoves
    <3> QED BY <1>4, <2>1, <2>5, <3>1
  <2> QED BY <1>8, <2>3, <2>4, <2>5 DEF ShopifyCancelled
<1>9. CASE CancelledRecords(j)
  <2>1. /\ UNCHANGED <<shop, shopJob, kvOrder, invoice, released>> /\ mapping' = "cancelled" /\ Linked
        /\ Asked /\ kvOrder = "cancelled"
    BY <1>2, <1>3, <1>9 DEF CancelledRecords, At
  <2>2. JobsMove(j, {"done"}, {}) BY <1>1, <1>9, GotoMoves DEF CancelledRecords, Done, JobPcs, Over
  <2>3. StatusesType' BY <1>1, <2>1 DEF StatusType, StatusesType
  <2>4. StaysCancelled /\ CreateGoes(j, {"done"}) BY <2>1 DEF StaysCancelled, CreateGoes, Linked, Asked
  <2>5. NewTell({}) /\ CancelsOnce({}) /\ OrderGoes BY <2>1 DEF NewTell, CancelsOnce, OrderGoes, Asked, hasAppInvoice
  <2>6. JobGoes(j, {"done"}) BY <2>1 DEF JobGoes, Linked
  <2> QED BY <2>2, <2>3, <2>4, <2>5, <2>6, StepKeeps DEF StepGoes
<1> QED BY <1>5, <1>6, <1>7, <1>8, <1>9
  DEF SyncStatus, At, CompletedReads, InvoiceReads, FulfilLooks, Fulfil, CompletedRecords

LEMMA CompletedKeeps ==
  ASSUME StatusInv, Attempts \in Nat, NEW j \in DOMAIN jobs, jobs[j].kind \in {"kvCompleted", "kvInvoice"}, SyncStatus(j)
  PROVE  StatusInv'
<1>1. StatusType BY DEF StatusInv
<1>2. kvOrder \notin {"none", "open"} /\ (kvOrder = "invoiced" /\ ~released => hasAppInvoice /\ jobs[j].pc \notin {"fulfil", "send", "record"})
  BY DEF StatusInv, InvoicesWait
<1>3. jobs[j].pc \in {"fulfil", "send", "record"} => Linked BY DEF StatusInv, CreatesFirst, Over
<1>4. ASSUME UNCHANGED <<sides, invoice, released>>,
             NEW pcs, JobsMove(j, pcs, {}), pcs \subseteq {"waiting"} \cup Over \/ Linked,
             kvOrder # "invoiced" \/ released \/ pcs \cap {"fulfil", "send", "record"} = {}
      PROVE  StatusInv'
  <2>1. CreateGoes(j, pcs) /\ JobGoes(j, pcs) BY <1>4 DEF CreateGoes, JobGoes, Linked, Asked
  <2> QED BY <1>4, <2>1, QuietKeeps
<1>5. CASE StatusUnmapped(j)
  <2>1. JobsMove(j, {"review"}, {}) BY <1>1, <1>5, GotoMoves DEF StatusUnmapped, Review, JobPcs, Over
  <2>2. UNCHANGED <<sides, invoice, released>> BY <1>5 DEF StatusUnmapped
  <2>3. {"review"} \subseteq {"waiting"} \cup Over /\ {"review"} \cap {"fulfil", "send", "record"} = {} BY DEF Over
  <2> QED BY <1>4, <2>1, <2>2, <2>3
<1>6. CASE CompletedReads(j) \/ InvoiceReads(j)
  <2>1. UNCHANGED <<sides, invoice, released>> /\ Linked
    BY <1>6 DEF CompletedReads, InvoiceReads
  <2>2. CASE Done(j)
    <3>1. JobsMove(j, {"done"}, {}) BY <1>1, <2>2, GotoMoves DEF Done, JobPcs, Over
    <3>2. {"done"} \cap {"fulfil", "send", "record"} = {} OBVIOUS
    <3> QED BY <1>4, <2>1, <3>1, <3>2
  <2>3. CASE GoesTo(j, "fulfil") /\ ~hasAppInvoice
    <3>1. JobsMove(j, {"fulfil"}, {}) BY <1>1, <2>3, GotoMoves DEF JobPcs
    <3> QED BY <1>2, <1>4, <2>1, <2>3, <3>1
  <2> QED BY <1>6, <2>2, <2>3 DEF CompletedReads, InvoiceReads
<1>7. CASE FulfilLooks(j)
  <2>1. UNCHANGED <<sides, invoice, released>> /\ Linked /\ (kvOrder # "invoiced" \/ released)
    BY <1>2, <1>3, <1>7 DEF FulfilLooks, At
  <2>2. CASE shop = "cancelled"
    <3>1. JobsMove(j, {"waiting", "failed"}, {}) BY <1>1, <1>7, <2>2, RetryMoves DEF FulfilLooks
    <3> QED BY <1>4, <2>1, <3>1
  <2>3. CASE shop = "open"
    <3>1. JobsMove(j, {"send"}, {}) BY <1>1, <1>7, <2>3, GotoMoves DEF FulfilLooks, JobPcs
    <3> QED BY <1>4, <2>1, <3>1
  <2>4. CASE shop \notin {"cancelled", "open"}
    <3>1. JobsMove(j, {"record"}, {}) BY <1>1, <1>7, <2>4, GotoMoves DEF FulfilLooks, JobPcs
    <3> QED BY <1>4, <2>1, <3>1
  <2> QED BY <2>2, <2>3, <2>4
<1>8. CASE Fulfil(j)
  <2>1. UNCHANGED <<shopJob, kvOrder, records>> /\ Linked /\ (kvOrder # "invoiced" \/ released)
    BY <1>2, <1>3, <1>8 DEF Fulfil, At
  <2>2. ASSUME shop = "open", shop' = "fulfilled", NEW pcs, JobsMove(j, pcs, {}) PROVE StatusInv'
    <3>1. StatusesType' BY <1>1, <2>1, <2>2 DEF StatusType, StatusesType, Shops
    <3>2. StaysCancelled /\ CreateGoes(j, pcs) BY <2>1, <2>2 DEF StaysCancelled, CreateGoes, Linked, Asked
    <3>3. NewTell({}) /\ CancelsOnce({}) /\ OrderGoes BY <1>2, <2>1, <2>2 DEF NewTell, CancelsOnce, OrderGoes, Asked, hasAppInvoice
    <3>4. JobGoes(j, pcs) BY <2>1, <2>2 DEF JobGoes, Linked
    <3> QED BY <2>2, <3>1, <3>2, <3>3, <3>4, StepKeeps DEF StepGoes
  <2>3. CASE shop = "open" /\ shop' = "fulfilled" /\ GoesTo(j, "record")
    <3>1. JobsMove(j, {"record"}, {}) BY <1>1, <2>3, GotoMoves DEF JobPcs
    <3> QED BY <2>2, <2>3, <3>1
  <2>4. CASE shop = "open" /\ shop' = "fulfilled" /\ Retry(j)
    <3>1. JobsMove(j, {"waiting", "failed"}, {}) BY <1>1, <2>4, RetryMoves
    <3> QED BY <2>2, <2>4, <3>1
  <2>5. CASE Retry(j) /\ UNCHANGED shop
    <3>1. JobsMove(j, {"waiting", "failed"}, {}) BY <1>1, <2>5, RetryMoves
    <3> QED BY <1>4, <2>1, <2>5, <3>1
  <2> QED BY <1>8, <2>3, <2>4, <2>5 DEF Fulfil
<1>9. CASE CompletedRecords(j)
  <2>1. /\ UNCHANGED <<shop, shopJob, kvOrder, invoice, released>> /\ Linked /\ (kvOrder # "invoiced" \/ released)
        /\ mapping' = mapping \/ (mapping' = "completed" /\ mapping # "cancelled")
    BY <1>2, <1>3, <1>9 DEF CompletedRecords, At
  <2>2. JobsMove(j, {"done"}, {}) BY <1>1, <1>9, GotoMoves DEF CompletedRecords, Done, JobPcs, Over
  <2>3. StatusesType' BY <1>1, <2>1 DEF StatusType, StatusesType
  <2>4. StaysCancelled /\ CreateGoes(j, {"done"}) BY <2>1 DEF StaysCancelled, CreateGoes, Linked, Asked
  <2>5. NewTell({}) /\ CancelsOnce({}) /\ OrderGoes BY <2>1 DEF NewTell, CancelsOnce, OrderGoes, Asked, hasAppInvoice
  <2>6. JobGoes(j, {"done"}) BY <2>1 DEF JobGoes, Over
  <2> QED BY <2>2, <2>3, <2>4, <2>5, <2>6, StepKeeps DEF StepGoes
<1> QED BY <1>5, <1>6, <1>7, <1>8, <1>9
  DEF SyncStatus, At, CancelledReads, ShopifyLooks, ShopifyCancelled, CancelledRecords

LEMMA JobKeeps ==
  ASSUME StatusInv, Attempts \in Nat, NEW j \in DOMAIN jobs, Job(j)
  PROVE  StatusInv'
<1>1. SyncStatus(j) => jobs[j].kind \in {"kvCancelled", "kvCompleted", "kvInvoice"}
  BY DEF SyncStatus, At, StatusUnmapped, CancelledReads, ShopifyLooks, ShopifyCancelled,
         CancelledRecords, CompletedReads, InvoiceReads, FulfilLooks, Fulfil, CompletedRecords
<1> QED BY <1>1, CreateKeeps, CancelKeeps, CancelledKeeps, CompletedKeeps DEF Job

LEMMA OutsideKeeps == ASSUME StatusInv, Attempts \in Nat, Outside PROVE StatusInv'
<1>1. StatusType /\ 0 \notin DOMAIN jobs BY DEF StatusInv, StatusType
<1>2. CreateGoes(0, {}) <=> (kvOrder = "none" => kvOrder' = "none" \/ Linked) /\ (Linked' => Linked)
  BY <1>1 DEF CreateGoes
<1>3. JobGoes(0, {}) BY <1>1 DEF JobGoes
<1>4. hasAppInvoice \/ kvOrder # "invoiced" \/ released BY DEF StatusInv, InvoiceStands
<1>5. UNCHANGED jobs => JobsMove(0, {}, {}) BY <1>1 DEF JobsMove, StatusType
<1>6. ASSUME NEW kinds, JobsMove(0, {}, kinds), StatusesType', StaysCancelled, NewTell(kinds), CancelsOnce(kinds), OrderGoes,
             UNCHANGED mapping, kvOrder = "none" => kvOrder' = "none"
      PROVE  StatusInv'
  <2>1. CreateGoes(0, {}) BY <1>2, <1>6 DEF Linked
  <2> QED BY <1>3, <1>6, <2>1, StepKeeps DEF StepGoes
<1>7. CASE InvoiceClaimed \/ InvoiceRefused \/ InvoiceLinked \/ LinkFails \/ LinkClaimed
  <2>1. StatusesType' /\ StaysCancelled /\ NewTell({}) /\ CancelsOnce({}) /\ OrderGoes /\ UNCHANGED <<jobs, mapping, kvOrder>>
    BY <1>1, <1>4, <1>7 DEF InvoiceClaimed, InvoiceRefused, InvoiceLinked, LinkFails, LinkClaimed, StatusType, StatusesType,
                            StaysCancelled, Linked, NewTell, CancelsOnce, OrderGoes, Asked, hasAppInvoice
  <2> QED BY <1>5, <1>6, <2>1
<1>8. CASE InvoicePosted
  <2> DEFINE both == {"kvCompleted", "kvInvoice"}
  <2>1. JobsMove(0, {}, both) BY <1>1, <1>8, BothMove DEF InvoicePosted
  <2>2. StatusesType' /\ StaysCancelled /\ NewTell(both) /\ UNCHANGED mapping /\ kvOrder # "none"
    BY <1>1, <1>8 DEF InvoicePosted, StatusType, StatusesType, StaysCancelled, Linked, NewTell, Kinds, Asked
  <2>3. CancelsOnce(both) /\ OrderGoes BY <1>8 DEF InvoicePosted, CancelsOnce, OrderGoes, Asked, hasAppInvoice
  <2> QED BY <1>6, <2>1, <2>2, <2>3
<1>9. CASE ShopifyGivesUp
  <2>1. StatusesType' /\ StaysCancelled /\ NewTell({}) /\ CancelsOnce({}) /\ OrderGoes /\ UNCHANGED <<jobs, mapping, kvOrder>>
    BY <1>1, <1>4, <1>9 DEF ShopifyGivesUp, StatusType, StatusesType, StaysCancelled, Linked, NewTell, CancelsOnce,
                            OrderGoes, Asked, hasAppInvoice
  <2> QED BY <1>5, <1>6, <2>1
<1>10. CASE CustomerCancels \/ ShopifyFinishes
  <2>1. JobsMove(0, {}, {"cancel"}) BY <1>1, <1>10, NoticeMoves DEF CustomerCancels, ShopifyFinishes, Kinds
  <2>2. StatusesType' /\ StaysCancelled /\ NewTell({"cancel"}) /\ UNCHANGED <<mapping, kvOrder>>
    BY <1>1, <1>10 DEF CustomerCancels, ShopifyFinishes, Asked, StatusType, StatusesType, StaysCancelled, Linked, NewTell, Kinds, Shops
  <2>3. CancelsOnce({"cancel"}) /\ OrderGoes BY <1>4, <1>10 DEF CustomerCancels, ShopifyFinishes, CancelsOnce, OrderGoes, Asked, hasAppInvoice
  <2> QED BY <1>6, <2>1, <2>2, <2>3
<1>11. CASE CustomerReceives \/ ShipmentUndone
  <2>1. StatusesType' /\ StaysCancelled /\ NewTell({}) /\ CancelsOnce({}) /\ OrderGoes /\ UNCHANGED <<jobs, mapping, kvOrder>>
    BY <1>1, <1>4, <1>11 DEF CustomerReceives, ShipmentUndone, StatusType, StatusesType, StaysCancelled, Linked,
                             NewTell, CancelsOnce, OrderGoes, Shops, Asked, hasAppInvoice
  <2> QED BY <1>5, <1>6, <2>1
<1>12. CASE StaffCancels
  <2>1. JobsMove(0, {}, {"kvCancelled"}) BY <1>1, <1>12, NoticeMoves DEF StaffCancels, Kinds
  <2>2. StatusesType' /\ StaysCancelled /\ NewTell({"kvCancelled"}) /\ UNCHANGED mapping /\ kvOrder # "none"
    BY <1>1, <1>12 DEF StaffCancels, StatusType, StatusesType, StaysCancelled, Linked, NewTell, Kinds, Asked
  <2>3. CancelsOnce({"kvCancelled"}) /\ OrderGoes BY <1>12 DEF StaffCancels, CancelsOnce, OrderGoes, Asked, hasAppInvoice
  <2> QED BY <1>6, <2>1, <2>2, <2>3
<1>13. CASE StaffCompletes
  <2> DEFINE both == {"kvCompleted", "kvInvoice"}
  <2>1. JobsMove(0, {}, both) BY <1>1, <1>13, BothMove DEF StaffCompletes
  <2>2. StatusesType' /\ StaysCancelled /\ NewTell(both) /\ UNCHANGED mapping /\ kvOrder # "none"
    BY <1>1, <1>13 DEF StaffCompletes, StatusType, StatusesType, StaysCancelled, Linked, NewTell, Kinds, Asked
  <2>3. CancelsOnce(both) /\ OrderGoes BY <1>13 DEF StaffCompletes, CancelsOnce, OrderGoes, Asked, hasAppInvoice
  <2> QED BY <1>6, <2>1, <2>2, <2>3
<1> QED BY <1>7, <1>8, <1>9, <1>10, <1>11, <1>12, <1>13 DEF Outside

LEMMA StatusNextKeeps == ASSUME Attempts \in Nat, StatusInv, [StatusNext]_svars PROVE StatusInv'
<1>1. CASE StatusNext BY <1>1, JobKeeps, OutsideKeeps DEF StatusNext
<1>2. CASE UNCHANGED svars
  BY <1>2 DEF svars, StatusInv, StatusType, CreatesFirst, Linked, JobsTellTruth, Is, CancellationsAreKept,
              InvoicesWait, InvoiceStands, Asked, hasAppInvoice
<1> QED BY <1>1, <1>2

(* In every reachable state a cancellation of one system is recorded or a  *)
(* job for it has not ended well, and every job is there for what it tells *)
(* (cancelShopifyOrder, syncKiotVietOrderStatus).                          *)
THEOREM StatusIsSafe == StatusSpec => []StatusInv
<1>1. StatusInit => StatusInv BY InitStatus, StatusAssumption
<1>2. StatusInv /\ [StatusNext]_svars => StatusInv' BY StatusNextKeeps, StatusAssumption
<1> QED BY <1>1, <1>2, PTL DEF StatusSpec

(* Once every job has ended well, KiotViet's order is cancelled exactly    *)
(* when the mapping is, a cancelled order of Shopify is recorded, and a    *)
(* recorded cancellation was at least accepted by Shopify, for any number  *)
(* of jobs, tries and changes of mind (cancelShopifyOrder and              *)
(* syncKiotVietOrderStatus, order-sync.ts:821-945).                        *)
THEOREM CancellationsAgree == StatusSpec => []NoSilentDisagreement
<1>1. StatusInv => NoSilentDisagreement
  <2> SUFFICES ASSUME StatusInv, Settled
               PROVE  /\ shop = "cancelled" \/ kvOrder = "cancelled" => mapping = "cancelled"
                      /\ mapping = "cancelled" => kvOrder = "cancelled" /\ (shop = "cancelled" \/ shopJob # "none")
    BY DEF NoSilentDisagreement
  <2>1. \A i \in DOMAIN jobs : jobs[i].pc = "done" BY DEF Settled
  <2> QED BY <2>1 DEF StatusInv, CancellationsAreKept, Asked
<1> QED BY <1>1, StatusIsSafe, PTL

(* No job marks the order fulfilled in Shopify while KiotViet's order is   *)
(* completed by the app's own invoice, unless a link of that invoice       *)
(* failed after it was made (hasAppInvoice before the fulfilment,          *)
(* order-sync.ts:904-942, invoice-sync.ts:321-327).                        *)
THEOREM InvoiceShipsNothing == StatusSpec => InvoiceIsNoShipment
<1> DEFINE A == shop' = "fulfilled" => shop = "fulfilled" \/ kvOrder # "invoiced" \/ released
<1>1. ASSUME StatusInv, [StatusNext]_svars PROVE A
  <2> SUFFICES ASSUME shop' = "fulfilled", shop # "fulfilled", kvOrder = "invoiced", ~released PROVE FALSE OBVIOUS
  <2>1. ASSUME NEW j \in DOMAIN jobs, Fulfil(j) PROVE FALSE
    <3>1. jobs[j].kind \in {"kvCompleted", "kvInvoice"} /\ jobs[j].pc = "send" BY <2>1 DEF Fulfil, At
    <3>2. InvoicesWait BY <1>1 DEF StatusInv
    <3> QED BY <3>1, <3>2 DEF InvoicesWait
  <2>2. ASSUME NEW j \in DOMAIN jobs, Job(j), ~Fulfil(j) PROVE FALSE
    <3>1. CASE Create(j) \/ Cancel(j)
      BY <3>1 DEF Create, CreateReads, CreateClaims, CreateFails, CreateMarks, CreateSends,
                  CreateRecords, Cancel, CancelReads, CancelLooks, CancelDeletes, CancelRecords
    <3>2. CASE SyncStatus(j)
      BY <2>2, <3>2 DEF SyncStatus, StatusUnmapped, CancelledReads, ShopifyLooks, ShopifyCancelled,
           CancelledRecords, CompletedReads, InvoiceReads, FulfilLooks, CompletedRecords
    <3> QED BY <2>2, <3>1, <3>2 DEF Job
  <2>3. CASE Outside
    BY <2>3 DEF Outside, InvoiceClaimed, InvoicePosted, InvoiceRefused, InvoiceLinked, LinkFails, LinkClaimed,
                ShopifyFinishes, ShopifyGivesUp, CustomerCancels, CustomerReceives, ShipmentUndone, StaffCancels, StaffCompletes
  <2>4. CASE UNCHANGED svars BY <2>4 DEF svars
  <2> QED BY <1>1, <2>1, <2>2, <2>3, <2>4 DEF StatusNext
<1>2. StatusInv /\ [StatusNext]_svars => [A]_svars BY <1>1
<1> QED BY <1>2, StatusIsSafe, PTL DEF StatusSpec, InvoiceIsNoShipment

(***************************************************************************)
(* The invoice an administrator asks for (InvoiceAmounts).                 *)
(***************************************************************************)
OverrideInv ==
  /\ run = [at |-> run.at, by |-> run.by, plan |-> run.plan, stock |-> run.stock]
  /\ run.at = "auto" => run.by = None
  /\ run.at \in {"stock", "shopify", "order"} /\ run.by # None =>
       /\ run.plan.order = seen[run.by].order /\ run.plan.sale = seen[run.by].sale
       /\ run.plan.lines = seen[run.by].lines
       /\ run.plan.pay = seen[run.by].pay
       /\ run.plan.reasons = seen[run.by].reasons

LEMMA SubmittedIsSeen ==
  ASSUME NEW v, NEW o, NEW s, v = View(o, s)
  PROVE  LET p == OverridePlan(o, s) IN
         p.order = v.order /\ p.sale = v.sale /\ p.lines = v.lines /\ p.pay = v.pay /\ p.reasons = v.reasons
BY DEF View, OverridePlan

LEMMA RunStaysSeen == OverrideInv /\ run' = run /\ seen' = seen => OverrideInv'
BY DEF OverrideInv

LEMMA NoRunIsSeen == run' = NoRun => OverrideInv'
BY DEF OverrideInv, NoRun

LEMMA AmountsInitSeen == AmountsInit => OverrideInv
BY DEF AmountsInit, NoRun, OverrideInv

LEMMA AmountsKeepSeen == ASSUME OverrideInv, [AmountsNext]_avars PROVE OverrideInv'
<1>1. CASE CreateOrder \/ SaleChanges \/ StaffOrder \/ StaffBill \/ StockMoves \/ UNCHANGED avars
  <2>1. run' = run /\ seen' = seen
    BY <1>1 DEF CreateOrder, SaleChanges, Ship, Edit, RefundUnits, MoneyBack, CancelSale, SaleOnly, StaffOrder, StaffBill,
                StockMoves, avars
  <2> QED BY <2>1, RunStaysSeen
<1>2. CASE BeginRun
  BY <1>2 DEF BeginRun, RunOnly, NoRun, OverrideInv, When
<1>3. CASE DecideAuto
  <2>1. run.by = None BY <1>3 DEF DecideAuto, OverrideInv
  <2>2. CASE RunOnly(NoRun) BY <2>2, NoRunIsSeen DEF RunOnly
  <2>3. CASE run' = [run EXCEPT !.at = "stock", !.plan = AutoPlan(run.plan.order, sale)]
    <3> DEFINE plan == AutoPlan(run.plan.order, sale)
    <3> HIDE DEF plan
    <3>1. run' = [at |-> "stock", by |-> run.by, plan |-> plan, stock |-> run.stock] BY <2>3 DEF OverrideInv, plan
    <3> QED BY <2>1, <3>1 DEF OverrideInv
  <2> QED BY <1>3, <2>2, <2>3 DEF DecideAuto, RunOnly
<1>4. CASE Preview BY <1>4, NoRunIsSeen DEF Preview
<1>5. CASE Submit
  <2>1. CASE RunOnly(NoRun) BY <2>1, NoRunIsSeen DEF RunOnly
  <2>2. CASE View(run.plan.order, sale) = seen[run.by] /\ RunOnly([run EXCEPT !.at = "stock", !.plan = OverridePlan(run.plan.order, sale)])
    <3> DEFINE plan == OverridePlan(run.plan.order, sale)
    <3>1. /\ plan.order = seen[run.by].order /\ plan.sale = seen[run.by].sale /\ plan.lines = seen[run.by].lines
          /\ plan.pay = seen[run.by].pay /\ plan.reasons = seen[run.by].reasons
      BY <2>2, SubmittedIsSeen
    <3> HIDE DEF plan
    <3>2. run' = [at |-> "stock", by |-> run.by, plan |-> plan, stock |-> run.stock] /\ seen' = seen
      BY <2>2 DEF OverrideInv, plan, RunOnly
    <3> QED BY <3>1, <3>2 DEF OverrideInv
  <2> QED BY <1>5, <2>1, <2>2 DEF Submit, Fingerprint
<1>6. CASE ReadStock \/ RecheckShopify \/ RecheckOrder
  <2>1. CASE RunOnly(NoRun) BY <2>1, NoRunIsSeen DEF RunOnly
  <2>2. ASSUME NEW at \in {"shopify", "order", "send"}, NEW now, run.at \in {"stock", "shopify", "order"}, seen' = seen,
               run' = [at |-> at, by |-> run.by, plan |-> run.plan, stock |-> now]
        PROVE  OverrideInv'
    BY <2>2 DEF OverrideInv
  <2>3. CASE ReadStock
    <3>1. run' = [at |-> "shopify", by |-> run.by, plan |-> run.plan, stock |-> stock] /\ seen' = seen /\ run.at = "stock"
      BY <2>3 DEF ReadStock, RunOnly, OverrideInv
    <3> QED BY <2>2, <3>1
  <2>4. CASE run.at = "shopify" /\ RunOnly([run EXCEPT !.at = "order"])
    <3>1. run' = [at |-> "order", by |-> run.by, plan |-> run.plan, stock |-> run.stock] /\ seen' = seen
      BY <2>4 DEF RunOnly, OverrideInv
    <3> QED BY <2>2, <2>4, <3>1
  <2>5. CASE run.at = "order" /\ RunOnly([run EXCEPT !.at = "send"])
    <3>1. run' = [at |-> "send", by |-> run.by, plan |-> run.plan, stock |-> run.stock] /\ seen' = seen
      BY <2>5 DEF RunOnly, OverrideInv
    <3> QED BY <2>2, <2>5, <3>1
  <2> QED BY <1>6, <2>1, <2>3, <2>4, <2>5 DEF RecheckShopify, RecheckOrder
<1>7. CASE SendInvoice \/ Verify
  BY <1>7 DEF SendInvoice, Verify, OverrideInv
<1> QED BY <1>1, <1>2, <1>3, <1>4, <1>5, <1>6, <1>7 DEF AmountsNext

(* An override sends what its administrator saw, from the orders as they   *)
(* were seen and with the warnings that were approved, for any orders,     *)
(* settings and number of administrators (invoice-override.ts:99-112,      *)
(* 160-180).                                                               *)
THEOREM OverridesAreSeen == AmountsSpec => OverrideIsSeen
<1>1. ASSUME OverrideInv, [AmountsNext]_avars,
             run.at \in {"shopify", "order"}, run'.at \in {"order", "send"}, run'.at # run.at, ~Automatic
      PROVE  LET v == seen[run.by] IN
             /\ run.at = "shopify" => v.sale = sale
             /\ run.at = "order" => v.order = order
             /\ v.lines = run.plan.lines /\ v.pay = run.plan.pay /\ v.reasons = run.plan.reasons
  <2>1. /\ run.plan.order = seen[run.by].order /\ run.plan.sale = seen[run.by].sale /\ run.plan.lines = seen[run.by].lines
        /\ run.plan.pay = seen[run.by].pay /\ run.plan.reasons = seen[run.by].reasons
    BY <1>1 DEF OverrideInv, Automatic
  <2>2. RecheckShopify \/ RecheckOrder
    <3>1. ~(CreateOrder \/ SaleChanges \/ StaffOrder \/ StaffBill \/ StockMoves \/ UNCHANGED avars)
      BY <1>1 DEF CreateOrder, SaleChanges, Ship, Edit, RefundUnits, MoneyBack, CancelSale, SaleOnly, StaffOrder, StaffBill,
                  StockMoves, avars
    <3> QED BY <1>1, <3>1 DEF AmountsNext, BeginRun, DecideAuto, Preview, Submit, ReadStock, SendInvoice, Verify
  <2>3. run.at = "shopify" => sale = run.plan.sale BY <1>1, <2>2 DEF RecheckShopify, RecheckOrder, RunOnly, NoRun
  <2>4. run.at = "order" => order = run.plan.order BY <1>1, <2>2 DEF RecheckShopify, RecheckOrder, RunOnly, NoRun
  <2> QED BY <2>1, <2>3, <2>4
<1>2. AmountsInit => OverrideInv BY AmountsInitSeen
<1>3. OverrideInv /\ [AmountsNext]_avars => OverrideInv' BY AmountsKeepSeen
<1>4. OverrideInv /\ [AmountsNext]_avars =>
        [run.at \in {"shopify", "order"} /\ run'.at \in {"order", "send"} /\ run'.at # run.at /\ ~Automatic =>
           LET v == seen[run.by] IN
           /\ run.at = "shopify" => v.sale = sale
           /\ run.at = "order" => v.order = order
           /\ v.lines = run.plan.lines /\ v.pay = run.plan.pay /\ v.reasons = run.plan.reasons]_avars
  BY <1>1
<1> QED BY <1>2, <1>3, <1>4, PTL DEF AmountsSpec, OverrideIsSeen

(***************************************************************************)
(* Sums over finite sets: the library's fold, unfolded, and the laws of    *)
(* addition that the amounts need.                                         *)
(***************************************************************************)
(* Sets of numbers have a least member, so finite sets can be built up one *)
(* element at a time.                                                      *)
LEMMA SmallestNumber == \A S \in SUBSET Nat : S # {} => \E m \in S : \A q \in S : m <= q
<1> DEFINE R == {ss \in Nat \X Nat : ss[1] < ss[2]}
<1>1. IsWellFoundedOn(R, Nat)
  BY NatLessThanWellFounded DEF OpToRel
<1>2. \A x, y \in Nat : <<y, x>> \in R <=> y < x
  OBVIOUS
<1> SUFFICES ASSUME NEW S \in SUBSET Nat, S # {} PROVE \E m \in S : \A q \in S : m <= q
  OBVIOUS
<1> HIDE DEF R
<1>3. \A T : T \subseteq Nat /\ T # {} => \E x \in T : \A y \in T : ~ (<<y, x>> \in R)
  BY <1>1, WFMin, Zenon
<1>4. PICK m \in S : \A y \in S : ~(<<y, m>> \in R)
  BY <1>3
<1>5. \A q \in S : q \in Nat /\ m \in Nat /\ ~(q < m)
  BY <1>2, <1>4
<1> QED
  BY <1>5

LEMMA OneByOne ==
  ASSUME NEW S, IsFiniteSet(S), NEW F, \A T \in SUBSET S : (T # {} => \A x \in T : T \ {x} \in F) => T \in F
  PROVE  \A T \in SUBSET S : T \in F
<1> SUFFICES ASSUME NEW U \in SUBSET S, U \notin F PROVE FALSE
  OBVIOUS
<1> DEFINE Sizes == {n \in Nat : \E T \in SUBSET S : T \notin F /\ Cardinality(T) = n}
<1>1. \A T \in SUBSET S : IsFiniteSet(T) /\ Cardinality(T) \in Nat
  BY FS_Subset, FS_CardinalityType
<1>2. Cardinality(U) \in Sizes /\ Sizes \in SUBSET Nat
  BY <1>1
<1>3. PICK n \in Sizes : \A q \in Sizes : n <= q
  BY <1>2, SmallestNumber
<1>4. PICK T \in SUBSET S : T \notin F /\ Cardinality(T) = n
  BY <1>3
<1>5. PICK x \in T : T \ {x} \notin F
  BY <1>4
<1>6. Cardinality(T \ {x}) = n - 1 /\ T \ {x} \in SUBSET S
  BY <1>1, <1>4, <1>5, FS_RemoveElement
<1>7. Cardinality(T \ {x}) \in Sizes
  BY <1>1, <1>5, <1>6
<1> HIDE DEF Sizes
<1>8. n \in Nat /\ n <= Cardinality(T \ {x})
  BY <1>2, <1>3, <1>7
<1> QED
  BY <1>6, <1>8

(* The sum of a function over a finite set is the library's fold.          *)
Any(s) == CHOOSE x \in s : TRUE
IsFold(f, S, g) == g = [s \in SUBSET S |-> IF s = {} THEN 0 ELSE f[Any(s)] + g[s \ {Any(s)}]]

LEMMA SumIsFold == ASSUME NEW f, NEW S PROVE SumFunctionOnSet(f, S) = (CHOOSE g : IsFold(f, S, g))[S]
  BY DEF SumFunctionOnSet, FoldFunctionOnSet, MapThenFoldSet, IsFold, Any

LEMMA AnyIsIn == ASSUME NEW s, s # {} PROVE Any(s) \in s
  BY DEF Any

LEMMA FoldSteps ==
  ASSUME NEW f, NEW S, NEW g, IsFold(f, S, g), NEW s \in SUBSET S
  PROVE  /\ s = {} => g[s] = 0
         /\ s # {} => g[s] = f[Any(s)] + g[s \ {Any(s)}]
  BY DEF IsFold

LEMMA FoldsAgree ==
  ASSUME NEW f, NEW S, NEW T \in SUBSET S, IsFiniteSet(T), NEW g, NEW h, IsFold(f, S, g), IsFold(f, T, h)
  PROVE  g[T] = h[T]
<1> DEFINE F == {s \in SUBSET T : g[s] = h[s]}
<1>1. ASSUME NEW s \in SUBSET T, s # {} => \A x \in s : s \ {x} \in F PROVE s \in F
  <2>1. CASE s = {}
    BY <2>1, FoldSteps
  <2>2. CASE s # {}
    <3>1. s \ {Any(s)} \in F
      BY <1>1, <2>2, AnyIsIn
    <3>0. s \in SUBSET S
      OBVIOUS
    <3>2. g[s] = f[Any(s)] + g[s \ {Any(s)}]
      BY <2>2, <3>0, FoldSteps
    <3>3. h[s] = f[Any(s)] + h[s \ {Any(s)}]
      <4>1. IsFold(f, T, h) /\ s \in SUBSET T
        OBVIOUS
      <4> QED
        BY <2>2, <4>1 DEF IsFold
    <3> QED
      BY <3>1, <3>2, <3>3
  <2> QED
    BY <2>1, <2>2
<1> HIDE DEF F
<1>2. T \in F
  BY <1>1, OneByOne
<1> QED
  BY <1>2 DEF F

LEMMA FoldExists ==
  ASSUME NEW f, NEW S, IsFiniteSet(S)
  PROVE  \E g : IsFold(f, S, g)
<1> DEFINE F == {T \in SUBSET S : \E g : IsFold(f, T, g)}
           H(s) == SumFunctionOnSet(f, s)
<1>1. ASSUME NEW T \in SUBSET S, T # {} => \A x \in T : T \ {x} \in F PROVE T \in F
  <2> DEFINE g == [s \in SUBSET T |-> IF s = {} THEN 0 ELSE f[Any(s)] + H(s \ {Any(s)})]
  <2>1. ASSUME NEW t \in SUBSET T, t # T
        PROVE  /\ t = {} => H(t) = 0
               /\ t # {} => H(t) = f[Any(t)] + H(t \ {Any(t)})
    <3>1. PICK x \in T : x \notin t
      BY <2>1
    <3>2. PICK k : IsFold(f, T \ {x}, k)
      BY <1>1, <3>1
    <3>3. ASSUME NEW u \in SUBSET t PROVE H(u) = k[u]
      <4>1. IsFold(f, u, [s \in SUBSET u |-> k[s]])
        <5>1. ASSUME NEW s \in SUBSET u
              PROVE  k[s] = IF s = {} THEN 0 ELSE f[Any(s)] + k[s \ {Any(s)}]
          BY <3>1, <3>2, FoldSteps
        <5>2. \A s \in SUBSET u : s # {} => s \ {Any(s)} \in SUBSET u
          OBVIOUS
        <5> QED
          BY <5>1, <5>2 DEF IsFold
      <4>2. IsFold(f, u, CHOOSE j : IsFold(f, u, j))
        BY <4>1
      <4>3. IsFiniteSet(u) /\ u \in SUBSET (T \ {x})
        BY <3>1, FS_Subset
      <4>4. (CHOOSE j : IsFold(f, u, j))[u] = k[u]
        <5> PICK j : j = (CHOOSE i : IsFold(f, u, i))
          OBVIOUS
        <5>1. IsFold(f, u, j)
          BY <4>2
        <5>2. k[u] = j[u]
          BY <3>2, <4>3, <5>1, FoldsAgree
        <5> QED
          BY <5>2
      <4> QED
        BY <4>4, SumIsFold
    <3>4. t \in SUBSET (T \ {x})
      BY <3>1
    <3> QED
      BY <3>2, <3>3, <3>4, FoldSteps
  <2>2. ASSUME NEW s \in SUBSET T, s # {} PROVE g[s \ {Any(s)}] = H(s \ {Any(s)})
    <3>1. s \ {Any(s)} \in SUBSET T /\ s \ {Any(s)} # T
      BY <2>2, AnyIsIn
    <3> QED
      BY <2>1, <3>1
  <2>3. g = [s \in SUBSET T |-> IF s = {} THEN 0 ELSE f[Any(s)] + g[s \ {Any(s)}]]
    BY <2>2
  <2> HIDE DEF g
  <2> QED
    BY <2>3 DEF IsFold
<1> HIDE DEF F
<1>2. S \in F
  BY <1>1, OneByOne
<1> QED
  BY <1>2 DEF F

LEMMA SumSteps ==
  ASSUME NEW f, NEW S, IsFiniteSet(S)
  PROVE  /\ S = {} => SumFunctionOnSet(f, S) = 0
         /\ S # {} => SumFunctionOnSet(f, S) = f[Any(S)] + SumFunctionOnSet(f, S \ {Any(S)})
<1> PICK g : g = (CHOOSE h : IsFold(f, S, h))
  OBVIOUS
<1>1. IsFold(f, S, g) /\ SumFunctionOnSet(f, S) = g[S]
  BY FoldExists, SumIsFold
<1>2. ASSUME S # {} PROVE SumFunctionOnSet(f, S \ {Any(S)}) = g[S \ {Any(S)}]
  <2> PICK T, h : T = S \ {Any(S)} /\ h = (CHOOSE k : IsFold(f, T, k))
    OBVIOUS
  <2>1. IsFiniteSet(T) /\ T \in SUBSET S
    BY FS_Subset
  <2>2. IsFold(f, T, h) /\ SumFunctionOnSet(f, T) = h[T]
    BY <2>1, FoldExists, SumIsFold
  <2> QED
    BY <1>1, <2>1, <2>2, FoldsAgree
<1> QED
  BY <1>1, <1>2, FoldSteps

LEMMA SumEmpty == ASSUME NEW f PROVE SumFunctionOnSet(f, {}) = 0
  BY SumSteps, FS_EmptySet

LEMMA SumType ==
  ASSUME NEW S, IsFiniteSet(S), NEW f, \A i \in S : f[i] \in Int
  PROVE  SumFunctionOnSet(f, S) \in Int
<1> DEFINE F == {T \in SUBSET S : SumFunctionOnSet(f, T) \in Int}
<1>1. ASSUME NEW T \in SUBSET S, T # {} => \A x \in T : T \ {x} \in F PROVE T \in F
  <2>1. IsFiniteSet(T)
    BY FS_Subset
  <2>2. CASE T = {}
    BY <2>2, SumEmpty
  <2>3. CASE T # {}
    <3>1. Any(T) \in T /\ SumFunctionOnSet(f, T \ {Any(T)}) \in Int
      BY <1>1, <2>3, AnyIsIn
    <3>2. SumFunctionOnSet(f, T) = f[Any(T)] + SumFunctionOnSet(f, T \ {Any(T)})
      BY <2>1, <2>3, SumSteps
    <3> QED
      BY <3>1, <3>2
  <2> QED
    BY <2>2, <2>3
<1> HIDE DEF F
<1>2. S \in F
  BY <1>1, OneByOne
<1> QED
  BY <1>2 DEF F

LEMMA SumStep ==
  ASSUME NEW S, IsFiniteSet(S), NEW f, \A i \in S : f[i] \in Int, NEW x \in S
  PROVE  SumFunctionOnSet(f, S) = f[x] + SumFunctionOnSet(f, S \ {x})
<1> DEFINE H(s) == SumFunctionOnSet(f, s)
           F == {T \in SUBSET S : \A y \in T : H(T) = f[y] + H(T \ {y})}
<1>0. ASSUME NEW T \in SUBSET S PROVE IsFiniteSet(T) /\ H(T) \in Int
  BY FS_Subset, SumType
<1>1. ASSUME NEW T \in SUBSET S, T # {} => \A y \in T : T \ {y} \in F PROVE T \in F
  <2> SUFFICES ASSUME NEW y \in T PROVE H(T) = f[y] + H(T \ {y})
    OBVIOUS
  <2> PICK a : a = Any(T)
    OBVIOUS
  <2>1. a \in T /\ H(T) = f[a] + H(T \ {a})
    BY <1>0, AnyIsIn, SumSteps
  <2>2. CASE a # y
    <3> PICK V, W, U : V = T \ {a} /\ W = T \ {y} /\ U = V \ {y}
      OBVIOUS
    <3>1. y \in V /\ V \in F /\ U = V \ {y}
      BY <1>1, <2>1, <2>2
    <3>2. a \in W /\ W \in F /\ U = W \ {a}
      BY <1>1, <2>1, <2>2
    <3>3. H(V) = f[y] + H(U)
      BY <3>1
    <3>4. H(W) = f[a] + H(U)
      BY <3>2
    <3>5. U \in SUBSET S
      BY <3>1
    <3>6. f[a] \in Int /\ f[y] \in Int /\ H(U) \in Int
      BY <1>0, <2>1, <3>5
    <3>7. H(T) = f[a] + H(V)
      BY <2>1
    <3>8. H(T) = f[y] + H(W)
      <4> HIDE DEF H, F
      <4> QED
        BY <3>3, <3>4, <3>6, <3>7
    <3> QED
      BY <3>8
  <2> QED
    BY <2>1, <2>2
<1> HIDE DEF F
<1>2. S \in F
  BY <1>1, OneByOne
<1> QED
  BY <1>2 DEF F

LEMMA SumEqual ==
  ASSUME NEW S, IsFiniteSet(S), NEW f, NEW g, \A i \in S : f[i] = g[i]
  PROVE  SumFunctionOnSet(f, S) = SumFunctionOnSet(g, S)
<1> DEFINE F == {T \in SUBSET S : SumFunctionOnSet(f, T) = SumFunctionOnSet(g, T)}
<1>1. ASSUME NEW T \in SUBSET S, T # {} => \A x \in T : T \ {x} \in F PROVE T \in F
  <2>1. IsFiniteSet(T)
    BY FS_Subset
  <2>2. CASE T = {}
    BY <2>2, SumEmpty
  <2>3. CASE T # {}
    <3>1. Any(T) \in T /\ SumFunctionOnSet(f, T \ {Any(T)}) = SumFunctionOnSet(g, T \ {Any(T)})
      BY <1>1, <2>3, AnyIsIn
    <3>2. /\ SumFunctionOnSet(f, T) = f[Any(T)] + SumFunctionOnSet(f, T \ {Any(T)})
          /\ SumFunctionOnSet(g, T) = g[Any(T)] + SumFunctionOnSet(g, T \ {Any(T)})
      BY <2>1, <2>3, SumSteps
    <3> QED
      BY <3>1, <3>2
  <2> QED
    BY <2>2, <2>3
<1> HIDE DEF F
<1>2. S \in F
  BY <1>1, OneByOne
<1> QED
  BY <1>2 DEF F

LEMMA SumLess ==
  ASSUME NEW S, IsFiniteSet(S), NEW f, NEW g, \A i \in S : f[i] \in Int /\ g[i] \in Int /\ f[i] <= g[i]
  PROVE  SumFunctionOnSet(f, S) <= SumFunctionOnSet(g, S)
<1> DEFINE F == {T \in SUBSET S : SumFunctionOnSet(f, T) <= SumFunctionOnSet(g, T)}
<1>1. ASSUME NEW T \in SUBSET S, T # {} => \A x \in T : T \ {x} \in F PROVE T \in F
  <2>1. IsFiniteSet(T)
    BY FS_Subset
  <2>2. CASE T = {}
    BY <2>2, SumEmpty
  <2>3. CASE T # {}
    <3> PICK a, U : a = Any(T) /\ U = T \ {Any(T)}
      OBVIOUS
    <3>1. a \in T /\ U \in SUBSET S /\ SumFunctionOnSet(f, U) <= SumFunctionOnSet(g, U)
      BY <1>1, <2>3, AnyIsIn
    <3>2. /\ SumFunctionOnSet(f, T) = f[a] + SumFunctionOnSet(f, U)
          /\ SumFunctionOnSet(g, T) = g[a] + SumFunctionOnSet(g, U)
      BY <2>1, <2>3, SumSteps
    <3>3. SumFunctionOnSet(f, U) \in Int /\ SumFunctionOnSet(g, U) \in Int
      <4>1. IsFiniteSet(U) /\ \A i \in U : f[i] \in Int /\ g[i] \in Int
        BY <3>1, FS_Subset
      <4> QED
        BY <4>1, SumType
    <3>4. f[a] \in Int /\ g[a] \in Int /\ f[a] <= g[a]
      BY <3>1
    <3> QED
      BY <3>1, <3>2, <3>3, <3>4
  <2> QED
    BY <2>2, <2>3
<1> HIDE DEF F
<1>2. S \in F
  BY <1>1, OneByOne
<1> QED
  BY <1>2 DEF F

LEMMA SumZero == ASSUME NEW S, IsFiniteSet(S), NEW f, \A i \in S : f[i] = 0 PROVE SumFunctionOnSet(f, S) = 0
<1> DEFINE F == {T \in SUBSET S : SumFunctionOnSet(f, T) = 0}
<1>1. ASSUME NEW T \in SUBSET S, T # {} => \A x \in T : T \ {x} \in F PROVE T \in F
  <2>1. IsFiniteSet(T)
    BY FS_Subset
  <2>2. CASE T = {}
    BY <2>2, SumEmpty
  <2>3. CASE T # {}
    <3>1. Any(T) \in T /\ SumFunctionOnSet(f, T \ {Any(T)}) = 0
      BY <1>1, <2>3, AnyIsIn
    <3>2. SumFunctionOnSet(f, T) = f[Any(T)] + SumFunctionOnSet(f, T \ {Any(T)})
      BY <2>1, <2>3, SumSteps
    <3> QED
      BY <3>1, <3>2
  <2> QED
    BY <2>2, <2>3
<1> HIDE DEF F
<1>2. S \in F
  BY <1>1, OneByOne
<1> QED
  BY <1>2 DEF F

LEMMA SumNat == ASSUME NEW S, IsFiniteSet(S), NEW f, \A i \in S : f[i] \in Nat PROVE SumFunctionOnSet(f, S) \in Nat
<1> DEFINE z == [i \in S |-> 0]
<1>1. \A i \in S : z[i] = 0 /\ z[i] \in Int /\ f[i] \in Int /\ z[i] <= f[i]
  OBVIOUS
<1> HIDE DEF z
<1>2. SumFunctionOnSet(z, S) = 0 /\ SumFunctionOnSet(z, S) <= SumFunctionOnSet(f, S) /\ SumFunctionOnSet(f, S) \in Int
  BY <1>1, SumZero, SumLess, SumType
<1> QED
  BY <1>2

LEMMA SumJoin ==
  ASSUME NEW A, IsFiniteSet(A), NEW B, IsFiniteSet(B), A \cap B = {}, NEW f, \A i \in A \cup B : f[i] \in Int
  PROVE  SumFunctionOnSet(f, A \cup B) = SumFunctionOnSet(f, A) + SumFunctionOnSet(f, B)
<1> DEFINE H(s) == SumFunctionOnSet(f, s)
           F == {T \in SUBSET B : H(A \cup T) = H(A) + H(T)}
<1>0. ASSUME NEW T \in SUBSET B PROVE IsFiniteSet(T) /\ IsFiniteSet(A \cup T) /\ H(T) \in Int /\ H(A \cup T) \in Int /\ H(A) \in Int
  <2>1. IsFiniteSet(T) /\ IsFiniteSet(A \cup T)
    BY FS_Subset, FS_Union
  <2> QED
    BY <2>1, SumType
<1>1. ASSUME NEW T \in SUBSET B, T # {} => \A y \in T : T \ {y} \in F PROVE T \in F
  <2>1. CASE T = {}
    <3>1. A \cup T = A /\ H(T) = 0 /\ H(A) \in Int
      BY <1>0, <2>1, SumEmpty
    <3> QED
      BY <3>1
  <2>2. CASE T # {}
    <3> PICK y \in T : TRUE
      BY <2>2
    <3> PICK U : U = T \ {y}
      OBVIOUS
    <3>1. U \in SUBSET B /\ H(A \cup U) = H(A) + H(U)
      BY <1>1
    <3>2. y \in A \cup T /\ (A \cup T) \ {y} = A \cup U
      OBVIOUS
    <3>3. H(A \cup T) = f[y] + H(A \cup U)
      <4> PICK V : V = A \cup T
        OBVIOUS
      <4>1. IsFiniteSet(V) /\ y \in V /\ V \ {y} = A \cup U /\ \A i \in V : f[i] \in Int
        BY <1>0, <3>2
      <4>2. SumFunctionOnSet(f, V) = f[y] + SumFunctionOnSet(f, V \ {y})
        BY <4>1, SumStep
      <4> QED
        BY <4>1, <4>2
    <3>4. H(T) = f[y] + H(U)
      BY <1>0, SumStep
    <3>5. H(A) \in Int /\ H(U) \in Int /\ f[y] \in Int
      BY <1>0, <3>1
    <3>6. H(A \cup T) = H(A) + H(T)
      <4> HIDE DEF H, F
      <4> QED
        BY <3>1, <3>3, <3>4, <3>5
    <3> QED
      BY <3>6
  <2> QED
    BY <2>1, <2>2
<1> HIDE DEF H, F
<1>2. \A T \in SUBSET B : (T # {} => \A x \in T : T \ {x} \in F) => T \in F
  BY <1>1
<1>3. \A T \in SUBSET B : T \in F
  <2> HIDE <1>0, <1>1
  <2> QED
    BY <1>2, OneByOne
<1>4. B \in F
  BY <1>3
<1> QED
  BY <1>4 DEF F, H

LEMMA SumPlus ==
  ASSUME NEW S, IsFiniteSet(S), NEW f, NEW g, NEW h, \A i \in S : f[i] \in Int /\ g[i] \in Int /\ h[i] = f[i] + g[i]
  PROVE  SumFunctionOnSet(h, S) = SumFunctionOnSet(f, S) + SumFunctionOnSet(g, S)
<1> DEFINE F == {T \in SUBSET S : SumFunctionOnSet(h, T) = SumFunctionOnSet(f, T) + SumFunctionOnSet(g, T)}
<1>1. ASSUME NEW T \in SUBSET S, T # {} => \A x \in T : T \ {x} \in F PROVE T \in F
  <2>1. IsFiniteSet(T)
    BY FS_Subset
  <2>2. CASE T = {}
    BY <2>2, SumEmpty
  <2>3. CASE T # {}
    <3> PICK a, U : a = Any(T) /\ U = T \ {Any(T)}
      OBVIOUS
    <3>1. a \in T /\ U \in SUBSET S /\ SumFunctionOnSet(h, U) = SumFunctionOnSet(f, U) + SumFunctionOnSet(g, U)
      BY <1>1, <2>3, AnyIsIn
    <3>2. /\ SumFunctionOnSet(f, T) = f[a] + SumFunctionOnSet(f, U)
          /\ SumFunctionOnSet(g, T) = g[a] + SumFunctionOnSet(g, U)
          /\ SumFunctionOnSet(h, T) = h[a] + SumFunctionOnSet(h, U)
      BY <2>1, <2>3, SumSteps
    <3>3. SumFunctionOnSet(f, U) \in Int /\ SumFunctionOnSet(g, U) \in Int
      <4>1. IsFiniteSet(U) /\ \A i \in U : f[i] \in Int /\ g[i] \in Int
        BY <3>1, FS_Subset
      <4> QED
        BY <4>1, SumType
    <3>4. f[a] \in Int /\ g[a] \in Int /\ h[a] = f[a] + g[a]
      BY <3>1
    <3> QED
      BY <3>1, <3>2, <3>3, <3>4
  <2> QED
    BY <2>2, <2>3
<1> HIDE DEF F
<1>2. S \in F
  BY <1>1, OneByOne
<1> QED
  BY <1>2 DEF F

LEMMA Sums == ASSUME NEW S, NEW f, DOMAIN f = S PROVE SumFunction(f) = SumFunctionOnSet(f, S)
  BY DEF SumFunction

(***************************************************************************)
(* Units and money of an order and its invoice (InvoiceAmounts)            *)
(***************************************************************************)
LEMMA CaseFacts ==
  ASSUME case \in Cases
  PROVE  /\ DOMAIN L = 1 .. Len(L) /\ Len(L) \in Nat /\ IsFiniteSet(DOMAIN L)
         /\ Products \subseteq DOMAIN L /\ 0 \notin DOMAIN L
         /\ IsFiniteSet(Products) /\ IsFiniteSet(DOMAIN L \ Products)
         /\ case.shipping \in Nat /\ case.tip \in Nat /\ case.other \in Int /\ case.amounts \subseteq Nat
<1>1. L \in Seq(SoldLine)
  BY AmountsAssumption DEF L
<1>2. DOMAIN L = 1 .. Len(L) /\ Len(L) \in Nat
  BY <1>1
<1>3. IsFiniteSet(DOMAIN L)
  BY <1>2, FS_Interval
<1>4. Products \subseteq DOMAIN L
  BY DEF Products
<1>5. IsFiniteSet(Products) /\ IsFiniteSet(DOMAIN L \ Products)
  BY <1>3, <1>4, FS_Subset
<1> QED
  BY <1>2, <1>3, <1>4, <1>5, AmountsAssumption

LEMMA LineFacts ==
  ASSUME case \in Cases, NEW i \in DOMAIN L
  PROVE  /\ L[i].price \in Nat /\ L[i].qty \in Nat \ {0} /\ L[i].off \in Nat /\ L[i].tax \in Nat
         /\ L[i].price * L[i].qty \in Nat
         /\ Net(i) \in Nat /\ Net(i) <= L[i].price * L[i].qty
         /\ AddedTax(i) \in Nat /\ Charged(i) \in Nat
<1>1. L \in Seq(SoldLine) /\ L[i].off <= L[i].price * L[i].qty
  BY AmountsAssumption DEF L
<1>2. L[i] \in SoldLine
  BY <1>1
<1>3. L[i].price \in Nat /\ L[i].qty \in Nat \ {0} /\ L[i].off \in Nat /\ L[i].tax \in Nat
  BY <1>2 DEF SoldLine
<1>4. L[i].price * L[i].qty \in Nat
  BY <1>3
<1>5. Net(i) \in Nat /\ Net(i) <= L[i].price * L[i].qty
  BY <1>1, <1>3, <1>4 DEF Net
<1>6. AddedTax(i) \in Nat
  BY <1>3 DEF AddedTax
<1> QED
  BY <1>3, <1>4, <1>5, <1>6 DEF Charged

LEMMA UnitFacts ==
  ASSUME case \in Cases, NEW i \in DOMAIN L, Unit(i) # NoPrice
  PROVE  Unit(i) \in Nat /\ Unit(i) * L[i].qty = Net(i)
<1>1. Net(i) \in Nat /\ L[i].qty \in Nat \ {0}
  BY LineFacts
<1>2. Net(i) % L[i].qty = 0 /\ Unit(i) = Net(i) \div L[i].qty
  BY <1>1 DEF Unit
<1>3. \A n \in Nat, q \in Nat \ {0} : n % q = 0 => n \div q \in Nat /\ (n \div q) * q = n
  OBVIOUS
<1> QED
  BY <1>1, <1>2, <1>3

IsList(s) == Len(s) \in Nat /\ s = [i \in 1 .. Len(s) |-> s[i]]

LEMMA SeqIsList == ASSUME NEW S, NEW s \in Seq(S) PROVE IsList(s)
  BY DEF IsList

LEMMA ListAppend ==
  ASSUME NEW s, IsList(s), NEW x
  PROVE  /\ IsList(Append(s, x)) /\ Len(Append(s, x)) = Len(s) + 1
         /\ Append(s, x)[Len(s) + 1] = x
         /\ \A i \in 1 .. Len(s) : Append(s, x)[i] = s[i]
<1> DEFINE S == {s[i] : i \in 1 .. Len(s)} \cup {x}
<1>1. s \in Seq(S)
  BY DEF IsList
<1>2. /\ Append(s, x) \in Seq(S) /\ Len(Append(s, x)) = Len(s) + 1
      /\ Append(s, x)[Len(s) + 1] = x
      /\ \A i \in 1 .. Len(s) : Append(s, x)[i] = s[i]
  BY <1>1
<1>3. IsList(Append(s, x))
  BY <1>2, SeqIsList
<1> QED
  BY <1>2, <1>3

(* A refund names at least no units and no money.                          *)
RefundsOK(s) ==
  /\ IsList(s.refunds)
  /\ \A k \in DOMAIN s.refunds : s.refunds[k].qty \in Nat /\ s.refunds[k].amount \in Nat
Units(s, i, types) ==
  [k \in DOMAIN s.refunds |-> IF s.refunds[k].line = i /\ s.refunds[k].type \in types THEN s.refunds[k].qty ELSE 0]
Amounts(s) == [k \in DOMAIN s.refunds |-> s.refunds[k].amount]

LEMMA RefundSums ==
  ASSUME NEW s, RefundsOK(s), NEW i, NEW types
  PROVE  /\ Refunded(s, i, types) = SumFunctionOnSet(Units(s, i, types), DOMAIN s.refunds)
         /\ Refunded(s, i, types) \in Nat
         /\ Money(s) = SumFunctionOnSet(Amounts(s), DOMAIN s.refunds)
         /\ Money(s) \in Nat
<1>1. IsFiniteSet(DOMAIN s.refunds)
  <2>1. DOMAIN s.refunds = 1 .. Len(s.refunds) /\ Len(s.refunds) \in Nat
    BY DEF RefundsOK, IsList
  <2> QED
    BY <2>1, FS_Interval
<1>2. Refunded(s, i, types) = SumFunction(Units(s, i, types)) /\ Money(s) = SumFunction(Amounts(s))
  BY DEF Refunded, Money, Units, Amounts
<1>3. DOMAIN Units(s, i, types) = DOMAIN s.refunds /\ DOMAIN Amounts(s) = DOMAIN s.refunds
  BY DEF Units, Amounts
<1>4. \A k \in DOMAIN s.refunds : Units(s, i, types)[k] \in Nat /\ Amounts(s)[k] \in Nat
  BY DEF Units, Amounts, RefundsOK
<1>5. SumFunctionOnSet(Units(s, i, types), DOMAIN s.refunds) \in Nat
  <2> PICK f : f = Units(s, i, types)
    OBVIOUS
  <2>1. \A k \in DOMAIN s.refunds : f[k] \in Nat
    BY <1>4
  <2> QED
    BY <1>1, <2>1, SumNat
<1>6. SumFunctionOnSet(Amounts(s), DOMAIN s.refunds) \in Nat
  <2> PICK f : f = Amounts(s)
    OBVIOUS
  <2>1. \A k \in DOMAIN s.refunds : f[k] \in Nat
    BY <1>4
  <2> QED
    BY <1>1, <2>1, SumNat
<1>7. SumFunction(Units(s, i, types)) = SumFunctionOnSet(Units(s, i, types), DOMAIN s.refunds)
  BY <1>3, Sums
<1>8. SumFunction(Amounts(s)) = SumFunctionOnSet(Amounts(s), DOMAIN s.refunds)
  BY <1>3, Sums
<1> QED
  BY <1>2, <1>5, <1>6, <1>7, <1>8

(* A sum over a sequence grows by what is appended.                        *)
LEMMA SumAppend ==
  ASSUME NEW n \in Nat, NEW f, NEW g, \A k \in 1 .. n : f[k] \in Int /\ g[k] = f[k], g[n + 1] \in Int
  PROVE  SumFunctionOnSet(g, 1 .. n + 1) = SumFunctionOnSet(f, 1 .. n) + g[n + 1]
<1>1. IsFiniteSet(1 .. n) /\ IsFiniteSet(1 .. n + 1)
  BY FS_Interval
<1>2. (1 .. n + 1) \ {n + 1} = 1 .. n /\ n + 1 \in 1 .. n + 1 /\ \A k \in 1 .. n + 1 : g[k] \in Int
  OBVIOUS
<1>3. SumFunctionOnSet(g, 1 .. n + 1) = g[n + 1] + SumFunctionOnSet(g, 1 .. n)
  <2> PICK S : S = 1 .. n + 1
    OBVIOUS
  <2>1. IsFiniteSet(S) /\ n + 1 \in S /\ \A k \in S : g[k] \in Int
    BY <1>1, <1>2
  <2>2. SumFunctionOnSet(g, S) = g[n + 1] + SumFunctionOnSet(g, S \ {n + 1})
    BY <2>1, SumStep
  <2> QED
    BY <1>2, <2>2
<1>4. SumFunctionOnSet(g, 1 .. n) = SumFunctionOnSet(f, 1 .. n)
  BY <1>1, SumEqual
<1>5. SumFunctionOnSet(f, 1 .. n) \in Int
  BY <1>1, SumType
<1> QED
  BY <1>3, <1>4, <1>5

LEMMA RefundAdded ==
  ASSUME NEW s, RefundsOK(s), NEW t, NEW r, t.refunds = Append(s.refunds, r), r.qty \in Nat, r.amount \in Nat
  PROVE  RefundsOK(t)
<1>1. IsList(s.refunds) /\ DOMAIN s.refunds = 1 .. Len(s.refunds)
  BY DEF RefundsOK, IsList
<1>2. IsList(t.refunds) /\ DOMAIN t.refunds = 1 .. Len(s.refunds) + 1
  BY <1>1, ListAppend DEF IsList
<1>3. t.refunds[Len(s.refunds) + 1] = r /\ \A k \in DOMAIN s.refunds : t.refunds[k] = s.refunds[k]
  BY <1>1, ListAppend
<1>4. \A k \in DOMAIN t.refunds : t.refunds[k].qty \in Nat /\ t.refunds[k].amount \in Nat
  BY <1>1, <1>2, <1>3 DEF RefundsOK, IsList
<1> QED
  BY <1>2, <1>4 DEF RefundsOK

LEMMA RefundGrows ==
  ASSUME NEW s, RefundsOK(s), NEW t, NEW r, t.refunds = Append(s.refunds, r), r.qty \in Nat, r.amount \in Nat,
         NEW i, NEW types
  PROVE  Refunded(t, i, types) = Refunded(s, i, types) + (IF r.line = i /\ r.type \in types THEN r.qty ELSE 0)
<1> PICK n, q : q = s.refunds /\ n = Len(q)
  OBVIOUS
<1>1. n \in Nat /\ DOMAIN q = 1 .. n /\ IsList(q)
  BY DEF RefundsOK, IsList
<1>2. t.refunds = Append(q, r) /\ IsList(t.refunds) /\ Len(t.refunds) = n + 1 /\ DOMAIN t.refunds = 1 .. n + 1
  <2>1. t.refunds = Append(q, r) /\ IsList(t.refunds) /\ Len(t.refunds) = n + 1
    BY <1>1, ListAppend
  <2> QED
    BY <2>1 DEF IsList
<1>3. t.refunds[n + 1] = r /\ \A k \in 1 .. n : t.refunds[k] = q[k]
  BY <1>1, <1>2, ListAppend
<1>0. \A k \in 1 .. n : q[k].qty \in Nat /\ q[k].amount \in Nat
  BY <1>1 DEF RefundsOK
<1>4. RefundsOK(t)
  BY RefundAdded
<1> PICK f, g : f = Units(s, i, types) /\ g = Units(t, i, types)
  OBVIOUS
<1>5. \A k \in 1 .. n : f[k] \in Int /\ g[k] = f[k]
  BY <1>0, <1>1, <1>2, <1>3 DEF Units
<1>6. g[n + 1] = (IF r.line = i /\ r.type \in types THEN r.qty ELSE 0) /\ g[n + 1] \in Int
  BY <1>1, <1>2, <1>3 DEF Units
<1>7. Refunded(s, i, types) = SumFunctionOnSet(f, 1 .. n) /\ Refunded(t, i, types) = SumFunctionOnSet(g, 1 .. n + 1)
  BY <1>1, <1>2, <1>4, RefundSums
<1>8. SumFunctionOnSet(g, 1 .. n + 1) = SumFunctionOnSet(f, 1 .. n) + g[n + 1]
  <2> HIDE <1>7
  <2> QED
    BY <1>1, <1>5, <1>6, SumAppend
<1> QED
  BY <1>6, <1>7, <1>8

(* Where the units of a line are.                                          *)
IsSale(s) ==
  s = [refunds |-> s.refunds, cancelled |-> s.cancelled, shipped |-> s.shipped, back |-> s.back, left |-> s.left,
       removed |-> s.removed]
SaleOK(s) ==
  /\ IsSale(s) /\ RefundsOK(s)
  /\ s.shipped \in [Products -> Nat] /\ s.back \in [Products -> Nat]
  /\ s.left \in [Products -> Nat] /\ s.removed \in [Products -> Nat]
  /\ \A i \in Products :
       /\ s.left[i] + s.shipped[i] + s.removed[i] + Refunded(s, i, AllTypes) = L[i].qty + s.back[i]
       /\ s.back[i] <= s.shipped[i] /\ Refunded(s, i, {"return"}) <= s.back[i]

LEMMA SaleAsBefore == ASSUME case' = case, NEW s, SaleOK(s) PROVE SaleOK(s)'
  BY DEF SaleOK, IsSale, RefundsOK, Refunded, Products, L, AllTypes

LEMMA ShipKeeps ==
  ASSUME case \in Cases, SaleOK(sale), NEW i \in Products, Ship(i) \/ Edit(i) PROVE SaleOK(sale')
<1> PICK t : t = sale'
  OBVIOUS
<1> PICK s : s = sale
  OBVIOUS
<1>0. SaleOK(s)
  OBVIOUS
<1>1. t.refunds = s.refunds /\ t.back = s.back /\ IsSale(t)
  BY <1>0 DEF Ship, Edit, SaleOK, IsSale
<1>2. /\ s.left[i] > 0 /\ t.left = [s.left EXCEPT ![i] = @ - 1]
      /\ \/ t.shipped = [s.shipped EXCEPT ![i] = @ + 1] /\ t.removed = s.removed
         \/ t.shipped = s.shipped /\ t.removed = [s.removed EXCEPT ![i] = @ + 1]
  BY <1>0 DEF Ship, Edit, SaleOK, IsSale
<1>3. \A j, types : Refunded(t, j, types) = Refunded(s, j, types) /\ Refunded(s, j, types) \in Nat
  <2>1. RefundsOK(s)
    BY <1>0 DEF SaleOK
  <2>2. \A j, types : Refunded(s, j, types) \in Nat
    BY <2>1, RefundSums
  <2>3. \A j, types : Refunded(t, j, types) = Refunded(s, j, types)
    BY <1>1 DEF Refunded
  <2> QED
    BY <2>2, <2>3
<1>4. RefundsOK(t)
  BY <1>0, <1>1 DEF RefundsOK, SaleOK
<1>5. /\ t.shipped \in [Products -> Nat] /\ t.back \in [Products -> Nat]
      /\ t.left \in [Products -> Nat] /\ t.removed \in [Products -> Nat]
  BY <1>0, <1>1, <1>2 DEF SaleOK
<1>6. ASSUME NEW j \in Products
      PROVE  /\ t.left[j] + t.shipped[j] + t.removed[j] + Refunded(t, j, AllTypes) = L[j].qty + t.back[j]
             /\ t.back[j] <= t.shipped[j] /\ Refunded(t, j, {"return"}) <= t.back[j]
  <2>1. /\ s.left[j] + s.shipped[j] + s.removed[j] + Refunded(s, j, AllTypes) = L[j].qty + s.back[j]
        /\ s.back[j] <= s.shipped[j] /\ Refunded(s, j, {"return"}) <= s.back[j]
    BY <1>0 DEF SaleOK
  <2>2. s.left[j] \in Nat /\ s.shipped[j] \in Nat /\ s.removed[j] \in Nat /\ s.back[j] \in Nat /\ L[j].qty \in Nat
    BY <1>0, LineFacts, CaseFacts DEF SaleOK
  <2>3. /\ t.left[j] = IF j = i THEN s.left[j] - 1 ELSE s.left[j]
        /\ \/ t.shipped[j] = (IF j = i THEN s.shipped[j] + 1 ELSE s.shipped[j]) /\ t.removed[j] = s.removed[j]
           \/ t.shipped[j] = s.shipped[j] /\ t.removed[j] = (IF j = i THEN s.removed[j] + 1 ELSE s.removed[j])
    BY <1>0, <1>2 DEF SaleOK
  <2> QED
    BY <1>1, <1>3, <2>1, <2>2, <2>3
<1> QED
  BY <1>1, <1>4, <1>5, <1>6 DEF SaleOK

LEMMA CancelSaleKeeps == ASSUME SaleOK(sale), CancelSale PROVE SaleOK(sale')
<1> PICK s, t : s = sale /\ t = sale'
  OBVIOUS
<1>1. /\ IsSale(t) /\ t.refunds = s.refunds /\ t.back = s.back /\ t.shipped = s.shipped /\ t.left = s.left
      /\ t.removed = s.removed
  BY DEF CancelSale, SaleOK, IsSale
<1> QED
  BY <1>1 DEF SaleOK, RefundsOK, Refunded

(* A refund of money, or of a line that is not a product.                  *)
LEMMA MoneyBackKeeps ==
  ASSUME case \in Cases, SaleOK(sale), NEW line, line \notin Products, NEW n \in Nat, NEW type, NEW amount \in Nat,
         MoneyBack(line, n, type, amount)
  PROVE  SaleOK(sale')
<1> PICK s, t : s = sale /\ t = sale'
  OBVIOUS
<1>0. PICK r : r = [line |-> line, qty |-> n, type |-> type, amount |-> amount]
  OBVIOUS
<1>1. /\ IsSale(t) /\ t.refunds = Append(s.refunds, r) /\ t.back = s.back /\ t.shipped = s.shipped /\ t.left = s.left
      /\ t.removed = s.removed
  BY <1>0 DEF MoneyBack, SaleOK, IsSale
<1>2. r.qty \in Nat /\ r.amount \in Nat /\ r.line \notin Products /\ RefundsOK(s)
  BY <1>0 DEF SaleOK
<1>3. RefundsOK(t) /\ \A i \in Products : \A types : Refunded(t, i, types) = Refunded(s, i, types)
  <2>1. /\ RefundsOK(t)
        /\ \A i, types : Refunded(t, i, types) = Refunded(s, i, types) + (IF r.line = i /\ r.type \in types THEN r.qty ELSE 0)
    <3>1. t.refunds = Append(s.refunds, r) /\ r.qty \in Nat /\ r.amount \in Nat /\ RefundsOK(s)
      BY <1>1, <1>2
    <3>2. RefundsOK(t)
      BY <3>1, RefundAdded
    <3>3. ASSUME NEW i, NEW types
          PROVE  Refunded(t, i, types) = Refunded(s, i, types) + (IF r.line = i /\ r.type \in types THEN r.qty ELSE 0)
      BY <3>1, RefundGrows
    <3> QED
      BY <3>2, <3>3
  <2>2. \A i, types : Refunded(s, i, types) \in Nat
    BY <1>2, RefundSums
  <2>3. ASSUME NEW i \in Products, NEW types PROVE Refunded(t, i, types) = Refunded(s, i, types)
    <3>1. Refunded(t, i, types) = Refunded(s, i, types) + 0
      BY <1>2, <2>1
    <3> QED
      BY <2>2, <3>1
  <2> QED
    BY <2>1, <2>3
<1> QED
  BY <1>1, <1>3 DEF SaleOK

LEMMA ShareIsNat == \A a, n \in Nat, q \in Nat \ {0} : (a * n) \div q \in Nat
  OBVIOUS

LEMMA RefundKeeps ==
  ASSUME case \in Cases, SaleOK(sale), NEW i \in Products, NEW n \in 1 .. L[i].qty, NEW type \in AllTypes,
         RefundUnits(i, n, type)
  PROVE  SaleOK(sale')
<1>1. L[i].qty \in Nat \ {0} /\ Net(i) \in Nat /\ n \in Nat
  BY LineFacts, CaseFacts
<1>8. PICK share : share = (Net(i) * n) \div L[i].qty
  OBVIOUS
<1>2. share \in Nat
  BY <1>1, <1>8, ShareIsNat
<1>3. PICK amount \in {share, share + 1}, shipped \in BOOLEAN :
        /\ type = "cancel" => ~shipped
        /\ type = "return" => shipped
        /\ IF shipped THEN sale.shipped[i] - sale.back[i] >= n ELSE sale.left[i] >= n
        /\ sale' = [sale EXCEPT !.refunds = Append(@, [line |-> i, qty |-> n, type |-> type, amount |-> amount]),
                                !.left[i] = IF shipped THEN @ ELSE @ - n, !.back[i] = IF shipped THEN @ + n ELSE @]
  BY <1>8 DEF RefundUnits
<1> PICK s, t : s = sale /\ t = sale'
  OBVIOUS
<1>9. PICK r : r = [line |-> i, qty |-> n, type |-> type, amount |-> amount]
  OBVIOUS
<1>0. SaleOK(s)
  OBVIOUS
<1>4. /\ IsSale(t) /\ t.refunds = Append(s.refunds, r) /\ t.shipped = s.shipped /\ t.removed = s.removed
      /\ t.left = [s.left EXCEPT ![i] = IF shipped THEN @ ELSE @ - n]
      /\ t.back = [s.back EXCEPT ![i] = IF shipped THEN @ + n ELSE @]
  BY <1>0, <1>3, <1>9 DEF SaleOK, IsSale
<1>5. r.qty = n /\ r.amount \in Nat /\ r.line = i /\ r.type = type /\ RefundsOK(s)
  BY <1>0, <1>2, <1>3, <1>9 DEF SaleOK
<1>6. /\ RefundsOK(t)
      /\ \A j, types : /\ Refunded(t, j, types) = Refunded(s, j, types) + (IF i = j /\ type \in types THEN n ELSE 0)
                       /\ Refunded(s, j, types) \in Nat
  <2>1. /\ RefundsOK(t)
        /\ \A j, types : Refunded(t, j, types) = Refunded(s, j, types) + (IF r.line = j /\ r.type \in types THEN r.qty ELSE 0)
    <3>1. t.refunds = Append(s.refunds, r) /\ r.qty \in Nat /\ r.amount \in Nat /\ RefundsOK(s)
      BY <1>1, <1>4, <1>5
    <3>2. RefundsOK(t)
      BY <3>1, RefundAdded
    <3>3. ASSUME NEW j, NEW types
          PROVE  Refunded(t, j, types) = Refunded(s, j, types) + (IF r.line = j /\ r.type \in types THEN r.qty ELSE 0)
      BY <3>1, RefundGrows
    <3> QED
      BY <3>2, <3>3
  <2>2. \A j, types : Refunded(s, j, types) \in Nat
    BY <1>5, RefundSums
  <2> QED
    BY <1>5, <2>1, <2>2
<1>7. /\ t.shipped \in [Products -> Nat] /\ t.back \in [Products -> Nat]
      /\ t.left \in [Products -> Nat] /\ t.removed \in [Products -> Nat]
  <2>1. /\ s.shipped \in [Products -> Nat] /\ s.back \in [Products -> Nat]
        /\ s.left \in [Products -> Nat] /\ s.removed \in [Products -> Nat]
    BY <1>0 DEF SaleOK
  <2>2. s.left[i] \in Nat /\ s.back[i] \in Nat /\ (~shipped => s.left[i] >= n)
    BY <1>3, <2>1
  <2>3. (IF shipped THEN s.left[i] ELSE s.left[i] - n) \in Nat /\ (IF shipped THEN s.back[i] + n ELSE s.back[i]) \in Nat
    BY <1>1, <2>2
  <2> QED
    BY <1>4, <2>1, <2>3
<1>10. ASSUME NEW j \in Products
      PROVE  /\ t.left[j] + t.shipped[j] + t.removed[j] + Refunded(t, j, AllTypes) = L[j].qty + t.back[j]
             /\ t.back[j] <= t.shipped[j] /\ Refunded(t, j, {"return"}) <= t.back[j]
  <2>1. /\ s.left[j] + s.shipped[j] + s.removed[j] + Refunded(s, j, AllTypes) = L[j].qty + s.back[j]
        /\ s.back[j] <= s.shipped[j] /\ Refunded(s, j, {"return"}) <= s.back[j]
    BY <1>0 DEF SaleOK
  <2>2. s.left[j] \in Nat /\ s.shipped[j] \in Nat /\ s.removed[j] \in Nat /\ s.back[j] \in Nat /\ L[j].qty \in Nat
    BY <1>0, LineFacts, CaseFacts DEF SaleOK
  <2>3. /\ t.left[j] = (IF j = i /\ ~shipped THEN s.left[j] - n ELSE s.left[j])
        /\ t.back[j] = (IF j = i /\ shipped THEN s.back[j] + n ELSE s.back[j])
        /\ t.shipped[j] = s.shipped[j] /\ t.removed[j] = s.removed[j]
    <3>1. s.left \in [Products -> Nat] /\ s.back \in [Products -> Nat]
      BY <1>0 DEF SaleOK
    <3> QED
      BY <1>3, <1>4, <3>1
  <2>4. /\ Refunded(t, j, AllTypes) = Refunded(s, j, AllTypes) + (IF i = j THEN n ELSE 0)
        /\ Refunded(t, j, {"return"}) = Refunded(s, j, {"return"}) + (IF i = j /\ type = "return" THEN n ELSE 0)
        /\ Refunded(s, j, AllTypes) \in Nat /\ Refunded(s, j, {"return"}) \in Nat
    BY <1>6
  <2>5. j = i /\ shipped => s.shipped[j] - s.back[j] >= n
    BY <1>3
  <2> QED
    <3>1. CASE j # i
      BY <2>1, <2>2, <2>3, <2>4, <3>1
    <3>2. CASE j = i /\ shipped
      BY <1>1, <2>1, <2>2, <2>3, <2>4, <2>5, <3>2
    <3>3. CASE j = i /\ ~shipped
      <4>1. type # "return"
        BY <1>3, <3>3
      <4> QED
        BY <1>1, <2>1, <2>2, <2>3, <2>4, <3>3, <4>1
    <3> QED
      BY <3>1, <3>2, <3>3
<1> QED
  BY <1>4, <1>6, <1>7, <1>10 DEF SaleOK

LEMMA SaleKeeps ==
  ASSUME case \in Cases, SaleOK(sale), SaleChanges PROVE SaleOK(sale')
<1>1. ASSUME NEW i \in Products, Ship(i) \/ Edit(i) PROVE SaleOK(sale')
  BY <1>1, ShipKeeps
<1>2. ASSUME NEW i \in Products, NEW n \in 1 .. L[i].qty, NEW type \in AllTypes, RefundUnits(i, n, type)
      PROVE  SaleOK(sale')
  BY <1>2, RefundKeeps
<1>3. ASSUME NEW i \in DOMAIN L \ Products, MoneyBack(i, 1, "no_restock", Charged(i)) PROVE SaleOK(sale')
  <2>1. Charged(i) \in Nat
    BY LineFacts
  <2> QED
    BY <1>3, <2>1, MoneyBackKeeps
<1>4. ASSUME NEW amount \in case.amounts, MoneyBack(0, 0, "none", amount) PROVE SaleOK(sale')
  <2>1. amount \in Nat /\ 0 \notin Products
    BY CaseFacts
  <2> QED
    BY <1>4, <2>1, MoneyBackKeeps
<1> QED
  BY <1>1, <1>2, <1>3, <1>4, CancelSaleKeeps DEF SaleChanges

LEMMA KeptFacts ==
  ASSUME case \in Cases, NEW s, SaleOK(s), NEW i \in Products
  PROVE  /\ Kept(s, i) \in Nat /\ Kept(s, i) <= L[i].qty /\ s.shipped[i] - s.back[i] <= Kept(s, i)
         /\ Remaining(s, i) \in Nat /\ Remaining(s, i) <= L[i].qty
         /\ case.only /\ ~Ambiguous(s, i) => Remaining(s, i) = Kept(s, i)
         /\ ~case.only => Remaining(s, i) = L[i].qty
<1>1. L[i].qty \in Nat \ {0}
  BY CaseFacts, LineFacts
<1>2. /\ s.left[i] \in Nat /\ s.shipped[i] \in Nat /\ s.back[i] \in Nat /\ s.removed[i] \in Nat
      /\ s.left[i] + s.shipped[i] + s.removed[i] + Refunded(s, i, AllTypes) = L[i].qty + s.back[i]
      /\ s.back[i] <= s.shipped[i]
  BY DEF SaleOK
<1>3. Refunded(s, i, AllTypes) \in Nat
  BY RefundSums DEF SaleOK
<1>4. Kept(s, i) = L[i].qty - Refunded(s, i, AllTypes) - s.removed[i]
  BY DEF Kept
<1>5. Kept(s, i) \in Nat /\ Kept(s, i) <= L[i].qty /\ s.shipped[i] - s.back[i] <= Kept(s, i)
  BY <1>1, <1>2, <1>3, <1>4
<1>6. CASE case.only /\ ~Ambiguous(s, i)
  <2>1. Remaining(s, i) = L[i].qty - Refunded(s, i, AllTypes)
    BY <1>6 DEF Remaining
  <2>2. Kept(s, i) = L[i].qty - Refunded(s, i, AllTypes) /\ Refunded(s, i, AllTypes) <= L[i].qty
    BY <1>1, <1>3, <1>6 DEF Ambiguous, Invalid
  <2> QED
    BY <1>1, <1>3, <1>5, <1>6, <2>1, <2>2
<1>7. CASE ~(case.only /\ ~Ambiguous(s, i))
  <2>1. Remaining(s, i) = L[i].qty
    BY <1>7 DEF Remaining
  <2> QED
    BY <1>1, <1>5, <1>7, <2>1
<1> QED
  BY <1>6, <1>7

LEMMA LinesFacts ==
  ASSUME case \in Cases, NEW s PROVE Lines(s) \subseteq Products /\ IsFiniteSet(Lines(s)) /\ Lines(s) \subseteq DOMAIN L
<1>1. Lines(s) \subseteq Products
  BY DEF Lines
<1> QED
  BY <1>1, CaseFacts, FS_Subset

(* Sums of natural numbers, and of the parts of one.                       *)
LEMMA Sum ==
  ASSUME NEW S, IsFiniteSet(S), NEW f, DOMAIN f = S, \A i \in S : f[i] \in Nat
  PROVE  SumFunction(f) \in Nat /\ SumFunction(f) = SumFunctionOnSet(f, S)
BY Sums, SumNat

LEMMA SumSplit ==
  ASSUME NEW S, IsFiniteSet(S), NEW T \in SUBSET S, NEW f, \A i \in S : f[i] \in Int
  PROVE  SumFunctionOnSet(f, S) = SumFunctionOnSet(f, T) + SumFunctionOnSet(f, S \ T)
<1> PICK U : U = S \ T
  OBVIOUS
<1>1. T \cap U = {} /\ IsFiniteSet(T) /\ IsFiniteSet(U) /\ \A i \in T \cup U : f[i] \in Int
  BY FS_Subset
<1>2. SumFunctionOnSet(f, T \cup U) = SumFunctionOnSet(f, T) + SumFunctionOnSet(f, U)
  BY <1>1, SumJoin
<1>3. T \cup U = S
  OBVIOUS
<1> QED
  BY <1>2, <1>3

LEMMA Totals ==
  ASSUME case \in Cases
  PROVE  /\ FeeTotal \in Nat /\ ProductTax \in Nat /\ Placed \in Nat /\ ListWorth \in Nat /\ Total \in Int
         /\ Total = Placed + ProductTax + FeeTotal + case.shipping + case.tip + case.other
<1> PICK P, Q, net, tax, both, fee, all, gross :
      /\ P = Products /\ Q = DOMAIN L \ Products
      /\ net = [i \in P |-> Net(i)] /\ tax = [i \in P |-> AddedTax(i)] /\ both = [i \in P |-> Charged(i)]
      /\ fee = [i \in Q |-> Charged(i)] /\ all = [i \in DOMAIN L |-> Charged(i)]
      /\ gross = [i \in P |-> L[i].price * L[i].qty]
  OBVIOUS
<1>1. IsFiniteSet(P) /\ IsFiniteSet(Q) /\ P \cap Q = {} /\ P \cup Q = DOMAIN L
  BY CaseFacts
<1>2. \A i \in P \cup Q : Net(i) \in Nat /\ AddedTax(i) \in Nat /\ Charged(i) \in Nat /\ L[i].price * L[i].qty \in Nat
  BY <1>1, LineFacts
<1>3. \A i \in P : net[i] \in Nat /\ tax[i] \in Nat /\ both[i] \in Nat /\ gross[i] \in Nat /\ both[i] = net[i] + tax[i]
  BY <1>2 DEF Charged
<1>4. \A i \in Q : fee[i] \in Nat /\ all[i] = fee[i]
  BY <1>1, <1>2
<1>5. \A i \in P \cup Q : all[i] \in Int
  BY <1>1, <1>2
<1>6. \A i \in P : all[i] = both[i]
  BY <1>1
<1>7. Placed = SumFunctionOnSet(net, P) /\ Placed \in Nat
  BY <1>1, <1>3, Sum DEF Placed
<1>8. ProductTax = SumFunctionOnSet(tax, P) /\ ProductTax \in Nat
  BY <1>1, <1>3, Sum DEF ProductTax
<1>9. FeeTotal = SumFunctionOnSet(fee, Q) /\ FeeTotal \in Nat
  BY <1>1, <1>4, Sum DEF FeeTotal
<1>10. ListWorth \in Nat
  BY <1>1, <1>3, Sum DEF ListWorth
<1>11. SumFunction(all) = SumFunctionOnSet(all, P \cup Q)
  BY <1>1, Sums
<1>12. SumFunctionOnSet(all, P \cup Q) = SumFunctionOnSet(all, P) + SumFunctionOnSet(all, Q)
  <2>1. P \cap Q = {} /\ IsFiniteSet(P) /\ IsFiniteSet(Q) /\ \A i \in P \cup Q : all[i] \in Int
    BY <1>1, <1>5
  <2> QED
    BY <2>1, SumJoin
<1>13. SumFunctionOnSet(all, P) = SumFunctionOnSet(both, P) /\ SumFunctionOnSet(all, Q) = SumFunctionOnSet(fee, Q)
  BY <1>1, <1>4, <1>6, SumEqual
<1>14. SumFunctionOnSet(both, P) = SumFunctionOnSet(net, P) + SumFunctionOnSet(tax, P)
  BY <1>1, <1>3, SumPlus
<1>15. Total = SumFunction(all) + case.shipping + case.tip + case.other
  BY DEF Total
<1> QED
  <2>1. SumFunction(all) = Placed + ProductTax + FeeTotal
    BY <1>7, <1>8, <1>9, <1>11, <1>12, <1>13, <1>14
  <2>2. case.shipping \in Nat /\ case.tip \in Nat /\ case.other \in Int
    BY CaseFacts
  <2> QED
    BY <1>7, <1>8, <1>9, <1>10, <1>15, <2>1, <2>2

(* What the effective lines are worth.                                     *)
LEMMA ExpectedFacts ==
  ASSUME case \in Cases, NEW s, SaleOK(s)
  PROVE  /\ DOMAIN Expected(s) = Lines(s)
         /\ \A i \in Lines(s) : Expected(s)[i].qty = Remaining(s, i) /\ Expected(s)[i].price = Price(i)
BY DEF Expected

LEMMA OnlyWorth ==
  ASSUME case \in Cases, NEW s, SaleOK(s), case.only, \A i \in Lines(s) : Unit(i) # NoPrice
  PROVE  Value(Expected(s)) = Worth(s) /\ Worth(s) \in Nat /\ Worth(s) <= Placed
<1> PICK N, P, share, value, net :
      /\ N = Lines(s) /\ P = Products
      /\ share = [i \in N |-> Unit(i) * Remaining(s, i)]
      /\ value = [i \in DOMAIN Expected(s) |-> Expected(s)[i].qty * Expected(s)[i].price]
      /\ net = [i \in P |-> Net(i)]
  OBVIOUS
<1>1. N \subseteq P /\ P \subseteq DOMAIN L /\ IsFiniteSet(N) /\ IsFiniteSet(P) /\ IsFiniteSet(P \ N)
  BY CaseFacts, LinesFacts, FS_Subset
<1>2. ASSUME NEW i \in N
      PROVE  /\ Unit(i) \in Nat /\ Remaining(s, i) \in Nat /\ Unit(i) * Remaining(s, i) \in Nat
             /\ Unit(i) * Remaining(s, i) <= Net(i) /\ Price(i) = Unit(i)
  <2>1. /\ Unit(i) \in Nat /\ Unit(i) * L[i].qty = Net(i) /\ Unit(i) # NoPrice
        /\ Remaining(s, i) \in Nat /\ Remaining(s, i) <= L[i].qty /\ L[i].qty \in Nat
    BY <1>1, UnitFacts, KeptFacts, LineFacts
  <2>2. \A a, b, c \in Nat : b <= c => a * b \in Nat /\ a * b <= a * c
    OBVIOUS
  <2> QED
    BY <2>1, <2>2 DEF Price
<1>3. \A i \in P : Net(i) \in Nat
  BY <1>1, LineFacts
<1>4. Worth(s) = SumFunction(share)
  BY DEF Worth
<1>5. value = share
  BY <1>2, ExpectedFacts
<1>6. Value(Expected(s)) = SumFunction(value)
  BY DEF Value
<1>7. SumFunction(share) \in Nat /\ SumFunction(share) = SumFunctionOnSet(share, N)
  <2>1. DOMAIN share = N /\ \A i \in N : share[i] \in Nat
    BY <1>2
  <2> QED
    BY <1>1, <2>1, Sum
<1>8. SumFunctionOnSet(share, N) <= SumFunctionOnSet(net, N)
  <2>1. \A i \in N : share[i] \in Int /\ net[i] \in Int /\ share[i] <= net[i]
    BY <1>1, <1>2, <1>3
  <2> QED
    BY <1>1, <2>1, SumLess
<1>9. SumFunctionOnSet(net, N) \in Nat /\ SumFunctionOnSet(net, P \ N) \in Nat
  <2>1. \A i \in P : net[i] \in Nat
    BY <1>3
  <2> QED
    BY <1>1, <2>1, SumNat
<1>10. SumFunctionOnSet(net, P) = SumFunctionOnSet(net, N) + SumFunctionOnSet(net, P \ N)
  <2>1. N \in SUBSET P /\ \A i \in P : net[i] \in Int
    BY <1>1, <1>3
  <2> QED
    BY <1>1, <2>1, SumSplit
<1>11. Placed = SumFunctionOnSet(net, P)
  <2>1. DOMAIN net = P /\ Placed = SumFunction(net)
    BY DEF Placed
  <2> QED
    BY <2>1, Sums
<1> QED
  BY <1>4, <1>5, <1>6, <1>7, <1>8, <1>9, <1>10, <1>11

LEMMA StrictWorth ==
  ASSUME case \in Cases, NEW s, SaleOK(s), ~case.only
  PROVE  Value(Expected(s)) = ListWorth /\ Lines(s) = Products
<1>1. \A i \in Products : Remaining(s, i) = L[i].qty /\ L[i].qty \in Nat \ {0} /\ L[i].price \in Nat
  BY KeptFacts, LineFacts, CaseFacts
<1>2. Lines(s) = Products
  BY <1>1 DEF Lines
<1>3. \A i \in Products : Expected(s)[i].qty * Expected(s)[i].price = L[i].price * L[i].qty
  BY <1>1, <1>2, ExpectedFacts DEF Price
<1>4. [i \in DOMAIN Expected(s) |-> Expected(s)[i].qty * Expected(s)[i].price] = [i \in Products |-> L[i].price * L[i].qty]
  BY <1>2, <1>3, ExpectedFacts
<1> QED
  BY <1>2, <1>4 DEF Value, ListWorth

(* Lines that raise no reason are worth what is expected.                  *)
LEMMA SameLines ==
  ASSUME NEW o, NEW e, LineReasons(o, e) = {}
  PROVE  /\ DOMAIN o.lines = DOMAIN e /\ Value(o.lines) = Value(e)
         /\ \A i \in DOMAIN e : o.lines[i].qty = e[i].qty /\ o.lines[i].price = e[i].price
<1>1. DOMAIN o.lines = DOMAIN e
  BY DEF LineReasons, When
<1>2. \A i \in DOMAIN e : o.lines[i].qty = e[i].qty /\ o.lines[i].price = e[i].price
  BY <1>1 DEF LineReasons, When
<1>3. [i \in DOMAIN o.lines |-> o.lines[i].qty * o.lines[i].price] = [i \in DOMAIN e |-> e[i].qty * e[i].price]
  BY <1>1, <1>2
<1> QED
  BY <1>1, <1>2, <1>3 DEF Value

(* What is known of a plan without reasons, or with approved ones.         *)
LEMMA OnlyUnits ==
  ASSUME case \in Cases, NEW s, SaleOK(s), NEW o, case.only, Reasons(o, s) \subseteq Overridable
  PROVE  /\ \A i \in Products : ~Ambiguous(s, i) /\ Remaining(s, i) = Kept(s, i)
         /\ \A i \in Lines(s) : Unit(i) # NoPrice
<1>1. ProductReasons(s) \subseteq Overridable
  BY DEF Reasons
<1>2. "refund_requires_verification" \notin Overridable /\ "discount_not_representable" \notin Overridable
  BY DEF Overridable, When
<1>3. \A i \in Products : ~Ambiguous(s, i)
  BY <1>1, <1>2 DEF ProductReasons, When
<1>4. \A i \in Lines(s) : Unit(i) # NoPrice
  BY <1>1, <1>2 DEF ProductReasons, When
<1> QED
  BY <1>3, <1>4, KeptFacts

LEMMA StrictUnits ==
  ASSUME case \in Cases, NEW s, SaleOK(s), NEW o, ~case.only, Reasons(o, s) \subseteq Overridable, NEW i \in Products
  PROVE  /\ Kept(s, i) = L[i].qty - s.removed[i]
         /\ "unsupported_discount" \in Reasons(o, s) \/ Net(i) = L[i].price * L[i].qty
<1>1. StrictReasons(s) \subseteq Overridable /\ StrictReasons(s) \subseteq Reasons(o, s)
  BY DEF Reasons
<1>2. "refund_affects_products" \notin Overridable
  BY DEF Overridable, When
<1>3. \A k \in DOMAIN s.refunds : s.refunds[k].line # i
  BY <1>1, <1>2 DEF StrictReasons, When
<1>4. Refunded(s, i, AllTypes) = 0
  <2> PICK f : f = Units(s, i, AllTypes)
    OBVIOUS
  <2>1. \A k \in DOMAIN s.refunds : f[k] = 0
    BY <1>3 DEF Units
  <2>2. IsFiniteSet(DOMAIN s.refunds)
    <3>1. DOMAIN s.refunds = 1 .. Len(s.refunds) /\ Len(s.refunds) \in Nat
      BY DEF SaleOK, RefundsOK, IsList
    <3> QED
      BY <3>1, FS_Interval
  <2>3. SumFunctionOnSet(f, DOMAIN s.refunds) = 0
    BY <2>1, <2>2, SumZero
  <2>4. Refunded(s, i, AllTypes) = SumFunctionOnSet(f, DOMAIN s.refunds)
    BY RefundSums DEF SaleOK
  <2> QED
    BY <2>3, <2>4
<1>5. L[i].qty \in Nat /\ L[i].off \in Nat /\ L[i].price * L[i].qty \in Nat
  BY LineFacts, CaseFacts
<1>6. Kept(s, i) = L[i].qty - s.removed[i]
  <2>1. s.removed[i] \in Nat
    BY DEF SaleOK
  <2> QED
    BY <1>4, <1>5, <2>1 DEF Kept
<1>7. L[i].off > 0 => "unsupported_discount" \in Reasons(o, s)
  BY <1>1 DEF StrictReasons, When
<1>8. L[i].off = 0 => Net(i) = L[i].price * L[i].qty
  BY <1>5 DEF Net
<1> QED
  BY <1>5, <1>6, <1>7, <1>8

IsOrder(o) ==
  o = [lines |-> o.lines, paid |-> o.paid, surcharge |-> o.surcharge, total |-> o.total, touched |-> o.touched]
OrderOK(o) == IsOrder(o) /\ o.surcharge \in Nat /\ o.paid \in Int /\ (case.only => o.paid \in Nat)

LEMMA OnlyClear ==
  ASSUME case \in Cases, NEW s, SaleOK(s), NEW o, OrderOK(o), case.only, Reasons(o, s) = {}
  PROVE  /\ o.surcharge = 0 /\ o.paid = Value(o.lines)
         /\ Value(o.lines) = Worth(s) /\ Worth(s) \in Nat
         /\ Worth(s) <= Collected(s)
         /\ DOMAIN o.lines = Lines(s)
         /\ \A i \in Lines(s) : o.lines[i].qty = Kept(s, i) /\ o.lines[i].price = Unit(i) /\ Unit(i) # NoPrice
<1>1. /\ ProductReasons(s) = {} /\ LineReasons(o, Expected(s)) = {} /\ TotalReasons(o, Expected(s)) = {}
      /\ PaymentReasons(o, s) = {}
  BY DEF Reasons
<1>2. /\ \A i \in Products : ~Ambiguous(s, i) /\ Remaining(s, i) = Kept(s, i)
      /\ \A i \in Lines(s) : Unit(i) # NoPrice
  BY OnlyUnits
<1>3. Value(Expected(s)) = Worth(s) /\ Worth(s) \in Nat /\ Worth(s) <= Placed
  BY <1>2, OnlyWorth
<1>4. /\ DOMAIN o.lines = Lines(s) /\ Value(o.lines) = Worth(s)
      /\ \A i \in Lines(s) : o.lines[i].qty = Remaining(s, i) /\ o.lines[i].price = Price(i)
  BY <1>1, <1>3, SameLines, ExpectedFacts
<1>5. o.surcharge = 0
  BY <1>1 DEF TotalReasons, When, OrderOK
<1>6. o.paid = Value(o.lines)
  <2>1. o.paid # 0 /\ ~(o.paid > Value(o.lines)) /\ ~(0 < o.paid /\ o.paid < Value(o.lines))
    BY <1>1 DEF PaymentReasons, When
  <2>2. o.paid \in Nat /\ Value(o.lines) \in Nat
    BY <1>3, <1>4 DEF OrderOK
  <2> QED
    BY <2>1, <2>2
<1>7. ~(ProductTax > 0) /\ ~(Other < 0) /\ ~(Money(s) > Greater(0, Total - Worth(s) - ProductTax))
  <2>1. ~(ProductTax > 0)
    BY <1>1 DEF ProductReasons, When
  <2>2. ~(Other < 0)
    BY <1>1 DEF ProductReasons, When
  <2>3. ~OverRefunded(s)
    BY <1>1 DEF ProductReasons, When
  <2> QED
    BY <2>1, <2>2, <2>3 DEF OverRefunded
<1>8. Worth(s) <= Collected(s)
  <2>1. Money(s) \in Nat
    BY RefundSums DEF SaleOK
  <2>2. /\ FeeTotal \in Nat /\ ProductTax \in Nat /\ Placed \in Nat /\ Total \in Int
        /\ case.shipping \in Nat /\ case.tip \in Nat
    BY Totals, CaseFacts
  <2>3. Other = Total - (Placed + ProductTax + case.shipping + FeeTotal + case.tip)
    BY DEF Other
  <2>4. Total >= Worth(s)
    BY <1>3, <1>7, <2>2, <2>3
  <2> QED
    BY <1>3, <1>7, <2>1, <2>2, <2>4 DEF Greater, Collected
<1>9. \A i \in Lines(s) : i \in Products
  BY LinesFacts
<1> QED
  BY <1>2, <1>3, <1>4, <1>5, <1>6, <1>8, <1>9 DEF Price

LEMMA StrictClear ==
  ASSUME case \in Cases, NEW s, SaleOK(s), NEW o, OrderOK(o), ~case.only, Reasons(o, s) = {}
  PROVE  /\ o.surcharge = case.shipping /\ o.paid <= ListWorth + case.shipping
         /\ Value(o.lines) = ListWorth
         /\ ListWorth + case.shipping <= Collected(s)
         /\ DOMAIN o.lines = Products
         /\ \A i \in Products : o.lines[i].qty = L[i].qty /\ o.lines[i].price = L[i].price
<1>1. /\ StrictReasons(s) = {} /\ LineReasons(o, Expected(s)) = {} /\ TotalReasons(o, Expected(s)) = {}
      /\ PaymentReasons(o, s) = {}
  BY DEF Reasons
<1>2. Value(Expected(s)) = ListWorth /\ Lines(s) = Products
  BY StrictWorth
<1>3. /\ DOMAIN o.lines = Products /\ Value(o.lines) = ListWorth
      /\ \A i \in Products : o.lines[i].qty = Remaining(s, i) /\ o.lines[i].price = Price(i)
  BY <1>1, <1>2, SameLines, ExpectedFacts
<1>4. /\ FeeTotal \in Nat /\ ListWorth \in Nat /\ Total \in Int /\ case.shipping \in Nat /\ Money(s) \in Nat
      /\ o.paid \in Int /\ o.surcharge \in Nat
  BY Totals, CaseFacts, RefundSums DEF SaleOK, OrderOK
<1>5. o.surcharge = case.shipping
  <2>1. ~(case.shipping > 0 /\ o.surcharge = 0) /\ o.surcharge \in {0, case.shipping}
    BY <1>1 DEF TotalReasons, When
  <2> QED
    BY <1>4, <2>1
<1>6. o.paid <= ListWorth + case.shipping
  <2>1. ~(o.paid > ListWorth + case.shipping)
    BY <1>1 DEF PaymentReasons, When, ExpectedTotal
  <2> QED
    BY <1>4, <2>1
<1>7. Adjusted = ListWorth + case.shipping
  BY <1>1 DEF StrictReasons, When
<1>8. ~(Money(s) > FeeTotal)
  BY <1>1 DEF StrictReasons, When, FeesRefunded
<1>9. ListWorth + case.shipping <= Collected(s)
  BY <1>4, <1>7, <1>8 DEF Collected, Adjusted
<1> QED
  BY <1>3, <1>5, <1>6, <1>9, KeptFacts DEF Price

-----------------------------------------------------------------------------
(* The case is chosen once, and so is all that depends on it alone.        *)
LEMMA Stays ==
  ASSUME case' = case
  PROVE  /\ L' = L /\ Products' = Products
         /\ \A s, i : Kept(s, i)' = Kept(s, i) /\ Ambiguous(s, i)' = Ambiguous(s, i)
         /\ \A s : PlannedPayment(s)' = PlannedPayment(s)
         /\ PlannedSurcharge' = PlannedSurcharge
         /\ \A s : Lines(s)' = Lines(s) /\ Expected(s)' = Expected(s)
         /\ \A o, s : Reasons(o, s)' = Reasons(o, s)
         /\ \A o, s : AutoPlan(o, s)' = AutoPlan(o, s)
         /\ \A o, s : OverridePlan(o, s)' = OverridePlan(o, s)
         /\ Overridable' = Overridable
<1>1. L' = L
  BY DEF L
<1>2. Products' = Products
  BY <1>1 DEF Products
<1>3. \A i : Net(i)' = Net(i) /\ AddedTax(i)' = AddedTax(i)
  BY <1>1 DEF Net, AddedTax
<1>4. \A i : Charged(i)' = Charged(i) /\ Unit(i)' = Unit(i)
  BY <1>1, <1>3 DEF Charged, Unit
<1>5. FeeTotal' = FeeTotal
  BY <1>1, <1>2, <1>4 DEF FeeTotal
<1>6. Total' = Total
  BY <1>1, <1>4 DEF Total
<1>7. Adjusted' = Adjusted /\ \A s : Collected(s)' = Collected(s)
  BY <1>5, <1>6 DEF Adjusted, Collected, Money
<1>8. \A s, i : Kept(s, i)' = Kept(s, i) /\ Invalid(s, i)' = Invalid(s, i)
  BY <1>1 DEF Kept, Invalid, Refunded, AllTypes
<1>9. \A s, i : Ambiguous(s, i)' = Ambiguous(s, i)
  BY <1>1, <1>8 DEF Ambiguous, Refunded
<1>10. \A s, i : Remaining(s, i)' = Remaining(s, i)
  BY <1>1, <1>9 DEF Remaining, Refunded, AllTypes
<1>11. \A s : Lines(s)' = Lines(s)
  BY <1>2, <1>10 DEF Lines
<1>12. \A s : Worth(s)' = Worth(s)
  BY <1>1, <1>3, <1>4, <1>10, <1>11 DEF Worth
<1>13. ListWorth' = ListWorth
  BY <1>1, <1>2 DEF ListWorth
<1>14. \A i : Price(i)' = Price(i)
  BY <1>1, <1>4 DEF Price
<1>15. \A s : Expected(s)' = Expected(s)
  BY <1>10, <1>11, <1>14 DEF Expected
<1>16. ProductTax' = ProductTax /\ Placed' = Placed
  BY <1>2, <1>3 DEF ProductTax, Placed
<1>17. Other' = Other
  BY <1>5, <1>6, <1>16 DEF Other
<1>18. \A s : StatusReasons(s)' = StatusReasons(s)
  BY <1>2, <1>6 DEF StatusReasons, FinancialStatus, Partial, Money, When
<1>19. \A s : StrictReasons(s)' = StrictReasons(s)
  BY <1>1, <1>2, <1>3, <1>5, <1>7, <1>13 DEF StrictReasons, FeesRefunded, Money, When
<1>20. \A s : OverRefunded(s)' = OverRefunded(s)
  BY <1>6, <1>12, <1>16 DEF OverRefunded, Money, Greater
<1>21. \A s : ProductReasons(s)' = ProductReasons(s)
  BY <1>2, <1>4, <1>5, <1>9, <1>11, <1>16, <1>17, <1>20 DEF ProductReasons, When
<1>22. \A s : ExpectedTotal(s)' = ExpectedTotal(s)
  BY <1>12, <1>13 DEF ExpectedTotal
<1>24. \A o : Proven(o)' = Proven(o)
  BY DEF Proven
<1>25. \A o, s : PaymentReasons(o, s)' = PaymentReasons(o, s)
  BY <1>22, <1>24 DEF PaymentReasons, When, Value
<1>26. \A o, s : LineReasons(o, Expected(s))' = LineReasons(o, Expected(s))
  BY <1>15 DEF LineReasons, When
<1>27. \A o, s : TotalReasons(o, Expected(s))' = TotalReasons(o, Expected(s))
  <2>1. \A s : Value(Expected(s))' = Value(Expected(s))
    BY <1>15 DEF Value
  <2> QED
    BY <1>13, <2>1 DEF TotalReasons, When
<1>28. \A o, s : Reasons(o, s)' = Reasons(o, s)
  BY <1>18, <1>19, <1>21, <1>25, <1>26, <1>27 DEF Reasons
<1>29. \A o, s : ExtraPayment(o, s)' = ExtraPayment(o, s)
  BY <1>7, <1>24 DEF ExtraPayment, BillTotal, PaidForGoods, Value, Greater, Less
<1>30. \A s : ShopMerchandise(s)' = ShopMerchandise(s) /\ PaidForGoods(s)' = PaidForGoods(s)
  BY <1>7, <1>12, <1>13 DEF ShopMerchandise, PaidForGoods
<1>31. \A o, s : Differences(o, s)' = Differences(o, s)
  BY <1>5, <1>7, <1>12, <1>16, <1>17, <1>24, <1>29, <1>30 DEF Differences, When, Value, BillTotal
<1>32. \A o, s : AutoPlan(o, s)' = AutoPlan(o, s)
  BY <1>22 DEF AutoPlan
<1>33. \A o, s : OverridePlan(o, s)' = OverridePlan(o, s)
  BY <1>28, <1>29, <1>31 DEF OverridePlan, BillTotal, Value
<1>34. Overridable' = Overridable
  BY DEF Overridable, When
<1>35. PlannedSurcharge' = PlannedSurcharge /\ \A s : PlannedPayment(s)' = PlannedPayment(s)
  BY <1>7, <1>12 DEF PlannedPayment, PlannedSurcharge
<1> QED
  BY <1>1, <1>2, <1>8, <1>9, <1>11, <1>15, <1>28, <1>32, <1>33, <1>34, <1>35

-----------------------------------------------------------------------------
(* An order that nobody touched is as it was created.                      *)
BornOK ==
  order # None /\ ~order.touched =>
    /\ SaleOK(born) /\ Lines(born) # {}
    /\ case.only => \A i \in Products : ~Ambiguous(born, i)
    /\ order.lines = Expected(born) /\ order.paid = PlannedPayment(born) /\ order.surcharge = PlannedSurcharge
    /\ order.total \in {Value(Expected(born)), Value(Expected(born)) + PlannedSurcharge}

(* A plan is what its reads say; an automatic one was made without a       *)
(* reason, an override with reasons that may be approved.                  *)
PlanOK ==
  LET p == run.plan IN
  /\ OrderOK(p.order) /\ SaleOK(p.sale)
  /\ Automatic => Reasons(p.order, p.sale) = {} /\ p = AutoPlan(p.order, p.sale)
  /\ ~Automatic => Reasons(p.order, p.sale) \subseteq Overridable /\ p = OverridePlan(p.order, p.sale)

IsBill(b) ==
  b = [lines |-> b.lines, surcharge |-> b.surcharge, total |-> b.total, touched |-> b.touched, completed |-> b.completed,
       paid |-> b.paid, rows |-> b.rows]
BillOK ==
  /\ IsBill(bill) /\ bill.surcharge \in Nat
  /\ bill.total \in {Value(run.plan.lines), Value(run.plan.lines) + bill.surcharge}

IsRun(r) == r = [at |-> r.at, by |-> r.by, plan |-> r.plan, stock |-> r.stock]
Planned == {"stock", "shopify", "order", "send", "verify"}

RunOK ==
  /\ IsRun(run)
  /\ run.at \in {"auto", "preview", "submit"} => OrderOK(run.plan.order)
  /\ run.at = "auto" => Automatic
  /\ run.at = "submit" => ~Automatic
  /\ run.at \in Planned => PlanOK
  /\ run.at = "verify" => BillOK

AmountsInv ==
  /\ case \in Cases /\ SaleOK(sale) /\ (order # None \/ run.at # "idle" => OrderOK(order))
  /\ BornOK /\ RunOK

LEMMA SaleAfter == ASSUME case' = case, SaleOK(sale') PROVE SaleOK(sale)'
<1> PICK t : t = sale'
  OBVIOUS
<1>1. SaleOK(t)'
  BY SaleAsBefore
<1> QED
  BY <1>1 DEF SaleOK, IsSale, RefundsOK, Refunded

LEMMA OrderAsBefore == ASSUME case' = case, NEW o, OrderOK(o) PROVE OrderOK(o)'
  BY DEF OrderOK, IsOrder

LEMMA BornStays == ASSUME BornOK, case' = case, born' = born, order' = order PROVE BornOK'
<1> SUFFICES ASSUME order # None, ~order.touched
             PROVE  /\ SaleOK(born)' /\ (Lines(born) # {})'
                    /\ (case.only => \A i \in Products : ~Ambiguous(born, i))'
                    /\ (order.lines = Expected(born) /\ order.paid = PlannedPayment(born) /\ order.surcharge = PlannedSurcharge)'
                    /\ (order.total \in {Value(Expected(born)), Value(Expected(born)) + PlannedSurcharge})'
  BY DEF BornOK
<1> PICK b : b = born
  OBVIOUS
<1>1. /\ SaleOK(b) /\ Lines(b) # {}
      /\ case.only => \A i \in Products : ~Ambiguous(b, i)
      /\ order.lines = Expected(b) /\ order.paid = PlannedPayment(b) /\ order.surcharge = PlannedSurcharge
      /\ order.total \in {Value(Expected(b)), Value(Expected(b)) + PlannedSurcharge}
  BY DEF BornOK
<1>2. SaleOK(b)'
  BY <1>1, SaleAsBefore
<1>3. /\ Lines(b)' = Lines(b) /\ Expected(b)' = Expected(b) /\ PlannedPayment(b)' = PlannedPayment(b)
      /\ PlannedSurcharge' = PlannedSurcharge /\ Products' = Products /\ \A i : Ambiguous(b, i)' = Ambiguous(b, i)
  BY Stays
<1>4. born' = b /\ born = b
  OBVIOUS
<1>5. Value(Expected(b))' = Value(Expected(b))
  BY <1>3 DEF Value
<1> QED
  BY <1>1, <1>2, <1>3, <1>4, <1>5

LEMMA PlanStays ==
  ASSUME PlanOK, case' = case, run'.plan = run.plan, run'.by = run.by PROVE PlanOK'
<1> PICK p : p = run.plan
  OBVIOUS
<1> PICK o, s : o = p.order /\ s = p.sale
  OBVIOUS
<1>1. OrderOK(o)' /\ SaleOK(s)'
  BY OrderAsBefore, SaleAsBefore DEF PlanOK
<1>2. /\ Reasons(o, s)' = Reasons(o, s) /\ AutoPlan(o, s)' = AutoPlan(o, s) /\ OverridePlan(o, s)' = OverridePlan(o, s)
      /\ Overridable' = Overridable
  BY Stays
<1> QED
  BY <1>1, <1>2 DEF PlanOK, Automatic
-----------------------------------------------------------------------------
(* What a record that says created says, kept from then on.                *)
TrueRecord ==
  LET s == run.plan.sale IN
  /\ \A i \in Products : Kept(s, i) > 0 /\ (case.only \/ s.removed[i] = 0) =>
       /\ i \in DOMAIN bill.lines /\ bill.lines[i].qty = Kept(s, i)
       /\ bill.lines[i].price * L[i].qty = Net(i) \/ "unsupported_discount" \in run.plan.reasons
  /\ (~case.only \/ record.payment = "verified") /\ (bill.surcharge > 0 => run.plan.order.surcharge > 0) =>
       bill.paid = Value(bill.lines) + bill.surcharge
RecordOK == record.status = "created" => run.at = "done" /\ TrueRecord

LEMMA AmountsInitInv == ASSUME AmountsInit PROVE AmountsInv /\ RecordOK
<1>1. case \in Cases
  BY DEF AmountsInit
<1> PICK s : s = sale
  OBVIOUS
<1>2. /\ IsSale(s) /\ s.refunds = <<>> /\ s.shipped = [i \in Products |-> 0] /\ s.back = [i \in Products |-> 0]
      /\ s.left = [i \in Products |-> L[i].qty] /\ s.removed = [i \in Products |-> 0]
  BY DEF AmountsInit, IsSale
<1>3. RefundsOK(s) /\ DOMAIN s.refunds = {}
  BY <1>2 DEF RefundsOK, IsList
<1>4. ASSUME NEW i, NEW types PROVE Refunded(s, i, types) = 0
  <2> PICK f : f = Units(s, i, types)
    OBVIOUS
  <2>1. Refunded(s, i, types) = SumFunctionOnSet(f, {})
    BY <1>3, RefundSums
  <2> QED
    BY <2>1, SumEmpty
<1>5. \A i \in Products : L[i].qty \in Nat
  BY <1>1, CaseFacts, LineFacts
<1>6. SaleOK(s)
  BY <1>2, <1>3, <1>4, <1>5 DEF SaleOK
<1>7. RunOK
  BY DEF AmountsInit, RunOK, NoRun, IsRun, Planned
<1>8. order = None /\ run.at = "idle" /\ record.status = "none"
  BY DEF AmountsInit, NoRun
<1> QED
  BY <1>1, <1>6, <1>7, <1>8 DEF AmountsInv, BornOK, RecordOK

(* A step of the sale.                                                     *)
LEMMA RunAsBefore == ASSUME RunOK, case' = case, run' = run, bill' = bill PROVE RunOK'
<1>1. run.at \in Planned => PlanOK'
  BY PlanStays DEF RunOK
<1>2. run.at \in {"auto", "preview", "submit"} => OrderOK(run.plan.order)'
  BY DEF RunOK, OrderOK, IsOrder
<1>3. run.at = "verify" => BillOK'
  BY DEF RunOK, BillOK, IsBill, Value
<1> QED
  BY <1>1, <1>2, <1>3 DEF RunOK, IsRun, Automatic, Planned

LEMMA TrueStays ==
  ASSUME TrueRecord, case' = case, run'.plan = run.plan, bill' = bill, record' = record PROVE TrueRecord'
<1> PICK p, s : p = run.plan /\ s = p.sale
  OBVIOUS
<1>1. L' = L /\ Products' = Products /\ \A i : Kept(s, i)' = Kept(s, i)
  BY Stays
<1>2. \A i : Net(i)' = Net(i)
  BY <1>1 DEF Net
<1> QED
  BY <1>1, <1>2 DEF TrueRecord, Value

LEMMA RecordStays ==
  ASSUME RecordOK, case' = case, bill' = bill, record' = record,
         (run'.plan = run.plan /\ (run.at = "done" => run'.at = "done")) \/ run.at # "done"
  PROVE  RecordOK'
  BY TrueStays DEF RecordOK

LEMMA SaleAction == ASSUME AmountsInv, RecordOK, SaleChanges PROVE AmountsInv' /\ RecordOK'
<1>1. SaleOK(sale') /\ UNCHANGED <<case, order, born, run, seen, record, bill, stock>>
  <2>1. SaleOK(sale')
    BY SaleKeeps DEF AmountsInv
  <2>2. UNCHANGED <<case, order, born, run, seen, record, bill, stock>>
    BY DEF SaleChanges, Ship, Edit, RefundUnits, MoneyBack, CancelSale, SaleOnly
  <2> QED
    BY <2>1, <2>2
<1>2. SaleOK(sale)'
  BY <1>1, SaleAfter
<1>3. (order # None \/ run.at # "idle" => OrderOK(order))' /\ BornOK' /\ RunOK'
  BY <1>1, BornStays, RunAsBefore DEF AmountsInv, OrderOK, IsOrder
<1>4. RecordOK'
  BY <1>1, RecordStays
<1> QED
  BY <1>1, <1>2, <1>3, <1>4 DEF AmountsInv

LEMMA NothingMoves ==
  ASSUME AmountsInv, case' = case, sale' = sale, order' = order, born' = born,
         run.at = "idle" => run'.at = "idle" \/ order # None
  PROVE  case' \in Cases /\ SaleOK(sale)' /\ (order # None \/ run.at # "idle" => OrderOK(order))' /\ BornOK'
<1>1. SaleOK(sale)'
  BY SaleAfter DEF AmountsInv
<1> QED
  BY <1>1, BornStays DEF AmountsInv, OrderOK, IsOrder

(* Steps of a run.                                                         *)
LEMMA RunStep ==
  ASSUME AmountsInv, RecordOK, NEW new, RunOnly(new), run.at # "done", run.at # "idle" \/ order # None, RunOK'
  PROVE  AmountsInv' /\ RecordOK'
<1>1. UNCHANGED <<case, sale, order, born, seen, record, bill, stock>>
  BY DEF RunOnly
<1> QED
  BY <1>1, NothingMoves, RecordStays DEF AmountsInv

LEMMA Stops == ASSUME RunOnly(NoRun) PROVE RunOK'
<1>1. run' = NoRun
  BY DEF RunOnly
<1> QED
  BY <1>1 DEF RunOK, NoRun, IsRun, Planned

LEMMA BeginRunKeeps == ASSUME AmountsInv, RecordOK, BeginRun PROVE AmountsInv' /\ RecordOK'
<1>1. run.at = "idle" /\ order # None /\ OrderOK(order)
  BY DEF BeginRun, AmountsInv
<1>2. PICK new : RunOnly(new) /\ IsRun(new) /\ new.plan.order = order
                 /\ \/ new.at = "auto" /\ new.by = None
                    \/ new.at = "preview"
                    \/ new.at = "submit" /\ new.by # None
  <2>1. CASE RunOnly([NoRun EXCEPT !.at = "auto", !.plan = [order |-> order, sale |-> sale]])
    <3>0. PICK new : new = [NoRun EXCEPT !.at = "auto", !.plan = [order |-> order, sale |-> sale]]
      OBVIOUS
    <3>1. RunOnly(new)
      BY <2>1, <3>0
    <3>2. IsRun(new) /\ new.plan.order = order /\ new.at = "auto" /\ new.by = None
      BY <3>0 DEF NoRun, IsRun
    <3> QED
      BY <3>1, <3>2
  <2>2. ASSUME NEW a \in case.admins, NEW goal \in {"preview"} \cup When(seen[a] # None, "submit"),
               RunOnly([NoRun EXCEPT !.at = goal, !.by = a, !.plan = [order |-> order]])
        PROVE  \E new : RunOnly(new) /\ IsRun(new) /\ new.plan.order = order
                 /\ \/ new.at = "auto" /\ new.by = None
                    \/ new.at = "preview"
                    \/ new.at = "submit" /\ new.by # None
    <3>1. a # None
      BY AmountsAssumption DEF AmountsInv
    <3>2. goal = "preview" \/ goal = "submit"
      BY DEF When
    <3>0. PICK new : new = [NoRun EXCEPT !.at = goal, !.by = a, !.plan = [order |-> order]]
      OBVIOUS
    <3>3. RunOnly(new)
      BY <2>2, <3>0
    <3>4. IsRun(new) /\ new.plan.order = order /\ new.at = goal /\ new.by = a
      BY <3>0 DEF NoRun, IsRun
    <3> QED
      BY <3>1, <3>2, <3>3, <3>4
  <2> QED
    BY <2>1, <2>2 DEF BeginRun
<1>3. run' = new /\ case' = case
  BY <1>2 DEF RunOnly
<1>4. OrderOK(new.plan.order)'
  BY <1>1, <1>2, <1>3 DEF RunOnly, OrderOK, IsOrder
<1>5. RunOK'
  BY <1>2, <1>3, <1>4 DEF RunOK, IsRun, Planned, Automatic
<1> QED
  BY <1>1, <1>2, <1>5, RunStep

LEMMA DecideAutoKeeps == ASSUME AmountsInv, RecordOK, DecideAuto PROVE AmountsInv' /\ RecordOK'
<1>1. run.at = "auto" /\ OrderOK(run.plan.order) /\ Automatic /\ IsRun(run)
  BY DEF DecideAuto, AmountsInv, RunOK
<1>2. CASE Reasons(run.plan.order, sale) = {} /\ RunOnly([run EXCEPT !.at = "stock", !.plan = AutoPlan(run.plan.order, sale)])
  <2> PICK o, s, p : o = run.plan.order /\ s = sale /\ p = AutoPlan(o, s)
    OBVIOUS
  <2>1. case' = case /\ run'.at = "stock" /\ run'.plan = p /\ run'.by = None /\ IsRun(run')
    BY <1>1, <1>2 DEF RunOnly, IsRun, Automatic
  <2>2. OrderOK(o) /\ SaleOK(s) /\ Reasons(o, s) = {}
    BY <1>1, <1>2 DEF AmountsInv
  <2>3. OrderOK(o)' /\ SaleOK(s)'
    BY <2>1, <2>2, OrderAsBefore, SaleAsBefore
  <2>4. Reasons(o, s)' = Reasons(o, s) /\ AutoPlan(o, s)' = p
    BY <2>1, Stays
  <2>5. p.order = o /\ p.sale = s
    BY DEF AutoPlan
  <2>6. PlanOK'
    BY <2>1, <2>2, <2>3, <2>4, <2>5 DEF PlanOK, Automatic
  <2>7. RunOK'
    BY <2>1, <2>6 DEF RunOK, IsRun, Planned
  <2> QED
    BY <1>1, <1>2, <2>7, RunStep
<1>3. CASE RunOnly(NoRun)
  BY <1>1, <1>3, Stops, RunStep
<1> QED
  BY <1>2, <1>3 DEF DecideAuto

LEMMA SubmitKeeps == ASSUME AmountsInv, RecordOK, Submit PROVE AmountsInv' /\ RecordOK'
<1>1. run.at = "submit" /\ OrderOK(run.plan.order) /\ ~Automatic /\ IsRun(run)
  BY DEF Submit, AmountsInv, RunOK
<1>2. CASE /\ Reasons(run.plan.order, sale) \subseteq Overridable
           /\ RunOnly([run EXCEPT !.at = "stock", !.plan = OverridePlan(run.plan.order, sale)])
  <2> PICK o, s, p : o = run.plan.order /\ s = sale /\ p = OverridePlan(o, s)
    OBVIOUS
  <2>1. case' = case /\ run'.at = "stock" /\ run'.plan = p /\ run'.by = run.by /\ run.by # None /\ IsRun(run')
    BY <1>1, <1>2 DEF RunOnly, IsRun, Automatic
  <2>2. OrderOK(o) /\ SaleOK(s) /\ Reasons(o, s) \subseteq Overridable
    BY <1>1, <1>2 DEF AmountsInv
  <2>3. OrderOK(o)' /\ SaleOK(s)'
    BY <2>1, <2>2, OrderAsBefore, SaleAsBefore
  <2>4. Reasons(o, s)' = Reasons(o, s) /\ OverridePlan(o, s)' = p /\ Overridable' = Overridable
    BY <2>1, Stays
  <2>5. p.order = o /\ p.sale = s
    BY DEF OverridePlan
  <2>6. PlanOK'
    BY <2>1, <2>2, <2>3, <2>4, <2>5 DEF PlanOK, Automatic
  <2>7. RunOK'
    BY <2>1, <2>6 DEF RunOK, IsRun, Planned
  <2> QED
    BY <1>1, <1>2, <2>7, RunStep
<1>3. CASE RunOnly(NoRun)
  BY <1>1, <1>3, Stops, RunStep
<1> QED
  BY <1>2, <1>3 DEF Submit, Allowed, View

LEMMA PreviewKeeps == ASSUME AmountsInv, RecordOK, Preview PROVE AmountsInv' /\ RecordOK'
<1>1. /\ run.at = "preview" /\ run' = NoRun /\ UNCHANGED <<case, sale, order, born, record, bill, stock>>
  BY DEF Preview
<1>2. RunOK'
  BY <1>1 DEF RunOK, NoRun, IsRun, Planned
<1> QED
  BY <1>1, <1>2, NothingMoves, RecordStays DEF AmountsInv

(* A planned run goes on with its plan.                                    *)
LEMMA GoesOn ==
  ASSUME AmountsInv, RecordOK, run.at \in {"stock", "shopify", "order"}, NEW new, RunOnly(new), IsRun(new),
         new.at \in {"shopify", "order", "send"}, new.plan = run.plan, new.by = run.by
  PROVE  AmountsInv' /\ RecordOK'
<1>1. run' = new /\ case' = case
  BY DEF RunOnly
<1>2. PlanOK
  BY DEF AmountsInv, RunOK, Planned
<1>3. PlanOK'
  BY <1>1, <1>2, PlanStays
<1>4. RunOK'
  BY <1>1, <1>3 DEF RunOK, IsRun, Planned
<1> QED
  BY <1>4, RunStep

LEMMA ChecksKeep ==
  ASSUME AmountsInv, RecordOK, ReadStock \/ RecheckShopify \/ RecheckOrder PROVE AmountsInv' /\ RecordOK'
<1>1. IsRun(run)
  BY DEF AmountsInv, RunOK
<1>2. CASE ReadStock
  <2> PICK new : new = [run EXCEPT !.at = "shopify", !.stock = stock]
    OBVIOUS
  <2>1. run.at = "stock" /\ RunOnly(new) /\ IsRun(new) /\ new.at = "shopify" /\ new.plan = run.plan /\ new.by = run.by
    BY <1>1, <1>2 DEF ReadStock, IsRun
  <2> QED
    BY <2>1, GoesOn
<1>3. CASE RecheckShopify
  <2> PICK new : new = [run EXCEPT !.at = "order"]
    OBVIOUS
  <2>1. run.at = "shopify" /\ IsRun(new) /\ new.at = "order" /\ new.plan = run.plan /\ new.by = run.by
    BY <1>1, <1>3 DEF RecheckShopify, IsRun
  <2>2. RunOnly(new) \/ RunOnly(NoRun)
    BY <1>3 DEF RecheckShopify
  <2> QED
    BY <2>1, <2>2, GoesOn, Stops, RunStep
<1>4. CASE RecheckOrder
  <2> PICK new : new = [run EXCEPT !.at = "send"]
    OBVIOUS
  <2>1. run.at = "order" /\ IsRun(new) /\ new.at = "send" /\ new.plan = run.plan /\ new.by = run.by
    BY <1>1, <1>4 DEF RecheckOrder, IsRun
  <2>2. RunOnly(new) \/ RunOnly(NoRun)
    BY <1>4 DEF RecheckOrder
  <2> QED
    BY <2>1, <2>2, GoesOn, Stops, RunStep
<1> QED
  BY <1>2, <1>3, <1>4

LEMMA SendKeeps == ASSUME AmountsInv, RecordOK, SendInvoice PROVE AmountsInv' /\ RecordOK'
<1>1. /\ run.at = "send" /\ run' = [run EXCEPT !.at = "verify"] /\ UNCHANGED <<case, sale, order, born, seen, record, stock>>
      /\ IsRun(run) /\ PlanOK /\ OrderOK(order)
  BY DEF SendInvoice, AmountsInv, RunOK, Planned
<1>2. IsRun(run') /\ run'.at = "verify" /\ run'.plan = run.plan /\ run'.by = run.by
  BY <1>1 DEF IsRun
<1>3. PlanOK'
  BY <1>1, <1>2, PlanStays
<1> PICK surcharge, value, pay : /\ surcharge = (IF case.inherits THEN order.surcharge ELSE 0)
                                /\ value = Value(run.plan.lines)
                                /\ pay = run.plan.pay + (IF case.carries THEN order.paid ELSE 0)
  OBVIOUS
<1>4. PICK total \in {value, value + surcharge}, rows \in BOOLEAN :
        bill' = [lines |-> run.plan.lines, surcharge |-> surcharge, total |-> total, touched |-> FALSE, completed |-> TRUE,
                 paid |-> pay, rows |-> rows]
  BY DEF SendInvoice
<1>5. surcharge \in Nat
  BY <1>1 DEF OrderOK
<1>6. IsBill(bill') /\ bill'.surcharge = surcharge /\ bill'.total = total
  BY <1>4 DEF IsBill
<1>7. Value(run.plan.lines)' = value
  BY <1>2 DEF Value
<1>8. BillOK'
  BY <1>4, <1>5, <1>6, <1>7 DEF BillOK, IsBill
<1>9. RunOK'
  BY <1>2, <1>3, <1>8 DEF RunOK, IsRun, Planned
<1>10. RecordOK'
  BY <1>1 DEF RecordOK
<1> QED
  BY <1>1, <1>9, <1>10, NothingMoves DEF AmountsInv

LEMMA StaffBillKeeps == ASSUME AmountsInv, RecordOK, StaffBill PROVE AmountsInv' /\ RecordOK'
<1>1. run.at = "verify" /\ BillOK /\ UNCHANGED <<case, sale, order, born, run, seen, record, stock>>
  BY DEF StaffBill, AmountsInv, RunOK
<1>2. IsBill(bill') /\ bill'.surcharge = bill.surcharge /\ bill'.total = bill.total
  <2>1. CASE bill' = [bill EXCEPT !.touched = TRUE, !.completed = FALSE]
    BY <1>1, <2>1 DEF BillOK, IsBill
  <2>2. ASSUME NEW i \in DOMAIN bill.lines, bill' = [bill EXCEPT !.touched = TRUE, !.lines[i].qty = @ + 1, !.lines[i].price = 0]
        PROVE  IsBill(bill') /\ bill'.surcharge = bill.surcharge /\ bill'.total = bill.total
    BY <1>1, <2>2 DEF BillOK, IsBill
  <2> QED
    BY <2>1, <2>2 DEF StaffBill
<1>3. PlanOK'
  BY <1>1, PlanStays DEF AmountsInv, RunOK, Planned
<1>4. BillOK'
  BY <1>1, <1>2 DEF BillOK, IsBill, Value
<1>5. RunOK'
  BY <1>1, <1>3, <1>4 DEF AmountsInv, RunOK, IsRun, Planned
<1>6. RecordOK'
  BY <1>1 DEF RecordOK
<1> QED
  BY <1>1, <1>5, <1>6, NothingMoves DEF AmountsInv

LEMMA StockKeeps == ASSUME AmountsInv, RecordOK, StockMoves \/ UNCHANGED avars PROVE AmountsInv' /\ RecordOK'
<1>1. UNCHANGED <<case, sale, order, born, run, seen, record, bill>>
  BY DEF StockMoves, avars
<1>2. RunOK'
  BY <1>1, RunAsBefore DEF AmountsInv
<1>3. RecordOK'
  BY <1>1, RecordStays
<1> QED
  BY <1>1, <1>2, <1>3, NothingMoves DEF AmountsInv

LEMMA StaffOrderKeeps == ASSUME AmountsInv, RecordOK, StaffOrder PROVE AmountsInv' /\ RecordOK'
<1>1. UNCHANGED <<case, sale, born, run, seen, record, bill, stock>> /\ OrderOK(order)
  BY DEF StaffOrder, AmountsInv
<1> PICK o, t : o = order /\ t = order'
  OBVIOUS
<1>2. IsOrder(t) /\ t.touched = TRUE /\ t.surcharge \in {o.surcharge, o.surcharge + 1} /\ t.paid \in {o.paid, o.paid + 1}
  <2>0. IsOrder(o)
    BY <1>1 DEF OrderOK
  <2>1. ASSUME NEW i \in DOMAIN o.lines, t = [o EXCEPT !.touched = TRUE, !.lines[i].price = @ + 1, !.total = @ + o.lines[i].qty]
        PROVE  IsOrder(t) /\ t.touched = TRUE /\ t.surcharge = o.surcharge /\ t.paid = o.paid
    BY <2>0, <2>1 DEF IsOrder
  <2>2. ASSUME NEW i \in DOMAIN o.lines, t = [o EXCEPT !.touched = TRUE, !.lines[i].qty = @ + 1, !.total = @ + o.lines[i].price]
        PROVE  IsOrder(t) /\ t.touched = TRUE /\ t.surcharge = o.surcharge /\ t.paid = o.paid
    BY <2>0, <2>2 DEF IsOrder
  <2>3. CASE t = [o EXCEPT !.touched = TRUE, !.paid = @ + 1]
    BY <2>0, <2>3 DEF IsOrder
  <2>4. CASE t = [o EXCEPT !.touched = TRUE, !.surcharge = @ + 1]
    BY <2>0, <2>4 DEF IsOrder
  <2> QED
    BY <2>1, <2>2, <2>3, <2>4 DEF StaffOrder
<1>3. OrderOK(order)'
  BY <1>1, <1>2 DEF OrderOK, IsOrder
<1>4. BornOK'
  BY <1>2 DEF BornOK
<1>5. SaleOK(sale)'
  BY <1>1, SaleAfter DEF AmountsInv
<1>6. RunOK'
  BY <1>1, RunAsBefore DEF AmountsInv
<1>7. RecordOK'
  BY <1>1, RecordStays
<1> QED
  BY <1>1, <1>3, <1>4, <1>5, <1>6, <1>7 DEF AmountsInv

LEMMA RoundedIsNat == \A a, n \in Nat, q \in Nat \ {0} : (2 * a * n + q) \div (2 * q) \in Nat
<1> SUFFICES ASSUME NEW a \in Nat, NEW n \in Nat, NEW q \in Nat \ {0} PROVE (2 * a * n + q) \div (2 * q) \in Nat
  OBVIOUS
<1>1. 2 * a * n \in Nat
  OBVIOUS
<1>2. \A x \in Nat, y \in Nat \ {0} : x \div y \in Nat
  OBVIOUS
<1> QED
  BY <1>1, <1>2

LEMMA WorthIsNat == ASSUME case \in Cases, NEW s, SaleOK(s) PROVE Worth(s) \in Nat
<1> PICK N, share : /\ N = Lines(s)
                    /\ share = [i \in N |-> IF Unit(i) # NoPrice THEN Unit(i) * Remaining(s, i)
                                            ELSE (2 * Net(i) * Remaining(s, i) + L[i].qty) \div (2 * L[i].qty)]
  OBVIOUS
<1>1. ASSUME NEW i \in N PROVE share[i] \in Nat
  <2>1. i \in Products /\ i \in DOMAIN L
    BY LinesFacts
  <2>2. Net(i) \in Nat /\ L[i].qty \in Nat \ {0} /\ Remaining(s, i) \in Nat
    BY <2>1, LineFacts, KeptFacts
  <2>3. Unit(i) # NoPrice => Unit(i) * Remaining(s, i) \in Nat
    BY <2>1, <2>2, UnitFacts
  <2>4. (2 * Net(i) * Remaining(s, i) + L[i].qty) \div (2 * L[i].qty) \in Nat
    BY <2>2, RoundedIsNat
  <2> QED
    BY <2>3, <2>4
<1>2. Worth(s) = SumFunction(share)
  BY DEF Worth
<1>3. DOMAIN share = N /\ IsFiniteSet(N)
  BY LinesFacts
<1> QED
  BY <1>1, <1>2, <1>3, Sum

LEMMA CreateOrderKeeps == ASSUME AmountsInv, RecordOK, CreateOrder PROVE AmountsInv' /\ RecordOK'
<1>1. /\ UNCHANGED <<case, sale, run, seen, record, bill, stock>> /\ born' = sale
      /\ SaleOK(sale) /\ case \in Cases /\ Lines(sale) # {}
      /\ case.only => \A i \in Products : ~Ambiguous(sale, i)
  BY DEF CreateOrder, AmountsInv
<1> PICK s : s = sale
  OBVIOUS
<1> PICK lines, paid, surcharge : lines = Expected(s) /\ paid = PlannedPayment(s) /\ surcharge = PlannedSurcharge
  OBVIOUS
<1>2. PICK total \in {Value(lines), Value(lines) + surcharge} :
        order' = [lines |-> lines, paid |-> paid, surcharge |-> surcharge, total |-> total, touched |-> FALSE]
  BY DEF CreateOrder
<1>3. /\ IsOrder(order') /\ order'.lines = lines /\ order'.paid = paid /\ order'.surcharge = surcharge
      /\ order'.total \in {Value(lines), Value(lines) + surcharge}
  BY <1>2 DEF IsOrder
<1>4. surcharge \in Nat /\ paid \in Int /\ (case.only => paid \in Nat)
  <2>1. case.shipping \in Nat /\ Total \in Int /\ FeeTotal \in Nat /\ Worth(s) \in Nat
    BY <1>1, CaseFacts, Totals, WorthIsNat
  <2>2. surcharge \in Nat
    BY <2>1 DEF PlannedSurcharge
  <2>3. Adjusted \in Int
    BY <2>1 DEF Adjusted
  <2> QED
    BY <2>1, <2>2, <2>3 DEF PlannedPayment
<1>5. OrderOK(order)'
  BY <1>1, <1>3, <1>4 DEF OrderOK, IsOrder
<1>6. SaleOK(s)'
  BY <1>1, SaleAsBefore
<1>7. BornOK'
  <2>1. /\ Lines(s)' = Lines(s) /\ Expected(s)' = Expected(s) /\ PlannedPayment(s)' = PlannedPayment(s)
        /\ PlannedSurcharge' = PlannedSurcharge /\ Products' = Products /\ \A i : Ambiguous(s, i)' = Ambiguous(s, i)
    BY <1>1, Stays
  <2>2. Value(Expected(s))' = Value(Expected(s))
    BY <2>1 DEF Value
  <2>3. /\ Lines(s)' # {} /\ case'.only => \A i \in Products : ~Ambiguous(s, i)
    BY <1>1, <2>1
  <2>4. born' = s
    BY <1>1
  <2> QED
    BY <1>1, <1>3, <1>6, <2>1, <2>2, <2>4 DEF BornOK
<1>8. RunOK'
  BY <1>1, RunAsBefore DEF AmountsInv
<1>9. RecordOK'
  BY <1>1, RecordStays
<1> QED
  BY <1>1, <1>5, <1>6, <1>7, <1>8, <1>9 DEF AmountsInv

(* What a verified invoice is.                                             *)
LEMMA PlanReasons ==
  ASSUME PlanOK
  PROVE  /\ Reasons(run.plan.order, run.plan.sale) \subseteq Overridable
         /\ run.plan.reasons = Reasons(run.plan.order, run.plan.sale)
         /\ run.plan.lines = run.plan.order.lines /\ (run.plan.override <=> ~Automatic)
  BY DEF PlanOK, AutoPlan, OverridePlan

LEMMA VerifiedUnits ==
  ASSUME case \in Cases, PlanOK, LinesMatch, NEW i \in Products, NEW s, s = run.plan.sale, Kept(s, i) > 0,
         case.only \/ s.removed[i] = 0
  PROVE  /\ i \in DOMAIN bill.lines /\ bill.lines[i].qty = Kept(s, i)
         /\ bill.lines[i].price * L[i].qty = Net(i) \/ "unsupported_discount" \in run.plan.reasons
<1> PICK o, reasons : o = run.plan.order /\ reasons = run.plan.reasons
  OBVIOUS
<1>1. SaleOK(s) /\ Reasons(o, s) \subseteq Overridable /\ reasons = Reasons(o, s)
  BY PlanReasons DEF PlanOK
<1>2. /\ DOMAIN bill.lines = Lines(s)
      /\ \A j \in Lines(s) : bill.lines[j].qty = Remaining(s, j) /\ bill.lines[j].price = Price(j)
  <2>1. bill.lines = Expected(s)
    BY DEF LinesMatch
  <2> QED
    BY <1>1, <2>1, ExpectedFacts
<1>3. i \in DOMAIN L /\ L[i].qty \in Nat \ {0} /\ L[i].price \in Nat
  BY CaseFacts, LineFacts
<1>4. CASE case.only
  <2>1. Remaining(s, i) = Kept(s, i) /\ \A j \in Lines(s) : Unit(j) # NoPrice
    BY <1>1, <1>4, OnlyUnits
  <2>2. i \in Lines(s)
    BY <2>1 DEF Lines
  <2>3. Unit(i) * L[i].qty = Net(i) /\ Price(i) = Unit(i)
    BY <1>3, <1>4, <2>1, <2>2, UnitFacts DEF Price
  <2> QED
    BY <1>2, <2>1, <2>2, <2>3
<1>5. CASE ~case.only
  <2>1. Remaining(s, i) = L[i].qty
    BY <1>1, <1>5, KeptFacts
  <2>2. Kept(s, i) = L[i].qty - s.removed[i] /\ ("unsupported_discount" \in reasons \/ Net(i) = L[i].price * L[i].qty)
    BY <1>1, <1>5, StrictUnits
  <2>3. Kept(s, i) = L[i].qty
    BY <1>3, <1>5, <2>2
  <2>4. i \in Lines(s)
    BY <1>3, <2>1 DEF Lines
  <2>5. Price(i) = L[i].price
    BY <1>5 DEF Price
  <2> QED
    BY <1>2, <2>1, <2>2, <2>3, <2>4, <2>5
<1> QED
  BY <1>4, <1>5

LEMMA VerifiedPaid ==
  ASSUME case \in Cases, PlanOK, BillOK, Verified, ~case.only \/ PaymentStatus = "verified",
         bill.surcharge > 0 => run.plan.order.surcharge > 0
  PROVE  bill.paid = Value(bill.lines) + bill.surcharge
<1> PICK p, o, s : p = run.plan /\ o = p.order /\ s = p.sale
  OBVIOUS
<1>1. /\ SaleOK(s) /\ OrderOK(o) /\ Reasons(o, s) \subseteq Overridable /\ p.lines = o.lines /\ (p.override <=> ~Automatic)
      /\ o.surcharge \in Nat /\ o.paid \in Int /\ bill.surcharge \in Nat
  BY PlanReasons DEF PlanOK, OrderOK, BillOK
<1>2. bill.lines = Expected(s) /\ TotalMatches /\ p.differences = {}
  BY DEF Verified, LinesMatch
<1>3. bill.total \in {Value(o.lines), Value(o.lines) + bill.surcharge}
  BY <1>1 DEF BillOK
<1>4. case.shipping \in Nat
  BY CaseFacts
<1>5. CASE Automatic /\ case.only
  <2>1. Reasons(o, s) = {} /\ p = AutoPlan(o, s)
    BY <1>5 DEF PlanOK
  <2>2. o.surcharge = 0 /\ Value(o.lines) = Worth(s) /\ Worth(s) \in Nat
    BY <1>1, <1>5, <2>1, OnlyClear
  <2>3. Value(Expected(s)) = Worth(s)
    BY <1>1, <1>5, OnlyUnits, OnlyWorth
  <2>4. bill.surcharge = 0 /\ bill.total = p.total /\ p.total = Worth(s)
    <3>1. p.total = Worth(s) /\ p.override = FALSE
      BY <1>5, <2>1 DEF AutoPlan, ExpectedTotal
    <3> QED
      BY <1>2, <1>5, <3>1 DEF TotalMatches
  <2>5. bill.total = bill.paid
    BY <1>1, <1>5 DEF PaymentStatus
  <2> QED
    BY <1>2, <2>2, <2>3, <2>4, <2>5
<1>6. CASE Automatic /\ ~case.only
  <2>1. Reasons(o, s) = {} /\ p = AutoPlan(o, s)
    BY <1>6 DEF PlanOK
  <2>2. o.surcharge = case.shipping /\ Value(o.lines) = ListWorth /\ ListWorth \in Nat
    BY <1>1, <1>6, <2>1, StrictClear, Totals
  <2>3. Value(Expected(s)) = ListWorth
    BY <1>1, <1>6, StrictWorth
  <2>4. p.total = ListWorth + case.shipping /\ p.paid = ListWorth + case.shipping
    BY <1>6, <2>1 DEF AutoPlan, ExpectedTotal
  <2>5. bill.paid = p.paid
    BY <1>6 DEF Verified, PaidAsPlanned
  <2>6. \/ bill.total = p.total
        \/ case.shipping > 0 /\ bill.total = p.total - case.shipping /\ bill.surcharge = case.shipping
    BY <1>2, <1>6 DEF TotalMatches
  <2>7. bill.surcharge = case.shipping
    BY <1>1, <1>3, <1>4, <2>2, <2>4, <2>6
  <2> QED
    BY <1>2, <2>3, <2>4, <2>5, <2>7
<1>7. CASE ~Automatic
  <2>1. p = OverridePlan(o, s) /\ Differences(o, s) = {}
    BY <1>2, <1>7 DEF PlanOK, OverridePlan
  <2> PICK V, extra, total : V = Value(o.lines) /\ extra = ExtraPayment(o, s) /\ total = BillTotal(o)
    OBVIOUS
  <2>2. /\ V = ShopMerchandise(s) /\ ~(o.paid + extra > total) /\ ~(o.paid + extra < total)
        /\ ~case.only => case.shipping = o.surcharge
    BY <2>1 DEF Differences, When
  <2>3. V \in Nat /\ Value(bill.lines) = V
    <3>1. CASE case.only
      <4>1. Value(Expected(s)) = Worth(s) /\ Worth(s) \in Nat
        BY <1>1, <3>1, OnlyUnits, OnlyWorth
      <4> QED
        BY <1>2, <2>2, <3>1, <4>1 DEF ShopMerchandise
    <3>2. CASE ~case.only
      <4>1. Value(Expected(s)) = ListWorth /\ ListWorth \in Nat
        BY <1>1, <3>2, StrictWorth, Totals
      <4> QED
        BY <1>2, <2>2, <3>2, <4>1 DEF ShopMerchandise
    <3> QED
      BY <3>1, <3>2
  <2>4. total = V + o.surcharge /\ total \in Nat
    BY <1>1, <2>3 DEF BillTotal
  <2>5. extra \in Int
    <3>1. Total \in Int /\ FeeTotal \in Nat /\ Money(s) \in Nat
      BY <1>1, Totals, RefundSums DEF SaleOK
    <3>2. PaidForGoods(s) \in Int
      BY <3>1 DEF PaidForGoods, Collected, Adjusted
    <3> QED
      BY <1>1, <2>4, <3>2 DEF ExtraPayment, Greater, Less
  <2>6. o.paid + extra = total
    BY <1>1, <2>2, <2>4, <2>5
  <2>7. bill.paid = total
    <3>1. p.paid = o.paid + extra
      BY <2>1 DEF OverridePlan
    <3>2. bill.paid = p.paid
      BY <1>1, <1>7 DEF Verified, PaidAsPlanned
    <3> QED
      BY <2>6, <3>1, <3>2
  <2>8. bill.surcharge = o.surcharge
    <3>1. p.total = total
      BY <2>1 DEF OverridePlan
    <3>2. \/ bill.total = p.total
          \/ ~case.only /\ bill.total = p.total - case.shipping /\ bill.surcharge = case.shipping
      BY <1>1, <1>2, <1>4, <1>7 DEF TotalMatches
    <3> QED
      BY <1>1, <1>3, <2>2, <2>3, <2>4, <3>1, <3>2
  <2> QED
    BY <2>3, <2>4, <2>7, <2>8
<1> QED
  BY <1>5, <1>6, <1>7

LEMMA VerifyKeeps == ASSUME AmountsInv, RecordOK, Verify PROVE AmountsInv' /\ RecordOK'
<1>1. /\ run.at = "verify" /\ run' = [run EXCEPT !.at = "done"] /\ UNCHANGED <<case, sale, order, born, seen, bill, stock>>
      /\ record' = [status |-> IF Verified THEN "created" ELSE "needs_review", payment |-> PaymentStatus]
      /\ IsRun(run) /\ PlanOK /\ BillOK /\ case \in Cases
  BY DEF Verify, AmountsInv, RunOK, Planned
<1>2. IsRun(run') /\ run'.at = "done" /\ run'.plan = run.plan /\ run'.by = run.by
  BY <1>1 DEF IsRun
<1>3. RunOK'
  BY <1>2 DEF RunOK, IsRun, Planned
<1>4. ASSUME Verified PROVE TrueRecord'
  <2> PICK s, reasons, pay : s = run.plan.sale /\ reasons = run.plan.reasons /\ pay = PaymentStatus
    OBVIOUS
  <2>1. L' = L /\ Products' = Products /\ \A i : Kept(s, i)' = Kept(s, i)
    BY <1>1, Stays
  <2>2. \A i : Net(i)' = Net(i)
    BY <2>1 DEF Net
  <2>3. LinesMatch
    BY <1>4 DEF Verified
  <2>4. ASSUME NEW i \in Products, Kept(s, i) > 0, case.only \/ s.removed[i] = 0
        PROVE  /\ i \in DOMAIN bill.lines /\ bill.lines[i].qty = Kept(s, i)
               /\ bill.lines[i].price * L[i].qty = Net(i) \/ "unsupported_discount" \in reasons
    BY <1>1, <2>3, <2>4, VerifiedUnits
  <2>5. (~case.only \/ pay = "verified") /\ (bill.surcharge > 0 => run.plan.order.surcharge > 0) =>
          bill.paid = Value(bill.lines) + bill.surcharge
    BY <1>1, <1>4, VerifiedPaid
  <2>6. record'.payment = pay
    BY <1>1
  <2>7. Value(bill.lines)' = Value(bill.lines)
    BY <1>1 DEF Value
  <2>8. run'.plan.sale = s /\ run'.plan.reasons = reasons /\ run'.plan.order = run.plan.order /\ case' = case /\ bill' = bill
    BY <1>1, <1>2
  <2> QED
    BY <2>1, <2>2, <2>4, <2>5, <2>6, <2>7, <2>8 DEF TrueRecord
<1>5. RecordOK'
  <2>1. record'.status = "created" => Verified
    BY <1>1
  <2> QED
    BY <1>2, <1>4, <2>1 DEF RecordOK
<1> QED
  BY <1>1, <1>2, <1>3, <1>5, NothingMoves DEF AmountsInv

LEMMA AmountsStep == ASSUME AmountsInv, RecordOK, [AmountsNext]_avars PROVE AmountsInv' /\ RecordOK'
  BY CreateOrderKeeps, SaleAction, BeginRunKeeps, DecideAutoKeeps, PreviewKeeps, SubmitKeeps, ChecksKeep, SendKeeps, VerifyKeeps,
     StaffOrderKeeps, StaffBillKeeps, StockKeeps DEF AmountsNext

LEMMA AmountsAlways == AmountsSpec => [](AmountsInv /\ RecordOK)
  BY AmountsInitInv, AmountsStep, PTL DEF AmountsSpec

(* Only this step goes from Shopify's recheck to the KiotViet order's.     *)
LEMMA Rechecked ==
  ASSUME AmountsInv, [AmountsNext]_avars, run.at = "shopify", run'.at = "order"
  PROVE  RecheckShopify /\ sale = run.plan.sale /\ PlanOK /\ case \in Cases
<1>1. RunOK /\ IsRun(run)
  BY DEF AmountsInv, RunOK
<1>2. RecheckShopify
  BY <1>1 DEF AmountsNext, CreateOrder, SaleChanges, Ship, Edit, RefundUnits, MoneyBack, CancelSale, SaleOnly, BeginRun, DecideAuto,
        Preview, Submit, ReadStock, RecheckOrder, SendInvoice, Verify, StaffOrder, StaffBill, StockMoves, RunOnly, NoRun, avars
<1>3. sale = run.plan.sale
  BY <1>2 DEF RecheckShopify, RunOnly, NoRun
<1> QED
  BY <1>1, <1>2, <1>3 DEF AmountsInv, RunOK, Planned

LEMMA RecheckedUnits ==
  ASSUME AmountsInv, [AmountsNext]_avars, run.at = "shopify", run'.at = "order", Automatic,
         case.only \/ \A i \in Products : sale.removed[i] = 0
  PROVE  LET lines == run.plan.lines IN
         /\ DOMAIN lines = {i \in Products : Kept(sale, i) > 0}
         /\ \A i \in DOMAIN lines : lines[i].qty = Kept(sale, i) /\ lines[i].price * L[i].qty = Net(i)
         /\ ~case.trust => \A i \in Products : sale.shipped[i] - sale.back[i] <= Kept(sale, i)
<1> PICK p, o, s : p = run.plan /\ o = p.order /\ s = p.sale
  OBVIOUS
<1>1. /\ sale = s /\ SaleOK(s) /\ OrderOK(o) /\ Reasons(o, s) = {} /\ p.lines = o.lines /\ case \in Cases
      /\ Reasons(o, s) \subseteq Overridable
  BY Rechecked, PlanReasons DEF PlanOK
<1>2. \A i \in Products : i \in DOMAIN L /\ s.shipped[i] - s.back[i] <= Kept(s, i)
  BY <1>1, CaseFacts, KeptFacts
<1>3. CASE case.only
  <2>1. /\ DOMAIN o.lines = Lines(s)
        /\ \A i \in Lines(s) : o.lines[i].qty = Kept(s, i) /\ o.lines[i].price = Unit(i) /\ Unit(i) # NoPrice
    BY <1>1, <1>3, OnlyClear
  <2>2. \A i \in Products : Remaining(s, i) = Kept(s, i)
    BY <1>1, <1>3, OnlyUnits
  <2>3. Lines(s) = {i \in Products : Kept(s, i) > 0}
    BY <2>2 DEF Lines
  <2>4. \A i \in Lines(s) : Unit(i) * L[i].qty = Net(i)
    BY <1>1, <2>1, LinesFacts, UnitFacts
  <2> QED
    BY <1>1, <1>2, <2>1, <2>3, <2>4
<1>4. CASE ~case.only
  <2>1. /\ DOMAIN o.lines = Products
        /\ \A i \in Products : o.lines[i].qty = L[i].qty /\ o.lines[i].price = L[i].price
    BY <1>1, <1>4, StrictClear
  <2>2. ASSUME NEW i \in Products PROVE Kept(s, i) = L[i].qty /\ Kept(s, i) > 0 /\ L[i].price * L[i].qty = Net(i)
    <3>1. s.removed[i] = 0 /\ L[i].qty \in Nat \ {0}
      BY <1>1, <1>2, <1>4, LineFacts
    <3>2. Kept(s, i) = L[i].qty - s.removed[i] /\ Net(i) = L[i].price * L[i].qty
      BY <1>1, <1>4, StrictUnits
    <3> QED
      BY <3>1, <3>2
  <2> QED
    BY <1>1, <1>2, <2>1, <2>2
<1> QED
  BY <1>3, <1>4

LEMMA RecheckedMoney ==
  ASSUME AmountsInv, [AmountsNext]_avars, run.at = "shopify", run'.at = "order", Automatic
  PROVE  LET p == run.plan IN
         /\ BillTotal(p.order) <= Collected(sale)
         /\ p.pay + p.order.paid = BillTotal(p.order) /\ p.pay >= 0
<1> PICK p, o, s : p = run.plan /\ o = p.order /\ s = p.sale
  OBVIOUS
<1>1. /\ sale = s /\ SaleOK(s) /\ OrderOK(o) /\ o.paid \in Int /\ Reasons(o, s) = {} /\ p = AutoPlan(o, s) /\ case \in Cases
  BY Rechecked DEF PlanOK, OrderOK
<1>2. CASE case.only
  <2>1. /\ o.surcharge = 0 /\ o.paid = Value(o.lines) /\ Value(o.lines) \in Nat /\ Value(o.lines) <= Collected(s)
    BY <1>1, <1>2, OnlyClear
  <2>2. p.pay = 0
    BY <1>1, <1>2 DEF AutoPlan
  <2> QED
    BY <1>1, <2>1, <2>2 DEF BillTotal
<1>3. CASE ~case.only
  <2>1. /\ o.surcharge = case.shipping /\ o.paid <= ListWorth + case.shipping /\ Value(o.lines) = ListWorth
        /\ ListWorth + case.shipping <= Collected(s)
    BY <1>1, <1>3, StrictClear
  <2> PICK total, pay, paid : total = ExpectedTotal(s) /\ pay = p.pay /\ paid = o.paid
    OBVIOUS
  <2>2. pay = total - paid
    BY <1>1, <1>3 DEF AutoPlan
  <2>3. total = ListWorth + case.shipping
    BY <1>3 DEF ExpectedTotal
  <2>4. ListWorth \in Nat /\ case.shipping \in Nat /\ paid \in Int
    BY <1>1, Totals, CaseFacts
  <2>5. BillTotal(o) = total
    BY <2>1, <2>3 DEF BillTotal
  <2>6. pay + paid = total /\ pay >= 0
    <3>1. paid <= total /\ total \in Nat
      BY <2>1, <2>3, <2>4
    <3> QED
      BY <2>2, <2>4, <3>1
  <2>7. total <= Collected(s)
    BY <2>1, <2>3
  <2> QED
    BY <1>1, <2>5, <2>6, <2>7
<1> QED
  BY <1>2, <1>3

(* What an automatic run sends is, for any order, refunds and settings,    *)
(* what Shopify shows at its last read: of each product the units that     *)
(* were not refunded or removed, at the price charged                      *)
(* (product-only-invoicing.ts:126-216, kiotviet-invoice-recovery.ts:       *)
(* 236-300, 609-612).                                                      *)
THEOREM UnitsAreRight == AmountsSpec => RightUnits
  BY AmountsAlways, RecheckedUnits, PTL DEF AmountsSpec, RightUnits

(* It asks for no more than Shopify has collected and not refunded, and    *)
(* the payment it adds to the order's makes up the invoice's total         *)
(* (invoice-financials.ts:243-262, kiotviet-invoice-recovery.ts:331-366).  *)
THEOREM NothingUncollected == AmountsSpec => CollectedCoversIt
  BY AmountsAlways, RecheckedMoney, PTL DEF AmountsSpec, CollectedCoversIt

LEMMA CreatedStep ==
  ASSUME AmountsInv, RecordOK, [AmountsNext]_avars, record'.status = "created"
  PROVE  LET s == run.plan.sale IN
         /\ \A i \in Products : Kept(s, i) > 0 /\ (case.only \/ s.removed[i] = 0) =>
              /\ i \in DOMAIN bill.lines /\ bill.lines[i].qty = Kept(s, i)
              /\ bill.lines[i].price * L[i].qty = Net(i) \/ "unsupported_discount" \in run.plan.reasons
         /\ (~case.only \/ record'.payment = "verified") /\ (bill.surcharge > 0 => run.plan.order.surcharge > 0) =>
              bill.paid = Value(bill.lines) + bill.surcharge
<1>1. CASE record' = record
  BY <1>1 DEF RecordOK, TrueRecord
<1>2. CASE Verify
  <2>1. PlanOK /\ BillOK /\ Verified /\ record'.payment = PaymentStatus /\ case \in Cases
    BY <1>2 DEF Verify, AmountsInv, RunOK, Planned
  <2>2. LinesMatch
    BY <2>1 DEF Verified
  <2> PICK s : s = run.plan.sale
    OBVIOUS
  <2>3. ASSUME NEW i \in Products, Kept(s, i) > 0, case.only \/ s.removed[i] = 0
        PROVE  /\ i \in DOMAIN bill.lines /\ bill.lines[i].qty = Kept(s, i)
               /\ bill.lines[i].price * L[i].qty = Net(i) \/ "unsupported_discount" \in run.plan.reasons
    BY <2>1, <2>2, <2>3, VerifiedUnits
  <2>4. (~case.only \/ record'.payment = "verified") /\ (bill.surcharge > 0 => run.plan.order.surcharge > 0) =>
          bill.paid = Value(bill.lines) + bill.surcharge
    BY <2>1, VerifiedPaid
  <2> QED
    BY <2>3, <2>4
<1>3. record' = record \/ Verify
  BY DEF AmountsNext, CreateOrder, SaleChanges, Ship, Edit, RefundUnits, MoneyBack, CancelSale, SaleOnly, BeginRun, DecideAuto,
         Preview, Submit, ReadStock, RecheckShopify, RecheckOrder, SendInvoice, StaffOrder, StaffBill, StockMoves, RunOnly, avars
<1> QED
  BY <1>1, <1>2, <1>3

(* A record that says created, or that a payment is verified, says so of   *)
(* an invoice that is what was charged, and goes on doing so               *)
(* (invoice-sync.ts:174-266).                                              *)
THEOREM CreatedStaysTrue == AmountsSpec => CreatedIsTrue
  BY AmountsAlways, CreatedStep, PTL DEF AmountsSpec, CreatedIsTrue

(* What an order created from Shopify's meets when it is invoiced.         *)
LEMMA SameSums ==
  ASSUME case \in Cases, NEW s, SaleOK(s), NEW b, SaleOK(b), NEW i \in Products, Kept(s, i) = Kept(b, i), s.removed = b.removed,
         ~Ambiguous(b, i), case.trust \/ s.back[i] = 0
  PROVE  ~Ambiguous(s, i)
<1>1. /\ L[i].qty \in Nat /\ s.removed[i] \in Nat /\ s.left[i] \in Nat /\ s.shipped[i] \in Nat /\ s.back[i] \in Nat
      /\ s.left[i] + s.shipped[i] + s.removed[i] + Refunded(s, i, AllTypes) = L[i].qty + s.back[i]
      /\ Refunded(s, i, {"return"}) <= s.back[i] /\ b.removed[i] = s.removed[i]
  BY CaseFacts, LineFacts DEF SaleOK
<1>2. RefundsOK(s) /\ RefundsOK(b)
  BY DEF SaleOK
<1>3. /\ Refunded(s, i, AllTypes) \in Nat /\ Refunded(b, i, AllTypes) \in Nat /\ Refunded(s, i, {"return"}) \in Nat
      /\ Refunded(s, i, {"cancel", "no_restock"}) \in Nat
  BY <1>2, RefundSums
<1>4. Refunded(s, i, AllTypes) = Refunded(b, i, AllTypes)
  BY <1>1, <1>3 DEF Kept
<1>5. ~Invalid(s, i)
  <2>1. ~Invalid(b, i)
    BY DEF Ambiguous
  <2> QED
    BY <1>4, <2>1 DEF Invalid
<1>6. Refunded(s, i, {"cancel", "no_restock"}) <= Refunded(s, i, AllTypes)
  <2> PICK D, f, g : D = DOMAIN s.refunds /\ f = Units(s, i, {"cancel", "no_restock"}) /\ g = Units(s, i, AllTypes)
    OBVIOUS
  <2>1. \A k \in D : f[k] \in Int /\ g[k] \in Int /\ f[k] <= g[k]
    BY <1>2 DEF Units, AllTypes, RefundsOK
  <2>2. IsFiniteSet(D)
    <3>1. DOMAIN s.refunds = 1 .. Len(s.refunds) /\ Len(s.refunds) \in Nat
      BY <1>2 DEF RefundsOK, IsList
    <3> QED
      BY <3>1, FS_Interval
  <2>3. SumFunctionOnSet(f, D) <= SumFunctionOnSet(g, D)
    BY <2>1, <2>2, SumLess
  <2>4. Refunded(s, i, {"cancel", "no_restock"}) = SumFunctionOnSet(f, D) /\ Refunded(s, i, AllTypes) = SumFunctionOnSet(g, D)
    BY <1>2, RefundSums
  <2> QED
    BY <2>3, <2>4
<1>7. CASE case.trust
  BY <1>5, <1>7 DEF Ambiguous
<1>8. CASE s.back[i] = 0
  <2>1. ~(Refunded(s, i, {"return"}) > 0)
    BY <1>1, <1>3, <1>8
  <2>2. ~(s.shipped[i] > L[i].qty - Refunded(s, i, {"cancel", "no_restock"}))
    BY <1>1, <1>3, <1>6, <1>8
  <2> QED
    BY <1>5, <2>1, <2>2 DEF Ambiguous
<1> QED
  BY <1>7, <1>8

LEMMA KeptWorth ==
  ASSUME case \in Cases, NEW s, SaleOK(s), case.only, \A i \in Products : ~Ambiguous(s, i) /\ Unit(i) # NoPrice
  PROVE  /\ Worth(s) = SumFunction([i \in Products |-> Unit(i) * Kept(s, i)])
         /\ (\E i \in Products : Kept(s, i) > 0 /\ Net(i) > 0) => Worth(s) > 0
<1> PICK P, N, share, charged : /\ P = Products /\ N = Lines(s)
                                /\ share = [i \in N |-> Unit(i) * Remaining(s, i)]
                                /\ charged = [i \in P |-> Unit(i) * Kept(s, i)]
  OBVIOUS
<1>1. N \subseteq P /\ IsFiniteSet(P) /\ IsFiniteSet(N) /\ IsFiniteSet(P \ N)
  BY LinesFacts, CaseFacts, FS_Subset
<1>2. ASSUME NEW i \in P
      PROVE  /\ Unit(i) \in Nat /\ Kept(s, i) \in Nat /\ Unit(i) * Kept(s, i) \in Nat /\ Remaining(s, i) = Kept(s, i)
             /\ (i \notin N => Unit(i) * Kept(s, i) = 0) /\ (Kept(s, i) > 0 /\ Net(i) > 0 => Unit(i) * Kept(s, i) > 0)
  <2>1. i \in DOMAIN L /\ Unit(i) # NoPrice /\ L[i].qty \in Nat \ {0}
    BY CaseFacts, LineFacts
  <2>2. Unit(i) \in Nat /\ Unit(i) * L[i].qty = Net(i)
    BY <2>1, UnitFacts
  <2>3. Kept(s, i) \in Nat /\ Remaining(s, i) = Kept(s, i)
    BY KeptFacts
  <2>4. i \notin N => Kept(s, i) = 0
    BY <2>3 DEF Lines
  <2>5. \A a, k, q \in Nat : a * k \in Nat /\ (k = 0 => a * k = 0) /\ (k > 0 /\ a * q > 0 => a * k > 0)
    <3> SUFFICES ASSUME NEW a \in Nat, NEW k \in Nat, NEW q \in Nat
                 PROVE  a * k \in Nat /\ (k = 0 => a * k = 0) /\ (k > 0 /\ a * q > 0 => a * k > 0)
      OBVIOUS
    <3>1. a = 0 => a * q = 0
      OBVIOUS
    <3>2. a > 0 /\ k > 0 => a * k > 0
      OBVIOUS
    <3> QED
      BY <3>1, <3>2
  <2> QED
    BY <2>1, <2>2, <2>3, <2>4, <2>5
<1>3. \A i \in P : charged[i] \in Nat /\ charged[i] \in Int
  BY <1>2
<1>4. Worth(s) = SumFunctionOnSet(share, N)
  <2>1. Worth(s) = SumFunction(share)
    BY <1>1 DEF Worth
  <2> QED
    BY <2>1, Sums
<1>5. SumFunction(charged) = SumFunctionOnSet(charged, P)
  BY Sums
<1>6. SumFunctionOnSet(share, N) = SumFunctionOnSet(charged, N)
  <2>1. \A i \in N : share[i] = charged[i]
    BY <1>1, <1>2
  <2> QED
    BY <1>1, <2>1, SumEqual
<1>7. SumFunctionOnSet(charged, P) = SumFunctionOnSet(charged, N) + SumFunctionOnSet(charged, P \ N)
  <2>1. N \in SUBSET P /\ \A i \in P : charged[i] \in Int
    BY <1>1, <1>3
  <2> QED
    BY <1>1, <2>1, SumSplit
<1>8. SumFunctionOnSet(charged, P \ N) = 0
  <2>1. \A i \in P \ N : charged[i] = 0
    BY <1>2
  <2> QED
    BY <1>1, <2>1, SumZero
<1>9. SumFunctionOnSet(charged, N) \in Nat
  <2>1. \A i \in N : charged[i] \in Nat
    BY <1>1, <1>3
  <2> QED
    BY <1>1, <2>1, SumNat
<1>10. Worth(s) = SumFunction(charged)
  BY <1>4, <1>5, <1>6, <1>7, <1>8, <1>9
<1>11. ASSUME NEW i \in Products, Kept(s, i) > 0, Net(i) > 0 PROVE Worth(s) > 0
  <2>1. charged[i] > 0 /\ charged[i] \in Nat
    BY <1>2, <1>3, <1>11
  <2>2. SumFunctionOnSet(charged, P) = charged[i] + SumFunctionOnSet(charged, P \ {i})
    BY <1>1, <1>3, SumStep
  <2>3. SumFunctionOnSet(charged, P \ {i}) \in Nat
    <3> PICK M : M = P \ {i}
      OBVIOUS
    <3>1. IsFiniteSet(M) /\ \A j \in M : charged[j] \in Nat
      BY <1>1, <1>3, FS_Subset
    <3> QED
      BY <3>1, SumNat
  <2> QED
    BY <1>5, <1>10, <2>1, <2>2, <2>3
<1> QED
  BY <1>10, <1>11

LEMMA OnlyPlain ==
  ASSUME case \in Cases, NEW s, SaleOK(s), NEW b, SaleOK(b), NEW o, OrderOK(o), case.only,
         \A i \in Products : ~Ambiguous(b, i), s.removed = b.removed,
         \A i \in Products : Kept(s, i) = Kept(b, i) /\ (case.trust \/ s.back[i] = 0),
         o.lines = Expected(b), o.paid = Worth(b), o.surcharge = 0, o.total = Value(Expected(b)),
         \A i \in Products : AddedTax(i) = 0 /\ Unit(i) # NoPrice,
         case.proven \/ case.accept, case.noShipping, case.noFees, case.noOthers, case.lenient, case.other >= 0,
         \E i \in Products : Kept(s, i) > 0 /\ Net(i) > 0,
         NEW charged, charged = SumFunction([i \in Products |-> Unit(i) * Kept(s, i)]), Collected(s) >= charged,
         ~s.cancelled, ~Partial(s)
  PROVE  Reasons(o, s) = {}
<1>1. \A i \in Products : ~Ambiguous(s, i)
  BY SameSums
<1>2. Worth(s) = charged /\ Worth(s) > 0 /\ Worth(s) \in Nat
  BY <1>1, KeptWorth, WorthIsNat
<1>3. \A i \in Products : Remaining(s, i) = Remaining(b, i)
  BY <1>1, KeptFacts
<1>4. Lines(s) = Lines(b) /\ Lines(s) \subseteq Products
  BY <1>3 DEF Lines
<1>5. Expected(s) = Expected(b) /\ Worth(s) = Worth(b)
  BY <1>3, <1>4 DEF Expected, Worth
<1>6. Value(Expected(s)) = Worth(s)
  BY <1>4, OnlyWorth
<1>7. /\ FeeTotal \in Nat /\ ProductTax \in Nat /\ Placed \in Nat /\ Total \in Int /\ Money(s) \in Nat
      /\ Total = Placed + ProductTax + FeeTotal + case.shipping + case.tip + case.other
      /\ case.shipping \in Nat /\ case.tip \in Nat /\ case.other \in Int
  BY Totals, CaseFacts, RefundSums DEF SaleOK
<1>8. ProductTax = 0
  <2> PICK P, f : P = Products /\ f = [i \in P |-> AddedTax(i)]
    OBVIOUS
  <2>1. IsFiniteSet(P) /\ \A i \in P : f[i] = 0
    BY CaseFacts
  <2>2. SumFunctionOnSet(f, P) = 0
    BY <2>1, SumZero
  <2>3. ProductTax = SumFunction(f) /\ SumFunction(f) = SumFunctionOnSet(f, P)
    BY Sums DEF ProductTax
  <2> QED
    BY <2>2, <2>3
<1>9. Other = case.other
  BY <1>7, <1>8 DEF Other
<1>10. Total - Money(s) >= Worth(s)
  BY <1>2 DEF Collected
<1>11. ~OverRefunded(s)
  <2>1. Money(s) <= Total - Worth(s) - ProductTax /\ Total - Worth(s) - ProductTax >= 0
    BY <1>2, <1>7, <1>8, <1>10
  <2> QED
    BY <1>2, <1>7, <2>1 DEF OverRefunded, Greater
<1>12. StatusReasons(s) = {}
  <2>1. Money(s) < Total
    BY <1>2, <1>7, <1>10
  <2>2. FinancialStatus(s) # "refunded"
    BY <1>7, <2>1 DEF FinancialStatus
  <2> QED
    BY <2>2 DEF StatusReasons, When
<1>13. ProductReasons(s) = {}
  <2>1. \A i \in Lines(s) : Unit(i) # NoPrice
    BY <1>4
  <2>2. ~(Other < 0) /\ ~(Other > 0 /\ ~(case.noOthers /\ case.lenient))
    BY <1>7, <1>9
  <2>3. ~(ProductTax > 0)
    BY <1>8
  <2> QED
    BY <1>1, <1>11, <2>1, <2>2, <2>3 DEF ProductReasons, When
<1>14. LineReasons(o, Expected(s)) = {}
  BY <1>5 DEF LineReasons, When
<1>15. TotalReasons(o, Expected(s)) = {}
  BY <1>5 DEF TotalReasons, When
<1>16. PaymentReasons(o, s) = {}
  <2>1. o.paid = Value(o.lines) /\ o.paid > 0 /\ o.paid \in Nat
    BY <1>2, <1>5, <1>6
  <2>2. Proven(o) \/ case.accept
    BY DEF Proven
  <2> QED
    BY <2>1, <2>2 DEF PaymentReasons, When
<1> QED
  BY <1>12, <1>13, <1>14, <1>15, <1>16 DEF Reasons

LEMMA StrictPlain ==
  ASSUME case \in Cases, NEW s, SaleOK(s), NEW b, SaleOK(b), NEW o, OrderOK(o), ~case.only,
         o.lines = Expected(b), o.paid = Adjusted, o.surcharge = PlannedSurcharge,
         o.total \in {Value(Expected(b)), Value(Expected(b)) + PlannedSurcharge},
         \A i \in Products : AddedTax(i) = 0 /\ L[i].off = 0,
         case.proven, case.tip = 0, case.other = 0, s.refunds = <<>>, case.shipping > 0 => case.surcharge /\ case.inherits,
         ~s.cancelled, ~Partial(s)
  PROVE  Reasons(o, s) = {}
<1>1. \A i \in Products : Remaining(s, i) = L[i].qty /\ Remaining(b, i) = L[i].qty
  BY KeptFacts
<1>2. Expected(s) = Expected(b) /\ Value(Expected(s)) = ListWorth
  <2>1. Lines(s) = Products /\ Lines(b) = Products /\ Value(Expected(s)) = ListWorth
    BY StrictWorth
  <2> QED
    BY <1>1, <2>1 DEF Expected
<1>3. /\ FeeTotal \in Nat /\ ProductTax \in Nat /\ Placed \in Nat /\ ListWorth \in Nat /\ Total \in Int
      /\ Total = Placed + ProductTax + FeeTotal + case.shipping + case.tip + case.other
      /\ case.shipping \in Nat
  BY Totals, CaseFacts
<1>4. Money(s) = 0 /\ DOMAIN s.refunds = {}
  <2> PICK f : f = Amounts(s)
    OBVIOUS
  <2>1. DOMAIN s.refunds = {}
    OBVIOUS
  <2>2. Money(s) = SumFunctionOnSet(f, {})
    BY <2>1, RefundSums DEF SaleOK
  <2> QED
    BY <2>1, <2>2, SumEmpty
<1>5. ProductTax = 0
  <2> PICK P, f : P = Products /\ f = [i \in P |-> AddedTax(i)]
    OBVIOUS
  <2>1. IsFiniteSet(P) /\ \A i \in P : f[i] = 0
    BY CaseFacts
  <2>2. SumFunctionOnSet(f, P) = 0
    BY <2>1, SumZero
  <2>3. ProductTax = SumFunction(f) /\ SumFunction(f) = SumFunctionOnSet(f, P)
    BY Sums DEF ProductTax
  <2> QED
    BY <2>2, <2>3
<1>6. Placed = ListWorth
  <2>1. \A i \in Products : Net(i) = L[i].price * L[i].qty
    BY CaseFacts, LineFacts DEF Net
  <2>2. [i \in Products |-> Net(i)] = [i \in Products |-> L[i].price * L[i].qty]
    BY <2>1
  <2> QED
    BY <2>2 DEF Placed, ListWorth
<1>7. Adjusted = ListWorth + case.shipping
  BY <1>3, <1>5, <1>6 DEF Adjusted
<1>8. StatusReasons(s) = {}
  <2>1. FinancialStatus(s) # "refunded"
    BY <1>4 DEF FinancialStatus
  <2> QED
    BY <2>1 DEF StatusReasons, When
<1>9. StrictReasons(s) = {}
  <2>1. ~FeesRefunded(s)
    BY <1>3, <1>4 DEF FeesRefunded
  <2>2. \A i \in Products : ~(L[i].off > 0) /\ ~(AddedTax(i) > 0)
    OBVIOUS
  <2> QED
    BY <1>4, <1>7, <2>1, <2>2 DEF StrictReasons, When
<1>10. LineReasons(o, Expected(s)) = {}
  BY <1>2 DEF LineReasons, When
<1>11. o.surcharge = case.shipping
  BY <1>3 DEF PlannedSurcharge
<1>12. TotalReasons(o, Expected(s)) = {}
  <2>1. o.total \in {ListWorth + case.shipping, ListWorth + case.shipping - o.surcharge}
    BY <1>2, <1>3, <1>11
  <2>2. ~(case.shipping > 0 /\ o.surcharge = 0) /\ o.surcharge \in {0, case.shipping}
    BY <1>3, <1>11
  <2> QED
    BY <2>1, <2>2 DEF TotalReasons, When
<1>13. PaymentReasons(o, s) = {}
  <2>1. ~(o.paid > ExpectedTotal(s)) /\ Proven(o)
    BY <1>3, <1>7 DEF ExpectedTotal, Proven
  <2> QED
    BY <2>1 DEF PaymentReasons, When
<1> QED
  BY <1>8, <1>9, <1>10, <1>12, <1>13 DEF Reasons

LEMMA PlainFollows == ASSUME AmountsInv PROVE PlainIsInvoiced
<1> SUFFICES ASSUME Untouched, Plain,
                    NEW charged, charged = SumFunction([i \in Products |-> Unit(i) * Kept(sale, i)]),
                    Collected(sale) >= charged + order.surcharge
             PROVE  Reasons(order, sale) = {}
  BY DEF PlainIsInvoiced
<1> PICK o, s, b : o = order /\ s = sale /\ b = born
  OBVIOUS
<1>1. /\ case \in Cases /\ SaleOK(s) /\ SaleOK(b) /\ OrderOK(o)
      /\ case.only => \A i \in Products : ~Ambiguous(b, i)
      /\ o.lines = Expected(b) /\ o.paid = PlannedPayment(b) /\ o.surcharge = PlannedSurcharge
      /\ o.total \in {Value(Expected(b)), Value(Expected(b)) + PlannedSurcharge}
      /\ ~s.cancelled /\ ~Partial(s) /\ s.removed = b.removed
      /\ \A i \in Products : Kept(s, i) = Kept(b, i) /\ (case.trust \/ s.back[i] = 0)
  BY DEF AmountsInv, BornOK, Untouched
<1>2. \A i \in Products : AddedTax(i) = 0 /\ Unit(i) # NoPrice
  BY DEF Plain
<1>3. CASE case.only
  <2>1. /\ case.proven \/ case.accept
        /\ case.noShipping /\ case.noFees /\ case.noOthers /\ case.lenient /\ case.other >= 0
        /\ \E i \in Products : Kept(s, i) > 0 /\ Net(i) > 0
    BY <1>3 DEF Plain
  <2>2. o.paid = Worth(b) /\ o.surcharge = 0
    BY <1>1, <1>3 DEF PlannedPayment, PlannedSurcharge
  <2>3. Value(Expected(b)) \in Int
    BY <1>1, <1>2, <1>3, OnlyWorth, LinesFacts
  <2>4. o.total = Value(Expected(b))
    BY <1>1, <1>3, <2>3 DEF PlannedSurcharge
  <2>5. charged = SumFunction([i \in Products |-> Unit(i) * Kept(s, i)]) /\ Collected(s) >= charged
    <3>1. charged \in Int
      <4>1. \A i \in Products : ~Ambiguous(s, i)
        BY <1>1, <1>3, SameSums
      <4> QED
        BY <1>1, <1>2, <1>3, <4>1, KeptWorth, WorthIsNat
    <3> QED
      BY <2>2, <3>1
  <2> QED
    BY <1>1, <1>2, <1>3, <2>1, <2>2, <2>4, <2>5, OnlyPlain
<1>4. CASE ~case.only
  <2>1. /\ case.proven /\ case.tip = 0 /\ case.other = 0 /\ s.refunds = <<>> /\ \A i \in Products : L[i].off = 0
        /\ case.shipping > 0 => case.surcharge /\ case.inherits
    BY <1>4 DEF Plain
  <2>2. o.paid = Adjusted
    BY <1>1, <1>4 DEF PlannedPayment
  <2> QED
    BY <1>1, <1>2, <1>4, <2>1, <2>2, StrictPlain
<1> QED
  BY <1>3, <1>4

(* The order's creation and the invoice's plan agree to the cent: an order *)
(* nobody touched, of the plain kinds, raises no reason for review, for    *)
(* any number of lines, units and refunds (order-sync.ts:218-257,          *)
(* invoice-financials.ts:141-269).                                         *)
THEOREM PlainOrdersPass == AmountsSpec => []PlainIsInvoiced
  BY AmountsAlways, PlainFollows, PTL
=============================================================================

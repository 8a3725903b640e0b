------------------------- MODULE InvoiceCreateProofs -------------------------
(***************************************************************************)
(* Theorems about InvoiceCreate for any runs, verifiers, tokens and bounds.*)
(***************************************************************************)
EXTENDS InvoiceCreate, TLAPS

LEMMA InitType == Init => TypeOK
<1> SUFFICES ASSUME Init PROVE TypeOK OBVIOUS
<1>1. crashes \in 0 .. env.crashes BY InvoiceAssumption DEF Init
<1> QED BY <1>1 DEF Init, TypeOK, Statuses, Invoices, RunPcs, OrderPcs

LEMMA RunType ==
  ASSUME env \in Environments, TypeOK, UNCHANGED env, NEW r \in Runs, Run(r) \/ Reopened(r) \/ Crash(r)
  PROVE  TypeOK'
<1> USE DEF TypeOK, Statuses, Invoices, RunPcs, HoldingPcs, OrderPcs, Write, WriteClaim, NoWrite, rowVars, runVars, verifierVars,
        orderVars, worldVars, jobVars, Go, RunStep, Leave, OnlyRuns, OnlyVerifiers, OnlyOrder, VLeave, OLeave, Holds, Made, Existing
<1>1. CASE PlanReads(r) BY <1>1 DEF PlanReads
<1>2. CASE PlanLinks(r) BY <1>2 DEF PlanLinks, Lookup, Active
<1>3. CASE PlanCreates(r) BY <1>3 DEF PlanCreates
<1>4. CASE PlanResets(r) BY <1>4 DEF PlanResets
<1>5. CASE PlanRetries(r) BY <1>5 DEF PlanRetries
<1>24. CASE PlanReviews(r) BY <1>24 DEF PlanReviews, RecordBlocked
<1>25. CASE Reopened(r) BY <1>25 DEF Reopened
<1>6. CASE ApplyReset(r) BY <1>6 DEF ApplyReset, Outstanding
<1>7. CASE Claim(r)
  <2>1. PICK t \in Tokens : WriteClaim("pending", t) /\ ref' = [ref EXCEPT ![r] = t]
    BY <1>7, InvoiceAssumption DEF Claim, NewTokens
  <2>2. ref' \in [Runs -> Tokens \cup {None}] BY <2>1
  <2> QED BY <1>7, <2>1, <2>2 DEF Claim
<1>8. CASE ClaimRefused(r) BY <1>8 DEF ClaimRefused
<1>9. CASE CheckLinks(r) BY <1>9 DEF CheckLinks
<1>10. CASE CheckBlocks(r) BY <1>10 DEF CheckBlocks, Release
<1>11. CASE CheckFails(r) BY <1>11 DEF CheckFails, Release
<1>12. CASE CheckPasses(r) BY <1>12 DEF CheckPasses
<1>13. CASE Mark(r) BY <1>13 DEF Mark
<1>14. CASE Send(r)
  <2>1. request' \in [Tokens -> {"none", "sent", "made", "refused", "lost"}] BY <1>14 DEF Send
  <2> QED BY <1>14, <2>1 DEF Send
<1>15. CASE AnswerCreated(r) BY <1>15 DEF AnswerCreated
<1>16. CASE AnswerRejected(r) BY <1>16 DEF AnswerRejected
<1>17. CASE AnswerUncertain(r) BY <1>17 DEF AnswerUncertain
<1>18. CASE SettleReviews(r) BY <1>18 DEF SettleReviews
<1>19. CASE SettleLinks(r) BY <1>19 DEF SettleLinks, Lookup, Active
<1>20. CASE SettleGivesUp(r) BY <1>20 DEF SettleGivesUp
<1>21. CASE Finalize(r) BY <1>21 DEF Finalize, SaveInvoice
<1>22. CASE FinalizeFails(r) BY <1>22 DEF FinalizeFails, Release
<1>23. CASE Crash(r)
  <2>1. env.crashes \in Nat BY InvoiceAssumption
  <2>2. crashes' \in 0 .. env'.crashes BY <1>23, <2>1 DEF Crash
  <2> QED BY <1>23, <2>2 DEF Crash
<1> QED BY <1>1, <1>2, <1>3, <1>4, <1>5, <1>6, <1>7, <1>8, <1>9, <1>10, <1>11, <1>12, <1>13, <1>14, <1>15, <1>16, <1>17, <1>18, <1>19, <1>20, <1>21, <1>22, <1>23, <1>24, <1>25 DEF Run

LEMMA VerifierType ==
  ASSUME env \in Environments, TypeOK, UNCHANGED env, NEW v \in Verifiers, Verifier(v)
  PROVE  TypeOK'
<1> USE DEF TypeOK, Statuses, Invoices, RunPcs, HoldingPcs, OrderPcs, Write, WriteClaim, NoWrite, rowVars, runVars, verifierVars,
        orderVars, worldVars, jobVars, Go, RunStep, Leave, OnlyRuns, OnlyVerifiers, OnlyOrder, VLeave, OLeave, Holds, Made, Existing
<1>1. CASE VerifyReads(v) BY <1>1 DEF VerifyReads
<1>2. CASE VerifyFinds(v) BY <1>2 DEF VerifyFinds, Lookup, Active
<1>3. CASE VerifyReviews(v) BY <1>3 DEF VerifyReviews, MarkNeedsReview
<1>4. CASE VerifyRetries(v) BY <1>4 DEF VerifyRetries
<1>5. CASE VerifyFinalizes(v) BY <1>5 DEF VerifyFinalizes, SaveInvoice
<1> QED BY <1>1, <1>2, <1>3, <1>4, <1>5 DEF Verifier

LEMMA OrderType ==
  ASSUME env \in Environments, TypeOK, UNCHANGED env, OrderJob \/ OrderReset \/ OrderCrash
  PROVE  TypeOK'
<1> USE DEF TypeOK, Statuses, Invoices, RunPcs, HoldingPcs, OrderPcs, Write, WriteClaim, NoWrite, rowVars, runVars, verifierVars,
        orderVars, worldVars, jobVars, Go, RunStep, Leave, OnlyRuns, OnlyVerifiers, OnlyOrder, VLeave, OLeave, Holds, Made, Existing
<1>1. CASE OrderClaims
  <2>1. PICK t \in Tokens, decision \in {"off", "pending", "blocked"} :
           /\ otok' = t
           /\ (WriteClaim(decision, t) /\ decision # "off" /\ wants' = (decision = "pending")) \/ (NoWrite /\ wants' = FALSE)
    BY <1>1, InvoiceAssumption DEF OrderClaims, NewTokens
  <2> QED BY <1>1, <2>1 DEF OrderClaims
<1>2. CASE OrderBlocksInvoice BY <1>2 DEF OrderBlocksInvoice
<1>3. CASE OrderPrepareFails BY <1>3 DEF OrderPrepareFails
<1>4. CASE OrderMarks BY <1>4 DEF OrderMarks
<1>5. CASE MarkSending BY <1>5 DEF MarkSending
<1>6. CASE OrderSends
  <2>1. request' \in [Tokens -> {"none", "sent", "made", "refused", "lost"}] BY <1>6 DEF OrderSends
  <2> QED BY <1>6, <2>1 DEF OrderSends
<1>7. CASE OrderCreated BY <1>7 DEF OrderCreated, OrderAnswered
<1>8. CASE Attach BY <1>8 DEF Attach
<1>9. CASE OrderRejected BY <1>9 DEF OrderRejected, OrderAnswered
<1>10. CASE FailInvoice BY <1>10 DEF FailInvoice
<1>11. CASE OrderUncertain BY <1>11 DEF OrderUncertain
<1>12. CASE OrderFound BY <1>12 DEF OrderFound
<1>13. CASE OrderReset BY <1>13 DEF OrderReset
<1>14. CASE OrderCrash
  <2>1. env.crashes \in Nat BY InvoiceAssumption
  <2>2. crashes' \in 0 .. env'.crashes BY <1>14, <2>1 DEF OrderCrash
  <2> QED BY <1>14, <2>2 DEF OrderCrash
<1> QED BY <1>1, <1>2, <1>3, <1>4, <1>5, <1>6, <1>7, <1>8, <1>9, <1>10, <1>11, <1>12, <1>13, <1>14 DEF OrderJob

LEMMA WorldType ==
  ASSUME env \in Environments, TypeOK, UNCHANGED env,
                 \/ \E t \in Tokens : KiotViet(t)
                 \/ \E i \in StaffInvoices : StaffInvoice(i)
                 \/ \E i \in Invoices : StaffCancels(i)
                 \/ ClaimAges
  PROVE  TypeOK'
<1> USE DEF TypeOK, Statuses, Invoices, RunPcs, HoldingPcs, OrderPcs, Write, WriteClaim, NoWrite, rowVars, runVars, verifierVars,
        orderVars, worldVars, jobVars, Go, RunStep, Leave, OnlyRuns, OnlyVerifiers, OnlyOrder, VLeave, OLeave, Holds, Made, Existing
<1>1. CASE \E t \in Tokens : KiotViet(t)
  <2>1. request' \in [Tokens -> {"none", "sent", "made", "refused", "lost"}] BY <1>1 DEF KiotViet
  <2> QED BY <1>1, <2>1 DEF KiotViet, OnlyWorld
<1>2. CASE \E i \in StaffInvoices : StaffInvoice(i) BY <1>2 DEF StaffInvoice, OnlyWorld
<1>3. CASE \E i \in Invoices : StaffCancels(i) BY <1>3 DEF StaffCancels, OnlyWorld
<1>4. CASE ClaimAges BY <1>4 DEF ClaimAges
<1> QED BY <1>1, <1>2, <1>3, <1>4

(***************************************************************************)
(* An operator's reset takes a claim of unknown outcome for abandoned once *)
(* it is five minutes old, and the code relies on no run living that long: *)
(* a run suspended for longer in the middle of its request could send it   *)
(* after the reset.  The theorems are about environments that do not have  *)
(* both.                                                                   *)
(***************************************************************************)
NoStallBesideReset == \A e \in Environments : ~e.stalls \/ e.operators = {}

Parts ==
  /\ NoSecondInvoice /\ LinkIsReal
  /\ SendersExclude /\ OutstandingShows /\ TokensAreDistinct /\ OrderIsFirst
  /\ UnlistedIsHeld /\ TargetsAreReal /\ ResetIsDue /\ LinkEndsClaim

LEMMA PartsDef == InvoiceInv <=> env \in Environments /\ TypeOK /\ Parts
BY DEF InvoiceInv, Parts

LEMMA InitParts == Init => Parts
BY DEF Init, Parts, NoSecondInvoice, Outstanding, LinkIsReal, SendersExclude, MaySend, OutstandingShows,
       TokensAreDistinct, OrderIsFirst, UnlistedIsHeld, TargetsAreReal, ResetIsDue, LinkEndsClaim, HoldingPcs

LEMMA RunKeeps ==
  ASSUME NoStallBesideReset, InvoiceInv, TypeOK', UNCHANGED env, NEW r \in Runs, Run(r) \/ Reopened(r) \/ Crash(r)
  PROVE  Parts'
<1> USE NoStallBesideReset
    DEF InvoiceInv, Parts, NoStallBesideReset, NoSecondInvoice, Outstanding, LinkIsReal, SendersExclude, MaySend,
        OutstandingShows, TokensAreDistinct, OrderIsFirst, UnlistedIsHeld, TargetsAreReal, ResetIsDue, LinkEndsClaim,
        TypeOK, Statuses, Invoices, RunPcs, HoldingPcs, OrderPcs, Write, WriteClaim, NoWrite, rowVars, runVars, verifierVars,
        orderVars, worldVars, jobVars, Go, RunStep, Leave, OnlyRuns, OnlyVerifiers, OnlyOrder, OnlyWorld, VLeave, OLeave, Holds, Made,
        Existing, Busy
<1>1. CASE PlanReads(r) BY <1>1 DEF PlanReads
<1>2. CASE PlanLinks(r) BY <1>2 DEF PlanLinks, Lookup, Active
<1>3. CASE PlanCreates(r) BY <1>3 DEF PlanCreates, Unclaimed
<1>4. CASE PlanResets(r) BY <1>4 DEF PlanResets
<1>5. CASE PlanRetries(r) BY <1>5 DEF PlanRetries
<1>24. CASE PlanReviews(r) BY <1>24 DEF PlanReviews, RecordBlocked
<1>25. CASE Reopened(r) BY <1>25 DEF Reopened
<1>6. CASE ApplyReset(r) BY <1>6 DEF ApplyReset
<1>7. CASE Claim(r)
  <2>1. PICK t \in NewTokens : WriteClaim("pending", t) /\ ref' = [ref EXCEPT ![r] = t] BY <1>7 DEF Claim
  <2>2. /\ t # token /\ t # otok /\ request[t] = "none" /\ t \in Tokens /\ t # None
        /\ \A q \in Runs : ref[q] # t
    BY InvoiceAssumption DEF NewTokens
  <2>3. /\ invoice = None /\ pc' = [pc EXCEPT ![r] = IF kind[r] = "link" THEN "finalize" ELSE "check"]
        /\ pc[r] = "claim" /\ order = "linked" /\ (kind[r] # "link" => Unclaimed)
    BY <1>7 DEF Claim, Claimable
  <2>4. TokensAreDistinct' BY <1>7, <2>1, <2>2, <2>3 DEF Claim
  <2>5. SendersExclude' /\ OutstandingShows' /\ UnlistedIsHeld' /\ ResetIsDue' BY <1>7, <2>1, <2>2, <2>3, <2>4 DEF Claim, Unclaimed
  <2> QED BY <1>7, <2>1, <2>2, <2>3, <2>4, <2>5 DEF Claim
<1>8. CASE ClaimRefused(r) BY <1>8 DEF ClaimRefused, Claimable
<1>9. CASE CheckLinks(r) BY <1>9 DEF CheckLinks, Active
<1>10. CASE CheckBlocks(r) BY <1>10 DEF CheckBlocks, Release
<1>11. CASE CheckFails(r) BY <1>11 DEF CheckFails, Release
<1>12. CASE CheckPasses(r) BY <1>12 DEF CheckPasses
<1>13. CASE Mark(r) BY <1>13 DEF Mark
<1>14. CASE Send(r) BY <1>14 DEF Send
<1>15. CASE AnswerCreated(r) BY <1>15 DEF AnswerCreated
<1>16. CASE AnswerRejected(r) BY <1>16 DEF AnswerRejected
<1>17. CASE AnswerUncertain(r) BY <1>17 DEF AnswerUncertain
<1>18. CASE SettleReviews(r) BY <1>18 DEF SettleReviews
<1>19. CASE SettleLinks(r) BY <1>19 DEF SettleLinks, Lookup, Active
<1>20. CASE SettleGivesUp(r) BY <1>20 DEF SettleGivesUp
<1>21. CASE Finalize(r)
  <2>1. target[r] # None BY <1>21, InvoiceAssumption DEF Finalize
  <2>2. LinkIsReal' /\ LinkEndsClaim' BY <1>21, <2>1 DEF Finalize, SaveInvoice
  <2>3. TokensAreDistinct' /\ SendersExclude' BY <1>21 DEF Finalize, SaveInvoice
  <2>4. OutstandingShows' /\ UnlistedIsHeld' BY <1>21 DEF Finalize, SaveInvoice
  <2> QED BY <1>21, <2>1, <2>2, <2>3, <2>4 DEF Finalize, SaveInvoice
<1>22. CASE FinalizeFails(r) BY <1>22 DEF FinalizeFails, Release
<1>23. CASE Crash(r) BY <1>23 DEF Crash
<1> QED BY <1>1, <1>2, <1>3, <1>4, <1>5, <1>6, <1>7, <1>8, <1>9, <1>10, <1>11, <1>12, <1>13, <1>14, <1>15, <1>16, <1>17, <1>18, <1>19, <1>20, <1>21, <1>22, <1>23, <1>24, <1>25 DEF Run

LEMMA VerifierKeeps ==
  ASSUME NoStallBesideReset, InvoiceInv, TypeOK', UNCHANGED env, NEW v \in Verifiers, Verifier(v)
  PROVE  Parts'
<1> USE NoStallBesideReset
    DEF InvoiceInv, Parts, NoStallBesideReset, NoSecondInvoice, Outstanding, LinkIsReal, SendersExclude, MaySend,
        OutstandingShows, TokensAreDistinct, OrderIsFirst, UnlistedIsHeld, TargetsAreReal, ResetIsDue, LinkEndsClaim,
        TypeOK, Statuses, Invoices, RunPcs, HoldingPcs, OrderPcs, Write, WriteClaim, NoWrite, rowVars, runVars, verifierVars,
        orderVars, worldVars, jobVars, Go, RunStep, Leave, OnlyRuns, OnlyVerifiers, OnlyOrder, OnlyWorld, VLeave, OLeave, Holds, Made,
        Existing, Busy
<1>1. CASE VerifyReads(v) BY <1>1 DEF VerifyReads
<1>2. CASE VerifyFinds(v) BY <1>2 DEF VerifyFinds, Lookup, Active
<1>3. CASE VerifyReviews(v) BY <1>3 DEF VerifyReviews, MarkNeedsReview, WindowOver
<1>4. CASE VerifyRetries(v) BY <1>4 DEF VerifyRetries
<1>5. CASE VerifyFinalizes(v)
  <2>1. vtarget[v] # None BY <1>5, InvoiceAssumption DEF VerifyFinalizes
  <2>2. LinkIsReal' /\ LinkEndsClaim' BY <1>5, <2>1 DEF VerifyFinalizes, SaveInvoice
  <2>3. TokensAreDistinct' /\ SendersExclude' BY <1>5 DEF VerifyFinalizes, SaveInvoice
  <2>4. OutstandingShows' /\ UnlistedIsHeld' BY <1>5 DEF VerifyFinalizes, SaveInvoice
  <2> QED BY <1>5, <2>1, <2>2, <2>3, <2>4 DEF VerifyFinalizes, SaveInvoice
<1> QED BY <1>1, <1>2, <1>3, <1>4, <1>5 DEF Verifier

LEMMA OrderKeeps ==
  ASSUME NoStallBesideReset, InvoiceInv, TypeOK', UNCHANGED env, OrderJob \/ OrderReset \/ OrderCrash
  PROVE  Parts'
<1> USE NoStallBesideReset
    DEF InvoiceInv, Parts, NoStallBesideReset, NoSecondInvoice, Outstanding, LinkIsReal, SendersExclude, MaySend,
        OutstandingShows, TokensAreDistinct, OrderIsFirst, UnlistedIsHeld, TargetsAreReal, ResetIsDue, LinkEndsClaim,
        TypeOK, Statuses, Invoices, RunPcs, HoldingPcs, OrderPcs, Write, WriteClaim, NoWrite, rowVars, runVars, verifierVars,
        orderVars, worldVars, jobVars, Go, RunStep, Leave, OnlyRuns, OnlyVerifiers, OnlyOrder, OnlyWorld, VLeave, OLeave, Holds, Made,
        Existing, Busy
<1>1. CASE OrderClaims
  <2>1. PICK t \in NewTokens, decision \in {"off", "pending", "blocked"} :
           /\ otok' = t
           /\ \/ /\ decision # "off" /\ invoice = None /\ WriteClaim(decision, t)
                 /\ wants' = (decision = "pending")
              \/ NoWrite /\ wants' = FALSE
    BY <1>1 DEF OrderClaims
  <2>2. /\ t # token /\ request[t] = "none" /\ t \in Tokens /\ t # None
        /\ \A q \in Runs : ref[q] # t
    BY InvoiceAssumption DEF NewTokens
  <2>3. /\ order \in {"absent", "failed", "claimed"} /\ order' = "claimed" /\ opc' = "prepare" /\ UNCHANGED <<worldVars, runVars, verifierVars>>
    BY <1>1 DEF OrderClaims
  <2>4. TokensAreDistinct' BY <2>1, <2>2, <2>3
  <2> QED BY <2>1, <2>2, <2>3, <2>4
<1>2. CASE OrderBlocksInvoice BY <1>2 DEF OrderBlocksInvoice
<1>3. CASE OrderPrepareFails BY <1>3 DEF OrderPrepareFails
<1>4. CASE OrderMarks BY <1>4 DEF OrderMarks
<1>5. CASE MarkSending BY <1>5 DEF MarkSending
<1>6. CASE OrderSends BY <1>6 DEF OrderSends
<1>7. CASE OrderCreated BY <1>7 DEF OrderCreated, OrderAnswered
<1>8. CASE Attach BY <1>8 DEF Attach
<1>9. CASE OrderRejected BY <1>9 DEF OrderRejected, OrderAnswered
<1>10. CASE FailInvoice BY <1>10 DEF FailInvoice
<1>11. CASE OrderUncertain BY <1>11 DEF OrderUncertain
<1>12. CASE OrderFound BY <1>12 DEF OrderFound
<1>13. CASE OrderReset BY <1>13 DEF OrderReset
<1>14. CASE OrderCrash BY <1>14 DEF OrderCrash
<1> QED BY <1>1, <1>2, <1>3, <1>4, <1>5, <1>6, <1>7, <1>8, <1>9, <1>10, <1>11, <1>12, <1>13, <1>14 DEF OrderJob

LEMMA WorldKeeps ==
  ASSUME NoStallBesideReset, InvoiceInv, TypeOK', UNCHANGED env, 
         \/ \E t \in Tokens : KiotViet(t)
         \/ \E i \in StaffInvoices : StaffInvoice(i)
         \/ \E i \in Invoices : StaffCancels(i)
         \/ ClaimAges
  PROVE  Parts'
<1> USE NoStallBesideReset
    DEF InvoiceInv, Parts, NoStallBesideReset, NoSecondInvoice, Outstanding, LinkIsReal, SendersExclude, MaySend,
        OutstandingShows, TokensAreDistinct, OrderIsFirst, UnlistedIsHeld, TargetsAreReal, ResetIsDue, LinkEndsClaim,
        TypeOK, Statuses, Invoices, RunPcs, HoldingPcs, OrderPcs, Write, WriteClaim, NoWrite, rowVars, runVars, verifierVars,
        orderVars, worldVars, jobVars, Go, RunStep, Leave, OnlyRuns, OnlyVerifiers, OnlyOrder, OnlyWorld, VLeave, OLeave, Holds, Made,
        Existing, Busy
<1>1. CASE \E t \in Tokens : KiotViet(t) BY <1>1 DEF KiotViet
<1>2. CASE \E i \in StaffInvoices : StaffInvoice(i) BY <1>2 DEF StaffInvoice
<1>3. CASE \E i \in Invoices : StaffCancels(i) BY <1>3 DEF StaffCancels
<1>4. CASE ClaimAges BY <1>4 DEF ClaimAges
<1> QED BY <1>1, <1>2, <1>3, <1>4

(***************************************************************************)
(* Never two invoices: while a request may have made an invoice no other   *)
(* request leaves, and what is linked exists, whatever the number of runs, *)
(* verifiers, requests and crashes.                                        *)
(***************************************************************************)
THEOREM InvoicesAreSafe == ASSUME NoStallBesideReset PROVE Spec => []InvoiceInv
<1>1. Init => InvoiceInv BY InitType, InitParts, PartsDef DEF Init
<1>2. InvoiceInv /\ [Next]_vars => InvoiceInv'
  <2> SUFFICES ASSUME InvoiceInv, [Next]_vars PROVE InvoiceInv'
    OBVIOUS
  <2>1. ASSUME UNCHANGED vars PROVE InvoiceInv'
    BY <2>1 DEF vars, state, rowVars, worldVars, runVars, verifierVars, orderVars, jobVars, InvoiceInv, TypeOK, NoSecondInvoice,
                Outstanding, LinkIsReal, SendersExclude, MaySend, Holds, OutstandingShows, TokensAreDistinct, OrderIsFirst,
                UnlistedIsHeld, TargetsAreReal, ResetIsDue, LinkEndsClaim, Existing, Made
  <2>2. ASSUME Step, UNCHANGED env PROVE TypeOK' /\ Parts'
    <3>1. env \in Environments /\ TypeOK BY DEF InvoiceInv
    <3>2. TypeOK' BY <2>2, <3>1, RunType, VerifierType, OrderType, WorldType DEF Step
    <3>3. Parts' BY <2>2, <3>2, RunKeeps, VerifierKeeps, OrderKeeps, WorldKeeps DEF Step
    <3> QED BY <3>2, <3>3
  <2>3. env \in Environments BY DEF InvoiceInv
  <2>4. CASE Next
    <3>1. UNCHANGED env /\ env' \in Environments BY <2>3, <2>4 DEF Next
    <3>2. TypeOK' /\ Parts' BY <2>2, <2>4 DEF Next
    <3> QED BY <3>1, <3>2, PartsDef DEF InvoiceInv, Parts
  <2> QED BY <2>1, <2>4
<1> QED BY <1>1, <1>2, PTL DEF Spec
-----------------------------------------------------------------------------
Seen == <<request, staff, waived, invoice>>

LEMMA SeenStutter == UNCHANGED Seen => UNCHANGED Once!vars
BY DEF Seen, Once!vars, Outcome, Existing, Made

LEMMA OutcomeOf ==
  ASSUME InvoiceInv
  PROVE  /\ \A i \in Existing : Outcome[i] = "exists"
         /\ \A t \in Tokens : /\ request[t] = "none" => Outcome[t] = "none"
                              /\ request[t] = "sent" => Outcome[t] = "open"
                              /\ Outcome[t] \in {"open", "exists"} => request[t] \in {"sent", "made"}
         /\ \A i \in StaffInvoices \ staff : Outcome[i] = "none"
BY InvoiceAssumption DEF InvoiceInv, TypeOK, Outcome, Invoices, Existing, Made

LEMMA OutcomeMoves ==
  ASSUME InvoiceInv, NEW t \in Tokens, NEW a \in {"sent", "made", "refused", "lost"},
         request' = [request EXCEPT ![t] = a], UNCHANGED staff
  PROVE  Outcome' = [Outcome EXCEPT ![t] = IF a = "made" THEN "exists" ELSE IF a = "sent" THEN "open" ELSE "dead"]
<1>1. /\ t \notin staff /\ t \notin StaffInvoices /\ t \in Invoices /\ request \in [Tokens -> {"none", "sent", "made", "refused", "lost"}]
      /\ staff \subseteq StaffInvoices /\ Tokens \cap StaffInvoices = {}
  BY InvoiceAssumption DEF InvoiceInv, TypeOK, Invoices
<1>2. \A i \in Tokens : request'[i] = IF i = t THEN a ELSE request[i] BY <1>1
<1>3. \A i \in Invoices \ {t} : i \in Existing' <=> i \in Existing BY <1>2 DEF Existing, Made
<1>4. \A i \in Invoices \ {t} : Outcome'[i] = Outcome[i] BY <1>2, <1>3 DEF Outcome, Invoices
<1>5. t \in Existing' <=> a = "made" BY <1>1, <1>2 DEF Existing, Made
<1>6. Outcome'[t] = IF a = "made" THEN "exists" ELSE IF a = "sent" THEN "open" ELSE "dead"
  BY <1>1, <1>2, <1>5 DEF Outcome
<1> QED BY <1>1, <1>4, <1>6 DEF Outcome

LEMMA LinksOnce ==
  ASSUME InvoiceInv, invoice = None, invoice' \in Existing, UNCHANGED <<request, staff, waived>>
  PROVE  Once!Next
<1>1. invoice' \in Once!Results BY DEF InvoiceInv, TypeOK, Existing, Made, Once!Results
<1>2. Outcome[invoice'] = "exists" BY OutcomeOf
<1>3. Outcome' = Outcome BY DEF Outcome, Existing, Made
<1> QED BY <1>1, <1>2, <1>3 DEF Once!Next, Once!Link

LEMMA SavesOnce ==
  ASSUME InvoiceInv, NEW x \in Existing, SaveInvoice(x), UNCHANGED <<request, staff, waived>>
  PROVE  Once!Next \/ UNCHANGED Once!vars
BY LinksOnce, SeenStutter DEF SaveInvoice, Write, NoWrite, rowVars, Seen

(* A request leaves when nothing is outstanding.                           *)
LEMMA SendsOnce ==
  ASSUME InvoiceInv, NEW t \in Tokens, request[t] = "none", Outstanding = {},
         request' = [request EXCEPT ![t] = "sent"], UNCHANGED <<staff, waived, invoice>>
  PROVE  Once!Next
<1>1. \A q \in Tokens \ waived : Outcome[q] \notin {"open", "exists"}
  BY OutcomeOf DEF Outstanding
<1>2. Outcome[t] = "none" BY OutcomeOf
<1>3. Outcome' = [Outcome EXCEPT ![t] = "open"]
  BY OutcomeMoves
<1> QED BY <1>1, <1>2, <1>3 DEF Once!Next, Once!Send, Once!MayHaveEffect

LEMMA RunOnce ==
  ASSUME InvoiceInv, NEW r \in Runs, Run(r) \/ Reopened(r) \/ Crash(r)
  PROVE  Once!Next \/ UNCHANGED Once!vars
<1> USE DEF OnlyRuns, worldVars, rowVars, NoWrite
<1>1. CASE PlanReads(r) \/ PlanLinks(r) \/ PlanCreates(r) \/ PlanResets(r) \/ ClaimRefused(r) \/ CheckLinks(r)
           \/ CheckPasses(r) \/ SettleGivesUp(r) \/ PlanRetries(r) \/ Reopened(r) \/ Crash(r)
  BY <1>1, SeenStutter DEF PlanRetries, Reopened, PlanReads, PlanLinks, PlanCreates, PlanResets, ClaimRefused, CheckLinks, CheckPasses,
       SettleGivesUp, Crash, Seen
<1>2. CASE PlanReviews(r) \/ Claim(r) \/ CheckBlocks(r) \/ CheckFails(r) \/ Mark(r) \/ AnswerRejected(r)
           \/ AnswerUncertain(r) \/ FinalizeFails(r)
  BY <1>2, SeenStutter DEF PlanReviews, RecordBlocked, Claim, CheckBlocks, CheckFails, Mark, AnswerRejected,
       AnswerUncertain, FinalizeFails, Release, Write, WriteClaim, Seen
<1>3. CASE ApplyReset(r)
  <2>1. CASE UNCHANGED waived BY <1>3, <2>1, SeenStutter DEF ApplyReset, Write, Seen
  <2>2. CASE invoice = None /\ waived' = waived \cup Outstanding /\ Outstanding # {}
    <3>1. PICK t \in Tokens : Outstanding = {t} BY <2>2 DEF InvoiceInv, NoSecondInvoice, Outstanding
    <3>2. UNCHANGED <<Outcome, invoice>> BY <1>3, <2>2 DEF ApplyReset, Write, Outcome, Existing, Made
    <3> QED BY <2>2, <3>1, <3>2 DEF Once!Next, Once!Waive
  <2> QED BY <1>3, <2>1, <2>2 DEF ApplyReset
<1>4. CASE Send(r)
  <2>1. ref[r] \in Tokens /\ request[ref[r]] = "none" /\ Outstanding = {}
    BY <1>4 DEF Send, InvoiceInv, TypeOK, TokensAreDistinct, SendersExclude, MaySend, HoldingPcs
  <2> QED BY <1>4, <2>1, SendsOnce DEF Send
<1>5. CASE AnswerCreated(r)
  <2>1. ref[r] # None /\ ref[r] \in Existing
    BY <1>5 DEF AnswerCreated, InvoiceInv, TypeOK, TokensAreDistinct, HoldingPcs, Existing, Made
  <2>2. Holds(r) => invoice = None BY <1>5, <2>1 DEF AnswerCreated, InvoiceInv, LinkEndsClaim
  <2> QED BY <1>5, <2>1, <2>2, LinksOnce, SeenStutter DEF AnswerCreated, Write, Seen
<1>6. CASE SettleReviews(r) BY <1>6, SeenStutter DEF SettleReviews, Write, Seen
<1>7. CASE SettleLinks(r)
  <2>1. PICK found \in Lookup, x \in Invoices :
          /\ Active(found) = {x}
          /\ (invoice = None /\ invoice' = x) \/ UNCHANGED invoice
    BY <1>7 DEF SettleLinks, Write
  <2>2. x \in Existing BY <2>1 DEF Lookup, Active
  <2> QED BY <1>7, <2>1, <2>2, LinksOnce, SeenStutter DEF SettleLinks, Seen
<1>8. CASE Finalize(r)
  BY <1>8, SavesOnce DEF Finalize, InvoiceInv, TargetsAreReal
<1> QED BY <1>1, <1>2, <1>3, <1>4, <1>5, <1>6, <1>7, <1>8 DEF Run

LEMMA VerifierOnce ==
  ASSUME InvoiceInv, NEW v \in Verifiers, Verifier(v)
  PROVE  Once!Next \/ UNCHANGED Once!vars
<1> USE DEF OnlyVerifiers, worldVars, rowVars, NoWrite
<1>1. CASE VerifyReads(v) \/ VerifyFinds(v) \/ VerifyReviews(v) \/ VerifyRetries(v)
  BY <1>1, SeenStutter DEF VerifyReads, VerifyFinds, VerifyReviews, MarkNeedsReview, VerifyRetries, Write, Seen
<1>2. CASE VerifyFinalizes(v)
  BY <1>2, SavesOnce DEF VerifyFinalizes, InvoiceInv, TargetsAreReal
<1> QED BY <1>1, <1>2 DEF Verifier

LEMMA OrderOnce ==
  ASSUME InvoiceInv, OrderJob \/ OrderReset \/ OrderCrash
  PROVE  Once!Next \/ UNCHANGED Once!vars
<1> USE DEF OnlyOrder, worldVars, rowVars, NoWrite
<1>1. CASE OrderSends
  <2>1. CASE wants
    <3>1. otok \in Tokens /\ request[otok] = "none" /\ Outstanding = {}
      BY <1>1, <2>1 DEF OrderSends, InvoiceInv, TypeOK, TokensAreDistinct, OrderIsFirst, Outstanding
    <3> QED BY <1>1, <2>1, <3>1, SendsOnce DEF OrderSends
  <2>2. CASE ~wants BY <1>1, <2>2, SeenStutter DEF OrderSends, Seen
  <2> QED BY <2>1, <2>2
<1>2. CASE OrderPrepareFails \/ OrderMarks \/ OrderCreated \/ OrderRejected \/ OrderUncertain \/ OrderReset \/ OrderCrash
  BY <1>2, SeenStutter DEF OrderPrepareFails, OrderMarks, OrderCreated, OrderRejected, OrderUncertain, OrderReset,
       OrderCrash, Seen
<1>3. CASE OrderClaims \/ OrderBlocksInvoice \/ MarkSending \/ Attach \/ FailInvoice \/ OrderFound
  BY <1>3, SeenStutter DEF OrderClaims, OrderBlocksInvoice, MarkSending, Attach, FailInvoice, OrderFound,
       Write, WriteClaim, Seen
<1> QED BY <1>1, <1>2, <1>3 DEF OrderJob

LEMMA WorldOnce ==
  ASSUME InvoiceInv,
         \/ \E t \in Tokens : KiotViet(t)
         \/ \E i \in StaffInvoices : StaffInvoice(i)
         \/ \E i \in Invoices : StaffCancels(i)
         \/ ClaimAges
  PROVE  Once!Next \/ UNCHANGED Once!vars
<1> USE DEF OnlyWorld, worldVars, rowVars
<1>1. ASSUME NEW t \in Tokens, KiotViet(t) PROVE Once!Next
  <2>1. PICK answer \in {"made", "refused", "lost"} : request' = [request EXCEPT ![t] = answer]
    BY <1>1 DEF KiotViet
  <2>2. Outcome[t] = "open" BY <1>1, OutcomeOf DEF KiotViet
  <2>3. Outcome' = [Outcome EXCEPT ![t] = IF answer = "made" THEN "exists" ELSE "dead"]
    BY <1>1, <2>1, OutcomeMoves DEF KiotViet
  <2> QED BY <1>1, <2>2, <2>3 DEF KiotViet, Once!Next, Once!Settle
<1>2. ASSUME NEW i \in StaffInvoices, StaffInvoice(i) PROVE Once!Next \/ UNCHANGED Once!vars
  <2>1. CASE i \in staff
    <3>1. UNCHANGED Seen BY <1>2, <2>1 DEF StaffInvoice, Seen
    <3> QED BY <3>1, SeenStutter
  <2>2. CASE i \notin staff
    <3>1. Outcome[i] = "none" BY <2>2, OutcomeOf
    <3>2. Outcome' = [Outcome EXCEPT ![i] = "exists"]
      BY <1>2, InvoiceAssumption DEF StaffInvoice, Outcome, Invoices, Existing, Made
    <3> QED BY <1>2, <3>1, <3>2 DEF StaffInvoice, Once!Next, Once!CreateByHand
  <2> QED BY <2>1, <2>2
<1>3. CASE \E i \in Invoices : StaffCancels(i) BY <1>3, SeenStutter DEF StaffCancels, Seen
<1>4. CASE ClaimAges BY <1>4, SeenStutter DEF ClaimAges, Seen
<1> QED BY <1>1, <1>2, <1>3, <1>4

(***************************************************************************)
(* The invoice protocol implements AtMostOnce: requests for an invoice     *)
(* leave one at a time, and an existing invoice is linked once.            *)
(***************************************************************************)
THEOREM InvoicedOnce == ASSUME NoStallBesideReset PROVE Spec => ImplementsAtMostOnce
<1>1. Init => Once!Init BY InvoiceAssumption DEF Init, Once!Init, Outcome, Once!Results, Invoices, Existing, Made
<1>2. InvoiceInv /\ [Next]_vars => [Once!Next]_(Once!vars)
  <2> SUFFICES ASSUME InvoiceInv, [Next]_vars PROVE Once!Next \/ UNCHANGED Once!vars
    OBVIOUS
  <2>1. CASE UNCHANGED vars BY <2>1, SeenStutter DEF vars, state, rowVars, worldVars, Seen
  <2>2. CASE Step BY <2>2, RunOnce, VerifierOnce, OrderOnce, WorldOnce DEF Step
  <2> QED BY <2>1, <2>2 DEF Next
<1> QED BY InvoicesAreSafe, <1>1, <1>2, PTL DEF Spec, ImplementsAtMostOnce, Once!Spec
=============================================================================

---------------------------- MODULE InvoiceCreate ----------------------------
(***************************************************************************)
(* How one Shopify order gets at most one KiotViet invoice.                *)
(*                                                                         *)
(* invoice_mappings holds one row per order, written by four parties that  *)
(* do not exclude each other: the job that creates the KiotViet order (it  *)
(* may ask for the invoice in the same request), runs that plan and apply  *)
(* an invoice of an existing order (fulfillment job, script, admin         *)
(* override), verifiers that settle an uncertain one, and staff working in *)
(* KiotViet.  A plan is made with reads that take seconds and is applied   *)
(* only if the row is still the one that was read (updated_at).            *)
(*                                                                         *)
(* Definitions named Bug... are deliberately wrong variants of the one that*)
(* follows them; they only serve to show that a property can fail.         *)
(***************************************************************************)
EXTENDS Naturals, FiniteSets

CONSTANTS
  Runs,          \* concurrent plan-and-apply runs
  Served,        \* those of the fulfillment job, which the queue and the rescan repeat
  Verifiers,     \* concurrent runs of verifyOrderInvoice
  Tokens,        \* claim tokens; a token also names the request sent under it and its invoice
  StaffInvoices, \* invoices staff may create in KiotViet by hand
  None,
  Environments   \* who takes part in a behaviour and how much may go wrong in it:
                 \*   runs, operators (runs started with --reset-uncertain), staff, tokens,
                 \*   orderFirst (the KiotViet order does not exist yet),
                 \*   requests and crashes (bounds), stalls (a run may outlive its claim),
                 \*   quiet (only served runs, with a token for every claim, of an order that has a
                 \*   trigger and stays one to invoice, and one death of a process at most)

ASSUME InvoiceAssumption ==
  /\ Served \subseteq Runs
  /\ Runs \cap Verifiers = {} /\ Tokens \cap StaffInvoices = {}
  /\ None \notin Tokens \cup StaffInvoices
  /\ \A e \in Environments :
       /\ e.quiet => e.runs \subseteq Served /\ e.crashes < 2
       /\ e.operators \subseteq e.runs /\ e.runs \subseteq Runs
       /\ e.staff \subseteq StaffInvoices /\ e.tokens \subseteq Tokens
       /\ {e.crashes, e.requests} \subseteq Nat
       /\ {e.orderFirst, e.stalls, e.quiet} \subseteq BOOLEAN

VARIABLES
  env,        \* the environment of the behaviour, chosen once
  status,     \* invoice_mappings.status ("absent": no row),
  invoice,    \* kiotviet_invoice_id,
  token,      \* claim_token,
  old,        \* claimed_at is older than INVOICE_VERIFY_WINDOW_MS
  current,    \* runs whose planned updated_at is still the row's
  request,    \* what became of the request (for an invoice) sent under each token
  staff,      \* invoices created by hand
  cancelled,  \* invoices staff cancelled in KiotViet
  waived,     \* requests an operator declared without effect
  pc, kind, ref, target,  \* runs: place, planned action, token, invoice in hand
  vpc, vref, vtarget,     \* verifiers: place, token of the row read, invoice in hand
  order, opc, otok, wants, \* the order job: row of the order, place, token, invoiceRequested
  crashes,
  closed      \* jobs that ended before a person, not repeated for the same trigger state

rowVars == <<status, invoice, token, old, current>>
runVars == <<pc, kind, ref, target>>
verifierVars == <<vpc, vref, vtarget>>
orderVars == <<order, opc, otok, wants>>
worldVars == <<request, staff, cancelled, waived>>
jobVars == <<crashes, closed>>
state == <<rowVars, worldVars, runVars, verifierVars, orderVars, jobVars>>
vars == <<env, state>>

Invoices == Tokens \cup StaffInvoices
Statuses == {"absent", "pending", "creating", "blocked", "failed", "needs_review", "created"}
RunPcs == {"idle", "plan", "claim", "reset", "check", "mark", "send", "await", "settle", "finalize"}
HoldingPcs == {"check", "mark", "send", "await", "settle", "finalize"}
OrderPcs == {"idle", "prepare", "mark", "send", "await", "attach", "fail"}

Made == {t \in Tokens : request[t] = "made"}
Existing == Made \cup staff
Active(found) == found \ cancelled

(* A lookup is complete, and then lists every invoice that exists when it  *)
(* begins, or it is not, and then may have missed any.                     *)
Lookup == SUBSET Existing

Holds(r) == token = ref[r]           \* WHERE claim_token=$token
Busy == opc # "idle" \/ \E r \in Runs : pc[r] \in HoldingPcs

(* Every write of the row moves updated_at.                                *)
Write(s, i, t) ==
  /\ status' = s /\ invoice' = i /\ token' = t
  /\ current' = {} /\ UNCHANGED old
WriteClaim(s, t) ==
  /\ status' = s /\ token' = t /\ old' = FALSE
  /\ current' = {} /\ UNCHANGED invoice
NoWrite == UNCHANGED rowVars

Go(r, l) == pc' = [pc EXCEPT ![r] = l]
RunStep(r, l) == Go(r, l) /\ UNCHANGED <<kind, ref, target>>
Leave(r) ==
  /\ Go(r, "idle")
  /\ kind' = [kind EXCEPT ![r] = "none"]
  /\ ref' = [ref EXCEPT ![r] = None]
  /\ target' = [target EXCEPT ![r] = None]

OnlyRuns == UNCHANGED <<worldVars, verifierVars, orderVars, jobVars>>
OnlyVerifiers == UNCHANGED <<worldVars, runVars, orderVars, jobVars>>
OnlyOrder == UNCHANGED <<worldVars, runVars, verifierVars, jobVars>>

NewTokens ==
  {t \in env.tokens : /\ request[t] = "none" /\ t # token /\ t # otok
                      /\ \A r \in Runs : ref[r] # t
                      /\ \A v \in Verifiers : vref[v] # t}
-----------------------------------------------------------------------------
Init ==
  /\ env \in Environments
  /\ status = "absent" /\ invoice = None /\ token = None /\ old = FALSE /\ current = {}
  /\ request = [t \in Tokens |-> "none"]
  /\ staff = {} /\ cancelled = {} /\ waived = {}
  /\ pc = [r \in Runs |-> "idle"] /\ kind = [r \in Runs |-> "none"]
  /\ ref = [r \in Runs |-> None] /\ target = [r \in Runs |-> None]
  /\ vpc = [v \in Verifiers |-> "idle"]
  /\ vref = [v \in Verifiers |-> None] /\ vtarget = [v \in Verifiers |-> None]
  /\ order = (IF env.orderFirst THEN "absent" ELSE "linked")
  /\ opc = "idle" /\ otok = None /\ wants = FALSE
  /\ crashes = 0 /\ closed = {}
-----------------------------------------------------------------------------
(* planInvoiceRecovery reads the row and then, several requests later,     *)
(* whether KiotViet has an invoice of the order.                           *)
PlanReads(r) ==
  /\ pc[r] = "idle" /\ r \in env.runs \ closed
  /\ order = "linked" /\ invoice = None
  /\ current' = current \cup {r}
  /\ UNCHANGED <<status, invoice, token, old>>
  /\ RunStep(r, "plan")
  /\ OnlyRuns

PlanLinks(r) ==
  /\ pc[r] = "plan"
  /\ \E found \in Lookup, x \in Invoices :
       /\ Active(found) = {x}
       /\ target' = [target EXCEPT ![r] = x]
  /\ kind' = [kind EXCEPT ![r] = "link"]
  /\ Go(r, "claim")
  /\ UNCHANGED ref
  /\ NoWrite /\ OnlyRuns

(* No claim of another run is in flight or of unknown outcome.             *)
Unclaimed == status \in {"absent", "failed", "blocked"} \/ (status = "pending" /\ old)

PlanCreates(r) ==
  /\ pc[r] = "plan" /\ r \in current
  /\ Existing = {}
  /\ Unclaimed
  /\ Cardinality({t \in Tokens : request[t] # "none"}) < env.requests
  /\ kind' = [kind EXCEPT ![r] = "create"]
  /\ Go(r, "claim")
  /\ UNCHANGED <<ref, target>>
  /\ NoWrite /\ OnlyRuns

PlanResets(r) ==
  /\ pc[r] = "plan" /\ r \in current \cap env.operators
  /\ Existing = {}
  /\ status \in {"creating", "needs_review"} /\ old
  /\ RunStep(r, "reset")
  /\ NoWrite /\ OnlyRuns

(* Everything else ends the plan.  The fulfillment job then retries: a     *)
(* failed read, an incomplete lookup, an attempt in flight.  Or it records *)
(* the order as blocked, which never replaces a claim or a row under       *)
(* review, and ends before a person.                                       *)
PlanRetries(r) ==
  /\ pc[r] = "plan"
  /\ Leave(r)
  /\ NoWrite /\ OnlyRuns

BugRecordBlocked ==  \* an attempt of unknown outcome is recorded as blocked
  IF invoice = None THEN Write("blocked", None, token) ELSE NoWrite

RecordBlocked ==
  IF invoice = None /\ status \in {"absent", "blocked", "failed"}
    THEN Write("blocked", None, token)
    ELSE NoWrite

(* Duplicates, only cancelled invoices, or an attempt of unknown outcome;  *)
(* and whatever else speaks against an invoice of an order that does not   *)
(* stay one to invoice.                                                    *)
Doubtful(r) ==
  \/ \E found \in Lookup : Cardinality(Active(found)) > 1
  \/ Existing # {} /\ Active(Existing) = {}
  \/ Existing = {} /\ (r \in current => status \in {"creating", "needs_review"} /\ old)
  \/ ~env.quiet

PlanReviews(r) ==
  /\ pc[r] = "plan"
  /\ Doubtful(r)
  /\ RecordBlocked \/ NoWrite
  /\ Leave(r)
  /\ closed' = closed \cup ({r} \cap Served)
  /\ UNCHANGED <<worldVars, verifierVars, orderVars, crashes>>

Reopened(r) ==  \* the order or the settings changed, or an administrator replays the job
  /\ closed' = closed \ {r} /\ r \in closed
  /\ UNCHANGED <<rowVars, worldVars, runVars, verifierVars, orderVars, crashes>>
-----------------------------------------------------------------------------
(* applyInvoiceRecovery *)
Outstanding == {t \in Tokens : request[t] \in {"sent", "made"}} \ waived

ApplyReset(r) ==
  /\ pc[r] = "reset"
  /\ IF r \in current /\ invoice = None
       THEN /\ Write("failed", None, None)
            /\ waived' = waived \cup Outstanding
       ELSE NoWrite /\ UNCHANGED waived
  /\ Leave(r)
  /\ UNCHANGED <<request, staff, cancelled, verifierVars, orderVars, jobVars>>

BugClaimableLink(r) == invoice = None /\ r \in current /\ Unclaimed  \* no link over an unknown outcome

Claimable(r) ==
  /\ invoice = None /\ r \in current
  /\ Unclaimed \/ kind[r] = "link"

Claim(r) ==
  /\ pc[r] = "claim"
  /\ Claimable(r)
  /\ \E t \in NewTokens :
       /\ WriteClaim("pending", t)
       /\ ref' = [ref EXCEPT ![r] = t]
  /\ Go(r, IF kind[r] = "link" THEN "finalize" ELSE "check")
  /\ UNCHANGED <<kind, target>>
  /\ OnlyRuns

ClaimRefused(r) ==
  /\ pc[r] = "claim"
  /\ ~Claimable(r)
  /\ Leave(r)
  /\ NoWrite /\ OnlyRuns

(* release: before the request, an exit gives the claim back.              *)
Release(r, s) ==
  IF Holds(r) /\ status = "pending" THEN Write(s, invoice, None) ELSE NoWrite

(* The last look before the request: stock, invoices, order snapshots.     *)
CheckLinks(r) ==
  /\ pc[r] = "check"
  /\ \E x \in Invoices : Active(Existing) = {x} /\ target' = [target EXCEPT ![r] = x]
  /\ kind' = [kind EXCEPT ![r] = "link"]
  /\ Go(r, "finalize")
  /\ UNCHANGED ref
  /\ NoWrite /\ OnlyRuns

CheckBlocks(r) ==
  /\ pc[r] = "check"
  /\ Existing # {} /\ Cardinality(Active(Existing)) # 1
  /\ Release(r, "blocked")
  /\ Leave(r)
  /\ OnlyRuns

CheckFails(r) ==
  /\ pc[r] = "check"
  /\ Release(r, "failed")
  /\ Leave(r)
  /\ OnlyRuns

CheckPasses(r) ==
  /\ pc[r] = "check"
  /\ Existing = {}
  /\ RunStep(r, "mark")
  /\ NoWrite /\ OnlyRuns

Mark(r) ==
  /\ pc[r] = "mark"
  /\ IF Holds(r) /\ status = "pending"
       THEN Write("creating", invoice, token) /\ RunStep(r, "send")
       ELSE NoWrite /\ Leave(r)
  /\ OnlyRuns

Send(r) ==
  /\ pc[r] = "send"
  /\ request' = [request EXCEPT ![ref[r]] = "sent"]
  /\ RunStep(r, "await")
  /\ NoWrite
  /\ UNCHANGED <<staff, cancelled, waived, verifierVars, orderVars, jobVars>>

(* The answer names the invoice: its id is recorded before it is verified. *)
AnswerCreated(r) ==
  /\ pc[r] = "await" /\ request[ref[r]] = "made"
  /\ IF Holds(r) THEN Write("needs_review", ref[r], token) ELSE NoWrite
  /\ target' = [target EXCEPT ![r] = ref[r]]
  /\ kind' = [kind EXCEPT ![r] = "made"]
  /\ Go(r, "finalize")
  /\ UNCHANGED ref
  /\ OnlyRuns

AnswerRejected(r) ==
  /\ pc[r] = "await" /\ request[ref[r]] = "refused"
  /\ IF Holds(r) THEN Write("failed", invoice, None) ELSE NoWrite
  /\ Leave(r)
  /\ OnlyRuns

BugAnswerUncertain(r) ==  \* a timeout is taken for a rejection
  /\ pc[r] = "await"
  /\ IF Holds(r) THEN Write("failed", None, None) ELSE NoWrite
  /\ Leave(r)
  /\ OnlyRuns

AnswerUncertain(r) ==
  /\ pc[r] = "await"
  /\ IF Holds(r) THEN Write(status, invoice, token) ELSE NoWrite
  /\ RunStep(r, "settle")
  /\ OnlyRuns

(* settleUncertainInvoice: a few lookups, never another request.           *)
SettleReviews(r) ==
  /\ pc[r] = "settle"
  /\ \E found \in Lookup : Cardinality(Active(found)) > 1
  /\ IF Holds(r) /\ invoice = None THEN Write("needs_review", None, None) ELSE NoWrite
  /\ Leave(r)
  /\ OnlyRuns

SettleLinks(r) ==
  /\ pc[r] = "settle"
  /\ \E found \in Lookup, x \in Invoices :
       /\ Active(found) = {x}
       /\ IF Holds(r) /\ invoice = None
            THEN /\ Write("needs_review", x, token)
                 /\ target' = [target EXCEPT ![r] = x]
                 /\ kind' = [kind EXCEPT ![r] = "made"]
                 /\ Go(r, "finalize")
                 /\ UNCHANGED ref
            ELSE NoWrite /\ Leave(r)
  /\ OnlyRuns

SettleGivesUp(r) ==
  /\ pc[r] = "settle"
  /\ Leave(r)
  /\ NoWrite /\ OnlyRuns

(* finalizeInvoice: read the invoice back, then one guarded UPDATE.        *)
BugSaveInvoice(x) ==  \* whatever the row already says
  \E s \in {"created", "needs_review"} : Write(s, x, None)

SaveInvoice(x) ==
  IF invoice \in {None, x}
    THEN \E s \in {"created", "needs_review"} : Write(s, x, None)
    ELSE NoWrite

Finalize(r) ==
  /\ pc[r] = "finalize"
  /\ SaveInvoice(target[r])
  /\ Leave(r)
  /\ OnlyRuns

FinalizeFails(r) ==
  /\ pc[r] = "finalize"
  /\ IF kind[r] = "link" THEN Release(r, "failed") ELSE NoWrite
  /\ Leave(r)
  /\ OnlyRuns

Crash(r) ==
  /\ pc[r] # "idle"
  /\ crashes < env.crashes /\ crashes' = crashes + 1 /\ UNCHANGED closed
  /\ Leave(r)
  /\ NoWrite /\ UNCHANGED <<worldVars, verifierVars, orderVars>>

Run(r) ==
  \/ PlanReads(r) \/ PlanLinks(r) \/ PlanCreates(r) \/ PlanResets(r) \/ PlanRetries(r) \/ PlanReviews(r)
  \/ ApplyReset(r) \/ Claim(r) \/ ClaimRefused(r)
  \/ CheckLinks(r) \/ CheckBlocks(r) \/ CheckFails(r) \/ CheckPasses(r)
  \/ Mark(r) \/ Send(r) \/ AnswerCreated(r) \/ AnswerRejected(r) \/ AnswerUncertain(r)
  \/ SettleReviews(r) \/ SettleLinks(r) \/ SettleGivesUp(r)
  \/ Finalize(r) \/ FinalizeFails(r)
-----------------------------------------------------------------------------
(* verifyOrderInvoice, run by the order jobs; it takes no claim.           *)
VLeave(v) ==
  /\ vpc' = [vpc EXCEPT ![v] = "idle"]
  /\ vref' = [vref EXCEPT ![v] = None]
  /\ vtarget' = [vtarget EXCEPT ![v] = None]

VerifyReads(v) ==
  /\ vpc[v] = "idle"
  /\ order = "linked" /\ status \in {"pending", "creating"}
  /\ vpc' = [vpc EXCEPT ![v] = "lookup"]
  /\ vref' = [vref EXCEPT ![v] = token]
  /\ UNCHANGED vtarget
  /\ NoWrite /\ OnlyVerifiers

MarkNeedsReview == IF invoice = None THEN Write("needs_review", None, None) ELSE NoWrite

VerifyFinds(v) ==
  /\ vpc[v] = "lookup"
  /\ \E found \in Lookup, x \in Invoices :
       /\ Active(found) = {x}
       /\ vtarget' = [vtarget EXCEPT ![v] = x]
  /\ vpc' = [vpc EXCEPT ![v] = "finalize"]
  /\ UNCHANGED vref
  /\ NoWrite /\ OnlyVerifiers

(* The window of the claim that was read is over.                          *)
WindowOver(v) == old \/ token \notin {vref[v], None}

VerifyReviews(v) ==
  /\ vpc[v] = "lookup"
  /\ \/ \E found \in Lookup : Cardinality(Active(found)) > 1
     \/ Active(Existing) = {} /\ WindowOver(v)
  /\ MarkNeedsReview
  /\ VLeave(v)
  /\ OnlyVerifiers

VerifyRetries(v) ==
  /\ vpc[v] # "idle"
  /\ VLeave(v)
  /\ NoWrite /\ OnlyVerifiers

VerifyFinalizes(v) ==
  /\ vpc[v] = "finalize"
  /\ SaveInvoice(vtarget[v])
  /\ VLeave(v)
  /\ OnlyVerifiers

Verifier(v) ==
  VerifyReads(v) \/ VerifyFinds(v) \/ VerifyReviews(v) \/ VerifyRetries(v) \/ VerifyFinalizes(v)
-----------------------------------------------------------------------------
(* The order job with automatic invoices: order row and invoice row are    *)
(* claimed in one transaction and written one after the other afterwards.  *)
(* OrderCreate shows that its attempts follow one another and that no two  *)
(* requests are outstanding; here one attempt runs at a time.              *)
OLeave == opc' = "idle" /\ otok' = None /\ wants' = FALSE

OrderClaims ==
  /\ opc = "idle" /\ order \in {"absent", "failed", "claimed"}
  /\ order' = "claimed" /\ opc' = "prepare"
  /\ \E t \in NewTokens, decision \in {"off", "pending", "blocked"} :
       /\ otok' = t
       /\ IF decision # "off" /\ invoice = None /\ status \in {"absent", "pending", "failed", "blocked"}
            THEN WriteClaim(decision, t) /\ wants' = (decision = "pending")
            ELSE NoWrite /\ wants' = FALSE
  /\ OnlyOrder

OrderBlocksInvoice ==
  /\ opc = "prepare" /\ wants
  /\ wants' = FALSE
  /\ IF token = otok /\ status = "pending" THEN Write("blocked", invoice, None) ELSE NoWrite
  /\ UNCHANGED <<order, opc, otok>>
  /\ OnlyOrder

OrderPrepareFails ==
  /\ opc = "prepare"
  /\ order' = "failed"
  /\ IF wants THEN opc' = "fail" /\ UNCHANGED <<otok, wants>> ELSE OLeave
  /\ NoWrite /\ OnlyOrder

OrderMarks ==
  /\ opc = "prepare"
  /\ order' = "creating"
  /\ opc' = IF wants THEN "mark" ELSE "send"
  /\ UNCHANGED <<otok, wants>>
  /\ NoWrite /\ OnlyOrder

MarkSending ==
  /\ opc = "mark"
  /\ IF token = otok /\ status = "pending"
       THEN Write("creating", invoice, token) /\ wants' = TRUE
       ELSE NoWrite /\ wants' = FALSE
  /\ opc' = "send"
  /\ UNCHANGED <<order, otok>>
  /\ OnlyOrder

(* POST /orders, with makeInvoice when the invoice row was marked.         *)
OrderSends ==
  /\ opc = "send"
  /\ request' = IF wants THEN [request EXCEPT ![otok] = "sent"] ELSE request
  /\ opc' = "await"
  /\ UNCHANGED <<order, otok, wants>>
  /\ NoWrite
  /\ UNCHANGED <<staff, cancelled, waived, runVars, verifierVars, jobVars>>

(* With an invoice asked for, order and invoice were made or refused       *)
(* together; without one the answer is free.                               *)
OrderAnswered(outcome) == opc = "await" /\ (wants => request[otok] = outcome)

OrderCreated ==
  /\ OrderAnswered("made")
  /\ order' = "linked"
  /\ IF wants THEN opc' = "attach" /\ UNCHANGED <<otok, wants>> ELSE OLeave
  /\ NoWrite /\ OnlyOrder

Attach ==
  /\ opc = "attach"
  /\ IF status = "absent" THEN NoWrite ELSE Write(status, invoice, token)
  /\ OLeave
  /\ UNCHANGED order
  /\ OnlyOrder

OrderRejected ==
  /\ OrderAnswered("refused")
  /\ order' = "failed"
  /\ IF wants THEN opc' = "fail" /\ UNCHANGED <<otok, wants>> ELSE OLeave
  /\ NoWrite /\ OnlyOrder

FailInvoice ==
  /\ opc = "fail"
  /\ IF token = otok /\ status \in {"pending", "creating"}
       THEN Write("failed", invoice, None)
       ELSE NoWrite
  /\ OLeave
  /\ UNCHANGED order
  /\ OnlyOrder

OrderUncertain ==
  /\ opc = "await"
  /\ OLeave
  /\ UNCHANGED order
  /\ NoWrite /\ OnlyOrder

(* verifyUncertainOrder: the order of a lost answer turns up, with the     *)
(* invoice it carried, if any.                                             *)
OrderFound ==
  /\ opc = "idle" /\ order = "creating"
  /\ \A t \in Tokens : request[t] # "sent"
  /\ status = "creating" => Made # {}
  /\ order' = "linked"
  /\ IF status = "absent" THEN NoWrite ELSE Write(status, invoice, token)
  /\ UNCHANGED <<opc, otok, wants>>
  /\ OnlyOrder

OrderCrash ==
  /\ opc # "idle"
  /\ crashes < env.crashes /\ crashes' = crashes + 1 /\ UNCHANGED closed
  /\ OLeave
  /\ UNCHANGED order
  /\ NoWrite /\ UNCHANGED <<worldVars, runVars, verifierVars>>

OrderJob ==
  \/ OrderClaims \/ OrderBlocksInvoice \/ OrderPrepareFails \/ OrderMarks \/ MarkSending
  \/ OrderSends \/ OrderCreated \/ Attach \/ OrderRejected \/ FailInvoice \/ OrderUncertain
  \/ OrderFound

(* An operator resets an order of unknown outcome that KiotViet lacks.     *)
OrderReset ==
  /\ opc = "idle" /\ order = "creating"
  /\ Made = {} /\ \A t \in Tokens : request[t] # "sent"
  /\ order' = "failed"
  /\ UNCHANGED <<opc, otok, wants>>
  /\ NoWrite /\ OnlyOrder
-----------------------------------------------------------------------------
OnlyWorld == UNCHANGED <<rowVars, runVars, verifierVars, orderVars, jobVars, waived>>

KiotViet(t) ==
  /\ request[t] = "sent"
  /\ \E answer \in {"made", "refused", "lost"} : request' = [request EXCEPT ![t] = answer]
  /\ UNCHANGED <<staff, cancelled>>
  /\ OnlyWorld

StaffInvoice(i) ==
  /\ i \in env.staff /\ order = "linked" /\ invoice = None
  /\ staff' = staff \cup {i}
  /\ UNCHANGED <<request, cancelled>>
  /\ OnlyWorld

StaffCancels(i) ==
  /\ i \in Existing
  /\ cancelled' = cancelled \cup {i}
  /\ UNCHANGED <<request, staff>>
  /\ OnlyWorld

(* Five minutes after a claim its owner is done, unless it stalls.         *)
ClaimAges ==
  /\ ~old
  /\ env.stalls \/ ~Busy
  /\ old' = TRUE
  /\ UNCHANGED <<status, invoice, token, current>>
  /\ UNCHANGED <<worldVars, runVars, verifierVars, orderVars, jobVars>>
-----------------------------------------------------------------------------
Step ==
  \/ \E r \in Runs : Run(r) \/ Reopened(r) \/ Crash(r)
  \/ \E v \in Verifiers : Verifier(v)
  \/ OrderJob \/ OrderReset \/ OrderCrash
  \/ \E t \in Tokens : KiotViet(t)
  \/ \E i \in StaffInvoices : StaffInvoice(i)
  \/ \E i \in Invoices : StaffCancels(i)
  \/ ClaimAges

Next == Step /\ UNCHANGED env

Spec == Init /\ [][Next]_vars

(* A job runs to its end; when it fails, its retries and then the rescan,  *)
(* which waits longer each time and a day at most, begin it again, unless  *)
(* it ended before a person.  Time passes, and requests are answered.  Of  *)
(* KiotViet we assume that a read that is repeated for ever (the lookup of *)
(* the plan, the read-back of finalizeInvoice) succeeds at some time.      *)
Fairness ==
  /\ \A r \in Served : WF_state(Run(r)) /\ SF_state(PlanLinks(r)) /\ SF_state(Finalize(r))
  /\ \A v \in Verifiers : WF_state(Verifier(v))
  /\ WF_state(\E t \in Tokens : KiotViet(t))
  /\ WF_state(ClaimAges)

FairSpec == Spec /\ Fairness
-----------------------------------------------------------------------------
TypeOK ==
  /\ status \in Statuses /\ invoice \in Invoices \cup {None} /\ token \in Tokens \cup {None}
  /\ old \in BOOLEAN /\ current \subseteq Runs
  /\ request \in [Tokens -> {"none", "sent", "made", "refused", "lost"}]
  /\ staff \subseteq StaffInvoices /\ cancelled \subseteq Invoices /\ waived \subseteq Tokens
  /\ pc \in [Runs -> RunPcs] /\ kind \in [Runs -> {"none", "create", "link", "made"}]
  /\ ref \in [Runs -> Tokens \cup {None}] /\ target \in [Runs -> Invoices \cup {None}]
  /\ vpc \in [Verifiers -> {"idle", "lookup", "finalize"}]
  /\ vref \in [Verifiers -> Tokens \cup {None}]
  /\ vtarget \in [Verifiers -> Invoices \cup {None}]
  /\ order \in {"absent", "claimed", "creating", "failed", "linked"} /\ opc \in OrderPcs
  /\ otok \in Tokens \cup {None} /\ wants \in BOOLEAN
  /\ crashes \in 0..env.crashes /\ closed \subseteq Served

(***************************************************************************)
(* Never two invoices by this program: while a request may have made an    *)
(* invoice, no other request leaves, whichever of order job, recovery run  *)
(* and retry comes next (unless an operator waived the first).             *)
(***************************************************************************)
NoSecondInvoice == \A t, u \in Outstanding : t = u

(***************************************************************************)
(* A linked invoice exists in KiotViet, and `created` means linked.        *)
(***************************************************************************)
LinkIsReal ==
  /\ invoice # None => invoice \in Existing
  /\ status = "created" => invoice # None

(***************************************************************************)
(* What NoSecondInvoice rests on.                                          *)
(***************************************************************************)
MaySend(r) == pc[r] = "send" \/ (pc[r] = "mark" /\ Holds(r) /\ status = "pending")

(* One run at a time can send, when nothing is outstanding.                *)
SendersExclude == \A r \in Runs : MaySend(r) =>
  /\ Outstanding = {}
  /\ \A q \in Runs : MaySend(q) => q = r

(* A claimable row of an outstanding request only occurs while KiotViet    *)
(* lists an invoice.                                                       *)
OutstandingShows ==
  Existing = {} /\ Outstanding # {} => status \in {"creating", "needs_review"}

(* Every claim has a token of its own, unsent until its request.           *)
TokensAreDistinct ==
  /\ \A r \in Runs :
       /\ pc[r] \in HoldingPcs => ref[r] # None
       /\ ref[r] # None => ref[r] # otok /\ \A q \in Runs : ref[q] = ref[r] => q = r
       /\ pc[r] \in {"check", "mark", "send"} => request[ref[r]] = "none"
  /\ opc # "idle" => otok # None
  /\ opc \in {"prepare", "mark", "send"} => request[otok] = "none"

(* The order job ends before anybody else looks at the invoice.            *)
OrderIsFirst ==
  /\ order # "linked" => /\ staff = {}
                         /\ \A r \in Runs : pc[r] = "idle" /\ ref[r] = None
                         /\ \A v \in Verifiers : vpc[v] = "idle"
  /\ opc = "prepare" => order = "claimed"
  /\ opc \in {"mark", "send", "await"} => order = "creating"
  /\ opc = "fail" => order = "failed"
  /\ opc = "attach" => order = "linked"
  /\ opc = "idle" => ~wants
  /\ order \in {"absent", "claimed", "failed"} \/ opc \in {"mark", "send"} =>
       \A t \in Tokens : request[t] \notin {"sent", "made"}
  /\ opc = "await" => \A t \in Tokens : request[t] \in {"sent", "made"} => wants /\ t = otok
  /\ opc = "send" /\ wants => status = "creating"

(* While KiotViet lists no invoice: a run about to send has its row, or    *)
(* the row is under review; a row under review has no token; and a run     *)
(* that waits with its token in the row sent the only request.             *)
UnlistedIsHeld ==
  Existing = {} =>
    /\ status = "needs_review" => token = None
    /\ \A r \in Runs :
         /\ pc[r] = "send" => status = "needs_review" \/ (status = "creating" /\ Holds(r))
         /\ pc[r] \in {"await", "settle"} /\ Holds(r) => Outstanding \subseteq {ref[r]}

(* Invoices about to be linked exist.                                      *)
TargetsAreReal ==
  /\ \A r \in Runs : pc[r] = "finalize" \/ (pc[r] = "claim" /\ kind[r] = "link") => target[r] \in Existing
  /\ \A v \in Verifiers : vpc[v] = "finalize" => vtarget[v] \in Existing

(* An operator resets only a row that moved for none since it was old.     *)
ResetIsDue ==
  /\ \A r \in Runs : pc[r] = "reset" =>
       r \in env.operators /\ (r \in current => status \in {"creating", "needs_review"} /\ old)
  /\ old /\ ~env.stalls => \A r \in Runs : pc[r] \notin HoldingPcs

(* A row with an invoice is held by nobody but the run that finishes it.   *)
LinkEndsClaim ==
  invoice # None => \A r \in Runs : ref[r] # None /\ Holds(r) => pc[r] = "finalize"

(***************************************************************************)
(* The inductive form of NoSecondInvoice and LinkIsReal.                   *)
(***************************************************************************)
InvoiceInv ==
  /\ env \in Environments
  /\ TypeOK /\ NoSecondInvoice /\ LinkIsReal
  /\ SendersExclude /\ OutstandingShows /\ TokensAreDistinct /\ OrderIsFirst
  /\ UnlistedIsHeld /\ TargetsAreReal /\ ResetIsDue /\ LinkEndsClaim

(***************************************************************************)
(* The invoice protocol keeps the promise of AtMostOnce: requests leave one*)
(* at a time, and one existing invoice is linked, once.                    *)
(***************************************************************************)
Outcome == [i \in Invoices |->
  IF i \in Existing THEN "exists"
  ELSE IF i \in StaffInvoices THEN "none"
  ELSE CASE request[i] = "none" -> "none" [] request[i] = "sent" -> "open" [] OTHER -> "dead"]

Once == INSTANCE AtMostOnce WITH Requests <- Tokens, ByHand <- StaffInvoices,
          NoResult <- None, outcome <- Outcome, link <- invoice

ImplementsAtMostOnce == Once!Spec

(***************************************************************************)
(* An invoice that was made does not stay unknown, for an order that has a *)
(* trigger, stays one to invoice and loses one process at most: it is      *)
(* linked, or the row or the job is put before a person, or an operator    *)
(* waived it, or staff cancelled it or made another one                    *)
(* (kiotviet-invoice-recovery.ts:365-400, fulfillment-invoice.ts:119-170). *)
(* The job is before a person when a plan met the attempt while KiotViet   *)
(* did not list its invoice yet: the rescan leaves that job alone.  An     *)
(* order without a trigger has no rescan, and a job that loses two workers *)
(* is repeated by nobody (InvoiceOutbox).                                  *)
(***************************************************************************)
MadeIsFound ==
  (env.quiet /\ \E t \in Made : t \notin waived) ~>
    (invoice # None \/ status = "needs_review" \/ closed # {} \/ Cardinality(Active(Existing)) # 1)
=============================================================================

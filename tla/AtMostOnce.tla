---------------------------- MODULE AtMostOnce ----------------------------
(***************************************************************************)
(* What every synchronization with an outside effect promises (creating a  *)
(* KiotViet order or invoice, refunding a Shopify return): requests leave  *)
(* one at a time, each only after every earlier one is known to have had   *)
(* no effect or was waived by an operator, and one result is recorded,     *)
(* once, which exists at the provider.                                     *)
(***************************************************************************)
CONSTANTS
  Requests,   \* requests, and the results they create
  ByHand,     \* results created at the provider by staff
  NoResult

VARIABLES outcome, waived, link

vars == <<outcome, waived, link>>

Results == Requests \cup ByHand

Init ==
  /\ outcome = [i \in Results |-> "none"]
  /\ waived = {}
  /\ link = NoResult

MayHaveEffect(r) == outcome[r] \in {"open", "exists"}

Send(r) ==
  /\ outcome[r] = "none"
  /\ \A q \in Requests \ waived : ~MayHaveEffect(q)
  /\ outcome' = [outcome EXCEPT ![r] = "open"]
  /\ UNCHANGED <<waived, link>>

Settle(r) ==
  /\ outcome[r] = "open"
  /\ \E result \in {"exists", "dead"} : outcome' = [outcome EXCEPT ![r] = result]
  /\ UNCHANGED <<waived, link>>

CreateByHand(i) ==
  /\ outcome[i] = "none"
  /\ link = NoResult
  /\ outcome' = [outcome EXCEPT ![i] = "exists"]
  /\ UNCHANGED <<waived, link>>

Waive(r) ==
  /\ link = NoResult
  /\ waived' = waived \cup {r}
  /\ UNCHANGED <<outcome, link>>

Link(i) ==
  /\ link = NoResult
  /\ outcome[i] = "exists"
  /\ link' = i
  /\ UNCHANGED <<outcome, waived>>

Next ==
  \/ \E r \in Requests : Send(r) \/ Settle(r) \/ Waive(r)
  \/ \E i \in ByHand : CreateByHand(i)
  \/ \E i \in Results : Link(i)

Spec == Init /\ [][Next]_vars
=============================================================================

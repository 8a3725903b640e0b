--------------------------- MODULE MCOrderCreate ---------------------------
(* TLC instances of OrderCreate, several in one run.  An environment says  *)
(* which workers and recovery runs act, whether staff make an order by     *)
(* hand, whether Shopify cancels, and how many attempts are lost.          *)
EXTENDS OrderCreate

CONSTANTS w1, w2, o1

VARIABLE env

Environments == {
  [workers |-> {w1, w2}, operators |-> {}, staff |-> FALSE, cancels |-> TRUE, crashes |-> 1],
  [workers |-> {w1, w2}, operators |-> {o1}, staff |-> FALSE, cancels |-> FALSE, crashes |-> 0],
  [workers |-> {w1}, operators |-> {o1}, staff |-> TRUE, cancels |-> FALSE, crashes |-> 1]}

Allowed ==
  /\ \A p \in Workers : p \in env.workers \/ pc[p] = "idle"
  /\ \A o \in Operators : o \in env.operators \/ opc[o] = "idle"
  /\ \A i \in StaffIds : env.staff \/ kv[i] = "none"
  /\ env.cancels \/ ~cancelled
  /\ crashes <= env.crashes

MCInit == Init /\ env \in Environments
MCNext == Next /\ env' = env /\ Allowed'

MCSpec ==
  /\ MCInit /\ [][MCNext]_<<env, vars>>
  /\ \A p \in Workers : WF_vars(Worker(p)) /\ WF_vars(p \in env.workers /\ Begin(p))
  /\ WF_vars(LeaseRunsOut)
=============================================================================

--------------------------- MODULE MCReturnRefund ---------------------------
(* TLC instances of ReturnRefund, several in one run.  An environment says *)
(* which workers run, how many claims there may be and how many reads and  *)
(* writes fail and workers die.                                            *)
EXTENDS ReturnRefund

CONSTANTS w1, w2

VARIABLE env

Environments == {
  [workers |-> {w1, w2}, claims |-> MaxClaims, faults |-> 1, crashes |-> 0],
  [workers |-> {w1}, claims |-> AttemptCap, faults |-> 1, crashes |-> 1],
  [workers |-> {w1, w2}, claims |-> 3, faults |-> 0, crashes |-> 1]}

Allowed ==
  /\ \A p \in Workers : p \in env.workers \/ pc[p] = "idle"
  /\ attempts <= env.claims /\ faults <= env.faults /\ crashes <= env.crashes

MCInit == Init /\ env \in Environments
MCNext == Next /\ env' = env /\ Allowed'

MCSpec ==
  /\ MCInit /\ [][MCNext]_<<env, vars>>
  /\ \A p \in Workers : WF_vars(Run(p) \/ (p \in env.workers /\ \E j \in JobIds : Take(p, j)))
  /\ WF_vars(QueueNew \/ QueueStuck)
  /\ WF_vars(LeaseRunsOut) /\ WF_vars(SendWindowCloses)
=============================================================================

------------------------------ MODULE MCReconcile ------------------------------
(* Reconcile: requests that race each other on two workers, and one worker *)
(* with the scheduler, a dying process or a queue that fails.              *)
EXTENDS Reconcile

CONSTANTS w1, w2

Requested == [workers |-> {w1, w2}, attempts |-> 1, hasty |-> TRUE, tick |-> 0, request |-> 2, readFail |-> 0,
              queueFail |-> 0, lostAnswer |-> 0, crash |-> 0]

MCEnvironments == {
  Requested,
  [Requested EXCEPT !.attempts = 2, !.hasty = FALSE],
  [Requested EXCEPT !.workers = {w1}, !.attempts = 2, !.tick = 1, !.request = 1],
  [Requested EXCEPT !.workers = {w1}, !.tick = 1, !.request = 1, !.queueFail = 1, !.lostAnswer = 1, !.readFail = 1],
  [Requested EXCEPT !.workers = {w1}, !.attempts = 2, !.request = 1, !.queueFail = 1, !.crash = 1]}
=============================================================================

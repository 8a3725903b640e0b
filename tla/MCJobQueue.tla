------------------------------ MODULE MCJobQueue ------------------------------
(* JobQueue: deliveries without administrators while handlers and workers  *)
(* die, a worker also twice in one job, and an administrator who repeats   *)
(* and cancels jobs beside such deaths.                                    *)
EXTENDS JobQueue

CONSTANTS c1, c2, w1, w2

Delivering == [callers |-> {c1, c2}, workers |-> {w1}, admins |-> FALSE,
               rows |-> 2, lost |-> 0, stalls |-> 1, toggles |-> 1]

MCEnvironments == {
  Delivering,
  [Delivering EXCEPT !.workers = {w1, w2}, !.lost = 1, !.stalls = 3],
  [Delivering EXCEPT !.callers = {c1}, !.admins = TRUE],
  [Delivering EXCEPT !.callers = {c1}, !.workers = {w1, w2}, !.admins = TRUE, !.lost = 1,
                     !.stalls = 0, !.toggles = 0]}
=============================================================================

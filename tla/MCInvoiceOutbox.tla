---------------------------- MODULE MCInvoiceOutbox ----------------------------
(* InvoiceOutbox: two workers whose index fails, two workers and an        *)
(* administrator who retries, processes that die once or twice, an order   *)
(* deferred by the index (with such deaths too), and an administrator who  *)
(* cancels while Redis is lost.                                            *)
EXTENDS InvoiceOutbox

CONSTANTS w1, w2, a1

Alone == [workers |-> {w1}, admins |-> {}, floor |-> FALSE, change |-> 1, settings |-> 0, fault |-> 1,
          outage |-> 0, stall |-> 0, wipe |-> 0, retry |-> 0, edit |-> 0]

MCEnvironments == {
  [Alone EXCEPT !.workers = {w1, w2}, !.settings = 1],
  [Alone EXCEPT !.workers = {w1, w2}, !.admins = {a1}, !.floor = TRUE, !.stall = 1, !.retry = 1],
  [Alone EXCEPT !.change = 2, !.stall = 1],
  [Alone EXCEPT !.fault = 2, !.outage = 1],
  [Alone EXCEPT !.fault = 0, !.stall = 2],
  [Alone EXCEPT !.fault = 0, !.outage = 1, !.stall = 2],
  [Alone EXCEPT !.admins = {a1}, !.wipe = 1, !.edit = 1]}
=============================================================================

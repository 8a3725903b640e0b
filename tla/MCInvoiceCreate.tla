--------------------------- MODULE MCInvoiceCreate ---------------------------
(* InvoiceCreate in four environments: an order created together with its  *)
(* invoice, two runs that may stall, an operator beside staff, and a run   *)
(* that finds what a lost answer left behind.                              *)
EXTENDS InvoiceCreate

CONSTANTS r1, r2, t1, t2, t3, s1

Calm == [runs |-> {r1}, operators |-> {}, staff |-> {s1}, tokens |-> {t1, t2, t3},
         orderFirst |-> FALSE, requests |-> 1, crashes |-> 1, stalls |-> FALSE, quiet |-> TRUE]

MCEnvironments == {
  Calm,
  [Calm EXCEPT !.operators = {r1}, !.requests = 2, !.tokens = {t1, t2}, !.quiet = FALSE],
  [Calm EXCEPT !.operators = {r1}, !.requests = 2, !.tokens = {t1, t2}, !.quiet = FALSE,
               !.orderFirst = TRUE, !.staff = {}],
  [Calm EXCEPT !.runs = {r1, r2}, !.requests = 2, !.tokens = {t1, t2}, !.quiet = FALSE,
               !.stalls = TRUE, !.staff = {}]}
=============================================================================

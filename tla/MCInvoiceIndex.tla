---------------------------- MODULE MCInvoiceIndex ----------------------------
(* InvoiceIndex in three environments: two maintenance runs, lookups that  *)
(* read the index beside one, and a lookup by the newest-first scan.       *)
EXTENDS InvoiceIndex

CONSTANTS m1, m2, l1, l2

Maintained == [runners |-> {m1, m2}, lookups |-> {}, catchUp |-> 2, floor |-> 0,
               start |-> 2, issued |-> 3, deleted |-> 1, resets |-> 1]

MCEnvironments == {
  Maintained,
  [Maintained EXCEPT !.runners = {m1}, !.lookups = {l1, l2}, !.deleted = 0, !.resets = 0],
  [Maintained EXCEPT !.runners = {}, !.lookups = {l1}, !.catchUp = 0, !.floor = 2,
                     !.start = 4, !.issued = 5, !.deleted = 1, !.resets = 0]}
=============================================================================

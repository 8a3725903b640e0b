--------------------------- MODULE MCInventorySync ---------------------------
(* InventorySync: two runs under each conflict strategy, branches that map *)
(* themselves, a location shared by two branches, mappings edited beside   *)
(* the runs, administrators, and lock sessions that end too early.         *)
EXTENDS InventorySync

CONSTANTS b1, b2, e1, e2

Held == [runs |-> {e1, e2}, branches |-> {b1}, hold |-> TRUE, safety |-> 1, mapped |-> {b1},
         start |-> 2, stock |-> 3, admins |-> FALSE, changes |-> 2, sales |-> 2, aborts |-> 1, ignored |-> 0,
         edits |-> 0, cuts |-> 0]
Two == [Held EXCEPT !.branches = {b1, b2}, !.safety = 0]

MCEnvironments == {
  Held,
  [Held EXCEPT !.hold = FALSE, !.safety = 0, !.mapped = {}, !.sales = 1],
  [Two EXCEPT !.runs = {e1}, !.mapped = {}, !.changes = 1, !.sales = 1],
  [Two EXCEPT !.mapped = {b1, b2}, !.changes = 0, !.sales = 1, !.aborts = 0, !.edits = 1],
  [Held EXCEPT !.safety = 0, !.start = 1, !.stock = 2, !.admins = TRUE,
               !.changes = 1, !.sales = 1, !.ignored = 1],
  [Two EXCEPT !.runs = {e1}, !.start = 1, !.stock = 1, !.admins = TRUE, !.changes = 0, !.sales = 1, !.edits = 2],
  [Held EXCEPT !.start = 1, !.stock = 2, !.admins = TRUE, !.changes = 1, !.sales = 1, !.cuts = 1]}
=============================================================================

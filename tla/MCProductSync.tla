----------------------------- MODULE MCProductSync -----------------------------
(* ProductSync: a variant family, also with content that returns to what   *)
(* it was, and deletions by code; two products that use one SKU one after  *)
(* the other, also with two workers; and a product both sides have.        *)
EXTENDS ProductSync, ProductMedia, TLC

CONSTANTS p1, p2, p3, a, b, c, w1, w2, r1, r2

Family == [workers |-> {w1}, sku |-> (p1 :> a) @@ (p2 :> b) @@ (p3 :> c), family |-> TRUE,
           live |-> {p1, p2}, offered |-> {}, byCode |-> FALSE, revert |-> FALSE,
           mapper |-> FALSE, unmapped |-> FALSE, change |-> 2, fault |-> 1, crash |-> 0, resend |-> 0]
Trio == [Family EXCEPT !.live = {p1, p2, p3}, !.change = 1]
Returning == [Family EXCEPT !.revert = TRUE, !.offered = {p1, p2}]
FamilyByCode == [Family EXCEPT !.byCode = TRUE, !.fault = 0]

Single == [Family EXCEPT !.family = FALSE, !.live = {p1}]
Known == [Single EXCEPT !.unmapped = TRUE, !.revert = TRUE, !.offered = {p1}]
OneSku == [Single EXCEPT !.sku = (p1 :> a) @@ (p2 :> a) @@ (p3 :> c), !.offered = {p2}]
Successor == [OneSku EXCEPT !.change = 3, !.crash = 1]
SuccessorByCode == [OneSku EXCEPT !.byCode = TRUE, !.change = 3, !.fault = 0]
Raced == [OneSku EXCEPT !.workers = {w1, w2}, !.fault = 0, !.mapper = TRUE]

Resent == [Single EXCEPT !.change = 1, !.resend = 1]
ResentGroup == [Family EXCEPT !.change = 1, !.resend = 1]
Still == [Single EXCEPT !.live = {}, !.unmapped = FALSE, !.change = 0, !.fault = 0]

MCScenarios == {Family, Trio, Returning, FamilyByCode, Known, Successor, SuccessorByCode, Raced, Resent, ResentGroup,
                Still}

(* ProductMedia: one run at a time with a failure or an edit, and two that *)
(* overlap.  A behaviour is one of products or one of images.              *)
OneRun == [runs |-> {r1}, changes |-> 1, faults |-> 1, edits |-> 0]
Edited == [OneRun EXCEPT !.faults = 0, !.edits = 1]
TwoRuns == [OneRun EXCEPT !.runs = {r1, r2}, !.faults = 0]
NoMedia == [runs |-> {}, changes |-> 0, faults |-> 0, edits |-> 0]
MCMediaBounds == {OneRun, Edited, TwoRuns, NoMedia}
MCLists == {<<"x", "y">>, <<"y", "x">>, <<"y">>}

MCInit == /\ CatalogInit /\ MediaInit /\ (scene = Still <=> bounds # NoMedia)
          /\ bounds = NoMedia => wanted = <<"y">>
MCNext == (CatalogNext /\ UNCHANGED mvars) \/ (MediaNext /\ UNCHANGED cvars)
MCSpec == MCInit /\ [][MCNext]_<<cvars, mvars>>
=============================================================================

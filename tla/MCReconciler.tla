---------------------------- MODULE MCReconciler ----------------------------
(***************************************************************************)
(* Instances of Reconciler for TLC: pages of two, and three points in one  *)
(* collection whose ids are not in the order they are written in, so that  *)
(* points appear on both sides of the cursor; the other collection is      *)
(* empty.  d2 was posted to the gateway, which registers no document.      *)
(***************************************************************************)
EXTENDS Reconciler

CONSTANTS d1, d2, h1, h2, h3, general, legal

TwoDocs == {d1, d2}
OneDoc == {d1}
DomainOfDocs == [d \in Docs |-> general]
ChunksOfDocs == [d \in Docs |-> IF d = d1 THEN <<h1, h2>> ELSE <<h3>>]
RankOfPoints == [p \in PointIds |-> IF p[1].doc = d2 THEN 3 ELSE 3 - p[2]]
=============================================================================

---------------------------- MODULE MCRetrieval -----------------------------
(* Instances of Retrieval for TLC: short documents of one domain. *)
EXTENDS Retrieval

CONSTANTS d1, d2, h1, h2, general

TwoDocs == {d1, d2}
OneDoc == {d1}
DomainOfDocs == [d \in Docs |-> general]
ChunksOfDocs == [d \in Docs |-> IF d = d1 THEN <<h1>> ELSE <<h2>>]
=============================================================================

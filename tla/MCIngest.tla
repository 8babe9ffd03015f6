------------------------------ MODULE MCIngest ------------------------------
(***************************************************************************)
(* The instance of Ingest for TLC: one document, whose attempts find each  *)
(* other's rows.                                                           *)
(***************************************************************************)
EXTENDS Ingest

CONSTANTS d1, h1, h2, general

DomainOfDocs == [d \in Docs |-> general]
ChunksOfDocs == [d \in Docs |-> <<h1, h2>>]
=============================================================================

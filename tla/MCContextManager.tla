-------------------------- MODULE MCContextManager --------------------------
(***************************************************************************)
(* The instance of ContextManager for TLC.  3000 and 2500 tokens become 3  *)
(* and 2; messages have one token or two, so that two or three of them     *)
(* reach the threshold and truncation can leave room it cannot use.  The   *)
(* long message is sent twice.                                             *)
(***************************************************************************)
EXTENDS ContextManager

CONSTANTS m1, m2

SizesOfMsgs == [m \in Msgs |-> IF m = m2 THEN 2 ELSE 1]
SendsOfMsgs == [m \in Msgs |-> IF m = m2 THEN 2 ELSE 1]
=============================================================================

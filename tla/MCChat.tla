------------------------------- MODULE MCChat -------------------------------
(***************************************************************************)
(* The instance of Chat for TLC.  Of three questions in a row each is      *)
(* similar to the next, the first and the third are not.                   *)
(***************************************************************************)
EXTENDS Chat

CONSTANTS m1, m2, r1, r2, r3, q1, q2, q3

Neighbours ==
    {<<q, q>> : q \in Questions} \cup {<<q1, q2>>, <<q2, q1>>, <<q2, q3>>, <<q3, q2>>}

AskedQuestions == [r \in Requests |-> CASE r = r1 -> q1 [] r = r2 -> q2 [] r = r3 -> q3]

SizesOfMsgs == [m \in Msgs |-> IF m = m1 THEN 2 ELSE 1]
SentOnce == [m \in Msgs |-> 1]
=============================================================================

---------------------------- MODULE MCStreaming -----------------------------
(***************************************************************************)
(* Instances of Streaming for TLC: a stream of tokens, one of vLLM and a   *)
(* request that is answered in one piece, for two slots; a channel of one  *)
(* token that a backend of three can fill.                                 *)
(***************************************************************************)
EXTENDS Streaming

CONSTANTS s1, s2, a1
=============================================================================

--------------------------- MODULE MCEmbedClient ----------------------------
(* Values for TLC are in the configurations. *)
EXTENDS EmbedClient
=============================================================================

--------------------------- MODULE MCRateLimiter ---------------------------
(* The instance of RateLimiter for TLC; see the configuration. *)
EXTENDS RateLimiter
=============================================================================

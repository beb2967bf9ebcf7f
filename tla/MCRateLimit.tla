----------------------------- MODULE MCRateLimit -----------------------------
(* Threads of the model-checked instance of the throttled requests. *)
EXTENDS RateLimit, TLC

CONSTANTS t1, t2, t3
=============================================================================

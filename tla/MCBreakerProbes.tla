--------------------------- MODULE MCBreakerProbes ---------------------------
(* Small instance of BreakerProbes for TLC.                                *)
EXTENDS BreakerProbes
CONSTANTS c1, c2, c3
=============================================================================

--------------------------- MODULE MCResubmission ---------------------------
(* Small instance of Resubmission for TLC.                                 *)
EXTENDS Resubmission
CONSTANTS c1, c2, c3
=============================================================================

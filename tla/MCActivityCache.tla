-------------------------- MODULE MCActivityCache --------------------------
(* Instance of ActivityCache for TLC: one rater who changes the score, and   *)
(* two requests at a time.  No symmetry: the run checks a liveness property. *)
EXTENDS ActivityCache

CONSTANTS rater, r1, r2

MCRater == {rater}
MCReq   == {r1, r2}
MCScore == {1, 2}
=============================================================================

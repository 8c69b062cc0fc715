----------------------------- MODULE MCComments -----------------------------
(* Instance of Comments for TLC: two comments, one voter and two requests at *)
(* a time.                                                                   *)
EXTENDS Comments, TLC

CONSTANTS alice, r1, r2

MCVoter == {alice}
MCReq   == {r1, r2}

Symmetry == Permutations(MCReq)
=============================================================================

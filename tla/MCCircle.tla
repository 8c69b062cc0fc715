------------------------------ MODULE MCCircle ------------------------------
(* Instance of Circle for TLC: two users and three requests at a time, for a *)
(* block, a send and an accept to meet.                                      *)
EXTENDS Circle, TLC

CONSTANTS alice, bob, r1, r2, r3

MCUser == {alice, bob}
MCReq  == {r1, r2, r3}

Symmetry == Permutations(MCUser) \cup Permutations(MCReq)
=============================================================================

----------------------------- MODULE MCHangout ------------------------------
(* Instance of Hangout for TLC: an organizer and two invitees, with room for *)
(* one of them, and two requests at a time.                                  *)
EXTENDS Hangout, TLC

CONSTANTS organizer, alice, bob, r1, r2

MCUser == {organizer, alice, bob}
MCReq  == {r1, r2}

Symmetry == Permutations({alice, bob}) \cup Permutations(MCReq)
=============================================================================

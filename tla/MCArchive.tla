----------------------------- MODULE MCArchive ------------------------------
(* Instance of Archive for TLC: three accounts that may join the hangout, so *)
(* that one can join late while another keeps the archive, two uploads and   *)
(* two requests at a time.                                                   *)
EXTENDS Archive

CONSTANTS organizer, alice, bob, r1, r2, k1, k2

MCUser == {organizer, alice, bob}
MCReq  == {r1, r2}
MCKey  == {k1, k2}

Symmetry ==
    Permutations({alice, bob}) \cup Permutations(MCReq) \cup Permutations(MCKey)
=============================================================================

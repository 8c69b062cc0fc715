---------------------------- MODULE MCMeetupPin -----------------------------
(* Instance of MeetupPin for TLC: the organizer and one invitee, two places, *)
(* and two requests at a time.                                               *)
EXTENDS MeetupPin, TLC

CONSTANTS organizer, alice, r1, r2, park, cafe

MCUser  == {organizer, alice}
MCReq   == {r1, r2}
MCPlace == {park, cafe}

Symmetry == Permutations(MCReq) \cup Permutations(MCPlace)
=============================================================================

------------------------- MODULE MCRecommendation -------------------------
(* Instance of Recommendation for TLC: two activities, two requests and    *)
(* the worker, one failing statement; a score has no room from one         *)
(* acceptance per suggestion on, so that two requests reach it.            *)
EXTENDS Recommendation

CONSTANTS hiking, chess, r1, r2

MCActivity == {hiking, chess}
MCReq      == {r1, r2}
MCGen      == 1..5
=============================================================================

---------------------------- MODULE MCBadgeAward ----------------------------
(* Instance of BadgeAward for TLC: two users, three requests at a time and a *)
(* topic of two partitions.                                                  *)
EXTENDS BadgeAward

CONSTANTS alice, bob, r1, r2, r3, p1, p2

MCUser      == {alice, bob}
MCReq       == {r1, r2, r3}
MCPartition == {p1, p2}
=============================================================================

----------------------------- MODULE MCAccounts -----------------------------
(* Instance of Accounts for TLC: two devices, two requests at a time, three  *)
(* refresh tokens and one request per window.                                *)
EXTENDS Accounts, TLC

CONSTANTS phone, laptop, r1, r2, t1, t2, t3

MCDevice == {phone, laptop}
MCReq    == {r1, r2}
MCToken  == {t1, t2, t3}

Symmetry == Permutations(MCDevice) \cup Permutations(MCReq)
              \cup Permutations(MCToken)
=============================================================================

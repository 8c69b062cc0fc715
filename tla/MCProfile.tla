----------------------------- MODULE MCProfile ------------------------------
(* Instance of Profile for TLC: two users and a host, three keys, two        *)
(* interests, two requests at a time.                                        *)
EXTENDS Profile, TLC

CONSTANTS u1, u2, h1, k1, k2, k3, i1, i2, r1, r2

MCText     == {"a", "b"}
MCKey      == {k1, k2, k3}
MCInterest == {i1, i2}
MCUser     == {u1, u2}
MCOwner    == {u1, u2, h1}
MCReq      == {r1, r2}

Replaces(r) == req[r].at \in {"set_delete", "set_insert", "set_commit"}

\* No request has touched the interests; a host has a row or users have.
RowsOnly ==
    /\ sets = 0 /\ \A r \in Req : ~Replaces(r)
    /\ \/ \A o \in Owner \ User : row[o] = None
       \/ \A u \in User : row[u] = None

\* Requests replace the interests, of users that are alike and not edited.
InterestsOnly ==
    /\ \A r \in Req : req[r] = Idle \/ Replaces(r)
    /\ named = {}
    /\ \A o \in Owner \ User : row[o] = None
    /\ \A u \in User : row[u] = row[Me]
    /\ row[Me] # None => row[Me].version = 1

\* A replacement reads of the rows only whether Me has one, what is done to the
\* rows reads nothing of the interests, and what is done to a host's row nothing
\* of a user's: TLC looks at one or the other.
OneSide == RowsOnly \/ InterestsOnly

Symmetry == Permutations(MCReq) \cup Permutations(MCKey)
              \cup Permutations(MCUser)
=============================================================================

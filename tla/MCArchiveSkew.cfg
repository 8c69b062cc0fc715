SPECIFICATION Spec
CONSTANTS
    organizer = organizer
    alice = alice
    bob = bob
    r1 = r1
    r2 = r2
    k1 = k1
    k2 = k2
    User <- MCUser
    Organizer = organizer
    MaxMessages = 1
    Req <- MCReq
    Key <- MCKey
INVARIANT AllAskedIsPurged
SYMMETRY Symmetry
\* Users may stop sending requests, and once the archive is purged there is
\* nothing left to do.
CHECK_DEADLOCK FALSE

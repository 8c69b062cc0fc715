SPECIFICATION Spec
CONSTANTS
    u1 = u1
    u2 = u2
    h1 = h1
    k1 = k1
    k2 = k2
    k3 = k3
    i1 = i1
    i2 = i2
    r1 = r1
    r2 = r2
    None = None
    Me = u1
    Text <- MCText
    Owner <- MCOwner
    User <- MCUser
    Key <- MCKey
    Interest <- MCInterest
    Req <- MCReq
    MaxVersion = 3
    MaxSets = 3
INVARIANTS
    NoLostEdit
    PictureExists
    InterestsOfLastRequest
CONSTRAINT
    OneSide
\* Clients may stop sending requests, and versions and replacements are bounded.
CHECK_DEADLOCK FALSE
SYMMETRY Symmetry

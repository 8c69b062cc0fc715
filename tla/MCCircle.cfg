SPECIFICATION Spec
CONSTANTS
    alice = alice
    bob = bob
    r1 = r1
    r2 = r2
    r3 = r3
    User <- MCUser
    Req <- MCReq
    MaxRequests = 3
INVARIANTS
    AcceptedByAddressee
    BlockEndsConnection
SYMMETRY Symmetry

SPECIFICATION Spec
CONSTANTS
    alice = alice
    bob = bob
    r1 = r1
    r2 = r2
    r3 = r3
    p1 = p1
    p2 = p2
    NoCode = NoCode
    User <- MCUser
    Event <- MCUser
    Req <- MCReq
    Partition <- MCPartition
    MaxTopic = 2
INVARIANTS
    HostsSeeTheCode
    ScanAwardsBadge
    BadgeNoticesTrue
    StoredAtMostOnce
PROPERTIES
    NothingBlocksTheTopic

SPECIFICATION Spec
CONSTANTS
    organizer = organizer
    alice = alice
    bob = bob
    r1 = r1
    r2 = r2
    User <- MCUser
    Organizer = organizer
    Req <- MCReq
    MaxParticipants = 2
    MaxMessages = 1
INVARIANTS
    MessagesByAccepted
    NoticesAreTrue
    ArchiveCalledOnce
    CapUnlessOverlapped
PROPERTY
    LifecycleSpec
SYMMETRY Symmetry
\* Users may stop sending requests, and after the hangout is final and every
\* invite answered there is nothing left to request.
CHECK_DEADLOCK FALSE

SPECIFICATION PinSpec
CONSTANTS
    organizer = organizer
    alice = alice
    r1 = r1
    r2 = r2
    park = park
    cafe = cafe
    User <- MCUser
    Organizer = organizer
    MaxMessages = 0
    PinReq <- MCReq
    Place <- MCPlace
    MaxVersion = 3
INVARIANTS
    AnswersCountForPlace
    NoLostProposal
SYMMETRY Symmetry
\* Users may stop sending requests, and after the hangout is final and every
\* invite answered nothing is left to do.
CHECK_DEADLOCK FALSE

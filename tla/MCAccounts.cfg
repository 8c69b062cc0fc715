SPECIFICATION Spec
CONSTANTS
    phone = phone
    laptop = laptop
    r1 = r1
    r2 = r2
    t1 = t1
    t2 = t2
    t3 = t3
    None = None
    Device <- MCDevice
    Req <- MCReq
    Token <- MCToken
    Limit = 1
    MaxHits = 2
INVARIANTS
    OneLiveUnlessOverlapped
    HeldTokenIsLive
    RefusedForThisWindow
SYMMETRY Symmetry

SPECIFICATION CacheSpec
CONSTANTS
    rater = rater
    r1 = r1
    r2 = r2
    Miss = Miss
    Rater <- MCRater
    CacheReq <- MCReq
    Score <- MCScore
    MaxRatings = 2
INVARIANTS
    StaleOnlyByRace
    VerdictsToldStand
PROPERTIES
    CacheSettles

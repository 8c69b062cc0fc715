SPECIFICATION Spec
CONSTANTS
    alice = alice
    r1 = r1
    r2 = r2
    NotYet = NotYet
    Voter <- MCVoter
    Req <- MCReq
    MaxPrompt = 1
    MaxComments = 2
SYMMETRY Symmetry
INVARIANTS
    VotesOnVisible
    VerdictNoticesTrue
    SummaryMissesOnlyLost
    RankedByVotesFirst
PROPERTIES
    SummaryShrinksOnlyOvertaken

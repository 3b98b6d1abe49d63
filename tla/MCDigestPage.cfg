SPECIFICATION Spec
CONSTANTS
    d1 = d1
    d2 = d2
    FactShape <- MCFactShape
    MaxFacts = 4
    MeetRows <- MCMeetRows
    Undated = 0
    NameWords = 2
    SPOKEN_WORD_CAP = 6
    LATELY_CAP = 2
    NoFact = NoFact
INVARIANTS
    EveryFactCited
    StrongestEvidence
    EveryMarkerHasItsQuote
CHECK_DEADLOCK FALSE

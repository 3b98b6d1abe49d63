SPECIFICATION Spec
CONSTANTS
    Request = {r1, r2}
    NoOne = NoOne
    Entries <- MCEntries
    Nobody = NoOne
    NoDigest = NoDigest
    Person <- MCPerson
    Token <- MCToken
    Resolve <- MCResolve
    Matchable <- AllMatchable
    Raw <- MCRaw
    MEET_CAP = 1
    DIGEST_HISTORY = 2
CHECK_DEADLOCK FALSE
PROPERTY
    SubsequentDigestsSkipLeavers

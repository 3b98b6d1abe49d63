SPECIFICATION Spec
CONSTANTS
    Request = {r1, r2, r3}
    NoOne = NoOne
    Entries <- MCEntries
    Nobody = NoOne
    NoDigest = NoDigest
    Person <- MCPerson
    Token <- MCToken
    Resolve <- MCResolve
    Matchable <- AllMatchable
    Raw <- MCRaw
    MEET_CAP = 1
    DIGEST_HISTORY = 2
INVARIANTS
    DigestTable
    NewestDigestsServed
    PresenceFollowsArrivals
    EveryoneIntroduced
PROPERTIES
    ServesReception
    EveryArrivalAnswered
    IdsReachTheirOwner
CHECK_DEADLOCK FALSE

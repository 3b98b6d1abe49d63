SPECIFICATION ResolveSpec
CONSTANTS
    Document <- MCDocument
    MAX_LLM_CALLS = 3
    MAX_CONCURRENT = 2
    DISPLAY_PRIORITY <- MCKinds
    MAX_DOCS_TOTAL = 4
    DOCS_PER_CONNECTOR = 3
    Found <- MCFound
    Roster <- MCRoster
    Reply <- MCReply
    Phrase <- MCPhrase
    OtherEmployer = "other employer"
    OtherCity = "other city"
    Common = {"partner"}
    Short = {}
    None = None
    Blank = Blank
    Failed = Failed
INVARIANTS
    SpendingBounded
    CountersAgree
    OneFactIsNotEnough
    LabelsDecideNothing
    OrderEarnsNothing
    VouchedFor
PROPERTIES
    EverySourceHeard
    AlwaysConcludes
CHECK_DEADLOCK FALSE

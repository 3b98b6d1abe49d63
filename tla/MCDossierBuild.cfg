SPECIFICATION BuildSpec
CONSTANTS
    MAX_DOCS_PER_CALL = 2
    MAX_FACT_WORDS = 6
    MIN_QUOTE_WORDS = 3
    MAX_FIELD_HUBS = 1
    MIN_FIELD_HUB_WORDS = 2
    STOP_HUB_LABELS <- MCStop
    FIELD_HUB_VOCABULARY <- MCVocabulary
    NON_OBVIOUS_ELIGIBLE_KINDS = {"wikidata", "edgar"}
    Unspeakable = {",", "cyrillic"}
    Name <- MCName
    BlankId <- MCBlank
    Nothing = Nothing
    BATCH_SIZE = 2
    CONFIDENCE_FLOOR = 7
    DISPLAYABLE_KINDS = {"wikidata", "self_page"}
    Lacking <- MCLacking
    Response <- MCResponse
    Failed = Failed
    Blank <- MCBlank
    Subject <- MCSubject
    Answer <- MCAnswer
INVARIANTS
    CitedVerbatim
    EvidenceIsNoGuess
    HubOrderDecidesNothing
    NothingAdopted
    NoRulingWanders
    NothingWithheldIsShown
    NoPointerToWithheld
CHECK_DEADLOCK FALSE

SPECIFICATION Spec
CONSTANTS
    Fetch = {f1, f2, f3}
    NoHeaders = NoHeaders
    NoBody = NoBody
    Url <- MCUrl
    Verb <- MCVerb
    Headers <- MCHeaders
    Body <- MCBody
    Request <- MCRequest
    Directory <- MCDirectory
    NEGATIVE_TTL = 1
    MaxNow = 1
    Never = Never
    Missing = Missing
    Torn = Torn
    Nothing = Nothing
SYMMETRY Alike
CHECK_DEADLOCK FALSE
INVARIANTS
    AnswersOwnRequest
    WarmAnswersAsCold
PROPERTIES
    FailuresHeal
    OnlyAnswersAreFiled

SPECIFICATION Spec
CONSTANTS
    Fetch = {f1, f2}
    NoHeaders = NoHeaders
    NoBody = NoBody
    Url <- MCUrl
    Verb <- MCVerb
    Headers <- MCHeaders
    Body <- MCBody
    Request <- OnlyThePage
    Directory <- OnlyEmpty
    NEGATIVE_TTL = 2
    MaxNow = 1
    Never = Never
    Missing = Missing
    Torn = Torn
    Nothing = Nothing
CHECK_DEADLOCK FALSE
PROPERTY
    DocumentsAreDurable

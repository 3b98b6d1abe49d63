SPECIFICATION Spec
CONSTANTS
    ann = ann
    bob = bob
    Roster <- MCRoster
    Doc = {d1}
    Unsafe = {}
    Version = {v1, v2}
    MAX_LLM_CALLS = 3
    MaxRuns = 2
    Gone = Gone
    None = None
    Unreadable = Unreadable
CHECK_DEADLOCK FALSE
INVARIANT
    CitationsCheckable

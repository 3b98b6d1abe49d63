SPECIFICATION Spec
CONSTANTS
    ann = ann
    bob = bob
    Roster <- MCRoster
    Doc = {d1, d2}
    Unsafe = {d2}
    Version = {v1, v2}
    MAX_LLM_CALLS = 2
    MaxRuns = 2
    Gone = Gone
    None = None
    Unreadable = Unreadable
CHECK_DEADLOCK FALSE
INVARIANTS
    CitedDocsOnDisk
    CleanExitMeansBuilt
PROPERTIES
    FailedKeepTheirDossier
    EveryRunEnds

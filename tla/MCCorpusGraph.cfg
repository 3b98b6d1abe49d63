SPECIFICATION GraphSpec
CONSTANTS
    Person = {p1, p2, p3}
    HubType = {"city", "company", "school"}
    Label <- MCLabel
    Qid = {"Q1", "Q2"}
    WD = "wd"
    Slug <- MCSlug
    Acronym <- MCAcronym
    Capitals = {"MIT"}
    Rank <- MCRank
    Boost <- MCBoost
    Hub <- MCHub
    MaxHubs = 2
    Bystanders = 1
    WITHHELD_HUB_LABEL = "Withheld connection"
    NoInitials = None
    None = None
SYMMETRY Symmetry
CHECK_DEADLOCK FALSE
INVARIANTS
    QidNamesAreOpaque
    SpokenIsClean
    OneThingOneNode

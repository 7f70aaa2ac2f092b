\* The loop alone, with edited rules and maintenance windows.
SPECIFICATION FairSpec
CONSTANTS
    RuleIds = {1}
    StateRules = {1}
    Subjects = {s1}
    AlertIds = {a1, a2}
    ForValues = {0, 2}
    MaxAge = 2
    Channels = {pager}
    ChannelLists <- OnlyAll
    Requests = {}
    Disturbances = {"edit", "maintenance"}
PROPERTIES
    FiringHasHeld
    TrueIsReported

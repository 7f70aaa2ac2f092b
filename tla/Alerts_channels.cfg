\* The loop alone, while rules change their channels and channels are switched.
SPECIFICATION FairSpec
CONSTANTS
    RuleIds = {1}
    StateRules = {1}
    Subjects = {s1}
    AlertIds = {a1, a2}
    ForValues = {0}
    MaxAge = 0
    Channels = {pager, mail}
    ChannelLists <- AllOrOne
    Requests = {}
    Disturbances = {"edit", "channels"}
INVARIANTS
    ChannelsAgree
PROPERTIES
    TrueIsReported
    FalseIsReported

\* Everything at once: requests, edits, deletions, windows, errors, restarts.
SPECIFICATION Spec
CONSTANTS
    RuleIds = {1}
    StateRules = {1}
    Subjects = {s1}
    AlertIds = {a1, a2, a3}
    ForValues = {1}
    MaxAge = 1
    Channels = {pager}
    ChannelLists <- OnlyAll
    Requests = {client}
    Disturbances = {"edit", "delete", "maintenance", "restart", "error"}
SYMMETRY AlertSymmetry
INVARIANTS
    OneOpenAlert
PROPERTIES
    MaintenanceHolds

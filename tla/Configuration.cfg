SPECIFICATION Spec
CONSTANTS
    Names <- MCNames
    Hosts <- MCHosts
    Secrets = {k1}
    Patched <- MCPatched
    Blank = Blank
    Mask = Mask
    RuleNames <- MCRuleNames
    CheckNames = {c1}
    n1 = n1
    r1 = r1
    h1 = h1
    n2 = n2
    Log = Log
    DefaultRule = DefaultRule
    OfPing = OfPing
    MaxRows = 2
    MaxRequests = 4
SYMMETRY Symmetry
INVARIANTS
    RestoreRebuilds
    ImportIsIdempotent
PROPERTIES
    SecretsChangeOnlyWhenSent
CHECK_DEADLOCK FALSE

\* An agent that restarts and answers in part, two OIDs and two credentials; edits;
\* jobs of the poll loop and by hand, one at a time.
SPECIFICATION FairSpec
CONSTANTS
    Credentials = {c1, c2}
    Oids = {o1, o2}
    JobIds = {j1}
    MaxUptime = 2
    Partial = TRUE
    Edits = TRUE
    ByHand = TRUE
INVARIANTS
    RatesOfOneOid
    RebootsMissedOnlyIfInterrupted
PROPERTY OfferedIsPolled

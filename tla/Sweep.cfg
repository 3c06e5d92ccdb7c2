\* Two sweepers, taking turns or overlapping, and a limit that the findings exceed.
CONSTANTS
    Sweepers = {s1, s2}
    Findings = {1, 2}
    Officers = {u1}
    Limit = 1
    MaxChanges = 2
    MaxFailures = 1
SPECIFICATION FairSpec
INVARIANTS
    NoDuplicateAlerts
PROPERTIES
    AlertsConverge
    FindingsDelivered
    SweepOnlyAddsFindings

SPECIFICATION Spec
CONSTANTS
    r1 = r1  r2 = r2  r3 = r3  r4 = r4
    u1 = u1  u2 = u2  ann = ann
    Requests = {r1, r2}
    Req <- TwoAtATime
    Slug <- SharedSlug
    Cap = 2
    MaxServed = 2
    MaxFaults = 0
    FaultKinds = {"start", "api", "attempt", "cancel", "accounting"}
    MaxDays = 0
    Attempts <- TwoAttempts
    NoOne = NoOne
INVARIANT LoserCanGoOn

SPECIFICATION FairSpec
CONSTANTS
    j1 = j1  j2 = j2  b1 = b1  b2 = b2
    s1 = 1  s2 = 2  e = 3
    w1 = w1  w2 = w2
    Jobs = {j1, j2}
    Slugs = {1, 2, 3}
    Workers = {w1}
    Bundles = {b1}
    BundleOf <- OneBundle
    Plans <- ForkedType
    MaxAttempts = 3
    MaxFaults = 2
    FaultKinds = {"timeout", "db"}
    MaxArchives = 2
    Absent = Absent  Torn = Torn  NoOne = NoOne
INVARIANTS VersionsDiffer EdgesOfServedText SettledIndexCurrent
PROPERTIES MirrorLeavesIndexCurrent ComesBackOnlyChanged EveryUploadServed

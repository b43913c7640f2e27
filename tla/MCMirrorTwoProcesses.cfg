SPECIFICATION Spec
CONSTANTS
    j1 = j1  j2 = j2  b1 = b1  b2 = b2
    s1 = 1  s2 = 2  e = 3
    w1 = w1  w2 = w2
    Jobs = {j1, j2}
    Slugs = {1, 2, 3}
    Workers = {w1, w2}
    Bundles = {b1}
    BundleOf <- OneBundle
    Plans <- SharedEntity
    MaxAttempts = 2
    MaxFaults = 1
    FaultKinds = {"crash", "ingest", "flush", "timeout", "db"}
    MaxArchives = 1
    Absent = Absent  Torn = Torn  NoOne = NoOne
INVARIANTS TypeOK DoneIsServed

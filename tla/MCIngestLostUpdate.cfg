CONSTANTS
    j1 = j1  j2 = j2
    w1 = w1  w2 = w2
    p1 = p1  p2 = p2
    s1 = s1  s2 = s2  e = e
    Slugs = {s1, s2, e}
    Jobs = {j1, j2}
    Absent = Absent
    Torn = Torn
    NoOne = NoOne
    Workers = {w1, w2}
    Processes = {p1}
    ProcessOf <- OneProcess
    Extractions <- SharedEntity
    MaxAttempts = 1
    MaxFaults = 0
    FaultKinds = {}
SPECIFICATION Spec
PROPERTY FactsNeverLost

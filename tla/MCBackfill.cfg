SPECIFICATION Spec
CONSTANTS
    w1 = w1  w2 = w2
    Items = {1, 2, 3}
    Workflows = {w1, w2}
    Changes <- OneShared
    ChunksOf <- TwoOfFirst
    Fresh = {2}
    Bare = {1}
    Refused = {}
    Batch = 2
    MaxTries = 2
    MaxFaults = 1
    FaultKinds = {"gateway", "attempt"}
    Sched = Sched
    None = None
INVARIANTS TypeOK ChunksOfCurrent
PROPERTIES EveryChunkEmbedded EveryWorkflowEnds

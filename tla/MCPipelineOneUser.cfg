SPECIFICATION Spec
CONSTANTS
    r1 = r1  r2 = r2  r3 = r3  r4 = r4
    u1 = u1  u2 = u2  ann = ann
    Requests = {r1, r2, r3}
    Req <- OneUser
    Slug <- SharedSlug
    Cap = 1
    MaxServed = 2
    MaxFaults = 1
    FaultKinds = {"start", "api", "attempt", "cancel", "accounting"}
    MaxDays = 1
    Attempts <- TwoAttempts
    NoOne = NoOne
INVARIANTS TypeOK OneSpacePerOwner CapOvershoot DuplicatesOverlap UploadAnswerTrue CompletedIsServed BulkIsSequential SourceNameUnique
PROPERTIES KeepsLifecycle EverythingSettles

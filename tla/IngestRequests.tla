---------------------------- MODULE IngestRequests ----------------------------
(***************************************************************************)
(* The endpoints through which documents come in: uploads, conversations   *)
(* and pushes of sources (routers/ingest.py), connector runs, and the      *)
(* idempotent service behind the last three (ingest_service.py), with the  *)
(* personal spaces they provision on the way (personal_spaces.py).         *)
(*                                                                         *)
(* An upload is a coroutine of its API process: it keeps the process's     *)
(* event loop, database calls included, until it awaits.  The other        *)
(* endpoints run in threads.  Everything a request writes before its first *)
(* commit belongs to one READ COMMITTED transaction: others cannot see it, *)
(* but an insert that meets one of its unique keys waits for its end.      *)
(*                                                                         *)
(* Authentication and the role checks before a request touches anything    *)
(* are left to module AccessRules: the requests here are allowed ones.     *)
(***************************************************************************)
EXTENDS Naturals, Sequences, FiniteSets

CONSTANTS
    Requests,       \* the requests of one behaviour
    Req,            \* what each one asks for, see ReqAssumption
    Slug,           \* the slug of each user's name; two users may share one
    Cap,            \* personal_ingest_daily_cap
    MaxServed,      \* bound: requests in service at one time
    MaxFaults,      \* bound: faults in one behaviour
    FaultKinds,     \* kinds of fault considered
    MaxDays,        \* bound: days that pass
    NoOne           \* no request, no space

Users == DOMAIN Slug

DocSlots == UNION {{r} \X DOMAIN Req[r].docs : r \in Requests}

\* An upload or a conversation for a personal space; a conversation for a team,
\* whose documents go to the default bundle like those of the other requests; a
\* push of one source; a connector run of several documents.  A document is its
\* source identity, the hash of its bytes, and whether they need transcription.
\* A request is sent once the one before it in its client's queue has settled.
ASSUME ReqAssumption ==
    /\ IsFiniteSet(DocSlots)
    /\ NoOne \notin Requests
    /\ \A r \in Requests :
        /\ Req[r].kind \in {"upload", "conversation", "push", "sync"}
        /\ Req[r].user \in Users
        /\ Req[r].personal => Req[r].kind \in {"upload", "conversation"}
        /\ Req[r].large \in BOOLEAN             \* over 1 MiB, spooled to disk
        /\ Req[r].after \in Requests \union {NoOne}
        /\ Len(Req[r].docs) \in Nat \ {0} /\ DOMAIN Req[r].docs = 1..Len(Req[r].docs)
        /\ Req[r].kind # "sync" => Len(Req[r].docs) = 1

ASSUME BoundsAssumption ==
    /\ {Cap, MaxServed} \subseteq Nat \ {0}
    /\ MaxFaults \in Nat /\ MaxDays \in Nat
    /\ FaultKinds \subseteq {"start", "api", "attempt", "cancel", "accounting"}

VARIABLES
    raw,        \* raw_documents, in the order of created_at
    spaces,     \* personal spaces committed, each with its two grants
    sources,    \* the number of sources rows of each name
    pc,         \* where each request stands
    mine,       \* what each request has found and written so far
    flow,       \* the workflow of each raw document
    aged,       \* raw documents 1..aged are older than a day
    days, faults

requestVars == <<raw, spaces, sources, pc, mine, flow, aged, days, faults>>

-----------------------------------------------------------------------------
(* State *)

User(r)     == Req[r].user
IsUpload(r) == Req[r].kind = "upload"
Doc(r)      == Req[r].docs[mine[r].k]
Names       == {Req[r].source : r \in Requests}
Docs        == UNION {{Req[r].docs[k] : k \in DOMAIN Req[r].docs} : r \in Requests}
DocIds      == 1..Cardinality(DocSlots)

\* A personal space. Two users whose names give one slug are told apart by a
\* hash that the second one's slug has appended.
Space == [owner : Users, slug : {Slug[u] : u \in Users} \union {<<Slug[u], u>> : u \in Users}]

ASSUME SpaceAssumption == NoOne \notin Space

\* A row of raw_documents. kind and seen are history values: the endpoint, and how
\* many rows there were when its request was sent.
Row == [doc : Docs, kind : {"upload", "conversation", "push", "sync"},
        space : Space \union {NoOne}, by : Users,
        failed : BOOLEAN, wf : BOOLEAN, seen : Nat]

\* A request that runs on the event loop holds it in these steps; the others
\* are awaits (of the file, of the Temporal server) and the steps after them.
Busy     == {"lookup", "slug", "insert", "reread", "cap", "read", "validate", "source", "commit"}
Awaiting == {"reading", "start", "record", "stamp"}
Answered == {"ok", "error", "lost", "done", "failed"}

RequestTypeOK ==
    /\ raw \in Seq(Row) /\ Len(raw) <= Cardinality(DocIds)
    /\ spaces \subseteq Space
    /\ sources \in [Names -> Nat]
    /\ pc \in [Requests -> {"new", "dedup"} \union Busy \union Awaiting \union Answered]
    /\ \A r \in Requests :
          /\ mine[r].k \in DOMAIN Req[r].docs
          /\ mine[r].space \in Space \union {NoOne}
          /\ mine[r].new \in BOOLEAN /\ mine[r].src \in BOOLEAN
          /\ mine[r].seen \in Nat /\ mine[r].row \in 0..Len(raw)
    /\ aged \in 0..Len(raw) /\ days \in 0..MaxDays /\ faults \in 0..MaxFaults

RequestInit ==
    /\ raw = <<>>
    /\ spaces = {}
    /\ sources = [n \in Names |-> 0]
    /\ pc = [r \in Requests |-> "new"]
    /\ mine = [r \in Requests |->
                 [k |-> 1, space |-> NoOne, new |-> FALSE, src |-> FALSE, seen |-> 0, row |-> 0]]
    /\ flow = [d \in DocIds |-> "none"]
    /\ aged = 0 /\ days = 0 /\ faults = 0

-----------------------------------------------------------------------------
(* Helpers *)

InService(r) == pc[r] \notin {"new"} \union Answered

\* The client knows the outcome: of an upload, not before it has polled for it.
Settled(r) == pc[r] \in Answered /\ (IsUpload(r) => pc[r] # "ok")

\* Variant: handlers of one process interleave at every statement.
HasLoop_Threads(r) == TRUE

\* No other upload keeps the event loop of this one's process.
HasLoop(r) ==
    IsUpload(r) => \A q \in Requests \ {r} :
        IsUpload(q) /\ Req[q].api = Req[r].api => pc[q] \notin Busy

At(r, step) == pc[r] = step /\ HasLoop(r)

Go(r, step) == pc' = [pc EXCEPT ![r] = step]

\* The answer ends the request's session: what it has not committed is undone.
Closed(m) == [m EXCEPT !.space = NoOne, !.new = FALSE, !.src = FALSE, !.seen = 0]

Answer(r, step) ==
    /\ Go(r, step)
    /\ mine' = [mine EXCEPT ![r] = Closed(@)]

Fault(kind) ==
    /\ kind \in FaultKinds
    /\ faults < MaxFaults
    /\ faults' = faults + 1

OwnSpaces(u) == {s \in spaces : s.owner = u}

\* The unique keys of a space: its owner and its slug.
Conflict(s, t) == s.owner = t.owner \/ s.slug = t.slug

\* The insert of r's space waits for these requests to end their transactions.
Holders(r) ==
    {q \in Requests \ {r} : mine[q].new /\ Conflict(mine[q].space, mine[r].space)}

InWindow(s, u) ==
    {d \in DOMAIN raw : d > aged /\ raw[d].space = s /\ raw[d].by = u}

\* The latest row of a document, of any content.
Earlier(r) ==
    {d \in DOMAIN raw : /\ raw[d].doc.id = Doc(r).id
                        /\ \A e \in d + 1..Len(raw) : raw[e].doc.id # Doc(r).id}

-----------------------------------------------------------------------------
(* Provisioning a personal space *)

\* Variant: a queue does not wait for the document before.
Begin_AtOnce(r) ==
    /\ At(r, "new")
    /\ Cardinality({q \in Requests : InService(q)}) < MaxServed
    /\ Go(r, IF Req[r].personal THEN "lookup"
             ELSE IF IsUpload(r) THEN "read" ELSE "dedup")
    /\ mine' = [mine EXCEPT ![r].seen = Len(raw)]
    /\ UNCHANGED <<raw, spaces, sources, flow, aged, days, faults>>

\* The client sends the request, once the one before it has settled.
Begin(r) ==
    /\ At(r, "new")
    /\ Req[r].after # NoOne => Settled(Req[r].after)
    /\ Cardinality({q \in Requests : InService(q)}) < MaxServed
    /\ Go(r, IF Req[r].personal THEN "lookup"
             ELSE IF IsUpload(r) THEN "read" ELSE "dedup")
    /\ mine' = [mine EXCEPT ![r].seen = Len(raw)]
    /\ UNCHANGED <<raw, spaces, sources, flow, aged, days, faults>>

Lookup(r) ==
    /\ At(r, "lookup")
    /\ IF OwnSpaces(User(r)) = {}
       THEN /\ Go(r, "slug")
            /\ UNCHANGED mine
       ELSE /\ Go(r, "cap")
            /\ mine' = [mine EXCEPT ![r].space = CHOOSE s \in OwnSpaces(User(r)) : TRUE]
    /\ UNCHANGED <<raw, spaces, sources, flow, aged, days, faults>>

ChooseSlug(r) ==
    LET base == Slug[User(r)]
        taken == \E s \in spaces : s.slug = base
    IN  /\ At(r, "slug")
        /\ Go(r, "insert")
        /\ mine' = [mine EXCEPT ![r].space =
                      [owner |-> User(r), slug |-> IF taken THEN <<base, User(r)>> ELSE base]]
        /\ UNCHANGED <<raw, spaces, sources, flow, aged, days, faults>>

\* Variant: the unique index on the owner is missing.
InsertSpace_NoOwnerKey(r) ==
    /\ At(r, "insert")
    /\ \A q \in Holders(r) : mine[q].space.slug # mine[r].space.slug
    /\ IF \E s \in spaces : s.slug = mine[r].space.slug
       THEN /\ Go(r, "reread")
            /\ mine' = [mine EXCEPT ![r].space = NoOne]
       ELSE /\ Go(r, "cap")
            /\ mine' = [mine EXCEPT ![r].new = TRUE]
    /\ UNCHANGED <<raw, spaces, sources, flow, aged, days, faults>>

\* The flush of the new space and of its grants, or an IntegrityError.
InsertSpace(r) ==
    /\ At(r, "insert")
    /\ Holders(r) = {}
    /\ IF \E s \in spaces : Conflict(s, mine[r].space)
       THEN /\ Go(r, "reread")
            /\ mine' = [mine EXCEPT ![r].space = NoOne]
       ELSE /\ Go(r, "cap")
            /\ mine' = [mine EXCEPT ![r].new = TRUE]
    /\ UNCHANGED <<raw, spaces, sources, flow, aged, days, faults>>

\* The loser takes the winner's row. There is none if the winner is another
\* user whose name gives the same slug.
Reread(r) ==
    /\ At(r, "reread")
    /\ IF OwnSpaces(User(r)) = {}
       THEN Answer(r, "error")
       ELSE /\ Go(r, "cap")
            /\ mine' = [mine EXCEPT ![r].space = CHOOSE s \in OwnSpaces(User(r)) : TRUE]
    /\ UNCHANGED <<raw, spaces, sources, flow, aged, days, faults>>

\* Variant: one more than the cap is let through.
CheckCap_OffByOne(r) ==
    /\ At(r, "cap")
    /\ IF Cardinality(InWindow(mine[r].space, User(r))) > Cap
       THEN Answer(r, "error")
       ELSE /\ Go(r, IF IsUpload(r) THEN "read" ELSE "dedup")
            /\ UNCHANGED mine
    /\ UNCHANGED <<raw, spaces, sources, flow, aged, days, faults>>

CheckCap(r) ==
    /\ At(r, "cap")
    /\ IF Cardinality(InWindow(mine[r].space, User(r))) >= Cap
       THEN Answer(r, "error")
       ELSE /\ Go(r, IF IsUpload(r) THEN "read" ELSE "dedup")
            /\ UNCHANGED mine
    /\ UNCHANGED <<raw, spaces, sources, flow, aged, days, faults>>

-----------------------------------------------------------------------------
(* Storing the document *)

\* A small file is in memory; reading a spooled one gives the event loop away.
ReadFile(r) ==
    /\ \/ At(r, "read") /\ Go(r, IF Req[r].large THEN "reading" ELSE "validate")
       \/ At(r, "reading") /\ Go(r, "validate")
    /\ UNCHANGED <<raw, spaces, sources, mine, flow, aged, days, faults>>

\* The type, the size or the number of pages may be refused.
Validate(r) ==
    /\ At(r, "validate")
    /\ \/ Go(r, "source") /\ UNCHANGED mine
       \/ Answer(r, "error")
    /\ UNCHANGED <<raw, spaces, sources, flow, aged, days, faults>>

\* scalar_one_or_none raises when the name has two rows.
FindSource(r) ==
    /\ At(r, "source")
    /\ IF sources[Req[r].source] > 1
       THEN Answer(r, "error")
       ELSE /\ Go(r, "commit")
            /\ mine' = [mine EXCEPT ![r].src = sources[Req[r].source] = 0]
    /\ UNCHANGED <<raw, spaces, sources, flow, aged, days, faults>>

\* The next document of a connector run, or the answer.
NextDoc(r, m) ==
    IF m.k < Len(Req[r].docs)
    THEN /\ Go(r, "dedup")
         /\ mine' = [mine EXCEPT ![r] = [m EXCEPT !.k = @ + 1]]
    ELSE /\ Go(r, "ok")
         /\ mine' = [mine EXCEPT ![r] = Closed(m)]

\* Variant: the hash of the latest row is not compared, only its source.
Deduplicate_Never(r) ==
    /\ At(r, "dedup")
    /\ Go(r, "commit")
    /\ UNCHANGED <<raw, spaces, sources, mine, flow, aged, days, faults>>

\* An unchanged document is skipped, a new or changed one is stored.
Deduplicate(r) ==
    /\ At(r, "dedup")
    /\ IF \E d \in Earlier(r) : raw[d].doc.hash = Doc(r).hash
       THEN NextDoc(r, [mine[r] EXCEPT !.row = CHOOSE d \in Earlier(r) : TRUE])
       ELSE Go(r, "commit") /\ UNCHANGED mine
    /\ UNCHANGED <<raw, spaces, sources, flow, aged, days, faults>>

NewRow(r) ==
    [doc |-> Doc(r), kind |-> Req[r].kind, space |-> mine[r].space,
     by |-> User(r), failed |-> FALSE, wf |-> FALSE, seen |-> mine[r].seen]

\* The raw document is committed, and with it a new space and source.
CommitRow(r) ==
    /\ At(r, "commit")
    /\ raw' = Append(raw, NewRow(r))
    /\ spaces' = IF mine[r].new THEN spaces \union {mine[r].space} ELSE spaces
    /\ sources' = IF mine[r].src THEN [sources EXCEPT ![Req[r].source] = @ + 1] ELSE sources
    /\ mine' = [mine EXCEPT ![r].new = FALSE, ![r].src = FALSE, ![r].row = Len(raw) + 1]
    /\ Go(r, "start")
    /\ UNCHANGED <<flow, aged, days, faults>>

-----------------------------------------------------------------------------
(* Starting the workflow *)

Launched(r) == [flow EXCEPT ![mine[r].row] = "load"]

StartWorkflow(r) ==
    /\ At(r, "start")
    /\ flow' = Launched(r)
    /\ Go(r, "record")
    /\ UNCHANGED <<raw, spaces, sources, mine, aged, days, faults>>

\* Variant: an upload whose start failed is not marked.
StartFails_Unmarked(r) ==
    /\ At(r, "start")
    /\ Fault("start")
    /\ flow' \in {flow, Launched(r)}
    /\ Answer(r, "error")
    /\ UNCHANGED <<raw, spaces, sources, aged, days>>

\* The call fails, after or before the server accepted it. Only an upload
\* handles that; a push or a connector run ends with the error.
StartFails(r) ==
    /\ At(r, "start")
    /\ Fault("start")
    /\ flow' \in {flow, Launched(r)}
    /\ IF IsUpload(r) THEN Go(r, "stamp") /\ UNCHANGED mine ELSE Answer(r, "error")
    /\ UNCHANGED <<raw, spaces, sources, aged, days>>

StampFailed(r) ==
    /\ At(r, "stamp")
    /\ raw' = [raw EXCEPT ![mine[r].row].failed = TRUE]
    /\ Answer(r, "error")
    /\ UNCHANGED <<spaces, sources, flow, aged, days, faults>>

RecordWorkflowId(r) ==
    /\ At(r, "record")
    /\ raw' = [raw EXCEPT ![mine[r].row].wf = TRUE]
    /\ NextDoc(r, mine[r])
    /\ UNCHANGED <<spaces, sources, flow, aged, days, faults>>

-----------------------------------------------------------------------------
(* The environment *)

\* An API process dies with the requests it serves.
ApiCrashes(p) ==
    LET dying == {r \in Requests : Req[r].api = p /\ InService(r)}
    IN  /\ dying # {}
        /\ Fault("api")
        /\ pc' = [r \in Requests |-> IF r \in dying THEN "lost" ELSE pc[r]]
        /\ mine' = [r \in Requests |->
                      IF r \in dying THEN Closed(mine[r]) ELSE mine[r]]
        /\ UNCHANGED <<raw, spaces, sources, flow, aged, days>>

\* A day passes. Only a request that is about to count some rows can tell.
DayPasses ==
    /\ days < MaxDays
    /\ \E r \in Requests : pc[r] = "cap" /\ InWindow(mine[r].space, User(r)) # {}
    /\ days' = days + 1
    /\ aged' = Len(raw)
    /\ UNCHANGED <<raw, spaces, sources, pc, mine, flow, faults>>

\* What a request does next when nothing goes wrong; Validate may refuse it.
Serve(r) ==
    \/ Lookup(r) \/ ChooseSlug(r) \/ InsertSpace(r) \/ Reread(r) \/ CheckCap(r)
    \/ ReadFile(r) \/ Validate(r) \/ FindSource(r) \/ Deduplicate(r) \/ CommitRow(r)
    \/ StartWorkflow(r) \/ StampFailed(r) \/ RecordWorkflowId(r)

RequestNext ==
    \/ \E r \in Requests : Begin(r) \/ Serve(r) \/ StartFails(r)
    \/ \E p \in {Req[r].api : r \in Requests} : ApiCrashes(p)
    \/ DayPasses

-----------------------------------------------------------------------------
(* Properties *)

\* Concurrent first requests leave one space per user, no two spaces with one
\* slug, and no document in a space that does not exist or is another user's.
OneSpacePerOwner ==
    /\ \A s, t \in spaces : Conflict(s, t) => s = t
    /\ \A d \in DOMAIN raw :
          raw[d].space # NoOne => raw[d].space \in OwnSpaces(raw[d].by)

\* The cap is checked long before the row it counts is there, so requests that
\* overlap can exceed it together; one that is sent when the cap is reached stores
\* nothing.
CapOvershoot ==
    \A s \in spaces : \A d \in InWindow(s, s.owner) :
        Cardinality({e \in InWindow(s, s.owner) : e <= raw[d].seen}) < Cap

\* A document is stored twice in a row with one content only by requests that
\* overlapped: the later one was sent before the earlier row was there.
DuplicatesOverlap ==
    \A d, e \in DOMAIN raw :
        /\ d < e /\ raw[e].kind # "upload" /\ raw[d].doc = raw[e].doc
        /\ \A c \in d + 1..e - 1 : raw[c].doc.id # raw[d].doc.id
        => raw[e].seen < d

\* An upload that is answered with success has a workflow that the row names;
\* one that is answered with an error has no row, or one marked failed.
UploadAnswerTrue ==
    \A r \in Requests :
        LET d == mine[r].row
        IN  IsUpload(r) /\ d # 0 =>
              /\ pc[r] \in {"ok", "done", "failed"} => raw[d].wf /\ flow[d] # "none"
              /\ pc[r] = "error" => raw[d].failed

\* One event loop serves the uploads of a process, and no upload awaits between
\* looking for its source and committing it: a name never gets two rows, which
\* would refuse every later upload with that name.
SourceNameUnique == \A n \in Names : sources[n] <= 1

\* A request that lost the race for its space can go on: none of those it waits
\* for is another upload of its process, which needs the event loop it keeps.
LoserCanGoOn ==
    \A r \in Requests : pc[r] = "insert" =>
        \A q \in Holders(r) : IsUpload(r) /\ IsUpload(q) => Req[q].api # Req[r].api
=============================================================================

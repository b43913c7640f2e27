--------------------------- MODULE MCIngestPipeline ---------------------------
(* Instances of IngestPipeline for TLC.                                     *)
EXTENDS IngestPipeline, TLC

CONSTANTS
    r1, r2, r3, r4,     \* requests
    u1, u2,             \* users
    ann                 \* the slug of both their names

SharedSlug == u1 :> ann @@ u2 :> ann

Request(kind, user, personal, api, large, after, docs) ==
    [kind |-> kind, user |-> user, personal |-> personal, api |-> api,
     source |-> "manual", large |-> large, after |-> after, docs |-> docs]

Text(id, hash) == [id |-> id, hash |-> hash, binary |-> FALSE]
Scan(id, hash) == [id |-> id, hash |-> hash, binary |-> TRUE]

\* A user uploads a large scan into the personal space and a small one for the
\* team; when that is compiled, a thread with the identity and content of the first is saved.
\* The thread and the first upload may both be the first into the space.
OneUser ==
    r1 :> Request("upload", u1, TRUE, "a", TRUE, NoOne, <<Scan("f", 1)>>)
    @@ r2 :> Request("upload", u1, FALSE, "a", FALSE, NoOne, <<Text("g", 2)>>)
    @@ r3 :> Request("conversation", u1, TRUE, "a", FALSE, r2, <<Scan("f", 1)>>)

\* Two large files sent at a time, from two tabs, the first ones of a user.
TwoAtATime ==
    r1 :> Request("upload", u1, TRUE, "a", TRUE, NoOne, <<Text("f", 1)>>)
    @@ r2 :> Request("upload", u1, TRUE, "a", TRUE, NoOne, <<Text("g", 2)>>)

\* A queue of two files, the first one a scan.
ScanFirst ==
    r1 :> Request("upload", u1, TRUE, "a", FALSE, NoOne, <<Scan("f", 1)>>)
    @@ r2 :> Request("upload", u1, TRUE, "a", FALSE, r1, <<Text("g", 2)>>)

\* Only the compilation is tried twice.
TwoAttempts == [a \in Activities |-> IF a = "ingest" THEN 2 ELSE 1]
===============================================================================

------------------------------ MODULE OkfIngest ------------------------------
(***************************************************************************)
(* Concurrent executions of okf_ingest_activity over one OKF bundle.       *)
(*                                                                         *)
(* A job is one document.  Temporal hands its okf_ingest activity to a     *)
(* worker slot, tries again after a failure or a timeout, up to            *)
(* MaxAttempts times, and does not stop the attempt it gave up on, so two  *)
(* attempts of one job can run at once.  An attempt extracts and plans     *)
(* without the lock, composes each body from the page as it is then        *)
(* (phase A), and under the bundle's file lock re-reads, merges and writes *)
(* each page, rebuilds index.md, appends to log.md and commits (phase B).  *)
(*                                                                         *)
(* Slots of one process share an asyncio event loop.  Phase B and the      *)
(* accounting after it have no await, so no other slot of that process     *)
(* runs meanwhile; slots of different processes interleave at every file.  *)
(***************************************************************************)
EXTENDS OkfPages, Sequences

CONSTANTS
    Workers,        \* activity slots
    Processes,      \* worker processes
    ProcessOf,      \* the process each slot runs in
    Extractions,    \* the extractions the model may return for each job
    MaxAttempts,    \* maximum_attempts of the retry policy
    MaxFaults,      \* bound: faults of the kinds below in one behaviour
    FaultKinds,     \* kinds of fault considered
    NoOne           \* neither a worker nor a run nor a write

ASSUME IngestAssumption ==
    /\ ProcessOf \in [Workers -> Processes]
    /\ Extractions \in [Jobs -> SUBSET Extraction]
    /\ MaxAttempts \in Nat \ {0}
    /\ MaxFaults \in Nat
    /\ FaultKinds \subseteq {"crash", "disk", "llm", "timeout", "lock", "git", "db"}
    /\ NoOne \notin Workers

VARIABLES
    files,      \* the working tree's pages
    index,      \* the rows of index.md
    log,        \* the entries of log.md
    head,       \* the pages and index of the last commit
    gitLock,    \* git left its index.lock behind
    damaged,    \* pages that a write cut short once left parsable (ghost)
    lock,       \* holder of .okf.lock
    pc,         \* what each slot does next
    run,        \* the attempt each slot executes
    todo,       \* pages left in the slot's current phase
    cur,        \* the page a slot is half way through writing
    status,     \* each job's activity, as the Temporal server sees it
    attempts,   \* attempts of each job so far
    owner,      \* the slot of each job's current attempt
    recorded,   \* jobs with an ingest_runs row of this activity
    faults      \* faults so far

bundleVars == <<files, index, log, head, gitLock, damaged>>
slotVars   == <<pc, run, todo, cur>>
serverVars == <<status, attempts, owner>>
vars == <<files, index, log, head, gitLock, damaged, lock, pc, run, todo, cur,
          status, attempts, owner, recorded, faults>>

-----------------------------------------------------------------------------
(* State *)

PhaseB == {"write", "writing", "log", "commit"}

\* From the blocking acquire of the lock to the end of the accounting nothing
\* else runs in the slot's process.
NoAwait == {"locking", "record"} \union PhaseB

\* An attempt: its job, its number, the extraction it goes by, the pages it
\* planned, the facts it composed into each body, and the slugs it created and
\* updated so far.
Run == [job : Jobs, n : 1..MaxAttempts, ext : Extraction, ops : SUBSET Pages,
        body : [Pages -> SUBSET Jobs], created : SUBSET Slugs,
        updated : SUBSET Slugs]

Write == [page : Pages, new : Content]

LogEntry == [subject : Slugs, created : SUBSET Slugs, updated : SUBSET Slugs]

\* A commit.
Snapshot == [files : Tree, index : SUBSET (Pages \X Jobs)]

ASSUME NoOneAssumption == NoOne \notin Run /\ NoOne \notin Write

\* The type of the state; besides, an attempt number never passes the retry
\* policy's maximum, and a slot is idle exactly when it executes no attempt.
TypeOK ==
    /\ files \in Tree
    /\ index \subseteq Pages \X Jobs
    /\ log \in Seq(LogEntry)
    /\ head \in Snapshot
    /\ gitLock \in BOOLEAN
    /\ damaged \subseteq Pages
    /\ lock \in Workers \union {NoOne}
    /\ pc \in [Workers -> {"idle", "compose", "reply"} \union NoAwait]
    /\ run \in [Workers -> Run \union {NoOne}]
    /\ \A w \in Workers : run[w] = NoOne <=> pc[w] = "idle"
    /\ todo \in [Workers -> SUBSET Pages]
    /\ cur \in [Workers -> Write \union {NoOne}]
    /\ \A w \in Workers : cur[w] = NoOne <=> pc[w] # "writing"
    /\ status \in [Jobs -> {"queued", "running", "done", "failed"}]
    /\ attempts \in [Jobs -> 0..MaxAttempts]
    /\ \A j \in Jobs : status[j] = "queued" => attempts[j] < MaxAttempts
    /\ owner \in [Jobs -> Workers \union {NoOne}]
    /\ recorded \subseteq Jobs
    /\ faults \in 0..MaxFaults

Init ==
    /\ files = EmptyTree
    /\ index = {}
    /\ log = <<>>
    /\ head = [files |-> EmptyTree, index |-> {}]
    /\ gitLock = FALSE
    /\ damaged = {}
    /\ lock = NoOne
    /\ pc = [w \in Workers |-> "idle"]
    /\ run = [w \in Workers |-> NoOne]
    /\ todo = [w \in Workers |-> {}]
    /\ cur = [w \in Workers |-> NoOne]
    /\ status = [j \in Jobs |-> "queued"]
    /\ attempts = [j \in Jobs |-> 0]
    /\ owner = [j \in Jobs |-> NoOne]
    /\ recorded = {}
    /\ faults = 0

-----------------------------------------------------------------------------
(* Helpers *)

\* The slot's event loop is free for it: no other slot of its process is in a
\* stretch of code without an await.
HasLoop(w) ==
    \A v \in Workers \ {w} : ProcessOf[v] = ProcessOf[w] => pc[v] \notin NoAwait

\* The attempt the slot executes is the one the server is waiting for.
IsCurrent(w) ==
    owner[run[w].job] = w /\ attempts[run[w].job] = run[w].n

Fault(kind) ==
    /\ kind \in FaultKinds
    /\ faults < MaxFaults
    /\ faults' = faults + 1

\* The slots in W stop what they were doing; leaving the `with' block, or the
\* death of the process, gives the file lock back.
Leave(W) ==
    /\ pc' = [w \in Workers |-> IF w \in W THEN "idle" ELSE pc[w]]
    /\ run' = [w \in Workers |-> IF w \in W THEN NoOne ELSE run[w]]
    /\ todo' = [w \in Workers |-> IF w \in W THEN {} ELSE todo[w]]
    /\ cur' = [w \in Workers |-> IF w \in W THEN NoOne ELSE cur[w]]
    /\ lock' = IF lock \in W THEN NoOne ELSE lock

\* Variants: one attempt too many, no second attempt, an outcome that is lost.
GiveUp_OffByOne(j) ==
    /\ status' = [status EXCEPT ![j] = IF attempts[j] <= MaxAttempts THEN "queued" ELSE "failed"]
    /\ owner' = [owner EXCEPT ![j] = NoOne]
    /\ UNCHANGED attempts

GiveUp_NoRetry(j) ==
    /\ status' = [status EXCEPT ![j] = "failed"]
    /\ owner' = [owner EXCEPT ![j] = NoOne]
    /\ UNCHANGED attempts

GiveUp_Forgets(j) ==
    /\ owner' = [owner EXCEPT ![j] = NoOne]
    /\ UNCHANGED <<status, attempts>>

\* The server gives up on the current attempt of j: it queues another one
\* while the retry policy allows.
GiveUp(j) ==
    /\ status' = [status EXCEPT ![j] = IF attempts[j] < MaxAttempts THEN "queued" ELSE "failed"]
    /\ owner' = [owner EXCEPT ![j] = NoOne]
    /\ UNCHANGED attempts

\* Variant: the activity swallows its exception and returns.
Raise_Swallowed(w) ==
    /\ Leave({w})
    /\ status' = [status EXCEPT ![run[w].job] = "done"]
    /\ UNCHANGED <<attempts, owner>>

\* The activity raises: the server learns of it if it still waits for w.
Raise(w) ==
    /\ Leave({w})
    /\ IF IsCurrent(w) THEN GiveUp(run[w].job) ELSE UNCHANGED serverVars

-----------------------------------------------------------------------------
(* Phase A: no lock is held *)

\* The server hands a queued job to an idle slot, which extracts, relates and
\* resolves.  The plan is made from the file names there are at this moment;
\* the model's answers do not depend on shared state.
StartAttempt(w, j, e) ==
    /\ pc[w] = "idle" /\ HasLoop(w)
    /\ status[j] = "queued"
    /\ e \in Extractions[j] /\ Related(e, files)
    /\ status' = [status EXCEPT ![j] = "running"]
    /\ attempts' = [attempts EXCEPT ![j] = @ + 1]
    /\ owner' = [owner EXCEPT ![j] = w]
    /\ pc' = [pc EXCEPT ![w] = "compose"]
    /\ run' = [run EXCEPT ![w] =
                [job |-> j, n |-> attempts[j] + 1, ext |-> Effective(e, files),
                 ops |-> Plan(e, files), body |-> [p \in Pages |-> {}], created |-> {}, updated |-> {}]]
    /\ todo' = [todo EXCEPT ![w] = Plan(e, files)]
    /\ UNCHANGED <<bundleVars, lock, cur, recorded, faults>>

\* Variant: the existing body is not given to the model.
Compose_FromScratch(w, p) ==
    /\ pc[w] = "compose" /\ HasLoop(w)
    /\ IsNext(p, todo[w])
    /\ files[p] # Torn
    /\ run' = [run EXCEPT ![w].body[p] = {run[w].job}]
    /\ todo' = [todo EXCEPT ![w] = @ \ {p}]
    /\ UNCHANGED <<bundleVars, lock, pc, cur, serverVars, recorded, faults>>

\* One body is composed: the model merges the new facts into the body the page
\* has now.  The result is used much later, under the lock.
Compose(w, p) ==
    /\ pc[w] = "compose" /\ HasLoop(w)
    /\ IsNext(p, todo[w])
    /\ files[p] # Torn
    /\ run' = [run EXCEPT ![w].body[p] =
                {run[w].job} \union IF files[p] = Absent THEN {} ELSE files[p].facts]
    /\ todo' = [todo EXCEPT ![w] = @ \ {p}]
    /\ UNCHANGED <<bundleVars, lock, pc, cur, serverVars, recorded, faults>>

\* read_page raises on a file that does not parse.
ComposeTorn(w, p) ==
    /\ pc[w] = "compose" /\ HasLoop(w)
    /\ IsNext(p, todo[w])
    /\ files[p] = Torn
    /\ Raise(w)
    /\ UNCHANGED <<bundleVars, recorded, faults>>

\* A model call fails for good (rate limit, gateway error).
LlmFails(w) ==
    /\ pc[w] = "compose" /\ HasLoop(w)
    /\ Fault("llm")
    /\ Raise(w)
    /\ UNCHANGED <<bundleVars, recorded>>

\* Every body is composed: the slot blocks on the lock file.
ReachLock(w) ==
    /\ pc[w] = "compose" /\ HasLoop(w)
    /\ todo[w] = {}
    /\ pc' = [pc EXCEPT ![w] = "locking"]
    /\ todo' = [todo EXCEPT ![w] = run[w].ops]
    /\ UNCHANGED <<bundleVars, lock, run, cur, serverVars, recorded, faults>>

-----------------------------------------------------------------------------
(* Phase B: under the lock *)

Acquire(w) ==
    /\ pc[w] = "locking"
    /\ lock = NoOne
    /\ lock' = w
    /\ pc' = [pc EXCEPT ![w] = "write"]
    /\ UNCHANGED <<bundleVars, run, todo, cur, serverVars, recorded, faults>>

\* Another process holds the lock for longer than the timeout of `lock()'.
LockTimesOut(w) ==
    /\ pc[w] = "locking"
    /\ lock # NoOne
    /\ Fault("lock")
    /\ Raise(w)
    /\ UNCHANGED <<bundleVars, recorded>>

\* The page an attempt writes: its own, merged with the one that is there now.
NewPage(w, p) ==
    LET page == Prepared(run[w].job, p, run[w].ext, run[w].body[p])
    IN  IF files[p] = Absent THEN page ELSE MergeExisting(page, files[p])

\* Variant: created or updated is decided by what phase A saw.
Noted_FromPhaseA(r, p) ==
    IF r.body[p] = {r.job}
    THEN [r EXCEPT !.created = @ \union {SlugOf(p)}]
    ELSE [r EXCEPT !.updated = @ \union {SlugOf(p)}]

\* What the attempt will report of p: created or updated.
Noted(r, p) ==
    IF files[p] = Absent
    THEN [r EXCEPT !.created = @ \union {SlugOf(p)}]
    ELSE [r EXCEPT !.updated = @ \union {SlugOf(p)}]

\* The page is read again and its metadata merged; write_text truncates the
\* file before it writes the new text ...
BeginWrite(w, p) ==
    /\ pc[w] = "write"
    /\ IsNext(p, todo[w])
    /\ files[p] # Torn
    /\ cur' = [cur EXCEPT ![w] = [page |-> p, new |-> NewPage(w, p)]]
    /\ run' = [run EXCEPT ![w] = Noted(@, p)]
    /\ files' = [files EXCEPT ![p] = Torn]
    /\ todo' = [todo EXCEPT ![w] = @ \ {p}]
    /\ pc' = [pc EXCEPT ![w] = "writing"]
    /\ UNCHANGED <<index, log, head, gitLock, damaged, lock, serverVars, recorded, faults>>

\* ... and a part of it that parses may be on the disk before the rest.
FlushPart(w) ==
    /\ pc[w] = "writing"
    /\ files[cur[w].page] = Torn
    /\ \E part \in CutShort(cur[w].new) : files' = [files EXCEPT ![cur[w].page] = part]
    /\ UNCHANGED <<index, log, head, gitLock, damaged, lock, slotVars, serverVars, recorded, faults>>

EndWrite(w) ==
    /\ pc[w] = "writing"
    /\ files' = [files EXCEPT ![cur[w].page] = cur[w].new]
    /\ cur' = [cur EXCEPT ![w] = NoOne]
    /\ pc' = [pc EXCEPT ![w] = "write"]
    /\ UNCHANGED <<index, log, head, gitLock, damaged, lock, run, todo, serverVars, recorded, faults>>

\* The write of a page, of index.md or of log.md stops half way, and the file
\* stays as it is then: torn, cut short, or without its last rows.
PageCut(w) ==
    /\ pc[w] = "writing"
    /\ damaged' = damaged \union ({cur[w].page} \intersect Readable(files))
    /\ UNCHANGED <<index, log>>

IndexCut(w) ==
    /\ pc[w] = "write" /\ todo[w] = {}
    /\ \A p \in Pages : files[p] # Torn
    /\ index' \in SUBSET Catalog(files)
    /\ UNCHANGED <<log, damaged>>

LogCut(w) ==
    /\ pc[w] = "log"
    /\ \E c \in SUBSET run[w].created, u \in SUBSET run[w].updated :
          log' = Append(log, [subject |-> run[w].ext.source, created |-> c, updated |-> u])
    /\ UNCHANGED <<index, damaged>>

WriteCut(w) == PageCut(w) \/ IndexCut(w) \/ LogCut(w)

\* A write fails (disk full).
DiskFails(w) ==
    /\ WriteCut(w)
    /\ Fault("disk")
    /\ Raise(w)
    /\ UNCHANGED <<files, head, gitLock, recorded>>

WriteTorn(w, p) ==
    /\ pc[w] = "write"
    /\ IsNext(p, todo[w])
    /\ files[p] = Torn
    /\ Raise(w)
    /\ UNCHANGED <<bundleVars, recorded, faults>>

\* Variant: the index is built from the file names.
UpdateIndex_NamesOnly(w) ==
    /\ pc[w] = "write"
    /\ todo[w] = {}
    /\ index' = Catalog(files)
    /\ pc' = [pc EXCEPT ![w] = "log"]
    /\ UNCHANGED <<files, log, head, gitLock, damaged, lock, run, todo, cur, serverVars, recorded, faults>>

\* update_index reads every page of the bundle ...
UpdateIndex(w) ==
    /\ pc[w] = "write"
    /\ todo[w] = {}
    /\ \A p \in Pages : files[p] # Torn
    /\ index' = Catalog(files)
    /\ pc' = [pc EXCEPT ![w] = "log"]
    /\ UNCHANGED <<files, log, head, gitLock, damaged, lock, run, todo, cur, serverVars, recorded, faults>>

\* ... and raises if one of them does not parse.
IndexTorn(w) ==
    /\ pc[w] = "write"
    /\ todo[w] = {}
    /\ \E p \in Pages : files[p] = Torn
    /\ Raise(w)
    /\ UNCHANGED <<bundleVars, recorded, faults>>

\* Variant: the lock covers the pages and the index, not the log and the commit.
AppendLog_Unlocks(w) ==
    /\ pc[w] = "log"
    /\ log' = Append(log, [subject |-> run[w].ext.source,
                           created |-> run[w].created, updated |-> run[w].updated])
    /\ lock' = NoOne
    /\ pc' = [pc EXCEPT ![w] = "commit"]
    /\ UNCHANGED <<files, index, head, gitLock, damaged, run, todo, cur, serverVars, recorded, faults>>

AppendLog(w) ==
    /\ pc[w] = "log"
    /\ log' = Append(log, [subject |-> run[w].ext.source,
                           created |-> run[w].created, updated |-> run[w].updated])
    /\ pc' = [pc EXCEPT ![w] = "commit"]
    /\ UNCHANGED <<files, index, head, gitLock, damaged, lock, run, todo, cur, serverVars, recorded, faults>>

\* What git add -A and commit would commit now.
Staged == [files |-> files, index |-> index]

\* git add -A, commit, and the end of the `with' block.
Commit(w) ==
    /\ pc[w] = "commit"
    /\ ~gitLock
    /\ head' = Staged
    /\ lock' = NoOne
    /\ pc' = [pc EXCEPT ![w] = "record"]
    /\ UNCHANGED <<files, index, log, gitLock, damaged, run, todo, cur, serverVars, recorded, faults>>

\* No commit is made: _git swallows the error and the ingest goes on.
SwallowsError(w) ==
    /\ pc[w] = "commit"
    /\ lock' = NoOne
    /\ pc' = [pc EXCEPT ![w] = "record"]
    /\ UNCHANGED <<bundleVars, run, todo, cur, serverVars, recorded>>

\* A git command fails once ...
GitFails(w) == SwallowsError(w) /\ Fault("git")

\* ... or every time, because index.lock is there and nobody removes it.
GitLockedOut(w) == SwallowsError(w) /\ gitLock /\ UNCHANGED faults

\* The ingest_runs row; its failure is logged and ignored.
RecordRun(w) ==
    /\ pc[w] = "record"
    /\ \/ recorded' = recorded \union {run[w].job} /\ UNCHANGED faults
       \/ Fault("db") /\ UNCHANGED recorded
    /\ pc' = [pc EXCEPT ![w] = "reply"]
    /\ UNCHANGED <<bundleVars, lock, run, todo, cur, serverVars>>

\* The result reaches the server, which ignores it if it gave up on the attempt.
Reply(w) ==
    /\ pc[w] = "reply" /\ HasLoop(w)
    /\ Leave({w})
    /\ IF IsCurrent(w)
       THEN /\ status' = [status EXCEPT ![run[w].job] = "done"]
            /\ owner' = [owner EXCEPT ![run[w].job] = NoOne]
            /\ UNCHANGED attempts
       ELSE UNCHANGED serverVars
    /\ UNCHANGED <<bundleVars, recorded, faults>>

-----------------------------------------------------------------------------
(* Process deaths and timeouts *)

\* A git command is killed: index.lock stays, before or after the commit.
GitKilled(w) ==
    /\ pc[w] = "commit"
    /\ gitLock' = TRUE
    /\ head' \in {head} \union IF gitLock THEN {} ELSE {Staged}
    /\ UNCHANGED <<index, log, damaged>>

\* A worker process dies, maybe in the middle of a write or of a git command:
\* the operating system releases its file lock.
Crash(p) ==
    LET W == {w \in Workers : ProcessOf[w] = p}
    IN  /\ \E w \in W : pc[w] # "idle"
        /\ Fault("crash")
        /\ Leave(W)
        /\ \/ /\ \A w \in W : pc[w] # "writing"
              /\ UNCHANGED <<index, log, damaged, head, gitLock>>
           \/ \E w \in W : WriteCut(w) /\ UNCHANGED <<head, gitLock>>
           \/ \E w \in W : GitKilled(w)
        /\ UNCHANGED <<files, serverVars, recorded>>

\* Some slot still executes the current attempt of j.
Alive(j) ==
    \E w \in Workers : run[w] # NoOne /\ run[w].job = j /\ IsCurrent(w)

\* start_to_close_timeout of an attempt that died with its process.
DeadAttemptTimesOut(j) ==
    /\ status[j] = "running"
    /\ ~Alive(j)
    /\ GiveUp(j)
    /\ UNCHANGED <<bundleVars, lock, slotVars, recorded, faults>>

\* The same of an attempt that is merely slow: it goes on.
SlowAttemptTimesOut(j) ==
    /\ status[j] = "running"
    /\ Alive(j)
    /\ Fault("timeout")
    /\ GiveUp(j)
    /\ UNCHANGED <<bundleVars, lock, slotVars, recorded>>

\* The SDK cancels an attempt that was given up on; the cancellation is
\* delivered at an await, so only in phase A.
CancelStale(w) ==
    /\ pc[w] = "compose" /\ HasLoop(w)
    /\ ~IsCurrent(w)
    /\ Leave({w})
    /\ UNCHANGED <<bundleVars, serverVars, recorded, faults>>

-----------------------------------------------------------------------------
(* Specification *)

\* The steps of one slot that the code takes by itself.
Step(w) ==
    \/ \E p \in Pages : Compose(w, p) \/ ComposeTorn(w, p)
                        \/ BeginWrite(w, p) \/ WriteTorn(w, p)
    \/ ReachLock(w) \/ Acquire(w) \/ EndWrite(w)
    \/ UpdateIndex(w) \/ IndexTorn(w) \/ AppendLog(w) \/ Commit(w) \/ GitLockedOut(w)
    \/ RecordRun(w) \/ Reply(w)

Start(j) == \E w \in Workers : \E e \in Extractions[j] : StartAttempt(w, j, e)

\* All jobs are settled and all slots idle.
Finished ==
    /\ \A j \in Jobs : status[j] \in {"done", "failed"}
    /\ \A w \in Workers : pc[w] = "idle"
    /\ UNCHANGED vars

Next ==
    \/ \E j \in Jobs : Start(j) \/ DeadAttemptTimesOut(j) \/ SlowAttemptTimesOut(j)
    \/ \E w \in Workers : \/ Step(w) \/ LlmFails(w) \/ LockTimesOut(w)
                          \/ FlushPart(w) \/ DiskFails(w) \/ GitFails(w) \/ CancelStale(w)
    \/ \E p \in Processes : Crash(p)
    \/ Finished

Spec == Init /\ [][Next]_vars

\* The event loops keep running their coroutines, the file lock is polled until
\* it is free, and the Temporal server schedules attempts and enforces timeouts.
Fairness ==
    /\ \A w \in Workers : WF_vars(Step(w))
    /\ \A j \in Jobs : WF_vars(Start(j)) /\ WF_vars(DeadAttemptTimesOut(j))

FairSpec == Spec /\ Fairness

-----------------------------------------------------------------------------
(* Properties *)

Committed(p) == head.files[p] \notin {Absent, Torn}

\* A commit never contains a page that does not parse, whatever a crash left in
\* the working tree that `git add -A' stages.
NoTornPageCommitted == \A p \in Pages : head.files[p] # Torn

\* The committed index.md has exactly the rows of the committed pages, although
\* other attempts write pages between the moment an attempt plans and commits.
CommittedIndexExact == head.index = Catalog(head.files)

History == INSTANCE WikiHistory

\* The commits an ingest makes are a WikiHistory: pages are only added or
\* revised, and keep their creation stamp and their aliases (_merge_existing),
\* whatever interleaving, timeout or crash happened in between.
HistoryOnlyGrows == History!Spec

\* Every planned link of a committed page leads to a committed page
\* (_sanitize_links: "the rendered wiki carries no broken links").
CommittedLinksResolve ==
    \A p \in Pages : Committed(p) =>
        head.files[p].links \subseteq ExistingSlugs(head.files)

\* log.md says "created" once for each page of a slug: two ingests that plan the
\* same new page do not both report it created.
CreatedLoggedOnce ==
    \A s \in Slugs :
        Cardinality({i \in DOMAIN log : s \in log[i].created})
            <= Cardinality({p \in Existing(files) : SlugOf(p) = s})

\* What the system reports of a job: its activity is done, or it has its
\* ingest_runs row (which is what GET /ingest/status reads).
Reported(j) == status[j] = "done" \/ j \in recorded

\* A git failure is swallowed, and one that a killed git leaves behind lasts, so
\* a job may be reported compiled with nothing committed.  But every commit that
\* is made holds all jobs reported by then: the source page of each is in it,
\* with the job's facts unless a write of that page was cut short.
CommitsHoldReported ==
    [][\A j \in Jobs : Reported(j) =>
          \E p \in Pages : /\ TypeOf(p) = "source" /\ Committed(p)'
                           /\ p \in damaged \/ j \in head'.files[p].facts]_head

\* Later ingests never take from a committed page what it says: the facts of a
\* page's body are still there in every later commit, unless a write of that
\* page was cut short and what was left of it parses.
FactsNeverLost ==
    [][\A p \in Pages : Committed(p) =>
          /\ Committed(p)'
          /\ p \in damaged \/ head.files[p].facts \subseteq head'.files[p].facts]_head

\* No two pages of the working tree share a slug, since items are keyed by slug.
OneTypePerSlug ==
    \A p, q \in Existing(files) : SlugOf(p) = SlugOf(q) => p = q

\* Every job ends: it is done, or its attempts are used up.
EveryJobSettles ==
    \A j \in Jobs : <>(status[j] \in {"done", "failed"})

\* With fewer faults than attempts every job is compiled in the end.
EveryJobCompletes == \A j \in Jobs : <>(status[j] = "done")
=============================================================================

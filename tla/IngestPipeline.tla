---------------------------- MODULE IngestPipeline ----------------------------
(***************************************************************************)
(* The whole way of a document: the requests of IngestRequests, the        *)
(* IngestWorkflow that each accepted document gets, run activity by        *)
(* activity by the worker, and the status that clients poll.               *)
(*                                                                         *)
(* An activity is one step for its effect; where it writes twice (pages,   *)
(* then the ingest_runs row) it is several, and an attempt may be lost     *)
(* between them.  An attempt that the server gave up, because it took too  *)
(* long or its workflow was cancelled, is not told so, and may do the rest *)
(* after its workflow has gone on or ended.  What happens inside           *)
(* okf_ingest and okf_mirror is the subject of OkfIngest and OkfMirror;    *)
(* the redaction before okf_ingest changes nothing and is part of its step.*)
(***************************************************************************)
EXTENDS IngestRequests

CONSTANT Attempts   \* maximum_attempts of each activity

Activities == {"load", "extract", "ingest", "mirror", "embed"}

ASSUME AttemptsAssumption == Attempts \in [Activities -> Nat \ {0}]

\* Where an attempt with something left to do can stand.
GoesOn == ({"extract", "ingest"} \X {"effect", "record"}) \union {<<"mirror", "effect">>}

VARIABLES
    tries,      \* attempts of each workflow's current activity that were lost
    at,         \* what the current attempt does next
    pages,      \* documents with committed pages in their bundle
    runs,       \* ingest_runs rows of each document
    served,     \* documents whose pages are mirrored
    strays      \* attempts at each document that were given up and still run

workerVars == <<tries, at, pages, runs, served, strays>>
vars == <<requestVars, workerVars>>

Ended == {"completed", "failed", "cancelled"}

TypeOK ==
    /\ RequestTypeOK
    /\ flow \in [DocIds -> Activities \union Ended \union {"none"}]
    /\ tries \in [DocIds -> Nat]
    /\ at \in [DocIds -> {"effect", "record"}]
    /\ pages \subseteq DocIds /\ served \subseteq DocIds
    /\ runs \in [DocIds -> [extract : Nat, ingest : Nat]]
    /\ strays \in [DocIds -> [GoesOn -> Nat]]
    /\ \A d \in DocIds : at[d] # "effect" => flow[d] \in {"extract", "ingest"}

Init ==
    /\ RequestInit
    /\ tries = [d \in DocIds |-> 0]
    /\ at = [d \in DocIds |-> "effect"]
    /\ pages = {} /\ served = {}
    /\ runs = [d \in DocIds |-> [extract |-> 0, ingest |-> 0]]
    /\ strays = [d \in DocIds |-> [x \in GoesOn |-> 0]]

-----------------------------------------------------------------------------
(* The workflow of document d *)

SameBundle(d, e) == raw[d].space = raw[e].space

\* Variant: the next activity begins where the one before stopped.
Continue_KeepsPlace(d, to) ==
    /\ flow' = [flow EXCEPT ![d] = to]
    /\ tries' = [tries EXCEPT ![d] = 0]
    /\ UNCHANGED at

\* The workflow goes on to another activity, or ends.
Continue(d, to) ==
    /\ flow' = [flow EXCEPT ![d] = to]
    /\ tries' = [tries EXCEPT ![d] = 0]
    /\ at' = [at EXCEPT ![d] = "effect"]

Running(d, activity, step) == flow[d] = activity /\ at[d] = step

Keep == UNCHANGED <<raw, spaces, sources, pc, mine, aged, days>>

LoadRawDocument(d) ==
    /\ Running(d, "load", "effect")
    /\ Continue(d, IF raw[d].doc.binary THEN "extract" ELSE "ingest")
    /\ UNCHANGED <<pages, runs, served, strays, faults>> /\ Keep

\* Every page is transcribed, or nothing can be read and no retry will help.
ExtractText(d) ==
    /\ Running(d, "extract", "effect")
    /\ \/ /\ at' = [at EXCEPT ![d] = "record"]
          /\ UNCHANGED <<flow, tries>>
       \/ Continue(d, "failed")
    /\ UNCHANGED <<pages, runs, served, strays, faults>> /\ Keep

\* The rows of ingest_runs with one more for an activity on document d.
Recorded(d, activity) == [runs EXCEPT ![d][activity] = @ + 1]

\* Variant: the usage is recorded before the pages are committed.
OkfIngest_RecordFirst(d) ==
    /\ Running(d, "ingest", "effect")
    /\ at' = [at EXCEPT ![d] = "record"]
    /\ runs' = Recorded(d, "ingest")
    /\ UNCHANGED <<flow, tries, pages, served, strays, faults>> /\ Keep

\* The pages of the document are committed in the bundle of its space.
OkfIngest(d) ==
    /\ Running(d, "ingest", "effect")
    /\ pages' = pages \union {d}
    /\ at' = [at EXCEPT ![d] = "record"]
    /\ UNCHANGED <<flow, tries, runs, served, strays, faults>> /\ Keep

\* Accounting is best effort: when it fails, the activity goes on without it.
RecordRun(d) ==
    /\ flow[d] \in {"extract", "ingest"} /\ at[d] = "record"
    /\ Continue(d, IF flow[d] = "extract" THEN "ingest" ELSE "mirror")
    /\ \/ /\ runs' = Recorded(d, flow[d])
          /\ UNCHANGED faults
       \/ /\ Fault("accounting")
          /\ UNCHANGED runs
    /\ UNCHANGED <<pages, served, strays>> /\ Keep

\* Variant: only the document's own pages are mirrored, and only if new.
OkfMirror_Skipped(d) ==
    /\ Running(d, "mirror", "effect")
    /\ Continue(d, "embed")
    /\ UNCHANGED <<pages, runs, served, strays, faults>> /\ Keep

\* What is in the index after the bundle of document d is mirrored, pages of
\* other documents included.
Mirrored(d) == served \union {e \in pages : SameBundle(d, e)}

OkfMirror(d) ==
    /\ Running(d, "mirror", "effect")
    /\ served' = Mirrored(d)
    /\ Continue(d, "embed")
    /\ UNCHANGED <<pages, runs, strays, faults>> /\ Keep

EmbedKick(d) ==
    /\ Running(d, "embed", "effect")
    /\ Continue(d, "completed")
    /\ UNCHANGED <<pages, runs, served, strays, faults>> /\ Keep

\* What an attempt may have done when nobody hears of its end.
MaybeDone(d) ==
    /\ runs' \in {runs} \union (IF at[d] = "record" THEN {Recorded(d, flow[d])} ELSE {})
    /\ served' \in {served} \union (IF flow[d] = "mirror" THEN {Mirrored(d)} ELSE {})
    /\ UNCHANGED strays

\* The attempt does not know that nobody waits for it any more: no activity but
\* the extraction heartbeats, and that one only before each page.
StillRuns(d) ==
    /\ <<flow[d], at[d]>> \in GoesOn
    /\ strays' = [strays EXCEPT ![d][<<flow[d], at[d]>>] = @ + 1]
    /\ UNCHANGED <<runs, served>>

\* Variant: an attempt that is lost counts as the activity's end.
AttemptLost_Swallowed(d) ==
    /\ flow[d] \in Activities
    /\ Fault("attempt")
    /\ Continue(d, "completed")
    /\ MaybeDone(d)
    /\ UNCHANGED pages /\ Keep

\* An attempt raises, times out or dies with its worker, or its answer is lost. It
\* is tried again, and after the last one the workflow fails; only the embedding
\* may fail silently.
AttemptLost(d) ==
    /\ flow[d] \in Activities
    /\ Fault("attempt")
    /\ IF tries[d] + 1 < Attempts[flow[d]]
       THEN /\ tries' = [tries EXCEPT ![d] = @ + 1]
            /\ at' = [at EXCEPT ![d] = "effect"]
            /\ UNCHANGED flow
       ELSE Continue(d, IF flow[d] = "embed" THEN "completed" ELSE "failed")
    /\ MaybeDone(d) \/ StillRuns(d)
    /\ UNCHANGED pages /\ Keep

\* Somebody cancels the workflow; the handler around the embedding lets it pass.
Cancel(d) ==
    /\ flow[d] \in Activities
    /\ Fault("cancel")
    /\ Continue(d, "cancelled")
    /\ MaybeDone(d) \/ StillRuns(d)
    /\ UNCHANGED pages /\ Keep

Work(d) ==
    \/ LoadRawDocument(d) \/ ExtractText(d) \/ OkfIngest(d)
    \/ RecordRun(d) \/ OkfMirror(d) \/ EmbedKick(d)

-----------------------------------------------------------------------------
(* The attempts at document d that were given up. One that never moves again *)
(* has died, or has been told by its heartbeat.                              *)

\* The transcription, or the compilation with its commit, comes to its end.
LateEffect(d, activity) ==
    /\ strays[d][<<activity, "effect">>] > 0
    /\ strays' = [strays EXCEPT ![d][<<activity, "effect">>] = @ - 1,
                                ![d][<<activity, "record">>] = @ + 1]
    /\ pages' = IF activity = "ingest" THEN pages \union {d} ELSE pages
    /\ UNCHANGED <<flow, tries, at, runs, served, faults>> /\ Keep

\* Its usage is recorded, whatever has become of the workflow.
LateRecord(d, activity) ==
    /\ strays[d][<<activity, "record">>] > 0
    /\ strays' = [strays EXCEPT ![d][<<activity, "record">>] = @ - 1]
    /\ runs' = Recorded(d, activity)
    /\ UNCHANGED <<flow, tries, at, pages, served, faults>> /\ Keep

\* The bundle is mirrored, with what was committed meanwhile.
LateMirror(d) ==
    /\ strays[d][<<"mirror", "effect">>] > 0
    /\ strays' = [strays EXCEPT ![d][<<"mirror", "effect">>] = @ - 1]
    /\ served' = Mirrored(d)
    /\ UNCHANGED <<flow, tries, at, pages, runs, faults>> /\ Keep

Late(d) ==
    \/ \E activity \in {"extract", "ingest"} : LateEffect(d, activity) \/ LateRecord(d, activity)
    \/ LateMirror(d)

-----------------------------------------------------------------------------
(* The client's queue *)

\* What ingest_status derives: nothing writes raw_documents.status on the way.
Status(d) ==
    IF raw[d].failed THEN "failed"
    ELSE IF runs[d].extract + runs[d].ingest > 0 THEN "done"
    ELSE "processing"

\* The client of an upload polls until the status is final.
Poll(r) ==
    /\ pc[r] = "ok" /\ IsUpload(r)
    /\ Status(mine[r].row) \in {"done", "failed"}
    /\ Go(r, Status(mine[r].row))
    /\ UNCHANGED <<raw, spaces, sources, mine, flow, aged, days, faults, workerVars>>

\* Variant: the client polls for ever.
PollGivesUp_Never(r) ==
    /\ pc[r] = "ok" /\ IsUpload(r)
    /\ Status(mine[r].row) = "processing"
    /\ UNCHANGED vars

\* After maxAttempts polls the client takes the job for failed.
PollGivesUp(r) ==
    /\ pc[r] = "ok" /\ IsUpload(r)
    /\ Status(mine[r].row) = "processing"
    /\ Go(r, "failed")
    /\ UNCHANGED <<raw, spaces, sources, mine, flow, aged, days, faults, workerVars>>

\* The clients know the outcome of their requests.
AllSettled == \A r \in Requests : Settled(r)

WorkflowsEnded == \A d \in DocIds : flow[d] \in Ended \union {"none"}

Finished == AllSettled /\ WorkflowsEnded /\ UNCHANGED vars

Next ==
    \/ RequestNext /\ UNCHANGED workerVars
    \/ \E d \in DocIds : Work(d) \/ AttemptLost(d) \/ Cancel(d) \/ Late(d)
    \/ \E r \in Requests : Poll(r) \/ PollGivesUp(r)
    \/ Finished

\* The API, the worker and the clients do not all stop while one of them has
\* something to do that is not a fault. No more is needed: none of them can keep
\* busy for ever, so each gets its turn.
Progress ==
    \/ \E d \in DocIds : Work(d)
    \/ \E r \in Requests : (Begin(r) \/ Serve(r)) /\ UNCHANGED workerVars
    \/ \E r \in Requests : Poll(r) \/ PollGivesUp(r)

Fairness == WF_vars(Progress)

Spec == Init /\ [][Next]_vars /\ Fairness

-----------------------------------------------------------------------------
(* Properties *)

\* A workflow that completed has put the pages of its document into the index,
\* and nothing is in the index that is in no bundle.
CompletedIsServed ==
    /\ \A d \in DocIds : flow[d] = "completed" => d \in served
    /\ served \subseteq pages

\* A client that sends its documents one after the other, waiting for each to be
\* done, has the pages of the earlier ones committed before the next is sent.
BulkIsSequential ==
    \A r \in Requests :
        LET p == Req[r].after
        IN  pc[r] # "new" /\ p # NoOne =>
              (pc[p] = "done" => mine[p].row \in pages)

\* Every client learns an outcome in the end, the losers of a race for a space and
\* those behind another one in a queue included, and every workflow ends.
EverythingSettles == <>(AllSettled /\ WorkflowsEnded)

\* The pipeline keeps the promises of the document life cycle.
Outcome(activity) ==
    CASE activity = "none"       -> "none"
      [] activity = "completed"  -> "succeeded"
      [] activity = "failed"     -> "failed"
      [] activity = "cancelled"  -> "cancelled"
      [] OTHER                   -> "running"

Lifecycle == INSTANCE DocumentLifecycle WITH
    stored <- DOMAIN raw,
    compiled <- pages,
    searchable <- served,
    workflow <- [d \in DocIds |-> Outcome(flow[d])]

KeepsLifecycle == Lifecycle!Spec
===============================================================================

------------------------- MODULE IngestPipelineProofs -------------------------
(***************************************************************************)
(* Proofs about IngestPipeline, for every set of requests, users, API      *)
(* processes and documents and every bound on faults, days and attempts.   *)
(*                                                                         *)
(* Three invariants are combined: that of the requests, proved in          *)
(* IngestRequestsProofs; FlowInv, what a workflow has done by the activity *)
(* it is in; and StartInv, what a request may rely on when it starts the   *)
(* workflow of its row: nobody else starts it, and nothing stops it from   *)
(* answering what became of it. QueueInv, proved from them, is what the    *)
(* rows of ingest_runs tell the client of a queue.                         *)
(***************************************************************************)
EXTENDS IngestPipeline, IngestRequestsProofs

Flows == Activities \union Ended \union {"none"}

\* Attempts are given up of workflows only, and those that have only to record the
\* pages of a document have committed them.
StrayInv ==
    /\ strays \in [DocIds -> [GoesOn -> Nat]]
    /\ \A d \in DocIds :
          /\ strays[d][<<"ingest", "record">>] > 0 => d \in pages
          /\ \A x \in GoesOn : strays[d][x] > 0 => flow[d] # "none"

\* What has been done for a document whose workflow is in an activity.
FlowInv ==
    /\ flow \in [DocIds -> Flows]
    /\ tries \in [DocIds -> Nat]
    /\ at \in [DocIds -> {"effect", "record"}]
    /\ pages \subseteq DocIds /\ served \subseteq pages
    /\ runs \in [DocIds -> [extract : Nat, ingest : Nat]]
    /\ StrayInv
    /\ \A d \in DocIds :
          /\ at[d] # "effect" => flow[d] \in {"extract", "ingest"}
          /\ flow[d] = "ingest" /\ at[d] = "record" => d \in pages
          /\ flow[d] = "mirror" => d \in pages
          /\ flow[d] \in {"embed", "completed"} => d \in served

\* What request r, in step p, knows of the workflow of its row.
Knows(r, p, m) ==
    /\ p \in {"start", "record", "stamp"} => m.row \in 1..Len(raw)
    /\ p = "start" => flow[m.row] = "none"
    /\ p = "record" => flow[m.row] # "none"
    /\ IsUpload(r) =>
          /\ p \in BeforeCommit => m.row = 0
          /\ m.row # 0 /\ p \in {"ok", "done", "failed"} => raw[m.row].wf /\ flow[m.row] # "none"
          /\ m.row # 0 /\ p = "error" => raw[m.row].failed

StartInv ==
    /\ \A r \in Requests : Knows(r, pc[r], mine[r])
    /\ \A r, q \in Requests :
          r # q /\ pc[r] = "start" /\ pc[q] = "start" => mine[r].row # mine[q].row
    /\ \A d \in DocIds : d > Len(raw) => flow[d] = "none"

BoundsInv == days \in 0..MaxDays /\ faults \in 0..MaxFaults

PipelineInv == RequestInv /\ FlowInv /\ StartInv /\ BoundsInv

-----------------------------------------------------------------------------
(* The documents.                                                          *)

LEMMA RowsAreDocs ==
    ASSUME RequestInv
    PROVE  /\ Len(raw) \in Nat /\ DOMAIN raw = 1..Len(raw)
           /\ 1..Len(raw) \subseteq DocIds
           /\ Len(raw) <= Cardinality(DocSlots) /\ Cardinality(DocSlots) \in Nat
<1>1. Len(raw) \in Nat /\ DOMAIN raw = 1..Len(raw)
  BY LenProperties DEF RequestInv, Types
<1>2. IsFiniteSet(DocSlots) /\ Passed \in SUBSET DocSlots
  BY ReqAssumption DEF Passed
<1>3. Cardinality(Passed) <= Cardinality(DocSlots) /\ IsFiniteSet(Passed)
  BY <1>2, FS_Subset
<1>4. Cardinality(Passed) \in Nat /\ Cardinality(DocSlots) \in Nat
  BY <1>2, <1>3, FS_CardinalityType
<1> QED
  BY <1>1, <1>3, <1>4 DEF RequestInv, CountInv, DocIds

\* A request commits a row only for a document of its own.
LEMMA RoomForRow ==
    ASSUME RequestInv, NEW r \in Requests, CommitRow(r)
    PROVE  Len(raw) + 1 \in DocIds /\ Len(raw') = Len(raw) + 1
<1>1. RequestInv'
  BY CommitRowInv
<1>2. Len(raw') <= Cardinality(DocSlots) /\ Cardinality(DocSlots) \in Nat
  <2>1. IsFiniteSet(DocSlots) /\ Passed' \in SUBSET DocSlots
    BY ReqAssumption DEF Passed
  <2>2. Cardinality(Passed') <= Cardinality(DocSlots) /\ IsFiniteSet(Passed')
    BY <2>1, FS_Subset
  <2>3. Cardinality(Passed') \in Nat /\ Cardinality(DocSlots) \in Nat
    BY <2>1, <2>2, FS_CardinalityType
  <2>4. Len(raw') <= Cardinality(Passed') /\ Len(raw') \in Nat
    BY <1>1, LenProperties DEF RequestInv, CountInv, Types
  <2> QED
    BY <2>2, <2>3, <2>4
<1>3. Len(raw') = Len(raw) + 1 /\ Len(raw) \in Nat
  BY CommittedRow, RowAppended DEF RequestInv, CommitRow
<1> QED
  BY <1>2, <1>3 DEF DocIds

LEMMA FaultBounded ==
    ASSUME BoundsInv, NEW kind, Fault(kind)
    PROVE  faults' \in 0..MaxFaults
BY BoundsAssumption DEF BoundsInv, Fault

-----------------------------------------------------------------------------
(* The worker.                                                             *)

\* The workflow goes on; what that must mean for its document is left to the use.
LEMMA ContinueFlow ==
    ASSUME FlowInv, NEW d \in DocIds, NEW to \in Flows, Continue(d, to)
    PROVE  /\ flow' \in [DocIds -> Flows] /\ tries' \in [DocIds -> Nat]
           /\ at' \in [DocIds -> {"effect", "record"}]
           /\ flow'[d] = to /\ at'[d] = "effect"
           /\ \A e \in DocIds \ {d} : flow'[e] = flow[e] /\ at'[e] = at[e]
BY DEF FlowInv, Continue

LEMMA RecordedType ==
    ASSUME FlowInv, NEW d \in DocIds, NEW a \in {"extract", "ingest"}
    PROVE  Recorded(d, a) \in [DocIds -> [extract : Nat, ingest : Nat]]
<1>1. runs \in [DocIds -> [extract : Nat, ingest : Nat]] /\ runs[d] \in [extract : Nat, ingest : Nat]
  BY DEF FlowInv
<1>2. CASE a = "extract"
  <2>1. Recorded(d, a) = [runs EXCEPT ![d] = [runs[d] EXCEPT !.extract = runs[d].extract + 1]]
    BY <1>2 DEF Recorded
  <2>2. [runs[d] EXCEPT !.extract = runs[d].extract + 1] \in [extract : Nat, ingest : Nat]
    BY <1>1
  <2> QED
    BY <1>1, <2>1, <2>2
<1>3. CASE a = "ingest"
  <2>1. Recorded(d, a) = [runs EXCEPT ![d] = [runs[d] EXCEPT !.ingest = runs[d].ingest + 1]]
    BY <1>3 DEF Recorded
  <2>2. [runs[d] EXCEPT !.ingest = runs[d].ingest + 1] \in [extract : Nat, ingest : Nat]
    BY <1>1
  <2> QED
    BY <1>1, <2>1, <2>2
<1> QED
  BY <1>2, <1>3

\* The attempts that were given up need not know what their workflows do next.
LEMMA StraysKept ==
    ASSUME FlowInv, UNCHANGED strays, pages \subseteq pages',
           \A e \in DocIds : flow[e] # "none" => flow'[e] # "none"
    PROVE  StrayInv'
BY DEF FlowInv, StrayInv

LEMMA StrayPlaces ==
    /\ \A a \in {"extract", "ingest"}, step \in {"effect", "record"} : <<a, step>> \in GoesOn
    /\ <<"mirror", "effect">> \in GoesOn
BY DEF GoesOn

\* One attempt more, or less, that was given up and stands at x.
LEMMA OneMore ==
    ASSUME FlowInv, NEW d \in DocIds, NEW x \in GoesOn,
           strays' = [strays EXCEPT ![d][x] = @ + 1]
    PROVE  /\ strays' \in [DocIds -> [GoesOn -> Nat]]
           /\ \A e \in DocIds, y \in GoesOn : e # d \/ y # x => strays'[e][y] = strays[e][y]
BY DEF FlowInv, StrayInv

LEMMA OneLess ==
    ASSUME FlowInv, NEW d \in DocIds, NEW x \in GoesOn, strays[d][x] > 0,
           strays' = [strays EXCEPT ![d][x] = @ - 1]
    PROVE  /\ strays' \in [DocIds -> [GoesOn -> Nat]]
           /\ \A e \in DocIds, y \in GoesOn : strays'[e][y] > 0 => strays[e][y] > 0
<1>1. strays \in [DocIds -> [GoesOn -> Nat]] /\ strays[d] \in [GoesOn -> Nat] /\ strays[d][x] - 1 \in Nat
  BY DEF FlowInv, StrayInv
<1>2. \A e \in DocIds, y \in GoesOn :
         strays'[e][y] = IF e = d /\ y = x THEN strays[d][x] - 1 ELSE strays[e][y]
  BY <1>1
<1>3. strays' \in [DocIds -> [GoesOn -> Nat]]
  BY <1>1
<1> QED
  BY <1>1, <1>2, <1>3

\* What is left to do of an attempt that was given up does not hurt FlowInv.
StraysInv ==
    /\ strays' \in [DocIds -> [GoesOn -> Nat]]
    /\ \A e \in DocIds :
          /\ strays'[e][<<"ingest", "record">>] > 0 => e \in pages
          /\ \A x \in GoesOn : strays'[e][x] > 0 => flow[e] # "none"

LEMMA UnheardFlow ==
    ASSUME RequestInv, FlowInv, NEW d \in DocIds, flow[d] \in Activities,
           MaybeDone(d) \/ StillRuns(d)
    PROVE  /\ runs' \in [DocIds -> [extract : Nat, ingest : Nat]]
           /\ served \subseteq served' /\ served' \subseteq pages
           /\ StraysInv
<1>1. CASE MaybeDone(d)
  <2>1. runs' \in [DocIds -> [extract : Nat, ingest : Nat]]
    <3>1. at[d] = "record" => flow[d] \in {"extract", "ingest"}
      BY DEF FlowInv
    <3> QED
      BY <1>1, <3>1, RecordedType DEF MaybeDone, FlowInv
  <2>2. UNCHANGED strays
    BY <1>1 DEF MaybeDone
  <2>3. StraysInv
    BY <2>2 DEF StraysInv, FlowInv, StrayInv
  <2> QED
    BY <1>1, <2>1, <2>3 DEF MaybeDone, Mirrored, FlowInv
<1>2. CASE StillRuns(d)
  <2>1. PICK x \in GoesOn : x = <<flow[d], at[d]>> /\ strays' = [strays EXCEPT ![d][x] = @ + 1]
    BY <1>2 DEF StillRuns
  <2>2. UNCHANGED <<runs, served>>
    BY <1>2 DEF StillRuns
  <2>3. strays' \in [DocIds -> [GoesOn -> Nat]]
    BY <2>1, OneMore
  <2>4. ASSUME NEW e \in DocIds, strays'[e][<<"ingest", "record">>] > 0 PROVE e \in pages
    <3>1. <<"ingest", "record">> \in GoesOn
      BY StrayPlaces
    <3>2. CASE e = d /\ x = <<"ingest", "record">>
      BY <2>1, <3>2 DEF FlowInv
    <3>3. CASE e # d \/ x # <<"ingest", "record">>
      BY <2>1, <2>4, <3>1, <3>3, OneMore DEF FlowInv, StrayInv
    <3> QED
      BY <3>2, <3>3
  <2>5. ASSUME NEW e \in DocIds, NEW y \in GoesOn, strays'[e][y] > 0 PROVE flow[e] # "none"
    <3>1. CASE e = d
      BY <3>1 DEF Activities
    <3>2. CASE e # d
      BY <2>1, <2>5, <3>2, OneMore DEF FlowInv, StrayInv
    <3> QED
      BY <3>1, <3>2
  <2>6. StraysInv
    BY <2>3, <2>4, <2>5 DEF StraysInv
  <2> QED
    BY <2>2, <2>6 DEF FlowInv
<1> QED
  BY <1>1, <1>2

\* A step of a workflow in some activity: it never goes back to where there is
\* none, and what is done stays done.
WorkStep(d) ==
    /\ FlowInv'
    /\ \A e \in DocIds : flow[e] = "none" <=> flow'[e] = "none"
    /\ UNCHANGED <<raw, spaces, sources, pc, mine, aged, days>>

LEMMA LoadFlow ==
    ASSUME FlowInv, NEW d \in DocIds, LoadRawDocument(d)
    PROVE  WorkStep(d)
<1>1. PICK to \in {"extract", "ingest"} : Continue(d, to)
  BY DEF LoadRawDocument
<1>2. flow[d] = "load" /\ UNCHANGED <<pages, runs, served, strays>> /\ Keep
  BY DEF LoadRawDocument, Running
<1>3. to \in Flows
  BY DEF Flows, Activities
<1> QED
  BY <1>1, <1>2, <1>3, ContinueFlow, StraysKept DEF FlowInv, WorkStep, Keep

LEMMA ExtractFlow ==
    ASSUME FlowInv, NEW d \in DocIds, ExtractText(d)
    PROVE  WorkStep(d)
<1>1. flow[d] = "extract" /\ UNCHANGED <<pages, runs, served, strays>> /\ Keep
  BY DEF ExtractText, Running
<1>2. CASE Continue(d, "failed")
  BY <1>1, <1>2, ContinueFlow, StraysKept DEF FlowInv, WorkStep, Keep, Flows, Ended
<1>3. CASE at' = [at EXCEPT ![d] = "record"] /\ UNCHANGED <<flow, tries>>
  BY <1>1, <1>3, StraysKept DEF FlowInv, WorkStep, Keep
<1> QED
  BY <1>2, <1>3 DEF ExtractText

LEMMA IngestFlow ==
    ASSUME FlowInv, NEW d \in DocIds, OkfIngest(d)
    PROVE  WorkStep(d)
<1>1. flow[d] = "ingest" /\ Keep /\ pages' = pages \union {d}
      /\ at' = [at EXCEPT ![d] = "record"] /\ UNCHANGED <<flow, tries, runs, served, strays>>
  BY DEF OkfIngest, Running
<1>2. \A e \in DocIds : flow'[e] = flow[e]
  BY <1>1
<1> QED
  BY <1>1, <1>2, StraysKept DEF FlowInv, WorkStep, Keep

LEMMA RecordFlow ==
    ASSUME FlowInv, NEW d \in DocIds, RecordRun(d)
    PROVE  WorkStep(d)
<1>1. flow[d] \in {"extract", "ingest"} /\ at[d] = "record" /\ UNCHANGED <<pages, served, strays>> /\ Keep
  BY DEF RecordRun
<1>2. runs' \in [DocIds -> [extract : Nat, ingest : Nat]]
  BY <1>1, RecordedType DEF RecordRun, FlowInv
<1>3. CASE flow[d] = "extract"
  <2>1. Continue(d, "ingest")
    BY <1>3 DEF RecordRun
  <2> QED
    BY <1>1, <1>2, <1>3, <2>1, ContinueFlow, StraysKept DEF FlowInv, WorkStep, Keep, Flows, Activities
<1>4. CASE flow[d] = "ingest"
  <2>1. Continue(d, "mirror")
    BY <1>4 DEF RecordRun
  <2>2. d \in pages
    BY <1>1, <1>4 DEF FlowInv
  <2> QED
    BY <1>1, <1>2, <1>4, <2>1, <2>2, ContinueFlow, StraysKept DEF FlowInv, WorkStep, Keep, Flows, Activities
<1> QED
  BY <1>1, <1>3, <1>4

LEMMA MirrorFlow ==
    ASSUME FlowInv, NEW d \in DocIds, OkfMirror(d)
    PROVE  WorkStep(d)
<1>1. flow[d] = "mirror" /\ UNCHANGED <<pages, runs, strays>> /\ Keep /\ Continue(d, "embed")
      /\ served' = Mirrored(d)
  BY DEF OkfMirror, Running
<1>2. d \in served'
  BY <1>1 DEF FlowInv, SameBundle, Mirrored
<1> QED
  BY <1>1, <1>2, ContinueFlow, StraysKept DEF FlowInv, Mirrored, WorkStep, Keep, Flows, Activities

LEMMA EmbedFlow ==
    ASSUME FlowInv, NEW d \in DocIds, EmbedKick(d)
    PROVE  WorkStep(d)
<1>1. flow[d] = "embed" /\ UNCHANGED <<pages, runs, served, strays>> /\ Keep /\ Continue(d, "completed")
  BY DEF EmbedKick, Running
<1> QED
  BY <1>1, ContinueFlow, StraysKept DEF FlowInv, WorkStep, Keep, Flows, Ended

LEMMA StraysPass ==
    ASSUME StraysInv, UNCHANGED pages, \A e \in DocIds : flow[e] # "none" => flow'[e] # "none"
    PROVE  StrayInv'
BY DEF StraysInv, StrayInv

LEMMA LostFlow ==
    ASSUME RequestInv, FlowInv, NEW d \in DocIds, AttemptLost(d)
    PROVE  WorkStep(d)
<1>1. /\ flow[d] \in Activities /\ UNCHANGED pages /\ Keep
      /\ runs' \in [DocIds -> [extract : Nat, ingest : Nat]]
      /\ served \subseteq served' /\ served' \subseteq pages /\ StraysInv
  BY UnheardFlow DEF AttemptLost
<1>2. CASE tries[d] + 1 < Attempts[flow[d]]
  <2>1. /\ tries' = [tries EXCEPT ![d] = @ + 1] /\ at' = [at EXCEPT ![d] = "effect"]
        /\ UNCHANGED flow
    BY <1>2 DEF AttemptLost
  <2> QED
    BY <1>1, <2>1, StraysPass DEF FlowInv, WorkStep, Keep
<1>3. CASE ~ (tries[d] + 1 < Attempts[flow[d]])
  <2>1. CASE flow[d] = "embed"
    <3>1. Continue(d, "completed") /\ d \in served
      BY <1>3, <2>1 DEF AttemptLost, FlowInv
    <3> QED
      BY <1>1, <2>1, <3>1, ContinueFlow, StraysPass DEF FlowInv, WorkStep, Keep, Flows, Ended
  <2>2. CASE flow[d] # "embed"
    <3>1. Continue(d, "failed")
      BY <1>3, <2>2 DEF AttemptLost
    <3> QED
      BY <1>1, <3>1, ContinueFlow, StraysPass DEF FlowInv, WorkStep, Keep, Flows, Ended, Activities
  <2> QED
    BY <2>1, <2>2
<1> QED
  BY <1>2, <1>3

LEMMA CancelFlow ==
    ASSUME RequestInv, FlowInv, NEW d \in DocIds, Cancel(d)
    PROVE  WorkStep(d)
<1>1. /\ flow[d] \in Activities /\ UNCHANGED pages /\ Keep /\ Continue(d, "cancelled")
      /\ runs' \in [DocIds -> [extract : Nat, ingest : Nat]]
      /\ served \subseteq served' /\ served' \subseteq pages /\ StraysInv
  BY UnheardFlow DEF Cancel
<1> QED
  BY <1>1, ContinueFlow, StraysPass DEF FlowInv, WorkStep, Keep, Flows, Ended, Activities

\* An attempt that was given up commits pages or records its usage.
LEMMA LateFlow ==
    ASSUME FlowInv, NEW d \in DocIds, Late(d)
    PROVE  WorkStep(d)
<1>1. UNCHANGED <<flow, tries, at>> /\ Keep
  BY DEF Late, LateEffect, LateRecord, LateMirror
<1>2. ASSUME NEW a \in {"extract", "ingest"}, LateEffect(d, a)
      PROVE  WorkStep(d)
  <2>1. PICK x \in GoesOn, y \in GoesOn :
           /\ x = <<a, "effect">> /\ y = <<a, "record">> /\ strays[d][x] > 0
           /\ strays' = [strays EXCEPT ![d][x] = @ - 1, ![d][y] = @ + 1]
    BY <1>2, StrayPlaces DEF LateEffect
  <2>2. x # y
    BY <2>1
  <2>3. strays \in [DocIds -> [GoesOn -> Nat]] /\ strays[d][x] - 1 \in Nat /\ strays[d][y] + 1 \in Nat
    BY <2>1 DEF FlowInv, StrayInv
  <2>4. /\ strays' \in [DocIds -> [GoesOn -> Nat]]
        /\ \A e \in DocIds, z \in GoesOn :
              strays'[e][z] > 0 => strays[e][z] > 0 \/ (e = d /\ z = y)
    BY <2>1, <2>2, <2>3
  <2>5. /\ pages' = IF a = "ingest" THEN pages \union {d} ELSE pages
        /\ UNCHANGED <<runs, served>>
    BY <1>2 DEF LateEffect
  <2>6. flow[d] # "none"
    BY <2>1 DEF FlowInv, StrayInv
  <2>7. ASSUME NEW e \in DocIds, strays'[e][<<"ingest", "record">>] > 0 PROVE e \in pages'
    BY <2>1, <2>4, <2>5, <2>7, StrayPlaces DEF FlowInv, StrayInv
  <2>8. ASSUME NEW e \in DocIds, NEW z \in GoesOn, strays'[e][z] > 0 PROVE flow[e] # "none"
    BY <2>4, <2>6, <2>8 DEF FlowInv, StrayInv
  <2>9. StrayInv'
    BY <1>1, <2>4, <2>7, <2>8 DEF StrayInv
  <2> QED
    BY <1>1, <2>5, <2>9 DEF FlowInv, WorkStep, Keep
<1>3. ASSUME NEW a \in {"extract", "ingest"}, LateRecord(d, a)
      PROVE  WorkStep(d)
  <2>1. PICK x \in GoesOn : strays[d][x] > 0 /\ strays' = [strays EXCEPT ![d][x] = @ - 1]
    BY <1>3, StrayPlaces DEF LateRecord
  <2>2. UNCHANGED <<pages, served>> /\ runs' \in [DocIds -> [extract : Nat, ingest : Nat]]
    BY <1>3, RecordedType DEF LateRecord
  <2>3. /\ strays' \in [DocIds -> [GoesOn -> Nat]]
        /\ \A e \in DocIds, y \in GoesOn : strays'[e][y] > 0 => strays[e][y] > 0
    BY <2>1, OneLess
  <2>4. StrayInv'
    BY <1>1, <2>2, <2>3, StrayPlaces DEF FlowInv, StrayInv
  <2> QED
    BY <1>1, <2>2, <2>4 DEF FlowInv, WorkStep, Keep
<1>4. CASE LateMirror(d)
  <2>1. PICK x \in GoesOn : strays[d][x] > 0 /\ strays' = [strays EXCEPT ![d][x] = @ - 1]
    BY <1>4, StrayPlaces DEF LateMirror
  <2>2. UNCHANGED <<pages, runs>> /\ served' = Mirrored(d)
    BY <1>4 DEF LateMirror
  <2>3. /\ strays' \in [DocIds -> [GoesOn -> Nat]]
        /\ \A e \in DocIds, y \in GoesOn : strays'[e][y] > 0 => strays[e][y] > 0
    BY <2>1, OneLess
  <2>4. served \subseteq served' /\ served' \subseteq pages
    BY <2>2 DEF Mirrored, FlowInv
  <2>5. StrayInv'
    BY <1>1, <2>2, <2>3, StrayPlaces DEF FlowInv, StrayInv
  <2> QED
    BY <1>1, <2>2, <2>4, <2>5 DEF FlowInv, WorkStep, Keep
<1> QED
  BY <1>2, <1>3, <1>4 DEF Late

\* The requests need not know how far the workflows are.
LEMMA WorkStepInv ==
    ASSUME PipelineInv, NEW d \in DocIds, WorkStep(d), faults' \in 0..MaxFaults
    PROVE  PipelineInv'
<1>1. RequestInv'
  BY RequestStutterInv DEF PipelineInv, WorkStep
<1>2. \A r \in Requests : mine[r].row \in 1..Len(raw) => mine[r].row \in DocIds
  BY RowsAreDocs DEF PipelineInv
<1>3. \A r \in Requests : mine[r].row # 0 => mine[r].row \in 1..Len(raw)
  BY Now DEF PipelineInv, Local, Mine
<1>4. StartInv'
  BY <1>2, <1>3 DEF PipelineInv, StartInv, Knows, WorkStep, IsUpload
<1> QED
  BY <1>1, <1>4 DEF PipelineInv, BoundsInv, WorkStep

LEMMA WorkerInv ==
    ASSUME PipelineInv, NEW d \in DocIds, Work(d) \/ AttemptLost(d) \/ Cancel(d) \/ Late(d)
    PROVE  PipelineInv'
<1>1. faults' \in 0..MaxFaults
  BY FaultBounded DEF PipelineInv, BoundsInv, Work, LoadRawDocument, ExtractText, OkfIngest,
     RecordRun, OkfMirror, EmbedKick, AttemptLost, Cancel, Late, LateEffect, LateRecord, LateMirror
<1>2. WorkStep(d)
  BY LoadFlow, ExtractFlow, IngestFlow, RecordFlow, MirrorFlow, EmbedFlow, LostFlow, CancelFlow, LateFlow
     DEF PipelineInv, Work
<1> QED
  BY <1>1, <1>2, WorkStepInv

-----------------------------------------------------------------------------
(* The requests.                                                           *)

LEMMA FlowUntouched ==
    ASSUME FlowInv, UNCHANGED <<flow, workerVars>>
    PROVE  FlowInv'
BY DEF FlowInv, StrayInv, workerVars

\* A step of one request that does not commit a row and starts no workflow.
LEMMA QuietStart ==
    ASSUME PipelineInv, RequestInv', UNCHANGED <<raw, flow, workerVars, days, faults>>,
           NEW r \in Requests, NEW p, NEW m,
           pc' = [pc EXCEPT ![r] = p], mine' = [mine EXCEPT ![r] = m],
           p # "start", Knows(r, p, m)
    PROVE  PipelineInv'
<1>1. FlowInv' /\ BoundsInv'
  BY FlowUntouched DEF PipelineInv, BoundsInv
<1>2. /\ pc'[r] = p /\ mine'[r] = m
      /\ \A q \in Requests \ {r} : pc'[q] = pc[q] /\ mine'[q] = mine[q]
  BY DEF PipelineInv, RequestInv, Types
<1>3. \A q \in Requests : Knows(q, pc'[q], mine'[q])
  BY <1>2 DEF PipelineInv, StartInv
<1>4. StartInv'
  BY <1>2, <1>3 DEF PipelineInv, StartInv, Knows, IsUpload
<1> QED
  BY <1>1, <1>4 DEF PipelineInv

\* Until the row is there, an upload has none.
EarlySteps(r) ==
    \/ Begin(r) \/ Lookup(r) \/ ChooseSlug(r) \/ InsertSpace(r) \/ Reread(r)
    \/ CheckCap(r) \/ ReadFile(r) \/ Validate(r) \/ FindSource(r)

LEMMA EarlyShape ==
    ASSUME PipelineInv, NEW r \in Requests, EarlySteps(r)
    PROVE  /\ pc[r] \in BeforeCommit
           /\ UNCHANGED <<raw, flow, days, faults>>
           /\ \E p \in BeforeCommit \union {"error"}, m \in Mine :
                 /\ pc' = [pc EXCEPT ![r] = p] /\ mine' = [mine EXCEPT ![r] = m]
                 /\ m.row = mine[r].row
<1>1. mine[r] \in Mine /\ mine' \in [Requests -> Mine]
  <2>1. RequestInv'
    BY BeginInv, LookupInv, ChooseSlugInv, InsertSpaceInv, RereadInv, CheckCapInv, ReadFileInv,
       ValidateInv, FindSourceInv DEF EarlySteps, PipelineInv
  <2> QED
    BY <2>1, Now DEF PipelineInv, RequestInv, Types
<1>2. pc[r] \in BeforeCommit /\ UNCHANGED <<raw, flow, days, faults>>
  BY DEF EarlySteps, Begin, Lookup, ChooseSlug, InsertSpace, Reread, CheckCap, ReadFile, Validate,
     FindSource, At, BeforeCommit, Busy
<1>3. \E p \in BeforeCommit \union {"error"} : pc' = [pc EXCEPT ![r] = p]
  BY DEF EarlySteps, Begin, Lookup, ChooseSlug, InsertSpace, Reread, CheckCap, ReadFile, Validate,
     FindSource, Go, Answer, BeforeCommit, Busy
<1>4. mine \in [Requests -> Mine]
  BY DEF PipelineInv, RequestInv, Types
<1>5. /\ \A q \in Requests \ {r} : mine'[q] = mine[q]
      /\ mine'[r].row = mine[r].row
  <2>1. CASE UNCHANGED mine
    BY <2>1
  <2>2. CASE Answer(r, "error")
    BY <1>1, <1>4, <2>2 DEF Answer, Closed, Mine
  <2>3. CASE mine' = [mine EXCEPT ![r].seen = Len(raw)]
    BY <1>1, <1>4, <2>3 DEF Mine
  <2>4. ASSUME NEW s, mine' = [mine EXCEPT ![r].space = s]
        PROVE  /\ \A q \in Requests \ {r} : mine'[q] = mine[q]
               /\ mine'[r].row = mine[r].row
    BY <1>1, <1>4, <2>4 DEF Mine
  <2>5. CASE mine' = [mine EXCEPT ![r].new = TRUE]
    BY <1>1, <1>4, <2>5 DEF Mine
  <2>6. ASSUME NEW b, mine' = [mine EXCEPT ![r].src = b]
        PROVE  /\ \A q \in Requests \ {r} : mine'[q] = mine[q]
               /\ mine'[r].row = mine[r].row
    BY <1>1, <1>4, <2>6 DEF Mine
  <2> QED
    BY <2>1, <2>2, <2>3, <2>4, <2>5, <2>6 DEF EarlySteps, Begin, Lookup, ChooseSlug, InsertSpace,
       Reread, CheckCap, ReadFile, Validate, FindSource
<1>6. mine' = [mine EXCEPT ![r] = mine'[r]] /\ mine'[r] \in Mine
  BY <1>1, <1>4, <1>5
<1> QED
  BY <1>2, <1>3, <1>5, <1>6

LEMMA EarlyInv ==
    ASSUME PipelineInv, NEW r \in Requests, EarlySteps(r), UNCHANGED workerVars
    PROVE  PipelineInv'
<1>1. RequestInv'
  BY BeginInv, LookupInv, ChooseSlugInv, InsertSpaceInv, RereadInv, CheckCapInv, ReadFileInv,
     ValidateInv, FindSourceInv DEF EarlySteps, PipelineInv
<1>2. PICK p \in BeforeCommit \union {"error"}, m \in Mine :
         /\ pc' = [pc EXCEPT ![r] = p] /\ mine' = [mine EXCEPT ![r] = m] /\ m.row = mine[r].row
  BY EarlyShape
<1>3. pc[r] \in BeforeCommit /\ UNCHANGED <<raw, flow, days, faults>>
  BY EarlyShape
<1>4. IsUpload(r) => m.row = 0
  BY <1>2, <1>3 DEF PipelineInv, StartInv, Knows
<1>5. Knows(r, p, m) /\ p # "start"
  BY <1>4 DEF Knows, BeforeCommit, Busy
<1> QED
  BY <1>1, <1>2, <1>3, <1>5, QuietStart

\* A skipped document has the workflow of its latest row; only uploads care.
LEMMA DeduplicateStart ==
    ASSUME PipelineInv, NEW r \in Requests, Deduplicate(r), UNCHANGED workerVars
    PROVE  PipelineInv'
<1>1. RequestInv' /\ pc[r] = "dedup" /\ UNCHANGED <<raw, flow, days, faults>>
  BY DeduplicateInv DEF PipelineInv, Deduplicate, At
<1>2. ~ IsUpload(r) /\ mine \in [Requests -> Mine] /\ pc \in [Requests -> Steps]
  BY <1>1, Now DEF PipelineInv, RequestInv, Types, Local
<1>3. CASE Go(r, "commit") /\ UNCHANGED mine
  <2>1. mine' = [mine EXCEPT ![r] = mine[r]] /\ pc' = [pc EXCEPT ![r] = "commit"]
    BY <1>2, <1>3 DEF Go
  <2>2. Knows(r, "commit", mine[r])
    BY <1>2 DEF Knows
  <2> QED
    BY <1>1, <2>1, <2>2, QuietStart
<1>4. ASSUME NEW n, NextDoc(r, n)
      PROVE  PipelineInv'
  <2>1. PICK p \in {"dedup", "ok"} : pc' = [pc EXCEPT ![r] = p]
    BY <1>4 DEF NextDoc, Go
  <2>2. mine' = [mine EXCEPT ![r] = mine'[r]]
    BY <1>2, <1>4 DEF NextDoc
  <2>3. Knows(r, p, mine'[r])
    BY <1>2 DEF Knows
  <2> QED
    BY <1>1, <2>1, <2>2, <2>3, QuietStart
<1> QED
  BY <1>3, <1>4 DEF Deduplicate

\* The new row is nobody else's.
LEMMA CommitRowStart ==
    ASSUME PipelineInv, NEW r \in Requests, CommitRow(r), UNCHANGED workerVars
    PROVE  PipelineInv'
<1> DEFINE n == Len(raw) + 1
<1>1. RequestInv'
  BY CommitRowInv DEF PipelineInv
<1>2. n \in DocIds /\ Len(raw') = n /\ Len(raw) \in Nat /\ UNCHANGED <<flow, days, faults>>
  BY RoomForRow, RowsAreDocs DEF PipelineInv, CommitRow
<1>3. \A d \in 1..Len(raw) : raw'[d] = raw[d]
  BY CommittedRow, RowAppended DEF PipelineInv, RequestInv, CommitRow
<1>4. /\ pc'[r] = "start" /\ mine'[r].row = n
      /\ \A q \in Requests \ {r} : pc'[q] = pc[q] /\ mine'[q] = mine[q]
  BY DEF CommitRow, Go, PipelineInv, RequestInv, Types, Mine
<1>5. \A q \in Requests : mine[q].row <= Len(raw) /\ mine[q].row \in Nat
  BY Now DEF PipelineInv, Local, Mine
<1>6. FlowInv' /\ BoundsInv'
  BY <1>2, FlowUntouched DEF PipelineInv, BoundsInv
<1> HIDE DEF n
<1>7. ASSUME NEW q \in Requests PROVE Knows(q, pc[q], mine[q])'
  <2>1. CASE q = r
    <3>1. flow[n] = "none" /\ n \in 1..Len(raw')
      BY <1>2 DEF PipelineInv, StartInv, n
    <3> QED
      BY <1>2, <1>4, <2>1, <3>1 DEF Knows, BeforeCommit, Busy
  <2>2. CASE q # r
    <3>1. Knows(q, pc[q], mine[q])
      BY DEF PipelineInv, StartInv
    <3>2. pc'[q] = pc[q] /\ mine'[q] = mine[q] /\ (IsUpload(q)' <=> IsUpload(q))
      BY <1>4, <2>2 DEF IsUpload
    <3>3. mine[q].row \in 1..Len(raw) => mine[q].row \in 1..Len(raw') /\ raw'[mine[q].row] = raw[mine[q].row]
      BY <1>2, <1>3 DEF n
    <3>4. mine[q].row # 0 => mine[q].row \in 1..Len(raw)
      BY <1>2, <1>5
    <3> QED
      BY <1>2, <3>1, <3>2, <3>3, <3>4 DEF Knows
  <2> QED
    BY <2>1, <2>2
<1>8. StartInv'
  <2>1. \A q \in Requests \ {r} : mine[q].row # n
    BY <1>2, <1>5 DEF n
  <2>2. \A d \in DocIds : d > Len(raw') => flow'[d] = "none"
    BY <1>2 DEF PipelineInv, StartInv, n, DocIds
  <2> QED
    BY <1>4, <1>7, <2>1, <2>2 DEF PipelineInv, StartInv
<1> QED
  BY <1>1, <1>6, <1>8 DEF PipelineInv

\* The workflow of a row that is to be started is there.
LEMMA LaunchedFlow ==
    ASSUME PipelineInv, NEW r \in Requests, pc[r] = "start", flow' = Launched(r), UNCHANGED workerVars
    PROVE  /\ FlowInv'
           /\ mine[r].row \in DocIds /\ flow[mine[r].row] = "none" /\ flow'[mine[r].row] = "load"
           /\ \A d \in DocIds \ {mine[r].row} : flow'[d] = flow[d]
<1>1. mine[r].row \in DocIds /\ flow[mine[r].row] = "none" /\ flow \in [DocIds -> Flows]
  BY RowsAreDocs DEF PipelineInv, StartInv, Knows, FlowInv
<1>2. flow' = [flow EXCEPT ![mine[r].row] = "load"]
  BY DEF Launched
<1>3. flow' \in [DocIds -> Flows]
  BY <1>1, <1>2 DEF Flows, Activities
<1>4. at[mine[r].row] = "effect"
  BY <1>1 DEF PipelineInv, FlowInv
<1>5. StrayInv'
  <2>1. \A e \in DocIds : flow[e] # "none" => flow'[e] # "none"
    BY <1>1, <1>2
  <2> QED
    BY <2>1, StraysKept DEF PipelineInv, workerVars
<1> QED
  BY <1>1, <1>2, <1>3, <1>4, <1>5 DEF PipelineInv, FlowInv, workerVars

\* A start that may have reached the server, and its request's next step.
LEMMA StartedInv ==
    ASSUME PipelineInv, RequestInv', NEW r \in Requests, pc[r] = "start", NEW p, NEW m,
           flow' = Launched(r) \/ (flow' = flow /\ p # "record"),
           pc' = [pc EXCEPT ![r] = p], mine' = [mine EXCEPT ![r] = m], m.row = mine[r].row,
           p = "record" \/ (p = "stamp" /\ IsUpload(r)) \/ (p = "error" /\ ~ IsUpload(r)),
           UNCHANGED <<raw, workerVars, days>>, faults' \in 0..MaxFaults
    PROVE  PipelineInv'
<1> DEFINE d == mine[r].row
<1>1. d \in 1..Len(raw) /\ d \in DocIds /\ flow[d] = "none"
  BY RowsAreDocs DEF PipelineInv, StartInv, Knows
<1>2. /\ FlowInv'
      /\ \A e \in DocIds : flow[e] # "none" => flow'[e] # "none"
      /\ \A e \in DocIds \ {d} : flow'[e] = flow[e]
      /\ p = "record" => flow'[d] # "none"
  <2>1. CASE flow' = Launched(r)
    BY <1>1, <2>1, LaunchedFlow
  <2>2. CASE flow' = flow /\ p # "record"
    BY <2>2, FlowUntouched DEF PipelineInv
  <2> QED
    BY <2>1, <2>2
<1>3. /\ pc'[r] = p /\ mine'[r] = m
      /\ \A q \in Requests \ {r} : pc'[q] = pc[q] /\ mine'[q] = mine[q]
  BY DEF PipelineInv, RequestInv, Types
<1>4. \A q \in Requests : mine[q].row # 0 => mine[q].row \in 1..Len(raw) /\ mine[q].row \in DocIds
  BY Now, RowsAreDocs DEF PipelineInv, Local, Mine
<1>5. ASSUME NEW q \in Requests PROVE Knows(q, pc[q], mine[q])'
  <2>1. CASE q = r
    BY <1>1, <1>2, <1>3, <2>1 DEF Knows, BeforeCommit, Busy, IsUpload
  <2>2. CASE q # r
    <3>1. Knows(q, pc[q], mine[q]) /\ pc'[q] = pc[q] /\ mine'[q] = mine[q]
      BY <1>3, <2>2 DEF PipelineInv, StartInv
    <3>2. pc[q] = "start" => mine[q].row # d
      BY <2>2 DEF PipelineInv, StartInv
    <3>3. pc[q] \in {"start", "record"} => mine[q].row \in DocIds
      BY <3>1, RowsAreDocs DEF Knows, PipelineInv
    <3> QED
      BY <1>2, <1>4, <3>1, <3>2, <3>3 DEF Knows, IsUpload
  <2> QED
    BY <2>1, <2>2
<1>6. \A e \in DocIds : e > Len(raw') => flow'[e] = "none"
  <2>1. \A e \in DocIds : e > Len(raw) => e # d
    BY <1>1, RowsAreDocs DEF PipelineInv, DocIds
  <2> QED
    BY <1>2, <2>1 DEF PipelineInv, StartInv
<1>7. StartInv'
  BY <1>3, <1>5, <1>6 DEF PipelineInv, StartInv
<1> QED
  BY <1>2, <1>7 DEF PipelineInv, BoundsInv

LEMMA StartStart ==
    ASSUME PipelineInv, NEW r \in Requests, StartWorkflow(r) \/ StartFails(r), UNCHANGED workerVars
    PROVE  PipelineInv'
<1>1. RequestInv' /\ mine \in [Requests -> Mine]
  BY StartWorkflowInv, StartFailsInv DEF PipelineInv, RequestInv, Types
<1>2. CASE StartWorkflow(r)
  <2>1. /\ pc[r] = "start" /\ flow' = Launched(r) /\ pc' = [pc EXCEPT ![r] = "record"]
        /\ mine' = [mine EXCEPT ![r] = mine[r]] /\ UNCHANGED <<raw, days, faults>>
    BY <1>1, <1>2 DEF StartWorkflow, At, Go
  <2>2. faults' \in 0..MaxFaults
    BY <2>1 DEF PipelineInv, BoundsInv
  <2> QED
    BY <1>1, <2>1, <2>2, StartedInv
<1>3. CASE StartFails(r)
  <2>1. /\ pc[r] = "start" /\ flow' \in {flow, Launched(r)} /\ UNCHANGED <<raw, days>>
    BY <1>3 DEF StartFails, At
  <2>2. faults' \in 0..MaxFaults
    BY <1>3, FaultBounded DEF StartFails, PipelineInv
  <2>3. CASE IsUpload(r)
    <3>1. pc' = [pc EXCEPT ![r] = "stamp"] /\ mine' = [mine EXCEPT ![r] = mine[r]]
      BY <1>1, <1>3, <2>3 DEF StartFails, Go
    <3> QED
      BY <1>1, <2>1, <2>2, <2>3, <3>1, StartedInv
  <2>4. CASE ~ IsUpload(r)
    <3>1. pc' = [pc EXCEPT ![r] = "error"] /\ mine' = [mine EXCEPT ![r] = Closed(mine[r])]
      BY <1>3, <2>4 DEF StartFails, Answer, Go
    <3>2. Closed(mine[r]).row = mine[r].row
      BY <1>1 DEF Closed, Mine
    <3> QED
      BY <1>1, <2>1, <2>2, <2>4, <3>1, <3>2, StartedInv
  <2> QED
    BY <2>3, <2>4
<1> QED
  BY <1>2, <1>3

\* A flag that is raised, and its request's next step.
LEMMA FlagStart ==
    ASSUME PipelineInv, RequestInv', NEW r \in Requests, UNCHANGED <<flow, workerVars, days, faults>>,
           Len(raw') = Len(raw),
           \A d \in 1..Len(raw) : (raw[d].wf => raw'[d].wf) /\ (raw[d].failed => raw'[d].failed),
           NEW p, NEW m, pc' = [pc EXCEPT ![r] = p], mine' = [mine EXCEPT ![r] = m],
           p # "start", Knows(r, pc[r], mine[r])'
    PROVE  PipelineInv'
<1>1. FlowInv' /\ BoundsInv'
  BY FlowUntouched DEF PipelineInv, BoundsInv
<1>2. /\ pc'[r] = p /\ mine'[r] = m
      /\ \A q \in Requests \ {r} : pc'[q] = pc[q] /\ mine'[q] = mine[q]
  BY DEF PipelineInv, RequestInv, Types
<1>3. \A q \in Requests : mine[q].row # 0 => mine[q].row \in 1..Len(raw)
  BY Now DEF PipelineInv, Local, Mine
<1>4. ASSUME NEW q \in Requests, q # r PROVE Knows(q, pc[q], mine[q])'
  <2>1. Knows(q, pc[q], mine[q]) /\ pc'[q] = pc[q] /\ mine'[q] = mine[q]
    BY <1>2, <1>4 DEF PipelineInv, StartInv
  <2> QED
    BY <1>3, <2>1 DEF Knows, IsUpload
<1>5. StartInv'
  BY <1>2, <1>4 DEF PipelineInv, StartInv
<1> QED
  BY <1>1, <1>5 DEF PipelineInv

LEMMA StampFailedStart ==
    ASSUME PipelineInv, NEW r \in Requests, StampFailed(r), UNCHANGED workerVars
    PROVE  PipelineInv'
<1> DEFINE d == mine[r].row
<1>1. /\ RequestInv' /\ pc[r] = "stamp" /\ UNCHANGED <<flow, days, faults>>
      /\ mine \in [Requests -> Mine] /\ pc \in [Requests -> Steps]
  BY StampFailedInv DEF PipelineInv, RequestInv, Types, StampFailed, At
<1>2. /\ pc' = [pc EXCEPT ![r] = "error"] /\ mine' = [mine EXCEPT ![r] = Closed(mine[r])]
      /\ raw' = [raw EXCEPT ![d].failed = TRUE]
  BY DEF StampFailed, Answer, Go
<1>3. d \in 1..Len(raw) /\ DOMAIN raw = 1..Len(raw) /\ raw \in Seq(Row)
  BY <1>1, RowsAreDocs DEF PipelineInv, StartInv, Knows, RequestInv, Types
<1>4. raw[d] \in Row
  BY <1>3, ElementOfSeq
<1>5. /\ Len(raw') = Len(raw)
      /\ \A e \in 1..Len(raw) : (raw[e].wf => raw'[e].wf) /\ (raw[e].failed => raw'[e].failed)
      /\ raw'[d].failed
  <2> DEFINE row == [raw[d] EXCEPT !.failed = TRUE]
  <2>1. row \in Row /\ row.failed /\ row.wf = raw[d].wf
    BY <1>4 DEF Row
  <2>2. raw' = [raw EXCEPT ![d] = row]
    BY <1>2
  <2> HIDE DEF row
  <2> QED
    BY <1>3, <2>1, <2>2, ExceptSeq
<1>6. Closed(mine[r]).row = d
  BY <1>1 DEF Closed, Mine
<1>7. pc'[r] = "error" /\ mine'[r].row = d
  BY <1>1, <1>2, <1>6
<1>8. Knows(r, pc[r], mine[r])'
  BY <1>3, <1>5, <1>7 DEF Knows, BeforeCommit, Busy
<1> QED
  BY <1>1, <1>2, <1>5, <1>8, FlagStart

LEMMA RecordWorkflowIdStart ==
    ASSUME PipelineInv, NEW r \in Requests, RecordWorkflowId(r), UNCHANGED workerVars
    PROVE  PipelineInv'
<1> DEFINE d == mine[r].row
<1>1. /\ RequestInv' /\ pc[r] = "record" /\ UNCHANGED <<flow, days, faults>>
      /\ mine \in [Requests -> Mine] /\ pc \in [Requests -> Steps]
  BY RecordWorkflowIdInv DEF PipelineInv, RequestInv, Types, RecordWorkflowId, At
<1>2. NextDoc(r, mine[r]) /\ raw' = [raw EXCEPT ![d].wf = TRUE]
  BY DEF RecordWorkflowId
<1>3. d \in 1..Len(raw) /\ DOMAIN raw = 1..Len(raw) /\ raw \in Seq(Row) /\ flow[d] # "none"
  BY <1>1, RowsAreDocs DEF PipelineInv, StartInv, Knows, RequestInv, Types
<1>4. raw[d] \in Row
  BY <1>3, ElementOfSeq
<1>5. /\ Len(raw') = Len(raw)
      /\ \A e \in 1..Len(raw) : (raw[e].wf => raw'[e].wf) /\ (raw[e].failed => raw'[e].failed)
      /\ raw'[d].wf
  <2> DEFINE row == [raw[d] EXCEPT !.wf = TRUE]
  <2>1. row \in Row /\ row.wf /\ row.failed = raw[d].failed
    BY <1>4 DEF Row
  <2>2. raw' = [raw EXCEPT ![d] = row]
    BY <1>2
  <2> HIDE DEF row
  <2> QED
    BY <1>3, <2>1, <2>2, ExceptSeq
<1>6. PICK p \in {"dedup", "ok"} : pc' = [pc EXCEPT ![r] = p]
  BY <1>2 DEF NextDoc, Go
<1>7. mine' = [mine EXCEPT ![r] = mine'[r]] /\ mine'[r].row = d
  <2>1. \E m : mine' = [mine EXCEPT ![r] = m] /\ m.row = d
    <3>1. [mine[r] EXCEPT !.k = @ + 1].row = d /\ Closed(mine[r]).row = d
      BY <1>1 DEF Closed, Mine
    <3> QED
      BY <1>2, <3>1 DEF NextDoc
  <2> QED
    BY <1>1, <2>1
<1>8. p = "dedup" => ~ IsUpload(r)
  BY <1>1, <1>6, Now DEF RequestInv, LocalInv, Local, IsUpload
<1>9. Knows(r, pc[r], mine[r])'
  BY <1>1, <1>3, <1>5, <1>6, <1>7, <1>8 DEF Knows, BeforeCommit, Busy, IsUpload
<1> QED
  BY <1>1, <1>5, <1>6, <1>7, <1>9, FlagStart

LEMMA ApiCrashesStart ==
    ASSUME PipelineInv, NEW api, ApiCrashes(api), UNCHANGED workerVars
    PROVE  PipelineInv'
<1> DEFINE dying == {r \in Requests : Req[r].api = api /\ InService(r)}
<1>1. /\ RequestInv' /\ UNCHANGED <<raw, flow, days>>
      /\ mine \in [Requests -> Mine] /\ pc \in [Requests -> Steps]
  BY ApiCrashesInv DEF PipelineInv, RequestInv, Types, ApiCrashes
<1>2. FlowInv' /\ BoundsInv'
  BY <1>1, FlowUntouched, FaultBounded DEF PipelineInv, BoundsInv, ApiCrashes
<1>3. ASSUME NEW r \in Requests
      PROVE  \/ pc'[r] = "lost" /\ mine'[r].row = mine[r].row
             \/ pc'[r] = pc[r] /\ mine'[r] = mine[r]
  <2>1. Closed(mine[r]).row = mine[r].row
    BY <1>1 DEF Closed, Mine
  <2> QED
    BY <2>1 DEF ApiCrashes
<1>4. ASSUME NEW r \in Requests PROVE Knows(r, pc[r], mine[r])'
  <2>1. Knows(r, pc[r], mine[r])
    BY DEF PipelineInv, StartInv
  <2> QED
    BY <1>1, <1>3, <2>1 DEF Knows, IsUpload, BeforeCommit, Busy
<1>5. StartInv'
  BY <1>1, <1>3, <1>4 DEF PipelineInv, StartInv
<1> QED
  BY <1>1, <1>2, <1>5 DEF PipelineInv

LEMMA DayPassesStart ==
    ASSUME PipelineInv, DayPasses, UNCHANGED workerVars
    PROVE  PipelineInv'
<1>1. RequestInv'
  BY DayPassesInv DEF PipelineInv
<1>2. UNCHANGED <<raw, flow, pc, mine, faults>> /\ days < MaxDays /\ days' = days + 1
  BY DEF DayPasses
<1>3. BoundsInv'
  BY <1>2, BoundsAssumption DEF PipelineInv, BoundsInv
<1>4. FlowInv'
  BY <1>2, FlowUntouched DEF PipelineInv
<1>5. StartInv'
  BY <1>2 DEF PipelineInv, StartInv, Knows, IsUpload
<1> QED
  BY <1>1, <1>3, <1>4, <1>5 DEF PipelineInv

LEMMA ClientInv ==
    ASSUME PipelineInv, NEW r \in Requests, Poll(r) \/ PollGivesUp(r)
    PROVE  PipelineInv'
<1>1. PICK p \in {"done", "failed"} : Go(r, p)
  BY DEF Poll, PollGivesUp
<1>2. pc[r] = "ok" /\ UNCHANGED <<raw, spaces, sources, mine, flow, aged, days, faults, workerVars>>
  BY DEF Poll, PollGivesUp
<1>3. RequestInv'
  BY <1>1, <1>2, LearnsInv DEF PipelineInv
<1>4. mine' = [mine EXCEPT ![r] = mine[r]] /\ pc' = [pc EXCEPT ![r] = p]
  BY <1>1, <1>2 DEF Go, PipelineInv, RequestInv, Types
<1>5. Knows(r, p, mine[r])
  BY <1>2 DEF PipelineInv, StartInv, Knows, BeforeCommit, Busy
<1> QED
  BY <1>2, <1>3, <1>4, <1>5, QuietStart

-----------------------------------------------------------------------------
(* The invariant.                                                          *)

LEMMA PipelineInitInv == Init => PipelineInv
<1> SUFFICES ASSUME Init PROVE PipelineInv
  OBVIOUS
<1>1. RequestInv
  BY RequestInitInv DEF Init
<1>2. StrayInv
  <2>1. \A d \in DocIds : \A x \in GoesOn : strays[d][x] = 0
    BY DEF Init
  <2>2. strays \in [DocIds -> [GoesOn -> Nat]]
    BY DEF Init
  <2> QED
    BY <2>1, <2>2, StrayPlaces DEF StrayInv
<1>6. FlowInv
  BY <1>2 DEF Init, RequestInit, FlowInv, Flows
<1>3. ASSUME NEW r \in Requests PROVE pc[r] = "new" /\ mine[r].row = 0
  BY DEF Init, RequestInit
<1>4. StartInv
  BY <1>3 DEF StartInv, Knows, Init, RequestInit
<1>5. BoundsInv
  BY BoundsAssumption DEF BoundsInv, Init, RequestInit
<1> QED
  BY <1>1, <1>4, <1>5, <1>6 DEF PipelineInv

LEMMA PipelineStutterInv == PipelineInv /\ UNCHANGED vars => PipelineInv'
<1> SUFFICES ASSUME PipelineInv, UNCHANGED vars PROVE PipelineInv'
  OBVIOUS
<1>1. RequestInv'
  BY RequestStutterInv DEF PipelineInv, vars, requestVars
<1>2. FlowInv' /\ BoundsInv'
  BY FlowUntouched DEF PipelineInv, BoundsInv, vars, requestVars
<1>3. StartInv'
  BY DEF PipelineInv, StartInv, Knows, IsUpload, vars, requestVars
<1> QED
  BY <1>1, <1>2, <1>3 DEF PipelineInv

LEMMA RequestsInv ==
    ASSUME PipelineInv, RequestNext, UNCHANGED workerVars
    PROVE  PipelineInv'
<1>1. ASSUME NEW r \in Requests, Begin(r) \/ Serve(r) \/ StartFails(r) PROVE PipelineInv'
  <2>1. \/ EarlySteps(r) \/ Deduplicate(r) \/ CommitRow(r) \/ StartWorkflow(r) \/ StartFails(r)
        \/ StampFailed(r) \/ RecordWorkflowId(r)
    BY <1>1 DEF Serve, EarlySteps
  <2> QED
    BY <2>1, EarlyInv, DeduplicateStart, CommitRowStart, StartStart, StampFailedStart,
       RecordWorkflowIdStart
<1> QED
  BY <1>1, ApiCrashesStart, DayPassesStart DEF RequestNext

LEMMA PipelineNextInv == PipelineInv /\ [Next]_vars => PipelineInv'
<1> SUFFICES ASSUME PipelineInv, [Next]_vars PROVE PipelineInv'
  OBVIOUS
<1> QED
  BY RequestsInv, WorkerInv, ClientInv, PipelineStutterInv DEF Next, Finished

\* Whatever requests, workflows and faults do: spaces and cap, starts and answers,
\* and what workflows have done stay in step (the parts of PipelineInv).
THEOREM PipelineInvariant == Spec => []PipelineInv
BY PipelineInitInv, PipelineNextInv, PTL DEF Spec

-----------------------------------------------------------------------------
(* The properties.                                                         *)

LEMMA InvTypes == PipelineInv => TypeOK
<1> SUFFICES ASSUME PipelineInv PROVE TypeOK
  OBVIOUS
<1>1. RequestInv /\ Types
  BY DEF PipelineInv, RequestInv
<1>2. Len(raw) <= Cardinality(DocIds)
  <2>1. Len(raw) <= Cardinality(DocSlots) /\ Cardinality(DocSlots) \in Nat
    BY <1>1, RowsAreDocs
  <2>2. Cardinality(DocIds) = Cardinality(DocSlots)
    BY <2>1, FS_Interval DEF DocIds
  <2> QED
    BY <2>1, <2>2
<1>3. ASSUME NEW r \in Requests
      PROVE  /\ mine[r].k \in DOMAIN Req[r].docs
             /\ mine[r].space \in Space \union {NoOne}
             /\ mine[r].new \in BOOLEAN /\ mine[r].src \in BOOLEAN
             /\ mine[r].seen \in Nat /\ mine[r].row \in 0..Len(raw)
  BY <1>1, Now DEF Local, Mine
<1>4. RequestTypeOK
  BY <1>1, <1>2, <1>3 DEF RequestTypeOK, Types, Steps, PipelineInv, BoundsInv
<1> QED
  BY <1>4 DEF TypeOK, PipelineInv, FlowInv, StrayInv, Flows

LEMMA InvOneSpace == PipelineInv => OneSpacePerOwner
BY DEF PipelineInv, RequestInv, RowsInv, OneSpacePerOwner

LEMMA InvCap == PipelineInv => CapOvershoot
<1> SUFFICES ASSUME PipelineInv, NEW s \in spaces, NEW d \in InWindow(s, s.owner)
             PROVE  Cardinality({e \in InWindow(s, s.owner) : e <= raw[d].seen}) < Cap
  BY DEF CapOvershoot
<1>1. s \in Space /\ s # NoOne
  BY SpaceAssumption DEF PipelineInv, RequestInv, Types
<1>2. d \in DOMAIN raw /\ raw[d].space = s /\ raw[d].by = s.owner
  BY DEF InWindow
<1>3. Cardinality(Counted(s, s.owner, raw[d].seen)) < Cap
  BY <1>1, <1>2 DEF PipelineInv, RequestInv, RowsInv
<1> QED
  BY <1>3 DEF Counted

LEMMA InvDuplicates == PipelineInv => DuplicatesOverlap
BY DEF PipelineInv, RequestInv, RowsInv

LEMMA InvAnswers == PipelineInv => UploadAnswerTrue
BY DEF PipelineInv, StartInv, Knows, UploadAnswerTrue

LEMMA InvServed == PipelineInv => CompletedIsServed
BY DEF PipelineInv, FlowInv, CompletedIsServed

\* The state of the pipeline is always of its type; in particular there are never
\* more rows than documents sent, so each row has a workflow of its own.
THEOREM PipelineTypes == Spec => []TypeOK
BY PipelineInvariant, InvTypes, PTL

\* However the first requests of a user interleave, crash or lose the race for the
\* slug, each user has one personal space and each document of a personal space
\* is in its author's (provision of personal_spaces.py).
THEOREM SpacesAreUnique == Spec => []OneSpacePerOwner
BY PipelineInvariant, InvOneSpace, PTL

\* The daily cap is exceeded only by requests that were in service together:
\* _check_personal_cap refuses whatever is sent when the cap is reached.
THEOREM CapHolds == Spec => []CapOvershoot
BY PipelineInvariant, InvCap, PTL

\* ingest_document stores the same content again only for overlapping requests.
THEOREM DuplicatesAreConcurrent == Spec => []DuplicatesOverlap
BY PipelineInvariant, InvDuplicates, PTL

\* What upload_document answered stays true: a success has a workflow, an error
\* leaves no row or a failed one, also after lost starts and crashes.
THEOREM UploadAnswersAreTrue == Spec => []UploadAnswerTrue
BY PipelineInvariant, InvAnswers, PTL

\* IngestWorkflow completes only when the pages of its document are mirrored,
\* whichever attempts were lost and repeated on the way.
THEOREM CompletedAreServed == Spec => []CompletedIsServed
BY PipelineInvariant, InvServed, PTL

-----------------------------------------------------------------------------
(* The pipeline implements the life cycle.                                 *)

LEMMA QuietLife ==
    ASSUME DOMAIN raw' = DOMAIN raw, UNCHANGED <<flow, pages, served>>
    PROVE  UNCHANGED Lifecycle!vars
BY DEF Lifecycle!vars

LEMMA OutcomeMoves ==
    ASSUME FlowInv, NEW d \in DocIds, NEW to, flow' = [flow EXCEPT ![d] = to]
    PROVE  [e \in DocIds |-> Outcome(flow'[e])]
              = [[e \in DocIds |-> Outcome(flow[e])] EXCEPT ![d] = Outcome(to)]
<1>1. \A e \in DocIds : flow'[e] = IF e = d THEN to ELSE flow[e]
  BY DEF FlowInv
<1>2. ASSUME NEW e \in DocIds
      PROVE  Outcome(flow'[e]) = IF e = d THEN Outcome(to) ELSE Outcome(flow[e])
  BY <1>1
<1> HIDE DEF Outcome
<1> QED
  BY <1>2

\* From one activity to the next.
LEMMA StaysRunning ==
    ASSUME FlowInv, NEW d \in DocIds, NEW to \in Activities, flow[d] \in Activities,
           flow' = [flow EXCEPT ![d] = to]
    PROVE  [e \in DocIds |-> Outcome(flow'[e])] = [e \in DocIds |-> Outcome(flow[e])]
<1>1. Outcome(to) = "running" /\ Outcome(flow[d]) = "running"
  BY DEF Outcome, Activities
<1>2. [e \in DocIds |-> Outcome(flow'[e])]
         = [[e \in DocIds |-> Outcome(flow[e])] EXCEPT ![d] = Outcome(to)]
  BY OutcomeMoves
<1> QED
  BY <1>1, <1>2

LEMMA LaunchLife ==
    ASSUME PipelineInv, NEW r \in Requests, pc[r] = "start", flow' = Launched(r),
           UNCHANGED <<raw, pages, served>>
    PROVE  Lifecycle!Launch(mine[r].row)
<1>1. mine[r].row \in 1..Len(raw) /\ flow[mine[r].row] = "none"
  BY DEF PipelineInv, StartInv, Knows
<1>2. mine[r].row \in DOMAIN raw /\ mine[r].row \in DocIds
  BY <1>1, RowsAreDocs DEF PipelineInv
<1>3. [e \in DocIds |-> Outcome(flow'[e])]
         = [[e \in DocIds |-> Outcome(flow[e])] EXCEPT ![mine[r].row] = Outcome("load")]
  BY <1>2, OutcomeMoves DEF PipelineInv, Launched
<1>4. Outcome("load") = "running" /\ Outcome("none") = "none"
  BY DEF Outcome
<1> QED
  BY <1>1, <1>2, <1>3, <1>4 DEF Lifecycle!Launch

LEMMA StoreLife ==
    ASSUME PipelineInv, NEW r \in Requests, CommitRow(r), UNCHANGED workerVars
    PROVE  Lifecycle!Store(Len(raw) + 1) /\ Len(raw) + 1 \in DocIds
<1>1. Len(raw) + 1 \in DocIds /\ Len(raw') = Len(raw) + 1
  BY RoomForRow DEF PipelineInv
<1>2. RequestInv'
  BY CommitRowInv DEF PipelineInv
<1>3. DOMAIN raw = 1..Len(raw) /\ DOMAIN raw' = 1..Len(raw') /\ Len(raw) \in Nat
  BY <1>2, RowsAreDocs, LenProperties DEF PipelineInv, RequestInv, Types
<1>4. UNCHANGED <<flow, pages, served>>
  BY DEF CommitRow, workerVars
<1> QED
  BY <1>1, <1>3, <1>4 DEF Lifecycle!Store

LEMMA RequestLife ==
    ASSUME PipelineInv, RequestNext, UNCHANGED workerVars
    PROVE  [Lifecycle!Next]_Lifecycle!vars
<1>1. UNCHANGED <<pages, served>>
  BY DEF workerVars
<1>2. ASSUME NEW r \in Requests, CommitRow(r) PROVE Lifecycle!Next
  BY <1>2, StoreLife DEF Lifecycle!Next
<1>3. ASSUME NEW r \in Requests, pc[r] = "start", flow' = Launched(r), UNCHANGED raw
      PROVE  Lifecycle!Next
  <2>1. mine[r].row \in DocIds
    BY <1>3, RowsAreDocs DEF PipelineInv, StartInv, Knows
  <2> QED
    BY <1>1, <1>3, <2>1, LaunchLife DEF Lifecycle!Next
<1>4. ASSUME NEW r \in Requests, Begin(r) \/ Serve(r) \/ StartFails(r)
      PROVE  [Lifecycle!Next]_Lifecycle!vars
  <2>1. CASE EarlySteps(r) \/ Deduplicate(r)
    <3>1. UNCHANGED <<raw, flow>>
      BY <2>1 DEF EarlySteps, Begin, Lookup, ChooseSlug, InsertSpace, Reread, CheckCap,
         ReadFile, Validate, FindSource, Deduplicate
    <3> QED
      BY <1>1, <3>1, QuietLife
  <2>2. CASE CommitRow(r)
    BY <1>2, <2>2
  <2>3. CASE StartWorkflow(r)
    BY <1>3, <2>3 DEF StartWorkflow, At
  <2>4. CASE StartFails(r)
    <3>1. UNCHANGED raw /\ pc[r] = "start" /\ flow' \in {flow, Launched(r)}
      BY <2>4 DEF StartFails, At
    <3> QED
      BY <1>1, <1>3, <3>1, QuietLife
  <2>5. CASE StampFailed(r)
    BY <1>1, <2>5, QuietLife DEF StampFailed
  <2>6. CASE RecordWorkflowId(r)
    BY <1>1, <2>6, QuietLife DEF RecordWorkflowId
  <2> QED
    BY <1>4, <2>1, <2>2, <2>3, <2>4, <2>5, <2>6 DEF Serve, EarlySteps
<1>5. ASSUME (\E api \in {Req[r].api : r \in Requests} : ApiCrashes(api)) \/ DayPasses
      PROVE  UNCHANGED Lifecycle!vars
  BY <1>1, <1>5, QuietLife DEF ApiCrashes, DayPasses
<1> QED
  BY <1>4, <1>5 DEF RequestNext

LEMMA Publishes ==
    ASSUME FlowInv, NEW d \in DocIds, DOMAIN raw' = DOMAIN raw, pages' = pages,
           served' = served \/ served' = Mirrored(d)
    PROVE  Lifecycle!MorePublished
BY DEF FlowInv, Mirrored, Lifecycle!MorePublished

\* A workflow that gives up, after whatever its last attempt has done.
LEMMA GiveUpLife ==
    ASSUME FlowInv, NEW d \in DocIds, flow[d] \in Activities,
           NEW to \in {"failed", "cancelled"}, flow' = [flow EXCEPT ![d] = to],
           UNCHANGED <<raw, pages>>, Lifecycle!MorePublished
    PROVE  Lifecycle!Next
<1>1. Outcome(to) = to /\ Outcome(flow[d]) = "running"
  BY DEF Outcome, Activities
<1>2. [e \in DocIds |-> Outcome(flow'[e])]
         = [[e \in DocIds |-> Outcome(flow[e])] EXCEPT ![d] = Outcome(to)]
  BY OutcomeMoves
<1>3. Lifecycle!GiveUp(d)
  BY <1>1, <1>2 DEF Lifecycle!GiveUp
<1> QED
  BY <1>3 DEF Lifecycle!Next

LEMMA SucceedLife ==
    ASSUME FlowInv, NEW d \in DocIds, flow[d] = "embed", flow' = [flow EXCEPT ![d] = "completed"],
           UNCHANGED <<raw, pages, served>>
    PROVE  Lifecycle!Next
<1>1. Outcome("completed") = "succeeded" /\ Outcome("embed") = "running" /\ d \in served
  BY DEF Outcome, FlowInv
<1>2. [e \in DocIds |-> Outcome(flow'[e])]
         = [[e \in DocIds |-> Outcome(flow[e])] EXCEPT ![d] = Outcome("completed")]
  BY OutcomeMoves
<1>3. Lifecycle!Succeed(d)
  BY <1>1, <1>2 DEF Lifecycle!Succeed
<1> QED
  BY <1>3 DEF Lifecycle!Next

LEMMA OnwardLife ==
    ASSUME FlowInv, NEW d \in DocIds, flow[d] \in Activities,
           flow' = flow \/ \E to \in Activities : flow' = [flow EXCEPT ![d] = to],
           UNCHANGED <<raw, pages>>, Lifecycle!MorePublished
    PROVE  Lifecycle!Next
<1>1. [e \in DocIds |-> Outcome(flow'[e])] = [e \in DocIds |-> Outcome(flow[e])]
  BY StaysRunning
<1>2. Lifecycle!Publish
  BY <1>1 DEF Lifecycle!Publish
<1> QED
  BY <1>2 DEF Lifecycle!Next

LEMMA WorkLife ==
    ASSUME FlowInv, NEW d \in DocIds, Work(d)
    PROVE  Lifecycle!Next
<1>1. UNCHANGED raw /\ flow[d] \in Activities
  BY DEF Work, LoadRawDocument, ExtractText, OkfIngest, RecordRun, OkfMirror, EmbedKick,
     Running, Keep, Activities
<1>2. CASE LoadRawDocument(d)
  <2>1. PICK to \in {"extract", "ingest"} : Continue(d, to)
    BY <1>2 DEF LoadRawDocument
  <2>2. flow' = [flow EXCEPT ![d] = to] /\ to \in Activities /\ UNCHANGED <<pages, served>>
    BY <1>2, <2>1 DEF LoadRawDocument, Continue, Activities
  <2> QED
    BY <1>1, <2>2, Publishes, OnwardLife
<1>3. CASE ExtractText(d)
  <2>1. UNCHANGED <<pages, served>>
    BY <1>3 DEF ExtractText
  <2>2. CASE Continue(d, "failed")
    BY <1>1, <2>1, <2>2, Publishes, GiveUpLife DEF Continue
  <2>3. CASE UNCHANGED flow
    BY <1>1, <2>1, <2>3, Publishes, OnwardLife
  <2> QED
    BY <1>3, <2>2, <2>3 DEF ExtractText
<1>4. CASE OkfIngest(d)
  <2>1. flow[d] = "ingest" /\ pages' = pages \union {d} /\ UNCHANGED <<flow, served>>
    BY <1>4 DEF OkfIngest, Running
  <2>2. Lifecycle!Compile(d)
    BY <1>1, <2>1 DEF Lifecycle!Compile, Outcome
  <2> QED
    BY <2>2 DEF Lifecycle!Next
<1>5. CASE RecordRun(d)
  <2>1. PICK to \in {"ingest", "mirror"} : Continue(d, to)
    BY <1>5 DEF RecordRun
  <2>2. flow' = [flow EXCEPT ![d] = to] /\ to \in Activities /\ UNCHANGED <<pages, served>>
    BY <1>5, <2>1 DEF RecordRun, Continue, Activities
  <2> QED
    BY <1>1, <2>2, Publishes, OnwardLife
<1>6. CASE OkfMirror(d)
  <2>1. /\ flow' = [flow EXCEPT ![d] = "embed"] /\ "embed" \in Activities /\ UNCHANGED pages
        /\ served' = Mirrored(d)
    BY <1>6 DEF OkfMirror, Continue, Activities
  <2> QED
    BY <1>1, <2>1, Publishes, OnwardLife
<1>7. CASE EmbedKick(d)
  BY <1>1, <1>7, SucceedLife DEF EmbedKick, Running, Continue
<1> QED
  BY <1>2, <1>3, <1>4, <1>5, <1>6, <1>7 DEF Work

LEMMA LostLife ==
    ASSUME FlowInv, NEW d \in DocIds, AttemptLost(d) \/ Cancel(d)
    PROVE  Lifecycle!Next
<1>1. UNCHANGED <<raw, pages>> /\ flow[d] \in Activities
  BY DEF AttemptLost, Cancel, Keep
<1>2. Lifecycle!MorePublished
  <2>1. served' = served \/ served' = Mirrored(d)
    BY DEF AttemptLost, Cancel, MaybeDone, StillRuns
  <2> QED
    BY <1>1, <2>1, Publishes
<1>3. CASE UNCHANGED flow
  BY <1>1, <1>2, <1>3, OnwardLife
<1>4. CASE Continue(d, "failed") \/ Continue(d, "cancelled")
  BY <1>1, <1>2, <1>4, GiveUpLife DEF Continue
<1>5. CASE flow[d] = "embed" /\ Continue(d, "completed")
  <2>1. UNCHANGED served
    BY <1>5 DEF AttemptLost, Cancel, MaybeDone, StillRuns
  <2> QED
    BY <1>1, <1>5, <2>1, SucceedLife DEF Continue
<1> QED
  BY <1>3, <1>4, <1>5 DEF AttemptLost, Cancel

\* What an attempt that was given up still compiles or mirrors.
LEMMA LateLife ==
    ASSUME FlowInv, NEW d \in DocIds, Late(d)
    PROVE  Lifecycle!Next
<1>1. UNCHANGED <<raw, flow>>
  BY DEF Late, LateEffect, LateRecord, LateMirror, Keep
<1>2. ASSUME UNCHANGED pages, served' = served \/ served' = Mirrored(d)
      PROVE  Lifecycle!Next
  <2>1. Lifecycle!MorePublished
    BY <1>1, <1>2, Publishes
  <2>2. Lifecycle!Publish
    BY <1>1, <1>2, <2>1 DEF Lifecycle!Publish
  <2> QED
    BY <2>2 DEF Lifecycle!Next
<1>3. ASSUME LateEffect(d, "ingest")
      PROVE  Lifecycle!Next
  <2>1. strays[d][<<"ingest", "effect">>] > 0 /\ pages' = pages \union {d} /\ UNCHANGED served
    BY <1>3 DEF LateEffect
  <2>2. flow[d] \in Flows /\ flow[d] # "none"
    BY <2>1, StrayPlaces DEF FlowInv, StrayInv
  <2>3. Outcome(flow[d]) # "none"
    BY <2>2 DEF Outcome
  <2>4. Lifecycle!Compile(d)
    BY <1>1, <2>1, <2>3 DEF Lifecycle!Compile
  <2> QED
    BY <2>4 DEF Lifecycle!Next
<1>4. CASE LateEffect(d, "extract")
  BY <1>2, <1>4 DEF LateEffect
<1>5. ASSUME NEW a \in {"extract", "ingest"}, LateRecord(d, a)
      PROVE  Lifecycle!Next
  BY <1>2, <1>5 DEF LateRecord
<1>6. CASE LateMirror(d)
  BY <1>2, <1>6 DEF LateMirror
<1> QED
  BY <1>3, <1>4, <1>5, <1>6 DEF Late

LEMMA InitLife == Init => Lifecycle!Init
BY DEF Init, RequestInit, Lifecycle!Init, Outcome

LEMMA NextLife == PipelineInv /\ [Next]_vars => [Lifecycle!Next]_Lifecycle!vars
<1> SUFFICES ASSUME PipelineInv, [Next]_vars PROVE [Lifecycle!Next]_Lifecycle!vars
  OBVIOUS
<1>1. FlowInv
  BY DEF PipelineInv
<1>2. CASE \E d \in DocIds : Work(d) \/ AttemptLost(d) \/ Cancel(d) \/ Late(d)
  BY <1>1, <1>2, WorkLife, LostLife, LateLife
<1>3. CASE \E r \in Requests : Poll(r) \/ PollGivesUp(r)
  BY <1>3, QuietLife DEF Poll, PollGivesUp, workerVars
<1>4. CASE UNCHANGED vars
  BY <1>4, QuietLife DEF vars, requestVars, workerVars
<1> QED
  BY <1>2, <1>3, <1>4, RequestLife DEF Next, Finished

\* The requests, workflows and faults together implement the life cycle: a document
\* is stored before it is worked on, it is compiled only for its one workflow, perhaps
\* by an attempt that goes on after the workflow's end, becomes searchable after that
\* and stays so, and no workflow succeeds before.
THEOREM PipelineKeepsLifecycle == Spec => KeepsLifecycle
<1>1. PipelineInv /\ PipelineInv' /\ [Next]_vars => [Lifecycle!Next]_Lifecycle!vars
  BY NextLife
<1> QED
  BY <1>1, InitLife, PipelineInvariant, PTL DEF Spec, KeepsLifecycle, Lifecycle!Spec

-----------------------------------------------------------------------------
(* One event loop.                                                         *)

\* The API runs as one process, so that all uploads share an event loop.
OneEventLoop ==
    \A r, q \in Requests : IsUpload(r) /\ IsUpload(q) => Req[r].api = Req[q].api

\* One upload at a time keeps the event loop.
LoopInv ==
    \A r, q \in Requests :
        IsUpload(r) /\ IsUpload(q) /\ pc[r] \in Busy /\ pc[q] \in Busy => r = q

SourcesInv ==
    /\ \A n \in Names : sources[n] <= 1
    /\ \A r \in Requests :
          mine[r].src => IsUpload(r) /\ pc[r] = "commit" /\ sources[Req[r].source] = 0

OneLoopInv == Types /\ LoopInv /\ SourcesInv

LEMMA TakesLoop ==
    ASSUME OneEventLoop, Types, LoopInv, NEW r \in Requests, HasLoop(r),
           NEW p, pc' = [pc EXCEPT ![r] = p]
    PROVE  LoopInv'
<1>1. ASSUME NEW q \in Requests, NEW o \in Requests, IsUpload(q), IsUpload(o),
             pc'[q] \in Busy, pc'[o] \in Busy
      PROVE  q = o
  <2>1. \A a \in Requests : a # r => pc'[a] = pc[a]
    BY DEF Types
  <2>2. \A a \in Requests \ {r} : IsUpload(r) /\ IsUpload(a) => pc[a] \notin Busy
    BY DEF OneEventLoop, HasLoop
  <2> QED
    BY <1>1, <2>1, <2>2 DEF LoopInv
<1> QED
  BY <1>1 DEF LoopInv, IsUpload

LEMMA StepTakesLoop ==
    ASSUME Types, NEW r \in Requests, Begin(r) \/ Serve(r) \/ StartFails(r)
    PROVE  HasLoop(r) /\ \E p \in Steps : pc' = [pc EXCEPT ![r] = p]
<1>1. CASE Begin(r)
  BY <1>1 DEF Begin, At, Go, Steps, Busy
<1>2. CASE Lookup(r) \/ ChooseSlug(r) \/ InsertSpace(r) \/ Reread(r) \/ CheckCap(r)
  BY <1>2 DEF Lookup, ChooseSlug, InsertSpace, Reread, CheckCap, At, Go, Answer, Steps, Busy,
     Answered
<1>3. CASE ReadFile(r) \/ Validate(r) \/ FindSource(r)
  BY <1>3 DEF ReadFile, Validate, FindSource, At, Go, Answer, Steps, Busy, Awaiting, Answered
<1>4. CASE Deduplicate(r) \/ CommitRow(r) \/ StartWorkflow(r)
  BY <1>4 DEF Deduplicate, NextDoc, CommitRow, StartWorkflow, At, Go, Steps, Busy, Awaiting,
     Answered
<1>5. CASE StampFailed(r) \/ RecordWorkflowId(r) \/ StartFails(r)
  BY <1>5 DEF StampFailed, RecordWorkflowId, NextDoc, StartFails, At, Go, Answer, Steps,
     Awaiting, Answered
<1> QED
  BY <1>1, <1>2, <1>3, <1>4, <1>5 DEF Serve

\* The steps that have nothing to do with sources.
LEMMA OtherSources ==
    ASSUME Types, SourcesInv, NEW r \in Requests, UNCHANGED sources,
           pc[r] # "commit", NEW p, pc' = [pc EXCEPT ![r] = p],
           NEW m, mine' = [mine EXCEPT ![r] = m], m.src => mine[r].src
    PROVE  SourcesInv'
<1>1. \A q \in Requests \ {r} : pc'[q] = pc[q] /\ mine'[q] = mine[q]
  BY DEF Types
<1>2. ~ mine'[r].src
  BY DEF Types, SourcesInv
<1> QED
  BY <1>1, <1>2 DEF SourcesInv, IsUpload

LEMMA StepSources ==
    ASSUME OneEventLoop, RequestInv, OneLoopInv, NEW r \in Requests,
           Begin(r) \/ Serve(r) \/ StartFails(r)
    PROVE  SourcesInv'
<1>1. PICK p \in Steps : pc' = [pc EXCEPT ![r] = p]
  BY StepTakesLoop DEF OneLoopInv
<1>2. mine[r] \in Mine /\ Types
  BY DEF OneLoopInv, Types
<1>3. CASE FindSource(r)
  <2>1. pc[r] = "source" /\ UNCHANGED sources /\ IsUpload(r)
    BY <1>3, Now DEF FindSource, At, Local
  <2>2. CASE Answer(r, "error")
    BY <1>1, <1>2, <2>1, <2>2, OtherSources DEF Answer, Closed, OneLoopInv, Mine
  <2>3. CASE Go(r, "commit") /\ mine' = [mine EXCEPT ![r].src = sources[Req[r].source] = 0]
    <3>1. \A q \in Requests \ {r} : pc'[q] = pc[q] /\ mine'[q] = mine[q]
      BY <1>1, <1>2, <2>3 DEF Types
    <3>2. pc'[r] = "commit" /\ mine'[r].src = (sources[Req[r].source] = 0)
      BY <1>2, <2>3 DEF Types, Go, Mine
    <3> QED
      BY <2>1, <3>1, <3>2 DEF OneLoopInv, SourcesInv, IsUpload
  <2> QED
    BY <1>3, <2>2, <2>3 DEF FindSource
<1>4. CASE CommitRow(r)
  <2>1. pc[r] = "commit"
    BY <1>4 DEF CommitRow, At
  <2>2. mine' = [mine EXCEPT ![r] = [mine[r] EXCEPT !.new = FALSE, !.src = FALSE, !.row = Len(raw) + 1]]
    BY <1>2, <1>4 DEF CommitRow, Types
  <2>3. /\ \A q \in Requests \ {r} : pc'[q] = pc[q] /\ mine'[q] = mine[q]
        /\ mine'[r].src = FALSE
    BY <1>1, <1>2, <2>2 DEF Types, Mine
  <2>4. CASE ~ mine[r].src
    BY <1>4, <2>3, <2>4 DEF CommitRow, OneLoopInv, SourcesInv, IsUpload
  <2>5. CASE mine[r].src
    <3>1. IsUpload(r) /\ sources[Req[r].source] = 0
          /\ sources' = [sources EXCEPT ![Req[r].source] = @ + 1]
      BY <1>4, <2>5 DEF CommitRow, OneLoopInv, SourcesInv
    <3>2. \A n \in Names : sources'[n] <= 1
      BY <1>2, <3>1 DEF OneLoopInv, SourcesInv, Types
    <3>3. \A q \in Requests \ {r} : ~ mine[q].src
      BY <2>1, <3>1 DEF OneLoopInv, LoopInv, SourcesInv, Busy
    <3> QED
      BY <2>3, <3>2, <3>3 DEF SourcesInv
  <2> QED
    BY <2>4, <2>5
<1>5. CASE Begin(r) \/ Lookup(r) \/ ChooseSlug(r) \/ InsertSpace(r) \/ Reread(r) \/ CheckCap(r)
  <2>1. pc[r] # "commit" /\ UNCHANGED sources
    BY <1>5 DEF Begin, Lookup, ChooseSlug, InsertSpace, Reread, CheckCap, At
  <2>2. (\E m : mine' = [mine EXCEPT ![r] = m] /\ m.src = mine[r].src) \/ Answer(r, "error")
    <3>1. mine = [mine EXCEPT ![r] = mine[r]]
      BY <1>2 DEF Types
    <3> QED
      BY <1>2, <1>5, <3>1 DEF Begin, Lookup, ChooseSlug, InsertSpace, Reread, CheckCap, Mine
  <2> QED
    BY <1>1, <1>2, <2>1, <2>2, OtherSources DEF Answer, Closed, OneLoopInv, Mine
<1>6. CASE \/ ReadFile(r) \/ Validate(r) \/ Deduplicate(r) \/ StartWorkflow(r) \/ StampFailed(r)
           \/ RecordWorkflowId(r) \/ StartFails(r)
  <2>1. pc[r] # "commit" /\ UNCHANGED sources
    BY <1>6 DEF ReadFile, Validate, Deduplicate, StartWorkflow, StampFailed, RecordWorkflowId,
       StartFails, At
  <2>2. PICK m : mine' = [mine EXCEPT ![r] = m] /\ (m.src => mine[r].src)
    <3>1. mine = [mine EXCEPT ![r] = mine[r]]
      BY <1>2 DEF Types
    <3>2. CASE ReadFile(r) \/ Validate(r) \/ StartWorkflow(r) \/ StampFailed(r) \/ StartFails(r)
      BY <1>2, <3>1, <3>2 DEF ReadFile, Validate, StartWorkflow, StampFailed, StartFails, Answer,
         Closed, Mine
    <3>3. ASSUME NEW m \in Mine, m.src = mine[r].src, NextDoc(r, m)
          PROVE  \E o : mine' = [mine EXCEPT ![r] = o] /\ (o.src => mine[r].src)
      <4>1. ~ Closed(m).src /\ [m EXCEPT !.k = m.k + 1].src = m.src
        BY DEF Closed, Mine
      <4> QED
        BY <3>3, <4>1 DEF NextDoc
    <3>4. CASE RecordWorkflowId(r)
      BY <1>2, <3>3, <3>4 DEF RecordWorkflowId
    <3>5. CASE Deduplicate(r)
      <4>1. ASSUME NEW d \in Earlier(r)
            PROVE  [mine[r] EXCEPT !.row = d] \in Mine /\ [mine[r] EXCEPT !.row = d].src = mine[r].src
        BY <1>2, RowTypes DEF Earlier, Mine
      <4> QED
        BY <3>1, <3>3, <3>5, <4>1 DEF Deduplicate
    <3> QED
      BY <1>6, <3>2, <3>4, <3>5
  <2> QED
    BY <1>1, <1>2, <2>1, <2>2, OtherSources DEF OneLoopInv
<1> QED
  BY <1>3, <1>4, <1>5, <1>6 DEF Serve

LEMMA OneLoopNext ==
    ASSUME OneEventLoop, PipelineInv, OneLoopInv, [Next]_vars, PipelineInv'
    PROVE  OneLoopInv'
<1>1. Types' /\ Types /\ RequestInv
  BY DEF PipelineInv, RequestInv
<1>2. ASSUME NEW r \in Requests, Begin(r) \/ Serve(r) \/ StartFails(r) PROVE OneLoopInv'
  <2>1. PICK p \in Steps : HasLoop(r) /\ pc' = [pc EXCEPT ![r] = p]
    BY <1>1, <1>2, StepTakesLoop
  <2> QED
    BY <1>1, <1>2, <2>1, TakesLoop, StepSources DEF OneLoopInv
<1>3. ASSUME NEW api, ApiCrashes(api) PROVE OneLoopInv'
  <2>1. ASSUME NEW r \in Requests
        PROVE  /\ pc'[r] = pc[r] \/ pc'[r] = "lost"
               /\ mine'[r] = mine[r] \/ (pc'[r] = "lost" /\ ~ mine'[r].src)
               /\ pc[r] = "commit" /\ mine'[r].src => pc'[r] = "commit"
    <3>1. ~ Closed(mine[r]).src
      BY <1>1 DEF Types, Closed, Mine
    <3> QED
      BY <1>3, <3>1 DEF ApiCrashes
  <2>2. LoopInv'
    BY <2>1 DEF OneLoopInv, LoopInv, IsUpload, Busy
  <2>3. SourcesInv'
    BY <1>3, <2>1 DEF OneLoopInv, SourcesInv, IsUpload, ApiCrashes
  <2> QED
    BY <1>1, <2>2, <2>3 DEF OneLoopInv
<1>4. CASE UNCHANGED <<sources, pc, mine>>
  BY <1>1, <1>4 DEF OneLoopInv, LoopInv, SourcesInv, IsUpload
<1>5. ASSUME NEW r \in Requests, Poll(r) \/ PollGivesUp(r) PROVE OneLoopInv'
  <2>1. PICK p \in {"done", "failed"} : Go(r, p) /\ UNCHANGED <<sources, mine>> /\ pc[r] = "ok"
    BY <1>5 DEF Poll, PollGivesUp
  <2>2. \A q \in Requests : IF q = r THEN pc'[q] = p /\ ~ mine[q].src ELSE pc'[q] = pc[q]
    BY <1>1, <2>1 DEF Go, Types, OneLoopInv, SourcesInv
  <2> QED
    BY <1>1, <2>1, <2>2 DEF OneLoopInv, LoopInv, SourcesInv, IsUpload, Busy
<1>6. CASE \E d \in DocIds : Work(d) \/ AttemptLost(d) \/ Cancel(d) \/ Late(d)
  <2>1. UNCHANGED <<sources, pc, mine>>
    BY <1>6 DEF Work, LoadRawDocument, ExtractText, OkfIngest, RecordRun, OkfMirror, EmbedKick,
       AttemptLost, Cancel, Late, LateEffect, LateRecord, LateMirror, Keep
  <2> QED
    BY <1>4, <2>1
<1>7. CASE DayPasses \/ UNCHANGED vars
  BY <1>4, <1>7 DEF DayPasses, vars, requestVars
<1> QED
  BY <1>2, <1>3, <1>5, <1>6, <1>7 DEF Next, RequestNext, Finished

\* With one API process a source name never gets two rows, which would make the
\* look-up of upload_document raise for every later upload with that name.
THEOREM SourceNamesAreUnique ==
    ASSUME OneEventLoop
    PROVE  Spec => []SourceNameUnique
<1>1. Init => OneLoopInv
  <2> SUFFICES ASSUME Init PROVE OneLoopInv
    OBVIOUS
  <2>1. Types
    BY RequestInitInv DEF Init, RequestInv
  <2> QED
    BY <2>1 DEF Init, RequestInit, OneLoopInv, LoopInv, SourcesInv, Busy
<1>2. PipelineInv /\ PipelineInv' /\ OneLoopInv /\ [Next]_vars => OneLoopInv'
  BY OneLoopNext
<1>3. OneLoopInv => SourceNameUnique
  BY DEF OneLoopInv, SourcesInv, SourceNameUnique
<1> QED
  BY <1>1, <1>2, <1>3, PipelineInvariant, PTL DEF Spec

-----------------------------------------------------------------------------
(* A client's queue.                                                       *)

\* Only what is scanned is transcribed, and only pages that are there are recorded.
RunsInv ==
    \A d \in DocIds :
        /\ runs[d].ingest > 0 => d \in pages
        /\ (d \in DOMAIN raw => ~ raw[d].doc.binary) =>
              /\ runs[d].extract = 0 /\ flow[d] # "extract"
              /\ \A step \in {"effect", "record"} : strays[d][<<"extract", step>>] = 0

\* The row of an upload is of its one document, and when its client takes it for
\* done, its pages are there or it is a scan.
Waited(r, p, m) ==
    /\ IsUpload(r) /\ p \in {"start", "record", "ok", "done"} =>
          m.row \in DOMAIN raw /\ raw[m.row].doc = Req[r].docs[1]
    /\ p = "done" => IsUpload(r) /\ (raw[m.row].doc.binary \/ m.row \in pages)

QueueInv == RunsInv /\ \A r \in Requests : Waited(r, pc[r], mine[r])

\* The rows that are there stay, with their documents.
DocsStay == \A d \in DOMAIN raw : d \in DOMAIN raw' /\ raw'[d].doc = raw[d].doc

LEMMA WaitedStays ==
    ASSUME DocsStay, pages \subseteq pages', NEW r, NEW p, NEW m, Waited(r, p, m)
    PROVE  Waited(r, p, m)'
BY DEF Waited, DocsStay, IsUpload

LEMMA RunsStay ==
    ASSUME RunsInv, DocsStay, UNCHANGED <<runs, pages, strays>>,
           \A d \in DocIds : flow'[d] = "extract" => flow[d] = "extract"
    PROVE  RunsInv'
<1> SUFFICES ASSUME NEW d \in DocIds
             PROVE  /\ runs[d].ingest > 0 => d \in pages
                    /\ (d \in DOMAIN raw' => ~ raw'[d].doc.binary) =>
                          /\ runs[d].extract = 0 /\ flow'[d] # "extract"
                          /\ \A step \in {"effect", "record"} : strays[d][<<"extract", step>>] = 0
  BY DEF RunsInv, DocIds
<1>1. (d \in DOMAIN raw' => ~ raw'[d].doc.binary) => (d \in DOMAIN raw => ~ raw[d].doc.binary)
  BY DEF DocsStay
<1> QED
  BY <1>1 DEF RunsInv

\* A step of one request; no step of a request puts a workflow at the extraction.
LEMMA QueueMoves ==
    ASSUME PipelineInv, QueueInv, DocsStay, UNCHANGED workerVars,
           \A d \in DocIds : flow'[d] = "extract" => flow[d] = "extract",
           NEW r \in Requests, NEW p, NEW m,
           pc' = [pc EXCEPT ![r] = p], mine' = [mine EXCEPT ![r] = m], Waited(r, p, m)'
    PROVE  QueueInv'
<1>1. /\ pc'[r] = p /\ mine'[r] = m
      /\ \A q \in Requests \ {r} : pc'[q] = pc[q] /\ mine'[q] = mine[q]
  BY DEF PipelineInv, RequestInv, Types
<1>2. UNCHANGED <<runs, pages, strays>>
  BY DEF workerVars
<1>3. RunsInv'
  BY <1>2, RunsStay DEF QueueInv
<1>4. ASSUME NEW q \in Requests PROVE Waited(q, pc[q], mine[q])'
  <2>1. CASE q = r
    BY <1>1, <2>1 DEF Waited
  <2>2. CASE q # r
    <3>1. PICK o : o = pc[q]
      OBVIOUS
    <3>2. PICK n : n = mine[q]
      OBVIOUS
    <3>3. Waited(q, o, n)
      BY <3>1, <3>2 DEF QueueInv
    <3>4. Waited(q, o, n)'
      BY <1>2, <3>3, WaitedStays
    <3> QED
      BY <1>1, <2>2, <3>1, <3>2, <3>4 DEF Waited
  <2> QED
    BY <2>1, <2>2
<1> QED
  BY <1>3, <1>4 DEF QueueInv

LEMMA SameDocs ==
    ASSUME UNCHANGED raw
    PROVE  DocsStay
BY DEF DocsStay

LEMMA EarlyQueue ==
    ASSUME PipelineInv, QueueInv, NEW r \in Requests, EarlySteps(r), UNCHANGED workerVars
    PROVE  QueueInv'
<1>1. PICK p \in BeforeCommit \union {"error"}, m \in Mine :
         pc' = [pc EXCEPT ![r] = p] /\ mine' = [mine EXCEPT ![r] = m]
  BY EarlyShape
<1>2. UNCHANGED <<raw, flow>>
  BY EarlyShape
<1>3. Waited(r, p, m)'
  BY DEF Waited, BeforeCommit, Busy
<1> QED
  BY <1>1, <1>2, <1>3, SameDocs, QueueMoves

LEMMA DeduplicateQueue ==
    ASSUME PipelineInv, QueueInv, NEW r \in Requests, Deduplicate(r), UNCHANGED workerVars
    PROVE  QueueInv'
<1>1. pc[r] = "dedup" /\ UNCHANGED <<raw, flow>>
  BY DEF Deduplicate, At
<1>2. ~ IsUpload(r) /\ mine \in [Requests -> Mine]
  BY <1>1, Now DEF PipelineInv, RequestInv, Types, Local
<1>3. \E p \in {"commit", "dedup", "ok"} : pc' = [pc EXCEPT ![r] = p]
  BY DEF Deduplicate, NextDoc, Go
<1>4. PICK p \in {"commit", "dedup", "ok"} : pc' = [pc EXCEPT ![r] = p]
  BY <1>3
<1>5. PICK m : mine' = [mine EXCEPT ![r] = m]
  <2>1. UNCHANGED mine => mine' = [mine EXCEPT ![r] = mine[r]]
    BY <1>2
  <2> QED
    BY <2>1 DEF Deduplicate, NextDoc
<1>6. Waited(r, p, m)'
  BY <1>2 DEF Waited, IsUpload
<1> QED
  BY <1>1, <1>4, <1>5, <1>6, SameDocs, QueueMoves

LEMMA CommitRowQueue ==
    ASSUME PipelineInv, QueueInv, NEW r \in Requests, CommitRow(r), UNCHANGED workerVars
    PROVE  QueueInv'
<1>1. mine[r] \in Mine /\ mine[r].k \in DOMAIN Req[r].docs
  BY Now DEF PipelineInv, Local
<1>2. IsUpload(r) => Doc(r) = Req[r].docs[1]
  <2>1. IsUpload(r) => DOMAIN Req[r].docs = 1..1
    BY ReqAssumption DEF IsUpload
  <2> QED
    BY <1>1, <2>1 DEF Doc
<1>3. NewRow(r) \in Row
  <2>1. Doc(r) \in Docs
    BY <1>1 DEF Doc, Docs
  <2>2. User(r) \in Users /\ Req[r].kind \in {"upload", "conversation", "push", "sync"}
    BY ReqAssumption DEF User
  <2> QED
    BY <1>1, <2>1, <2>2 DEF NewRow, Row, Mine
<1>4. /\ raw' = Append(raw, NewRow(r)) /\ UNCHANGED <<aged, flow>>
      /\ pc' = [pc EXCEPT ![r] = "start"]
  BY DEF CommitRow, Go
<1>5. PICK row \in Row : row = NewRow(r)
  BY <1>3
<1>6. /\ DOMAIN raw = 1..Len(raw) /\ DOMAIN raw' = 1..Len(raw) + 1 /\ Len(raw) \in Nat
      /\ \A d \in 1..Len(raw) : raw'[d] = raw[d]
      /\ raw'[Len(raw) + 1] = row
  BY <1>4, <1>5, RowAppended DEF PipelineInv, RequestInv
<1>7. row.doc = Doc(r)
  BY <1>5 DEF NewRow
<1>8. PICK m : m = [mine[r] EXCEPT !.new = FALSE, !.src = FALSE, !.row = Len(raw) + 1]
  OBVIOUS
<1>9. mine' = [mine EXCEPT ![r] = m] /\ m.row = Len(raw) + 1
  BY <1>1, <1>8 DEF CommitRow, Mine
<1>10. Waited(r, "start", m)'
  BY <1>2, <1>6, <1>7, <1>9 DEF Waited, IsUpload
<1>11. DocsStay
  BY <1>6 DEF DocsStay
<1> QED
  BY <1>4, <1>9, <1>10, <1>11, QueueMoves

LEMMA StartQueue ==
    ASSUME PipelineInv, QueueInv, NEW r \in Requests, StartWorkflow(r) \/ StartFails(r),
           UNCHANGED workerVars
    PROVE  QueueInv'
<1>1. pc[r] = "start" /\ UNCHANGED raw /\ flow' \in {flow, Launched(r)}
  BY DEF StartWorkflow, StartFails, At
<1>2. \A d \in DocIds : flow'[d] = "extract" => flow[d] = "extract"
  BY <1>1 DEF Launched, PipelineInv, FlowInv
<1>3. mine \in [Requests -> Mine]
  BY DEF PipelineInv, RequestInv, Types
<1>4. CASE StartWorkflow(r)
  <2>1. PICK m : m = mine[r]
    OBVIOUS
  <2>2. pc' = [pc EXCEPT ![r] = "record"] /\ mine' = [mine EXCEPT ![r] = m]
    BY <1>3, <1>4, <2>1 DEF StartWorkflow, Go
  <2>3. Waited(r, "record", m)
    BY <1>1, <2>1 DEF QueueInv, Waited
  <2>4. Waited(r, "record", m)'
    BY <1>1, <2>3, SameDocs, WaitedStays DEF workerVars
  <2> QED
    BY <1>1, <1>2, <2>2, <2>4, SameDocs, QueueMoves
<1>5. CASE StartFails(r)
  <2>1. PICK p \in {"stamp", "error"} : pc' = [pc EXCEPT ![r] = p]
    BY <1>5 DEF StartFails, Answer, Go
  <2>2. PICK m : mine' = [mine EXCEPT ![r] = m]
    <3>1. UNCHANGED mine => mine' = [mine EXCEPT ![r] = mine[r]]
      BY <1>3
    <3> QED
      BY <1>5, <3>1 DEF StartFails, Answer
  <2>3. Waited(r, p, m)'
    BY DEF Waited
  <2> QED
    BY <1>1, <1>2, <2>1, <2>2, <2>3, SameDocs, QueueMoves
<1> QED
  BY <1>4, <1>5

\* A flag that is raised leaves the documents as they are.
LEMMA FlagKeepsDocs ==
    ASSUME PipelineInv, NEW r \in Requests, StampFailed(r) \/ RecordWorkflowId(r)
    PROVE  DocsStay
<1> DEFINE d == mine[r].row
<1>1. pc[r] \in {"stamp", "record"}
  BY DEF StampFailed, RecordWorkflowId, At
<1>2. d \in 1..Len(raw) /\ DOMAIN raw = 1..Len(raw) /\ raw \in Seq(Row)
  BY <1>1, RowsAreDocs DEF PipelineInv, StartInv, Knows, RequestInv, Types
<1>3. raw[d] \in Row
  BY <1>2, ElementOfSeq
<1>4. \E row \in Row : row.doc = raw[d].doc /\ raw' = [raw EXCEPT ![d] = row]
  <2>1. /\ [raw[d] EXCEPT !.failed = TRUE] \in Row /\ [raw[d] EXCEPT !.wf = TRUE] \in Row
        /\ [raw[d] EXCEPT !.failed = TRUE].doc = raw[d].doc
        /\ [raw[d] EXCEPT !.wf = TRUE].doc = raw[d].doc
    BY <1>3 DEF Row
  <2>2. \/ raw' = [raw EXCEPT ![d] = [raw[d] EXCEPT !.failed = TRUE]]
        \/ raw' = [raw EXCEPT ![d] = [raw[d] EXCEPT !.wf = TRUE]]
    BY DEF StampFailed, RecordWorkflowId
  <2> QED
    BY <2>1, <2>2
<1> QED
  BY <1>2, <1>4, ExceptSeq DEF DocsStay

LEMMA StampFailedQueue ==
    ASSUME PipelineInv, QueueInv, NEW r \in Requests, StampFailed(r), UNCHANGED workerVars
    PROVE  QueueInv'
<1>1. /\ pc' = [pc EXCEPT ![r] = "error"] /\ mine' = [mine EXCEPT ![r] = Closed(mine[r])]
      /\ UNCHANGED flow
  BY DEF StampFailed, Answer, Go
<1>2. PICK m : m = Closed(mine[r])
  OBVIOUS
<1>3. Waited(r, "error", m)'
  BY DEF Waited
<1> QED
  BY <1>1, <1>2, <1>3, FlagKeepsDocs, QueueMoves

LEMMA RecordWorkflowIdQueue ==
    ASSUME PipelineInv, QueueInv, NEW r \in Requests, RecordWorkflowId(r), UNCHANGED workerVars
    PROVE  QueueInv'
<1>1. pc[r] = "record" /\ UNCHANGED flow /\ NextDoc(r, mine[r])
  BY DEF RecordWorkflowId, At
<1>2. PICK old \in Mine : old = mine[r]
  BY Now DEF PipelineInv
<1>3. PICK p \in {"dedup", "ok"} : pc' = [pc EXCEPT ![r] = p]
  BY <1>1 DEF NextDoc, Go
<1>4. PICK m : mine' = [mine EXCEPT ![r] = m] /\ m.row = old.row
  <2>1. [old EXCEPT !.k = @ + 1].row = old.row /\ Closed(old).row = old.row
    BY DEF Closed, Mine
  <2> QED
    BY <1>1, <1>2, <2>1 DEF NextDoc
<1>5. Waited(r, "record", old)
  BY <1>1, <1>2 DEF QueueInv
<1>6. Waited(r, p, m)
  BY <1>4, <1>5 DEF Waited
<1>7. Waited(r, p, m)'
  BY <1>6, FlagKeepsDocs, WaitedStays DEF workerVars
<1> QED
  BY <1>1, <1>3, <1>4, <1>7, FlagKeepsDocs, QueueMoves

\* The tables stay, and each request stands where it was or is lost.
LEMMA LostQueue ==
    ASSUME QueueInv, UNCHANGED <<raw, flow, workerVars>>,
           \A r \in Requests : pc'[r] = "lost" \/ (pc'[r] = pc[r] /\ mine'[r] = mine[r])
    PROVE  QueueInv'
<1>1. RunsInv'
  BY SameDocs, RunsStay DEF QueueInv, workerVars
<1>2. ASSUME NEW r \in Requests PROVE Waited(r, pc[r], mine[r])'
  <2>1. CASE pc'[r] = "lost"
    BY <2>1 DEF Waited
  <2>2. CASE pc'[r] = pc[r] /\ mine'[r] = mine[r]
    BY <2>2 DEF QueueInv, Waited, IsUpload, workerVars
  <2> QED
    BY <2>1, <2>2
<1> QED
  BY <1>1, <1>2 DEF QueueInv

LEMMA RequestsQueue ==
    ASSUME PipelineInv, QueueInv, RequestNext, UNCHANGED workerVars
    PROVE  QueueInv'
<1>1. ASSUME NEW r \in Requests, Begin(r) \/ Serve(r) \/ StartFails(r) PROVE QueueInv'
  <2>1. \/ EarlySteps(r) \/ Deduplicate(r) \/ CommitRow(r) \/ StartWorkflow(r) \/ StartFails(r)
        \/ StampFailed(r) \/ RecordWorkflowId(r)
    BY <1>1 DEF Serve, EarlySteps
  <2> QED
    BY <2>1, EarlyQueue, DeduplicateQueue, CommitRowQueue, StartQueue, StampFailedQueue,
       RecordWorkflowIdQueue
<1>2. ASSUME NEW api, ApiCrashes(api) PROVE QueueInv'
  <2>1. UNCHANGED <<raw, flow>>
    BY <1>2 DEF ApiCrashes
  <2>2. \A r \in Requests : pc'[r] = "lost" \/ (pc'[r] = pc[r] /\ mine'[r] = mine[r])
    BY <1>2 DEF ApiCrashes
  <2> QED
    BY <2>1, <2>2, LostQueue
<1>3. CASE DayPasses
  BY <1>3, LostQueue DEF DayPasses
<1> QED
  BY <1>1, <1>2, <1>3 DEF RequestNext

\* A client takes a document that is no scan for done when its pages are recorded.
LEMMA PollQueue ==
    ASSUME PipelineInv, QueueInv, NEW r \in Requests, Poll(r) \/ PollGivesUp(r)
    PROVE  QueueInv'
<1>1. pc[r] = "ok" /\ IsUpload(r) /\ UNCHANGED <<raw, mine, flow, workerVars>>
  BY DEF Poll, PollGivesUp
<1>2. PICK p \in {"done", "failed"} : pc' = [pc EXCEPT ![r] = p]
  BY DEF Poll, PollGivesUp, Go
<1>3. PICK m : m = mine[r]
  OBVIOUS
<1>4. mine' = [mine EXCEPT ![r] = m]
  BY <1>1, <1>3 DEF PipelineInv, RequestInv, Types
<1>5. Waited(r, "ok", m)
  BY <1>1, <1>3 DEF QueueInv
<1>6. m.row \in DOMAIN raw /\ m.row \in DocIds
  BY <1>1, <1>5, RowsAreDocs DEF Waited, PipelineInv
<1>7. ASSUME p = "done", ~ raw[m.row].doc.binary PROVE m.row \in pages
  <2>1. Go(r, "done") /\ Status(m.row) = "done"
    <3>1. pc'[r] = "done"
      BY <1>2, <1>7 DEF PipelineInv, RequestInv, Types
    <3>2. CASE Poll(r)
      <4>1. Go(r, Status(m.row))
        BY <1>3, <3>2 DEF Poll
      <4>2. pc'[r] = Status(m.row)
        BY <4>1 DEF Go, PipelineInv, RequestInv, Types
      <4> QED
        BY <3>1, <4>1, <4>2
    <3>3. CASE PollGivesUp(r)
      <4>1. pc'[r] = "failed"
        BY <3>3 DEF PollGivesUp, Go, PipelineInv, RequestInv, Types
      <4> QED
        BY <3>1, <4>1
    <3> QED
      BY <3>2, <3>3
  <2>2. runs[m.row].extract + runs[m.row].ingest > 0
    BY <2>1 DEF Status
  <2>3. runs[m.row].extract = 0
    BY <1>6, <1>7 DEF QueueInv, RunsInv
  <2>4. runs[m.row].ingest \in Nat
    BY <1>6 DEF PipelineInv, FlowInv
  <2> QED
    BY <1>6, <2>2, <2>3, <2>4 DEF QueueInv, RunsInv
<1>8. Waited(r, p, m)
  BY <1>1, <1>5, <1>7 DEF Waited
<1>9. Waited(r, p, m)'
  BY <1>1, <1>8, SameDocs, WaitedStays DEF workerVars
<1> QED
  BY <1>1, <1>2, <1>4, <1>9, SameDocs, QueueMoves

\* A row is recorded of an activity that has had its effect.
LEMMA RecordedRuns ==
    ASSUME FlowInv, RunsInv, NEW d \in DocIds, NEW a \in {"extract", "ingest"},
           a = "ingest" => d \in pages,
           a = "extract" => d \in DOMAIN raw /\ raw[d].doc.binary, NEW e \in DocIds
    PROVE  /\ Recorded(d, a)[e].ingest > 0 => e \in pages
           /\ (e \in DOMAIN raw => ~ raw[e].doc.binary) => Recorded(d, a)[e].extract = 0
<1>1. runs \in [DocIds -> [extract : Nat, ingest : Nat]]
  BY DEF FlowInv
<1>2. CASE a = "extract"
  <2>1. Recorded(d, a) = [runs EXCEPT ![d].extract = @ + 1]
    BY <1>1, <1>2 DEF Recorded
  <2> QED
    BY <1>1, <1>2, <2>1 DEF RunsInv
<1>3. CASE a = "ingest"
  <2>1. Recorded(d, a) = [runs EXCEPT ![d].ingest = @ + 1]
    BY <1>1, <1>3 DEF Recorded
  <2> QED
    BY <1>1, <1>3, <2>1 DEF RunsInv
<1> QED
  BY <1>2, <1>3

\* Only what is scanned is transcribed, by attempts that were given up too.
LEMMA StraysOfScans ==
    ASSUME PipelineInv, RunsInv, NEW d \in DocIds, Work(d) \/ AttemptLost(d) \/ Cancel(d) \/ Late(d),
           NEW e \in DocIds, e \in DOMAIN raw => ~ raw[e].doc.binary, NEW step \in {"effect", "record"}
    PROVE  strays'[e][<<"extract", step>>] = 0
<1>1. PICK z \in GoesOn : z = <<"extract", step>>
  BY StrayPlaces
<1>2. strays[e][z] = 0 /\ flow[e] # "extract" /\ strays[e][<<"extract", "effect">>] = 0
  BY <1>1 DEF RunsInv
<1>3. strays \in [DocIds -> [GoesOn -> Nat]] /\ FlowInv
  BY DEF PipelineInv, FlowInv, StrayInv
<1>4. CASE UNCHANGED strays
  BY <1>1, <1>2, <1>4
<1>5. CASE StillRuns(d)
  <2>1. PICK x \in GoesOn : x = <<flow[d], at[d]>> /\ strays' = [strays EXCEPT ![d][x] = @ + 1]
    BY <1>5 DEF StillRuns
  <2>2. e # d \/ z # x
    BY <1>1, <1>2, <2>1
  <2>3. strays'[e][z] = strays[e][z]
    BY <1>3, <2>1, <2>2, OneMore
  <2> QED
    BY <1>1, <1>2, <2>3
<1>6. ASSUME NEW a \in {"extract", "ingest"}, LateEffect(d, a)
      PROVE  strays'[e][z] = 0
  <2>1. PICK x \in GoesOn, y \in GoesOn :
           /\ x = <<a, "effect">> /\ y = <<a, "record">> /\ strays[d][x] > 0
           /\ strays' = [strays EXCEPT ![d][x] = @ - 1, ![d][y] = @ + 1]
    BY <1>6, StrayPlaces DEF LateEffect
  <2>2. e # d \/ (z # x /\ z # y)
    BY <1>1, <1>2, <2>1
  <2>3. strays'[e][z] = strays[e][z]
    BY <1>3, <2>1, <2>2
  <2> QED
    BY <1>2, <2>3
<1>7. ASSUME NEW x \in GoesOn, strays[d][x] > 0, strays' = [strays EXCEPT ![d][x] = @ - 1]
      PROVE  strays'[e][z] = 0
  <2>1. strays'[e][z] \in Nat /\ ~ (strays'[e][z] > 0)
    BY <1>2, <1>3, <1>7, OneLess
  <2> QED
    BY <2>1
<1>8. CASE Late(d)
  BY <1>1, <1>6, <1>7, <1>8, StrayPlaces DEF Late, LateRecord, LateMirror
<1>9. CASE Work(d) \/ AttemptLost(d) \/ Cancel(d)
  BY <1>4, <1>5, <1>9 DEF Work, LoadRawDocument, ExtractText, OkfIngest, RecordRun, OkfMirror,
     EmbedKick, AttemptLost, Cancel, MaybeDone
<1> QED
  BY <1>8, <1>9

LEMMA WorkQueue ==
    ASSUME PipelineInv, QueueInv, NEW d \in DocIds, Work(d) \/ AttemptLost(d) \/ Cancel(d) \/ Late(d)
    PROVE  QueueInv'
<1>1. UNCHANGED <<raw, pc, mine>>
  BY DEF Work, LoadRawDocument, ExtractText, OkfIngest, RecordRun, OkfMirror, EmbedKick,
     AttemptLost, Cancel, Late, LateEffect, LateRecord, LateMirror, Keep
<1>2. pages \subseteq pages'
  BY DEF Work, LoadRawDocument, ExtractText, OkfIngest, RecordRun, OkfMirror, EmbedKick,
     AttemptLost, Cancel, Late, LateEffect, LateRecord, LateMirror
<1>3. \/ runs' = runs
      \/ at[d] = "record" /\ flow[d] \in {"extract", "ingest"} /\ runs' = Recorded(d, flow[d])
      \/ \E a \in {"extract", "ingest"} : strays[d][<<a, "record">>] > 0 /\ runs' = Recorded(d, a)
  BY DEF Work, LoadRawDocument, ExtractText, OkfIngest, RecordRun, OkfMirror, EmbedKick,
     AttemptLost, Cancel, Late, LateEffect, LateRecord, LateMirror, MaybeDone, StillRuns,
     PipelineInv, FlowInv
<1>4. /\ d \in DOMAIN raw /\ flow \in [DocIds -> Flows]
  <2>1. flow[d] # "none"
    <3>1. CASE Late(d)
      BY <3>1, StrayPlaces DEF Late, LateEffect, LateRecord, LateMirror, PipelineInv, FlowInv, StrayInv
    <3>2. CASE ~ Late(d)
      BY <3>2 DEF Work, LoadRawDocument, ExtractText, OkfIngest, RecordRun, OkfMirror, EmbedKick,
         AttemptLost, Cancel, Running, Activities
    <3> QED
      BY <3>1, <3>2
  <2>2. d \in Nat /\ Len(raw) \in Nat /\ DOMAIN raw = 1..Len(raw) /\ d >= 1
    BY RowsAreDocs DEF PipelineInv, DocIds
  <2> QED
    BY <2>1, <2>2 DEF PipelineInv, StartInv, FlowInv
<1>5. ASSUME NEW e \in DocIds, flow'[e] = "extract"
      PROVE  flow[e] = "extract" \/ (e \in DOMAIN raw /\ raw[e].doc.binary)
  <2>1. CASE LoadRawDocument(d)
    BY <1>4, <1>5, <2>1 DEF LoadRawDocument, Continue
  <2>2. CASE ~ LoadRawDocument(d)
    BY <1>4, <1>5, <2>2 DEF Work, ExtractText, OkfIngest, RecordRun, OkfMirror, EmbedKick,
       AttemptLost, Cancel, Late, LateEffect, LateRecord, LateMirror, Continue
  <2> QED
    BY <2>1, <2>2
<1>6. RunsInv'
  <2>1. ASSUME NEW e \in DocIds
        PROVE  /\ runs'[e].ingest > 0 => e \in pages
               /\ (e \in DOMAIN raw => ~ raw[e].doc.binary) => runs'[e].extract = 0
    <3>1. CASE runs' = runs
      BY <3>1 DEF QueueInv, RunsInv
    <3>2. ASSUME at[d] = "record", flow[d] \in {"extract", "ingest"}, runs' = Recorded(d, flow[d])
          PROVE  /\ runs'[e].ingest > 0 => e \in pages
                 /\ (e \in DOMAIN raw => ~ raw[e].doc.binary) => runs'[e].extract = 0
      <4>1. flow[d] = "ingest" => d \in pages
        BY <3>2 DEF PipelineInv, FlowInv
      <4>2. flow[d] = "extract" => d \in DOMAIN raw /\ raw[d].doc.binary
        BY DEF QueueInv, RunsInv
      <4> QED
        BY <3>2, <4>1, <4>2, RecordedRuns DEF PipelineInv, QueueInv
    <3>3. ASSUME NEW a \in {"extract", "ingest"}, strays[d][<<a, "record">>] > 0, runs' = Recorded(d, a)
          PROVE  /\ runs'[e].ingest > 0 => e \in pages
                 /\ (e \in DOMAIN raw => ~ raw[e].doc.binary) => runs'[e].extract = 0
      <4>1. a = "ingest" => d \in pages
        BY <3>3 DEF PipelineInv, FlowInv, StrayInv
      <4>2. a = "extract" => d \in DOMAIN raw /\ raw[d].doc.binary
        BY <3>3 DEF QueueInv, RunsInv
      <4> QED
        BY <3>3, <4>1, <4>2, RecordedRuns DEF PipelineInv, QueueInv
    <3> QED
      BY <1>3, <3>1, <3>2, <3>3
  <2>2. ASSUME NEW e \in DocIds, e \in DOMAIN raw => ~ raw[e].doc.binary
        PROVE  flow'[e] # "extract"
    BY <1>5, <2>2 DEF QueueInv, RunsInv
  <2>3. ASSUME NEW e \in DocIds, e \in DOMAIN raw => ~ raw[e].doc.binary,
               NEW step \in {"effect", "record"}
        PROVE  strays'[e][<<"extract", step>>] = 0
    BY <2>3, StraysOfScans DEF QueueInv
  <2> QED
    BY <1>1, <1>2, <2>1, <2>2, <2>3 DEF RunsInv, DocIds
<1>7. ASSUME NEW r \in Requests PROVE Waited(r, pc[r], mine[r])'
  <2>1. PICK p : p = pc[r]
    OBVIOUS
  <2>2. PICK m : m = mine[r]
    OBVIOUS
  <2>3. Waited(r, p, m)
    BY <2>1, <2>2 DEF QueueInv
  <2>4. Waited(r, p, m)'
    BY <1>1, <1>2, <2>3, SameDocs, WaitedStays
  <2> QED
    BY <1>1, <2>1, <2>2, <2>4 DEF Waited
<1> QED
  BY <1>6, <1>7 DEF QueueInv

LEMMA QueueNext == PipelineInv /\ QueueInv /\ [Next]_vars => QueueInv'
<1> SUFFICES ASSUME PipelineInv, QueueInv, [Next]_vars PROVE QueueInv'
  OBVIOUS
<1>1. CASE UNCHANGED vars
  BY <1>1, LostQueue DEF vars, requestVars
<1> QED
  BY <1>1, RequestsQueue, WorkQueue, PollQueue DEF Next, Finished

\* Nobody waits for a scan.
WaitsForTexts ==
    \A r \in Requests : Req[r].after # NoOne => ~ Req[Req[r].after].docs[1].binary

\* The queue of bulkUpload.ts is sequential when nobody waits for a scan:
\* ingest_status says done when ingest_runs has a row, and for a text the first row
\* is written after its pages are committed, however attempts are lost, retried or
\* cancelled. (For a scan the row of its transcription is there before.)
THEOREM QueuesOfTextsAreSequential ==
    ASSUME WaitsForTexts
    PROVE  Spec => []BulkIsSequential
<1>1. Init => QueueInv
  <2> SUFFICES ASSUME Init PROVE QueueInv
    OBVIOUS
  <2>1. \A d \in DocIds, x \in GoesOn : strays[d][x] = 0
    BY DEF Init
  <2>3. RunsInv
    BY <2>1, StrayPlaces DEF Init, RequestInit, RunsInv
  <2>2. \A r \in Requests : pc[r] = "new"
    BY DEF Init, RequestInit
  <2> QED
    BY <2>2, <2>3 DEF QueueInv, Waited
<1>2. PipelineInv /\ QueueInv /\ [Next]_vars => QueueInv'
  BY QueueNext
<1>3. QueueInv => BulkIsSequential
  <2> SUFFICES ASSUME QueueInv, NEW r \in Requests, Req[r].after # NoOne,
                      pc[Req[r].after] = "done"
               PROVE  mine[Req[r].after].row \in pages
    BY DEF BulkIsSequential
  <2>1. PICK p \in Requests : p = Req[r].after
    BY ReqAssumption
  <2>2. Waited(p, "done", mine[p])
    BY <2>1 DEF QueueInv
  <2>3. raw[mine[p].row].doc = Req[p].docs[1] /\ ~ Req[p].docs[1].binary
    BY <2>1, <2>2 DEF Waited, WaitsForTexts
  <2> QED
    BY <2>1, <2>2, <2>3 DEF Waited
<1> QED
  BY <1>1, <1>2, <1>3, PipelineInvariant, PTL DEF Spec
===============================================================================

------------------------ MODULE OkfIngestReportsProofs ------------------------
(***************************************************************************)
(* What the reports of an ingest and the commits it makes can be relied on *)
(* for: log.md, the job statuses, the links between pages and the facts of *)
(* the pages, for every number of slots, processes, jobs and slugs.        *)
(*                                                                         *)
(* All of it rests on what an attempt carries from its plan to its commit  *)
(* (AttemptInv).  Three of the results need more than the code guarantees; *)
(* each hypothesis is a definition here, named in the theorem.             *)
(***************************************************************************)
EXTENDS OkfIngestProofs, FiniteSetTheorems

\* The pages an attempt plans: its source page, and pages its extraction is
\* about, no two of one slug.
PlanOK(r) ==
    /\ \E e \in Extractions[r.job] : e.source = r.ext.source /\ e.derived = r.ext.derived
    /\ SourcePage(r.ext) \in r.ops
    /\ \A p \in r.ops \ {SourcePage(r.ext)} : p \in r.ext.derived /\ SlugOf(p) # r.ext.source
    /\ \A p, q \in r.ops : SlugOf(p) = SlugOf(q) => p = q

\* The slot has composed the body of the planned page p.
Composed(w, p) == pc[w] = "compose" => p \notin todo[w]

\* An attempt carries its plan along; it composes every planned body from its
\* own facts, and reports nothing before it writes.
Carries(w) ==
    /\ PlanOK(run[w])
    /\ pc[w] \in {"compose", "write", "writing"} => todo[w] \subseteq run[w].ops
    /\ pc[w] = "locking" => todo[w] = run[w].ops
    /\ pc[w] \in {"log", "commit"} => todo[w] = {}
    /\ \A p \in run[w].ops : Composed(w, p) => run[w].job \in run[w].body[p]
    /\ pc[w] \in {"compose", "locking"} => run[w].created = {}

PlanInv == \A w \in Workers : pc[w] # "idle" => Carries(w)

\* Under the lock, the planned pages that are not left to write are there; the
\* one being written is torn, or a part of what will be written.
WriteInv ==
    \A w \in Workers :
        /\ pc[w] \in PhaseB => \A p \in run[w].ops \ todo[w] : files[p] # Absent
        /\ pc[w] = "writing" =>
              /\ files[cur[w].page] = Torn \/ files[cur[w].page] \in CutShort(cur[w].new)
              /\ cur[w].page \in run[w].ops \ todo[w]

AttemptInv == PlanInv /\ WriteInv

-----------------------------------------------------------------------------
(* The kinds of step.                                                      *)

\* What slots that stop may leave behind: a part of a log entry ...
LeavesEntry(W) ==
    log' = log \/ \E w \in W : /\ pc[w] = "log"
                               /\ \E new \in LogEntry : /\ log' = Append(log, new)
                                                        /\ new.created \subseteq run[w].created

\* ... and a damaged page, which is the one that was being written.
LeavesPage(W) ==
    /\ damaged \subseteq damaged'
    /\ \A w \in W : pc[w] = "writing" =>
          files[cur[w].page] \in {Absent, Torn} \/ cur[w].page \in damaged'

\* The slots in W stop: what they wrote stays, and no job becomes done.  Under
\* the lock a slot stops with its process, in a write that fails, or at a torn
\* page.
Stops(W) ==
    /\ Leave(W)
    /\ LeavesBehind(W) /\ LeavesEntry(W) /\ LeavesPage(W)
    /\ recorded' = recorded
    /\ \A j \in Jobs : status'[j] = "done" => status[j] = "done"
    /\ head' # head => "crash" \in FaultKinds
    /\ \A w \in W : pc[w] \in PhaseB =>
          "crash" \in FaultKinds \/ "disk" \in FaultKinds \/ \E p \in Pages : files[p] = Torn

\* The server does something, or nobody.
Waits ==
    /\ UNCHANGED <<bundleVars, lock, slotVars, recorded>>
    /\ \A j \in Jobs : status'[j] = "done" => status[j] = "done"

LEMMA RaiseAwards ==
    ASSUME TypeOK, NEW w \in Workers, pc[w] # "idle", Raise(w)
    PROVE  \A j \in Jobs : status'[j] = "done" => status[j] = "done"
<1>1. run[w].job \in Jobs
  BY RunType
<1> QED
  BY <1>1 DEF Raise, GiveUp, serverVars, TypeOK

LEMMA RaiseStops ==
    ASSUME TypeOK, NEW w \in Workers, pc[w] # "idle", Raise(w),
           bundleVars' = bundleVars, recorded' = recorded, pc[w] # "writing",
           pc[w] \in PhaseB => \E p \in Pages : files[p] = Torn
    PROVE  Stops({w})
<1>1. Leave({w})
  BY DEF Raise
<1>2. \A j \in Jobs : status'[j] = "done" => status[j] = "done"
  BY RaiseAwards
<1> QED
  BY <1>1, <1>2 DEF Stops, LeavesBehind, LeavesEntry, LeavesPage, bundleVars

\* A write that is cut off leaves a part of an entry or a damaged page.
LEMMA WriteCutLeaves ==
    ASSUME TypeOK, LockInv, NEW W \in SUBSET Workers, NEW w \in W, WriteCut(w)
    PROVE  LeavesEntry(W) /\ LeavesPage(W)
<1>1. pc[w] \in PhaseB
  BY WriteCutType
<1>2. \A v \in W : pc[v] = "writing" => v = w
  BY <1>1 DEF LockInv, PhaseB
<1>3. CASE PageCut(w)
  <2>1. cur[w].page \in Pages
    BY <1>3 DEF PageCut, TypeOK, Write
  <2>2. files[cur[w].page] \in {Absent, Torn} \/ cur[w].page \in damaged'
    BY <1>3, <2>1 DEF PageCut, Readable
  <2> QED
    BY <1>2, <1>3, <2>2 DEF PageCut, LeavesEntry, LeavesPage
<1>4. CASE IndexCut(w)
  BY <1>2, <1>4 DEF IndexCut, LeavesEntry, LeavesPage
<1>5. CASE LogCut(w)
  <2>1. pc[w] = "log" /\ damaged' = damaged
    BY <1>5 DEF LogCut
  <2>2. PICK c \in SUBSET run[w].created, u \in SUBSET run[w].updated :
            log' = Append(log, [subject |-> run[w].ext.source, created |-> c, updated |-> u])
    BY <1>5 DEF LogCut
  <2> DEFINE new == [subject |-> run[w].ext.source, created |-> c, updated |-> u]
  <2>3. new \in LogEntry /\ new.created \subseteq run[w].created
    BY <2>1, RunType DEF LogEntry, Extraction
  <2>4. LeavesEntry(W)
    BY <2>1, <2>2, <2>3 DEF LeavesEntry
  <2> QED
    BY <1>2, <2>1, <2>4 DEF LeavesPage
<1> QED
  BY <1>3, <1>4, <1>5 DEF WriteCut

LEMMA CrashStops ==
    ASSUME TypeOK, LockInv, NEW p \in Processes, Crash(p)
    PROVE  Stops({w \in Workers : ProcessOf[w] = p})
<1> DEFINE W == {w \in Workers : ProcessOf[w] = p}
<1>1. /\ Leave(W) /\ UNCHANGED <<files, serverVars, recorded>>
      /\ "crash" \in FaultKinds
  BY DEF Crash, Fault
<1>2. CASE /\ \A w \in W : pc[w] # "writing"
           /\ UNCHANGED <<index, log, damaged, head, gitLock>>
  BY <1>1, <1>2 DEF Stops, LeavesBehind, LeavesEntry, LeavesPage, serverVars
<1>3. CASE \E w \in W : WriteCut(w) /\ UNCHANGED <<head, gitLock>>
  <2>1. PICK w \in W : WriteCut(w) /\ head' = head
    BY <1>3
  <2>2. LeavesEntry(W) /\ LeavesPage(W) /\ pc[w] \in PhaseB
    BY <2>1, WriteCutLeaves, WriteCutType
  <2> QED
    BY <1>1, <2>1, <2>2 DEF Stops, LeavesBehind, serverVars
<1>4. CASE \E w \in W : GitKilled(w)
  <2>1. PICK w \in W : GitKilled(w)
    BY <1>4
  <2>2. \A v \in W : pc[v] # "writing"
    BY <2>1 DEF GitKilled, LockInv, PhaseB
  <2> QED
    BY <1>1, <2>1, <2>2
    DEF GitKilled, Stops, LeavesBehind, LeavesEntry, LeavesPage, serverVars, PhaseB
<1> QED
  BY <1>2, <1>3, <1>4 DEF Crash

\* Every step is one of these.
LEMMA StepKinds ==
    ASSUME TypeOK, LockInv, WriteInv, [Next]_vars
    PROVE  \/ \E j \in Jobs : \E w \in Workers : \E e \in Extractions[j] : StartAttempt(w, j, e)
           \/ \E w \in Workers : \E p \in Pages : Compose(w, p) \/ BeginWrite(w, p)
           \/ \E w \in Workers : \/ ReachLock(w) \/ Acquire(w) \/ FlushPart(w) \/ EndWrite(w)
                                 \/ UpdateIndex(w) \/ AppendLog(w) \/ Commit(w)
                                 \/ SwallowsError(w) \/ RecordRun(w) \/ Reply(w)
           \/ \E W \in SUBSET Workers : Stops(W)
           \/ Waits
<1>1. ASSUME NEW w \in Workers, NEW p \in Pages, ComposeTorn(w, p) \/ WriteTorn(w, p)
      PROVE  Stops({w})
  BY <1>1, RaiseStops DEF ComposeTorn, WriteTorn, PhaseB
<1>2. ASSUME NEW w \in Workers, LlmFails(w) \/ LockTimesOut(w) \/ IndexTorn(w)
      PROVE  Stops({w})
  BY <1>2, RaiseStops DEF LlmFails, LockTimesOut, IndexTorn, PhaseB
<1>3. ASSUME NEW w \in Workers, DiskFails(w)
      PROVE  Stops({w})
  <2>1. /\ WriteCut(w) /\ Raise(w) /\ "disk" \in FaultKinds
        /\ UNCHANGED <<files, head, gitLock, recorded>>
    BY <1>3 DEF DiskFails, Fault
  <2>2. pc[w] \in PhaseB /\ Leave({w})
    BY <2>1, WriteCutType DEF Raise
  <2>3. LeavesEntry({w}) /\ LeavesPage({w})
    BY <2>1, WriteCutLeaves
  <2>4. \A j \in Jobs : status'[j] = "done" => status[j] = "done"
    BY <2>1, <2>2, RaiseAwards DEF PhaseB
  <2> QED
    BY <2>1, <2>2, <2>3, <2>4 DEF Stops, LeavesBehind
<1>4. ASSUME NEW w \in Workers, CancelStale(w)
      PROVE  Stops({w})
  BY <1>4 DEF CancelStale, Stops, LeavesBehind, LeavesEntry, LeavesPage, bundleVars,
              serverVars, PhaseB
<1>5. ASSUME NEW p \in Processes, Crash(p)
      PROVE  Stops({w \in Workers : ProcessOf[w] = p})
  BY <1>5, CrashStops
<1>6. ASSUME NEW j \in Jobs, DeadAttemptTimesOut(j) \/ SlowAttemptTimesOut(j)
      PROVE  Waits
  BY <1>6 DEF DeadAttemptTimesOut, SlowAttemptTimesOut, GiveUp, Waits, TypeOK
<1>7. CASE UNCHANGED vars
  BY <1>7 DEF vars, Waits, bundleVars, slotVars
<1> QED
  <2>1. ASSUME NEW w \in Workers, Stops({w}) PROVE \E W \in SUBSET Workers : Stops(W)
    BY <2>1
  <2>2. CASE \E w \in Workers : Step(w)
    BY <2>1, <2>2, <1>1, <1>2 DEF Step, GitLockedOut
  <2>3. CASE \E w \in Workers : \/ LlmFails(w) \/ LockTimesOut(w) \/ FlushPart(w)
                                \/ DiskFails(w) \/ GitFails(w) \/ CancelStale(w)
    BY <2>1, <2>3, <1>2, <1>3, <1>4 DEF GitFails
  <2>4. CASE \E j \in Jobs : Start(j) \/ DeadAttemptTimesOut(j) \/ SlowAttemptTimesOut(j)
    BY <2>4, <1>6 DEF Start
  <2>5. CASE \E p \in Processes : Crash(p)
    <3>1. PICK p \in Processes : Crash(p)
      BY <2>5
    <3>2. Stops({w \in Workers : ProcessOf[w] = p})
      BY <3>1, <1>5
    <3> QED
      BY <3>2
  <2> QED
    BY <1>7, <2>2, <2>3, <2>4, <2>5 DEF Next, Finished

-----------------------------------------------------------------------------
(* What an attempt carries along.                                          *)

\* The plan that resolve makes of an extraction.
LEMMA PlanIsOK ==
    ASSUME NEW j \in Jobs, NEW e \in Extractions[j], NEW r, NEW f \in Tree,
           r.job = j, r.ext = Effective(e, f), r.ops = Plan(e, f)
    PROVE  PlanOK(r)
<1>1. e \in Extraction
  BY IngestAssumption
<1>2. /\ r.ext.source = e.source /\ r.ext.derived = e.derived
      /\ SourcePage(r.ext) = SourcePage(e)
  BY <1>1 DEF Effective, Extraction, SourcePage
<1>3. \A p \in PlannedEntities(e, f) \union PlannedConcepts(e, f) :
         p \in e.derived /\ SlugOf(p) # e.source
  BY DEF PlannedEntities, PlannedConcepts, PlannedOfType
<1>4. \A p, q \in Plan(e, f) : SlugOf(p) = SlugOf(q) => p = q
  <2> SUFFICES ASSUME NEW p \in Plan(e, f), NEW q \in Plan(e, f), SlugOf(p) = SlugOf(q)
               PROVE  p = q
    OBVIOUS
  <2>1. SlugOf(SourcePage(e)) = e.source
    BY DEF SlugOf, SourcePage
  <2>2. CASE p = SourcePage(e) \/ q = SourcePage(e)
    BY <2>1, <2>2, <1>3 DEF Plan
  <2>3. CASE p \in PlannedEntities(e, f) /\ q \in PlannedEntities(e, f)
    BY <2>3, <1>1 DEF PlannedEntities, PlannedOfType, TypeOf, SlugOf, Extraction
  <2>4. CASE p \in PlannedConcepts(e, f) /\ q \in PlannedConcepts(e, f)
    BY <2>4, <1>1 DEF PlannedConcepts, PlannedOfType, TypeOf, SlugOf, Extraction
  <2>5. CASE \/ p \in PlannedEntities(e, f) /\ q \in PlannedConcepts(e, f)
             \/ q \in PlannedEntities(e, f) /\ p \in PlannedConcepts(e, f)
    BY <2>5 DEF PlannedConcepts
  <2> QED
    BY <2>2, <2>3, <2>4, <2>5 DEF Plan
<1> QED
  BY <1>2, <1>3, <1>4 DEF PlanOK, Plan

\* The slot does nothing, or stops.
Rests(v) ==
    \/ pc'[v] = "idle"
    \/ pc'[v] = pc[v] /\ run'[v] = run[v] /\ todo'[v] = todo[v]

LEMMA RestingCarries ==
    ASSUME PlanInv, NEW v \in Workers, Rests(v), pc'[v] # "idle"
    PROVE  Carries(v)'
<1>1. Carries(v) /\ pc'[v] = pc[v] /\ run'[v] = run[v] /\ todo'[v] = todo[v]
  BY DEF PlanInv, Rests
<1> QED
  BY <1>1 DEF Carries, PlanOK, Composed

LEMMA OthersCarry ==
    ASSUME PlanInv, NEW w \in Workers, \A v \in Workers \ {w} : Rests(v),
           Carries(w)' \/ Rests(w)
    PROVE  PlanInv'
<1> SUFFICES ASSUME NEW v \in Workers, pc'[v] # "idle"
             PROVE  Carries(v)'
  BY DEF PlanInv
<1>1. CASE Rests(v)
  BY <1>1, RestingCarries
<1>2. CASE ~Rests(v)
  BY <1>2
<1> QED
  BY <1>1, <1>2

LEMMA LeaveKeepsAttempt ==
    ASSUME TypeOK, AttemptInv, NEW W \in SUBSET Workers, Leave(W), files' = files
    PROVE  AttemptInv'
<1>1. \A w \in Workers : pc'[w] # "idle" =>
         pc'[w] = pc[w] /\ cur'[w] = cur[w] /\ run'[w] = run[w] /\ todo'[w] = todo[w]
  BY DEF Leave, TypeOK
<1>2. PlanInv'
  BY <1>1, RestingCarries DEF AttemptInv, PlanInv, Rests
<1>3. WriteInv'
  BY <1>1 DEF AttemptInv, WriteInv, PhaseB
<1> QED
  BY <1>2, <1>3 DEF AttemptInv

\* Nobody but w is in phase B.
LEMMA Alone ==
    ASSUME LockInv, NEW w \in Workers, pc[w] \in PhaseB
    PROVE  \A v \in Workers \ {w} : pc[v] \notin PhaseB
BY DEF LockInv

LEMMA BeginWriteKeepsAttempt ==
    ASSUME TypeOK, LockInv, AttemptInv, NEW w \in Workers, NEW p \in Pages, BeginWrite(w, p)
    PROVE  AttemptInv'
<1>1. /\ pc[w] = "write" /\ p \in todo[w] /\ files[p] # Torn
      /\ pc' = [pc EXCEPT ![w] = "writing"]
      /\ todo' = [todo EXCEPT ![w] = @ \ {p}]
      /\ files' = [files EXCEPT ![p] = Torn]
      /\ cur' = [cur EXCEPT ![w] = [page |-> p, new |-> NewPage(w, p)]]
      /\ run' = [run EXCEPT ![w] = Noted(@, p)]
  BY DEF BeginWrite, IsNext
<1>2. \A v \in Workers \ {w} : pc[v] \notin PhaseB
  BY <1>1, Alone DEF PhaseB
<1>3. run[w] \in Run /\ p \in run[w].ops
  BY <1>1, RunType DEF AttemptInv, PlanInv, Carries
<1>4. /\ run'[w].job = run[w].job /\ run'[w].ext = run[w].ext /\ run'[w].ops = run[w].ops
      /\ run'[w].body = run[w].body
  BY <1>1, <1>3 DEF Noted, Run, TypeOK
<1>5. /\ pc'[w] = "writing" /\ todo'[w] = todo[w] \ {p}
      /\ \A v \in Workers \ {w} : pc'[v] = pc[v] /\ todo'[v] = todo[v] /\ run'[v] = run[v]
                                  /\ cur'[v] = cur[v]
  BY <1>1 DEF TypeOK
<1>6. PlanInv'
  <2>1. Carries(w)
    BY <1>1 DEF AttemptInv, PlanInv
  <2>2. Carries(w)'
    BY <1>1, <1>4, <1>5, <2>1 DEF Carries, PlanOK, Composed
  <2> QED
    BY <1>5, <2>2, OthersCarry DEF AttemptInv, Rests
<1>7. WriteInv'
  <2>1. \A q \in Pages : files[q] # Absent => files'[q] # Absent
    BY <1>1, MarkersAssumption DEF TypeOK, Tree
  <2>2. files'[p] = Torn /\ cur'[w].page = p
    BY <1>1 DEF TypeOK, Tree
  <2>3. \A q \in run'[w].ops \ todo'[w] : files'[q] # Absent
    BY <1>1, <1>3, <1>4, <1>5, <2>1, <2>2, MarkersAssumption, RunType DEF AttemptInv, WriteInv, PhaseB
  <2> QED
    BY <1>2, <1>3, <1>4, <1>5, <2>2, <2>3 DEF WriteInv, PhaseB
<1> QED
  BY <1>6, <1>7 DEF AttemptInv

LEMMA FlushPartKeepsAttempt ==
    ASSUME TypeOK, LockInv, AttemptInv, NEW w \in Workers, FlushPart(w)
    PROVE  AttemptInv'
<1>1. pc[w] = "writing" /\ UNCHANGED <<pc, run, todo, cur>>
  BY DEF FlushPart, slotVars
<1>2. \A v \in Workers \ {w} : pc[v] \notin PhaseB
  BY <1>1, Alone DEF PhaseB
<1>3. cur[w].page \in Pages /\ cur[w].new \in Content
  BY <1>1 DEF TypeOK, Write
<1>4. PICK part \in CutShort(cur[w].new) : files' = [files EXCEPT ![cur[w].page] = part]
  BY DEF FlushPart
<1>5. part \in Content
  BY <1>3, <1>4, CutShortKeeps
<1>6. files'[cur[w].page] = part /\ \A q \in Pages \ {cur[w].page} : files'[q] = files[q]
  BY <1>3, <1>4 DEF TypeOK, Tree
<1>7. \A q \in Pages : files[q] # Absent => files'[q] # Absent
  BY <1>5, <1>6, MarkersAreNoContent
<1>8. PlanInv'
  BY <1>1, RestingCarries DEF AttemptInv, PlanInv, Rests
<1>9. WriteInv'
  BY <1>1, <1>2, <1>4, <1>6, <1>7, RunType DEF AttemptInv, WriteInv, PhaseB
<1> QED
  BY <1>8, <1>9 DEF AttemptInv

\* A plan is carried out as it was made, whatever other attempts do meanwhile.
THEOREM AttemptCarriesPlan == Spec => []AttemptInv
<1>1. Init => AttemptInv
  BY DEF Init, AttemptInv, PlanInv, WriteInv, PhaseB
<1>2. TypeOK /\ LockInv /\ AttemptInv /\ [Next]_vars => AttemptInv'
  <2> SUFFICES ASSUME TypeOK, LockInv, AttemptInv, [Next]_vars PROVE AttemptInv'
    OBVIOUS
  <2>1. ASSUME NEW j \in Jobs, NEW w \in Workers, NEW e \in Extractions[j],
               StartAttempt(w, j, e)
        PROVE  AttemptInv'
    <3>1. /\ pc' = [pc EXCEPT ![w] = "compose"] /\ todo' = [todo EXCEPT ![w] = Plan(e, files)]
          /\ UNCHANGED <<files, cur>>
      BY <2>1 DEF StartAttempt, bundleVars
    <3>2. /\ run'[w].job = j /\ run'[w].ext = Effective(e, files)
          /\ run'[w].ops = Plan(e, files) /\ run'[w].created = {}
          /\ \A v \in Workers \ {w} : run'[v] = run[v]
      BY <2>1 DEF StartAttempt, TypeOK
    <3>3. PlanOK(run'[w])
      BY <3>2, PlanIsOK DEF TypeOK
    <3>4. pc'[w] = "compose" /\ todo'[w] = run'[w].ops
      BY <3>1, <3>2 DEF TypeOK
    <3>5. Carries(w)'
      BY <3>2, <3>3, <3>4 DEF Carries, Composed
    <3>6. PlanInv'
      BY <3>1, <3>2, <3>5, OthersCarry DEF TypeOK, AttemptInv, Rests
    <3>7. WriteInv'
      BY <3>1, <3>2 DEF TypeOK, AttemptInv, WriteInv, PhaseB
    <3> QED
      BY <3>6, <3>7 DEF AttemptInv
  <2>2. ASSUME NEW w \in Workers, NEW p \in Pages, Compose(w, p)
        PROVE  AttemptInv'
    <3>1. /\ pc[w] = "compose" /\ todo' = [todo EXCEPT ![w] = @ \ {p}]
          /\ UNCHANGED <<files, cur, pc>>
      BY <2>2 DEF Compose, bundleVars
    <3>2. run[w] \in Run
      BY <3>1, RunType
    <3>3. /\ run'[w].job = run[w].job /\ run'[w].ext = run[w].ext /\ run'[w].ops = run[w].ops
          /\ run'[w].created = run[w].created
          /\ run[w].job \in run'[w].body[p]
          /\ \A q \in Pages \ {p} : run'[w].body[q] = run[w].body[q]
          /\ \A v \in Workers \ {w} : run'[v] = run[v]
      BY <2>2, <3>2 DEF Compose, TypeOK, Run
    <3>4. run[w].ops \subseteq Pages
      BY <3>2 DEF Run
    <3>5. PlanInv'
      <4>1. Carries(w) /\ todo'[w] = todo[w] \ {p}
        BY <3>1 DEF TypeOK, AttemptInv, PlanInv
      <4>2. \A q \in run'[w].ops : q \notin todo'[w] => run'[w].job \in run'[w].body[q]
        BY <3>1, <3>3, <3>4, <4>1 DEF Carries, Composed
      <4>3. Carries(w)'
        BY <3>1, <3>3, <4>1, <4>2 DEF Carries, PlanOK, Composed
      <4> QED
        BY <3>1, <3>3, <4>3, OthersCarry DEF TypeOK, AttemptInv, Rests
    <3>6. WriteInv'
      BY <3>1, <3>3 DEF TypeOK, AttemptInv, WriteInv, PhaseB
    <3> QED
      BY <3>5, <3>6 DEF AttemptInv
  <2>3. ASSUME NEW w \in Workers, NEW p \in Pages, BeginWrite(w, p)
        PROVE  AttemptInv'
    BY <2>3, BeginWriteKeepsAttempt
  <2>4. ASSUME NEW w \in Workers, ReachLock(w) \/ Acquire(w)
        PROVE  AttemptInv'
    <3>1. UNCHANGED <<files, cur, run>>
      BY <2>4 DEF ReachLock, Acquire, bundleVars
    <3>2. \/ pc[w] = "compose" /\ todo[w] = {} /\ pc' = [pc EXCEPT ![w] = "locking"]
             /\ todo' = [todo EXCEPT ![w] = run[w].ops]
          \/ pc[w] = "locking" /\ pc' = [pc EXCEPT ![w] = "write"] /\ todo' = todo
      BY <2>4 DEF ReachLock, Acquire
    <3>3. PlanInv'
      <4>1. Carries(w)
        BY <3>2 DEF AttemptInv, PlanInv
      <4>2. Carries(w)'
        BY <3>1, <3>2, <4>1 DEF TypeOK, Carries, PlanOK, Composed
      <4> QED
        BY <3>1, <3>2, <4>2, OthersCarry DEF TypeOK, AttemptInv, Rests
    <3>4. pc[w] = "locking" => todo[w] = run[w].ops
      BY <3>2 DEF AttemptInv, PlanInv, Carries
    <3>5. ASSUME NEW v \in Workers, pc'[v] \in PhaseB
          PROVE  \/ v = w /\ todo'[v] = run'[v].ops /\ pc'[v] # "writing"
                 \/ pc'[v] = pc[v] /\ todo'[v] = todo[v]
      BY <3>1, <3>2, <3>4, <3>5 DEF TypeOK, PhaseB
    <3>6. WriteInv'
      BY <3>1, <3>5 DEF AttemptInv, WriteInv, PhaseB
    <3> QED
      BY <3>3, <3>6 DEF AttemptInv
  <2>5. ASSUME NEW w \in Workers, EndWrite(w)
        PROVE  AttemptInv'
    <3>1. /\ pc[w] = "writing" /\ pc' = [pc EXCEPT ![w] = "write"]
          /\ files' = [files EXCEPT ![cur[w].page] = cur[w].new]
          /\ cur' = [cur EXCEPT ![w] = NoOne] /\ UNCHANGED <<run, todo>>
      BY <2>5 DEF EndWrite
    <3>2. \A v \in Workers \ {w} : pc[v] \notin PhaseB
      BY <3>1, Alone DEF PhaseB
    <3>3. cur[w].new \in Content
      BY <3>1 DEF TypeOK, Write
    <3>4. \A q \in Pages : files[q] # Absent => files'[q] # Absent
      BY <3>1, <3>3, MarkersAreNoContent DEF TypeOK, Tree
    <3>5. PlanInv'
      <4>1. Carries(w)
        BY <3>1 DEF AttemptInv, PlanInv
      <4>2. Carries(w)'
        BY <3>1, <4>1 DEF TypeOK, Carries, PlanOK, Composed
      <4> QED
        BY <3>1, <4>2, OthersCarry DEF TypeOK, AttemptInv, Rests
    <3>6. WriteInv'
      BY <3>1, <3>2, <3>4, RunType DEF TypeOK, AttemptInv, WriteInv, PhaseB
    <3> QED
      BY <3>5, <3>6 DEF AttemptInv
  <2>6. ASSUME NEW w \in Workers,
               UpdateIndex(w) \/ AppendLog(w) \/ Commit(w) \/ SwallowsError(w) \/ RecordRun(w)
        PROVE  AttemptInv'
    <3>1. UNCHANGED <<files, cur, run, todo>>
      BY <2>6 DEF UpdateIndex, AppendLog, Commit, SwallowsError, RecordRun, bundleVars
    <3>2. \/ pc[w] = "write" /\ todo[w] = {} /\ pc' = [pc EXCEPT ![w] = "log"]
          \/ pc[w] = "log" /\ pc' = [pc EXCEPT ![w] = "commit"]
          \/ pc[w] = "commit" /\ pc' = [pc EXCEPT ![w] = "record"]
          \/ pc[w] = "record" /\ pc' = [pc EXCEPT ![w] = "reply"]
      BY <2>6 DEF UpdateIndex, AppendLog, Commit, SwallowsError, RecordRun
    <3>3. PlanInv'
      <4>1. Carries(w)
        BY <3>1, <3>2 DEF AttemptInv, PlanInv
      <4>2. Carries(w)'
        BY <3>1, <3>2, <4>1 DEF TypeOK, Carries, PlanOK, Composed
      <4> QED
        BY <3>1, <3>2, <4>2, OthersCarry DEF TypeOK, AttemptInv, Rests
    <3>3a. \A v \in Workers : /\ pc'[v] \in PhaseB => pc[v] \in PhaseB
                              /\ pc'[v] = "writing" => pc[v] = "writing"
      BY <3>2 DEF TypeOK, PhaseB
    <3>4. WriteInv'
      BY <3>1, <3>3a DEF AttemptInv, WriteInv
    <3> QED
      BY <3>3, <3>4 DEF AttemptInv
  <2>7. ASSUME NEW w \in Workers, Reply(w)
        PROVE  AttemptInv'
    BY <2>7, LeaveKeepsAttempt DEF Reply, bundleVars
  <2>8. ASSUME NEW W \in SUBSET Workers, Stops(W)
        PROVE  AttemptInv'
    BY <2>8, LeaveKeepsAttempt DEF Stops, LeavesBehind
  <2>8a. ASSUME NEW w \in Workers, FlushPart(w)
         PROVE  AttemptInv'
    BY <2>8a, FlushPartKeepsAttempt
  <2>9. CASE Waits
    <3>1. PlanInv'
      BY <2>9, RestingCarries DEF Waits, slotVars, AttemptInv, PlanInv, Rests
    <3>2. WriteInv'
      BY <2>9 DEF Waits, slotVars, bundleVars, AttemptInv, WriteInv
    <3> QED
      BY <3>1, <3>2 DEF AttemptInv
  <2> QED
    BY <2>1, <2>2, <2>3, <2>4, <2>5, <2>6, <2>7, <2>8, <2>8a, <2>9, StepKinds DEF AttemptInv
<1>3. Inv => LockInv
  BY DEF Inv
<1> QED
  BY <1>1, <1>2, <1>3, TypeCorrect, Inductive, PTL DEF Spec

-----------------------------------------------------------------------------
(* log.md says "created" once for each page.                               *)

PagesOf(s) == {p \in Existing(files) : SlugOf(p) = s}
Reports(s) == {i \in DOMAIN log : s \in log[i].created}

\* The slot is about to report that it created a page of slug s.
WillReport(w, s) == pc[w] \in {"write", "writing", "log"} /\ s \in run[w].created

\* There is a page for each report that was or is about to be written.
LoggedInv ==
    \A s \in Slugs :
        /\ Cardinality(Reports(s)) <= Cardinality(PagesOf(s))
        /\ \A w \in Workers : WillReport(w, s) =>
              Cardinality(Reports(s)) + 1 <= Cardinality(PagesOf(s))

LEMMA PagesOfFinite ==
    ASSUME NEW s \in Slugs, NEW S \in SUBSET Pages, \A p \in S : SlugOf(p) = s
    PROVE  IsFiniteSet(S) /\ Cardinality(S) \in Nat
<1> DEFINE T == {<<"source", s>>, <<"entity", s>>, <<"concept", s>>}
<1>1. IsFiniteSet(T)
  <2>1. IsFiniteSet({<<"source", s>>})
    BY FS_Singleton
  <2>2. IsFiniteSet({<<"source", s>>} \union {<<"entity", s>>})
    BY <2>1, FS_AddElement
  <2>3. IsFiniteSet(({<<"source", s>>} \union {<<"entity", s>>}) \union {<<"concept", s>>})
    BY <2>2, FS_AddElement
  <2>4. T = ({<<"source", s>>} \union {<<"entity", s>>}) \union {<<"concept", s>>}
    OBVIOUS
  <2> QED
    BY <2>3, <2>4
<1>2. S \subseteq T
  BY DEF SlugOf, Pages, PageTypes
<1> QED
  BY <1>1, <1>2, FS_Subset, FS_CardinalityType

LEMMA ReportsFinite ==
    ASSUME TypeOK, NEW s \in Slugs
    PROVE  IsFiniteSet(Reports(s)) /\ Cardinality(Reports(s)) \in Nat
<1>1. DOMAIN log = 1..Len(log) /\ Len(log) \in Nat
  BY DEF TypeOK
<1>2. IsFiniteSet(1..Len(log))
  BY <1>1, FS_Interval
<1> QED
  BY <1>1, <1>2, FS_Subset, FS_CardinalityType DEF Reports

\* Steps that take no page away, log nothing and promise no further report.
LEMMA GrowsKeepsLogged ==
    ASSUME TypeOK, TypeOK', LoggedInv, log' = log,
           \A p \in Pages : files[p] # Absent => files'[p] # Absent,
           \A s \in Slugs : \A w \in Workers : WillReport(w, s)' => WillReport(w, s)
    PROVE  LoggedInv'
<1> SUFFICES ASSUME NEW s \in Slugs
             PROVE  /\ Cardinality(Reports(s))' <= Cardinality(PagesOf(s))'
                    /\ \A w \in Workers : WillReport(w, s)' =>
                          Cardinality(Reports(s))' + 1 <= Cardinality(PagesOf(s))'
  BY DEF LoggedInv
<1>1. Reports(s)' = Reports(s)
  BY DEF Reports
<1>2. PagesOf(s) \subseteq PagesOf(s)'
  BY DEF PagesOf, Existing
<1>3. IsFiniteSet(PagesOf(s)') /\ Cardinality(PagesOf(s)') \in Nat
      /\ IsFiniteSet(PagesOf(s)) /\ Cardinality(PagesOf(s)) \in Nat
  BY PagesOfFinite DEF PagesOf, Existing
<1>4. Cardinality(PagesOf(s)) <= Cardinality(PagesOf(s)')
  BY <1>2, <1>3, FS_Subset
<1>5. Cardinality(Reports(s)) \in Nat
  BY ReportsFinite
<1> QED
  BY <1>1, <1>3, <1>4, <1>5 DEF LoggedInv

LEMMA BeginWriteKeepsLogged ==
    ASSUME TypeOK, LockInv, LoggedInv, NEW w \in Workers, NEW p \in Pages, BeginWrite(w, p),
           TypeOK'
    PROVE  LoggedInv'
<1>1. /\ pc[w] = "write" /\ pc' = [pc EXCEPT ![w] = "writing"]
      /\ files' = [files EXCEPT ![p] = Torn] /\ log' = log
      /\ run' = [run EXCEPT ![w] = Noted(@, p)]
  BY DEF BeginWrite
<1>2. run[w] \in Run
  BY <1>1, RunType
<1>3. \A v \in Workers \ {w} : pc'[v] \notin PhaseB
  BY <1>1, Alone DEF PhaseB, TypeOK
<1>4. \A q \in Pages : files[q] # Absent => files'[q] # Absent
  BY <1>1, MarkersAssumption DEF TypeOK, Tree
<1>5. CASE files[p] # Absent
  <2>1. run'[w].created = run[w].created
    BY <1>1, <1>2, <1>5 DEF Noted, Run, TypeOK
  <2>2. \A s \in Slugs : \A v \in Workers : WillReport(v, s)' => WillReport(v, s)
    BY <1>1, <1>3, <2>1 DEF WillReport, PhaseB, TypeOK
  <2> QED
    BY <1>1, <1>4, <2>2, GrowsKeepsLogged
<1>6. CASE files[p] = Absent
  <2>1. run'[w].created = run[w].created \union {SlugOf(p)}
    BY <1>1, <1>2, <1>6 DEF Noted, Run, TypeOK
  <2> SUFFICES ASSUME NEW s \in Slugs
               PROVE  /\ Cardinality(Reports(s))' <= Cardinality(PagesOf(s))'
                      /\ WillReport(w, s)' =>
                            Cardinality(Reports(s))' + 1 <= Cardinality(PagesOf(s))'
    BY <1>3 DEF LoggedInv, WillReport, PhaseB
  <2>2. Reports(s)' = Reports(s) /\ Cardinality(Reports(s)) \in Nat
    BY <1>1, ReportsFinite DEF Reports
  <2>3. IsFiniteSet(PagesOf(s)) /\ Cardinality(PagesOf(s)) \in Nat
    BY PagesOfFinite DEF PagesOf, Existing
  <2>4. CASE SlugOf(p) = s
    <3>1. PagesOf(s)' = PagesOf(s) \union {p} /\ p \notin PagesOf(s)
      BY <1>1, <1>6, <2>4, MarkersAssumption DEF PagesOf, Existing, TypeOK, Tree
    <3>2. Cardinality(PagesOf(s)') = Cardinality(PagesOf(s)) + 1
      BY <3>1, <2>3, FS_AddElement
    <3> QED
      BY <3>2, <2>2, <2>3 DEF LoggedInv
  <2>5. CASE SlugOf(p) # s
    <3>1. PagesOf(s)' = PagesOf(s)
      BY <1>1, <2>5 DEF PagesOf, Existing, TypeOK, Tree
    <3>2. WillReport(w, s)' => WillReport(w, s)
      BY <1>1, <2>1, <2>5 DEF WillReport
    <3> QED
      BY <3>1, <3>2, <2>2, <2>3 DEF LoggedInv
  <2> QED
    BY <2>4, <2>5
<1> QED
  BY <1>5, <1>6

\* An entry is appended, of no more than what the attempt promised to report.
LEMMA EntryKeepsLogged ==
    ASSUME TypeOK, LockInv, LoggedInv, NEW w \in Workers, pc[w] = "log",
           NEW new \in LogEntry, log' = Append(log, new), new.created \subseteq run[w].created,
           files' = files, pc'[w] \in {"idle", "commit"},
           \A v \in Workers \ {w} : pc'[v] \in {"idle", pc[v]}
    PROVE  LoggedInv'
<1>1. pc[w] = "log" /\ files' = files
  OBVIOUS
<1>2. log' = Append(log, new) /\ new.created \subseteq run[w].created
  OBVIOUS
<1>3. \A v \in Workers : \A s \in Slugs : ~ WillReport(v, s)'
  <2>1. \A v \in Workers \ {w} : pc[v] \notin PhaseB
    BY <1>1, Alone DEF PhaseB
  <2>2. \A v \in Workers : pc'[v] \notin {"write", "writing", "log"}
    BY <2>1 DEF PhaseB
  <2> QED
    BY <2>2 DEF WillReport
<1> SUFFICES ASSUME NEW s \in Slugs
             PROVE  Cardinality(Reports(s))' <= Cardinality(PagesOf(s))'
  BY <1>3 DEF LoggedInv
<1>4. PagesOf(s)' = PagesOf(s)
  BY <1>1 DEF PagesOf
<1>5. IsFiniteSet(Reports(s)) /\ Cardinality(Reports(s)) \in Nat
  BY ReportsFinite
<1>6. Len(log) + 1 \notin DOMAIN log
  BY DEF TypeOK
<1>7. Reports(s)' = IF s \in new.created THEN Reports(s) \union {Len(log) + 1} ELSE Reports(s)
  <2>1. DOMAIN log' = DOMAIN log \union {Len(log) + 1}
    BY <1>2 DEF TypeOK
  <2>2. log'[Len(log) + 1] = new /\ \A i \in DOMAIN log : log'[i] = log[i]
    BY <1>2 DEF TypeOK
  <2> QED
    BY <2>1, <2>2 DEF Reports
<1>8. CASE s \in new.created
  <2>0. Len(log) + 1 \notin Reports(s) /\ Reports(s)' = Reports(s) \union {Len(log) + 1}
    BY <1>6, <1>7, <1>8 DEF Reports
  <2>1. Cardinality(Reports(s)') = Cardinality(Reports(s)) + 1
    BY <1>5, <2>0, FS_AddElement
  <2>2. WillReport(w, s)
    BY <1>1, <1>2, <1>8 DEF WillReport
  <2> QED
    BY <1>4, <2>1, <2>2 DEF LoggedInv
<1>9. CASE s \notin new.created
  BY <1>4, <1>7, <1>9 DEF LoggedInv
<1> QED
  BY <1>8, <1>9

LEMMA AppendLogKeepsLogged ==
    ASSUME TypeOK, LockInv, LoggedInv, NEW w \in Workers, AppendLog(w)
    PROVE  LoggedInv'
<1> DEFINE new == [subject |-> run[w].ext.source, created |-> run[w].created,
                   updated |-> run[w].updated]
<1>1. pc[w] = "log" /\ files' = files /\ log' = Append(log, new)
      /\ pc' = [pc EXCEPT ![w] = "commit"]
  BY DEF AppendLog
<1>2. new \in LogEntry /\ new.created \subseteq run[w].created
  BY <1>1, RunType DEF LogEntry, Extraction
<1>3. pc'[w] = "commit" /\ \A v \in Workers \ {w} : pc'[v] = pc[v]
  BY <1>1 DEF TypeOK
<1> QED
  BY <1>1, <1>2, <1>3, EntryKeepsLogged

\* Slots that stop promise nothing, and what they log was promised.
LEMMA LeaveKeepsLogged ==
    ASSUME TypeOK, TypeOK', LockInv, LoggedInv, NEW W \in SUBSET Workers, Leave(W),
           LeavesEntry(W), files' = files
    PROVE  LoggedInv'
<1>1. \A v \in Workers : IF v \in W THEN pc'[v] = "idle"
                         ELSE pc'[v] = pc[v] /\ run'[v] = run[v]
  BY DEF Leave, TypeOK
<1>2. CASE log' = log
  BY <1>1, <1>2, GrowsKeepsLogged DEF WillReport
<1>3. CASE log' # log
  <2>1. PICK w \in W : /\ pc[w] = "log"
                       /\ \E new \in LogEntry : /\ log' = Append(log, new)
                                                /\ new.created \subseteq run[w].created
    BY <1>3 DEF LeavesEntry
  <2>2. PICK new \in LogEntry : /\ log' = Append(log, new)
                                /\ new.created \subseteq run[w].created
    BY <2>1
  <2> QED
    BY <1>1, <2>1, <2>2, EntryKeepsLogged
<1> QED
  BY <1>2, <1>3

\* log.md never says more often that a page of a slug was created than there
\* are such pages, although attempts decide what to create before they hold
\* the lock.
THEOREM LogCountsPages == Spec => []CreatedLoggedOnce
<1>1. Init => LoggedInv
  <2> SUFFICES ASSUME Init, NEW s \in Slugs
               PROVE  /\ Cardinality(Reports(s)) <= Cardinality(PagesOf(s))
                      /\ \A w \in Workers : ~ WillReport(w, s)
    BY DEF LoggedInv
  <2>1. Reports(s) = {} /\ PagesOf(s) = {}
    BY DEF Init, Reports, PagesOf, Existing, EmptyTree
  <2> QED
    BY <2>1, FS_EmptySet DEF Init, WillReport
<1>2. TypeOK /\ TypeOK' /\ LockInv /\ AttemptInv /\ LoggedInv /\ [Next]_vars => LoggedInv'
  <2> SUFFICES ASSUME TypeOK, TypeOK', LockInv, AttemptInv, LoggedInv, [Next]_vars
               PROVE  LoggedInv'
    OBVIOUS
  <2>1. ASSUME NEW j \in Jobs, NEW w \in Workers, NEW e \in Extractions[j],
               StartAttempt(w, j, e)
        PROVE  LoggedInv'
    <3>1. UNCHANGED <<files, log>>
      BY <2>1 DEF StartAttempt, bundleVars
    <3>2. \A s \in Slugs : \A v \in Workers : WillReport(v, s)' => WillReport(v, s)
      BY <2>1 DEF StartAttempt, WillReport, TypeOK
    <3> QED
      BY <3>1, <3>2, GrowsKeepsLogged
  <2>2. ASSUME NEW w \in Workers, NEW p \in Pages, Compose(w, p)
        PROVE  LoggedInv'
    <3>1. UNCHANGED <<files, log>>
      BY <2>2 DEF Compose, bundleVars
    <3>2. \A s \in Slugs : \A v \in Workers : WillReport(v, s)' => WillReport(v, s)
      BY <2>2 DEF Compose, WillReport, TypeOK
    <3> QED
      BY <3>1, <3>2, GrowsKeepsLogged
  <2>3. ASSUME NEW w \in Workers, NEW p \in Pages, BeginWrite(w, p)
        PROVE  LoggedInv'
    BY <2>3, BeginWriteKeepsLogged
  <2>4. ASSUME NEW w \in Workers, AppendLog(w)
        PROVE  LoggedInv'
    BY <2>4, AppendLogKeepsLogged
  <2>5. ASSUME NEW w \in Workers, ReachLock(w) \/ Acquire(w)
        PROVE  LoggedInv'
    <3>1. UNCHANGED <<files, log, run>>
      BY <2>5 DEF ReachLock, Acquire, bundleVars
    <3>2. pc[w] = "locking" => run[w].created = {}
      BY DEF AttemptInv, PlanInv, Carries
    <3>3. \A s \in Slugs : \A v \in Workers : WillReport(v, s)' => WillReport(v, s)
      BY <2>5, <3>2 DEF ReachLock, Acquire, WillReport, TypeOK
    <3> QED
      BY <3>1, <3>3, GrowsKeepsLogged
  <2>6. ASSUME NEW w \in Workers, EndWrite(w)
        PROVE  LoggedInv'
    <3>1. cur[w].page \in Pages /\ cur[w].new # Absent
      BY <2>6, MarkersAreNoContent DEF EndWrite, TypeOK, Write
    <3>2. \A q \in Pages : files[q] # Absent => files'[q] # Absent
      BY <2>6, <3>1 DEF EndWrite, TypeOK, Tree
    <3>3. \A s \in Slugs : \A v \in Workers : WillReport(v, s)' => WillReport(v, s)
      BY <2>6 DEF EndWrite, WillReport, TypeOK
    <3>4. log' = log
      BY <2>6 DEF EndWrite
    <3> QED
      BY <3>2, <3>3, <3>4, GrowsKeepsLogged
  <2>7. ASSUME NEW w \in Workers,
               UpdateIndex(w) \/ Commit(w) \/ SwallowsError(w) \/ RecordRun(w)
        PROVE  LoggedInv'
    <3>1. UNCHANGED <<files, log, run>>
      BY <2>7 DEF UpdateIndex, Commit, SwallowsError, RecordRun, bundleVars
    <3>2. \A s \in Slugs : \A v \in Workers : WillReport(v, s)' => WillReport(v, s)
      BY <2>7, <3>1 DEF UpdateIndex, Commit, SwallowsError, RecordRun, WillReport, TypeOK
    <3> QED
      BY <3>1, <3>2, GrowsKeepsLogged
  <2>7a. ASSUME NEW w \in Workers, FlushPart(w)
         PROVE  LoggedInv'
    <3>1. cur[w].page \in Pages /\ cur[w].new \in Content /\ pc[w] = "writing"
      BY <2>7a DEF FlushPart, TypeOK, Write
    <3>2. PICK part \in CutShort(cur[w].new) : files' = [files EXCEPT ![cur[w].page] = part]
      BY <2>7a DEF FlushPart
    <3>3. part # Absent
      BY <3>1, <3>2, CutShortKeeps, MarkersAreNoContent
    <3>4. \A q \in Pages : files[q] # Absent => files'[q] # Absent
      BY <3>1, <3>2, <3>3 DEF TypeOK, Tree
    <3>5. \A s \in Slugs : \A v \in Workers : WillReport(v, s)' => WillReport(v, s)
      BY <2>7a DEF FlushPart, slotVars, WillReport
    <3>6. log' = log
      BY <2>7a DEF FlushPart
    <3> QED
      BY <3>4, <3>5, <3>6, GrowsKeepsLogged
  <2>8. ASSUME NEW W \in SUBSET Workers, Stops(W)
        PROVE  LoggedInv'
    BY <2>8, LeaveKeepsLogged DEF Stops, LeavesBehind
  <2>8a. ASSUME NEW w \in Workers, Reply(w)
         PROVE  LoggedInv'
    BY <2>8a, LeaveKeepsLogged DEF Reply, LeavesEntry, bundleVars
  <2>9. CASE Waits
    <3>1. \A s \in Slugs : \A v \in Workers : WillReport(v, s)' => WillReport(v, s)
      BY <2>9 DEF Waits, slotVars, WillReport
    <3> QED
      BY <2>9, <3>1, GrowsKeepsLogged DEF Waits, bundleVars
  <2> QED
    BY <2>1, <2>2, <2>3, <2>4, <2>5, <2>6, <2>7, <2>7a, <2>8, <2>8a, <2>9, StepKinds
    DEF AttemptInv
<1>3. LoggedInv => CreatedLoggedOnce
  BY DEF LoggedInv, CreatedLoggedOnce, Reports, PagesOf
<1>4. Inv => LockInv
  BY DEF Inv
<1> QED
  BY <1>1, <1>2, <1>3, <1>4, TypeCorrect, Inductive, AttemptCarriesPlan, PTL DEF Spec

-----------------------------------------------------------------------------
(* What is reported compiled is in the commits that are made.              *)

\* Hypothesis: the model names the source pages of two documents differently.
OwnSourcePage ==
    \A j, k \in Jobs : \A e \in Extractions[j] : \A f \in Extractions[k] :
        e.source = f.source => j = k

SourcesOf(j) == {SourcePage(e) : e \in Extractions[j]}

\* The page is being written.
Written(p) == \E w \in Workers : pc[w] = "writing" /\ cur[w].page = p

\* A source page of j has the facts of j, unless it was cut short or is being
\* written, and what is written to it has them; an attempt that got past its
\* commit, and a report, come after such a page was written.
SourceInv ==
    /\ \A j \in Jobs : \A p \in SourcesOf(j) :
          /\ files[p] \notin {Absent, Torn} => j \in files[p].facts \/ p \in damaged \/ Written(p)
          /\ \A w \in Workers : (pc[w] = "writing" /\ cur[w].page = p) => j \in cur[w].new.facts
    /\ \A w \in Workers : pc[w] \in {"record", "reply"} => files[SourcePage(run[w].ext)] # Absent
    /\ \A j \in Jobs : Reported(j) => \E p \in SourcesOf(j) : files[p] # Absent

\* What an attempt writes: the body it composed, and the links of its plan.
LEMMA NewPageIs ==
    ASSUME TypeOK, NEW w \in Workers, pc[w] # "idle", NEW p \in Pages, files[p] # Torn
    PROVE  /\ NewPage(w, p).facts = run[w].body[p]
           /\ NewPage(w, p).links = PlanLinks(run[w].ext, p)
<1> DEFINE page == Prepared(run[w].job, p, run[w].ext, run[w].body[p])
<1>1. page \in Content /\ page.facts = run[w].body[p] /\ page.links = PlanLinks(run[w].ext, p)
  <2>1. page \in Content
    BY RunType, PreparedType
  <2> QED
    BY <2>1 DEF Prepared
<1>2. NewPage(w, p) = IF files[p] = Absent THEN page ELSE MergeExisting(page, files[p])
  BY DEF NewPage
<1> HIDE DEF page
<1>3. MergeExisting(page, files[p]).facts = page.facts
      /\ MergeExisting(page, files[p]).links = page.links
  BY <1>1 DEF MergeExisting, Content
<1> QED
  BY <1>1, <1>2, <1>3

LEMMA SourceType ==
    ASSUME NEW j \in Jobs, NEW p \in SourcesOf(j)
    PROVE  p \in Pages /\ TypeOf(p) = "source"
BY IngestAssumption DEF SourcesOf, SourcePage, Pages, PageTypes, Extraction, TypeOf

\* The source page of an attempt is one of its job.
LEMMA SourceOfRun ==
    ASSUME TypeOK, PlanInv, NEW w \in Workers, pc[w] # "idle"
    PROVE  /\ SourcePage(run[w].ext) \in SourcesOf(run[w].job)
           /\ SourcePage(run[w].ext) \in run[w].ops
           /\ SourcePage(run[w].ext) \in Pages
BY RunType DEF PlanInv, Carries, PlanOK, SourcesOf, SourcePage, Pages, PageTypes, Extraction

\* No attempt writes the source page of another job.
LEMMA SourceIsOwn ==
    ASSUME TypeOK, PlanInv, OwnSourcePage, NEW w \in Workers, pc[w] # "idle",
           NEW p \in run[w].ops, NEW j \in Jobs, p \in SourcesOf(j)
    PROVE  j = run[w].job
<1>1. PICK e \in Extractions[j] : p = SourcePage(e)
  BY DEF SourcesOf
<1>2. run[w].ext \in Extraction /\ run[w].job \in Jobs
  BY RunType
<1>3. p \notin run[w].ext.derived
  BY <1>1, <1>2 DEF Extraction, SourcePage
<1>4. p = SourcePage(run[w].ext)
  BY <1>3 DEF PlanInv, Carries, PlanOK
<1>5. PICK f \in Extractions[run[w].job] : f.source = run[w].ext.source
  BY DEF PlanInv, Carries, PlanOK
<1>6. e.source = f.source
  BY <1>1, <1>4, <1>5 DEF SourcePage
<1> QED
  BY <1>2, <1>6 DEF OwnSourcePage

\* Slots that stop damage the page they were writing, or leave it torn.
LEMMA LeaveKeepsSource ==
    ASSUME TypeOK, SourceInv, NEW W \in SUBSET Workers, Leave(W), files' = files, LeavesPage(W),
           \A j \in Jobs : Reported(j)' => \E p \in SourcesOf(j) : files[p] # Absent
    PROVE  SourceInv'
<1>1. \A w \in Workers : IF w \in W THEN pc'[w] = "idle"
                         ELSE pc'[w] = pc[w] /\ cur'[w] = cur[w] /\ run'[w] = run[w]
  BY DEF Leave, TypeOK
<1>2. ASSUME NEW p, Written(p), files[p] \notin {Absent, Torn}
      PROVE  p \in damaged' \/ Written(p)'
  BY <1>1, <1>2 DEF Written, LeavesPage
<1>3. \A j \in Jobs : \A p \in SourcesOf(j) : files'[p] \notin {Absent, Torn} =>
         j \in files'[p].facts \/ p \in damaged' \/ Written(p)'
  BY <1>2 DEF SourceInv, LeavesPage
<1> QED
  BY <1>1, <1>3 DEF SourceInv

\* Steps of one slot that write no page.
LEMMA MoveKeepsSource ==
    ASSUME TypeOK, SourceInv, files' = files, damaged' = damaged, cur' = cur,
           \A w \in Workers :
              /\ pc'[w] = "writing" <=> pc[w] = "writing"
              /\ pc'[w] \in {"record", "reply"} => files[SourcePage(run'[w].ext)] # Absent,
           \A j \in Jobs : Reported(j)' => \E p \in SourcesOf(j) : files[p] # Absent
    PROVE  SourceInv'
<1>1. \A p : Written(p)' <=> Written(p)
  BY DEF Written
<1> QED
  BY <1>1 DEF SourceInv

LEMMA BeginWriteKeepsSource ==
    ASSUME TypeOK, AttemptInv, OwnSourcePage, SourceInv,
           NEW w \in Workers, NEW p \in Pages, BeginWrite(w, p)
    PROVE  SourceInv'
<1>1. /\ pc[w] = "write" /\ p \in todo[w] /\ files[p] # Torn
      /\ pc' = [pc EXCEPT ![w] = "writing"]
      /\ files' = [files EXCEPT ![p] = Torn]
      /\ cur' = [cur EXCEPT ![w] = [page |-> p, new |-> NewPage(w, p)]]
      /\ run' = [run EXCEPT ![w] = Noted(@, p)]
      /\ UNCHANGED <<damaged, status, recorded>>
  BY DEF BeginWrite, IsNext, serverVars
<1>2. Carries(w) /\ p \in run[w].ops
  BY <1>1 DEF AttemptInv, PlanInv, Carries
<1>3. run[w].job \in NewPage(w, p).facts
  BY <1>1, <1>2, NewPageIs DEF Carries, Composed
<1>4. /\ cur'[w].page = p /\ cur'[w].new = NewPage(w, p) /\ pc'[w] = "writing"
      /\ \A v \in Workers \ {w} : pc'[v] = pc[v] /\ cur'[v] = cur[v]
  BY <1>1 DEF TypeOK
<1>5. files'[p] = Torn /\ \A q \in Pages \ {p} : files'[q] = files[q]
  BY <1>1 DEF TypeOK, Tree
<1>6. \A q : Written(q) => Written(q)'
  BY <1>1, <1>4 DEF Written
<1>7. ASSUME NEW j \in Jobs, NEW q \in SourcesOf(j)
      PROVE  /\ files'[q] \notin {Absent, Torn} =>
                   j \in files'[q].facts \/ q \in damaged' \/ Written(q)'
             /\ \A v \in Workers : (pc'[v] = "writing" /\ cur'[v].page = q) => j \in cur'[v].new.facts
  <2>1. q \in Pages
    BY SourceType
  <2>2. p = q => j = run[w].job
    BY <1>1, <1>2, SourceIsOwn DEF AttemptInv
  <2> QED
    BY <1>1, <1>3, <1>4, <1>5, <1>6, <2>1, <2>2 DEF SourceInv
<1>8. \A v \in Workers : pc'[v] \in {"record", "reply"} => pc'[v] = pc[v] /\ run'[v] = run[v]
  BY <1>1 DEF TypeOK
<1>9. \A q \in Pages : files[q] # Absent => files'[q] # Absent
  BY <1>5, MarkersAssumption
<1>10. \A v \in Workers : pc'[v] \in {"record", "reply"} => files'[SourcePage(run'[v].ext)] # Absent
  BY <1>8, <1>9, SourceOfRun DEF SourceInv, AttemptInv
<1>11. \A j \in Jobs : Reported(j)' => \E q \in SourcesOf(j) : files'[q] # Absent
  BY <1>1, <1>9, SourceType DEF SourceInv, Reported
<1> QED
  BY <1>7, <1>10, <1>11 DEF SourceInv

\* A part of the page, or all of it, reaches the disk.
LEMMA WritingKeepsSource ==
    ASSUME TypeOK, LockInv, PlanInv, SourceInv, NEW w \in Workers, FlushPart(w) \/ EndWrite(w)
    PROVE  SourceInv'
<1>1. pc[w] = "writing" /\ UNCHANGED <<run, damaged, status, recorded>>
  BY DEF FlushPart, EndWrite, slotVars, serverVars
<1>2. cur[w].page \in Pages /\ cur[w].new \in Content
  BY <1>1 DEF TypeOK, Write
<1>3. PICK text \in Content : files' = [files EXCEPT ![cur[w].page] = text]
  BY <1>2, CutShortKeeps DEF FlushPart, EndWrite
<1>4. files'[cur[w].page] # Absent /\ \A q \in Pages \ {cur[w].page} : files'[q] = files[q]
  BY <1>2, <1>3, MarkersAreNoContent DEF TypeOK, Tree
<1>5. \A v \in Workers \ {w} : pc[v] # "writing"
  BY <1>1 DEF LockInv, PhaseB
<1>6. \A v \in Workers :
         /\ pc'[v] = "writing" => pc[v] = "writing" /\ cur'[v] = cur[v]
         /\ pc'[v] \in {"record", "reply"} => pc'[v] = pc[v]
  BY DEF FlushPart, EndWrite, slotVars, TypeOK
<1>7. FlushPart(w) => \A q : q = cur[w].page => Written(q)'
  BY <1>1 DEF FlushPart, slotVars, Written
<1>8. EndWrite(w) => files'[cur[w].page] = cur[w].new
  BY <1>2 DEF EndWrite, TypeOK, Tree
<1>9. ASSUME NEW j \in Jobs, NEW q \in SourcesOf(j), files'[q] \notin {Absent, Torn}
      PROVE  j \in files'[q].facts \/ q \in damaged' \/ Written(q)'
  <2>1. q \in Pages
    BY SourceType
  <2>2. CASE q = cur[w].page
    <3>1. j \in cur[w].new.facts
      BY <1>1, <2>2 DEF SourceInv
    <3> QED
      BY <1>7, <1>8, <2>2, <3>1
  <2>3. CASE q # cur[w].page
    BY <1>1, <1>4, <1>5, <1>9, <2>1, <2>3 DEF SourceInv, Written
  <2> QED
    BY <2>2, <2>3
<1>10. \A q \in Pages : files[q] # Absent => files'[q] # Absent
  BY <1>4
<1>11. \A v \in Workers : pc'[v] \in {"record", "reply"} => files'[SourcePage(run'[v].ext)] # Absent
  BY <1>1, <1>6, <1>10, SourceOfRun DEF SourceInv
<1>12. \A j \in Jobs : Reported(j)' => \E q \in SourcesOf(j) : files'[q] # Absent
  BY <1>1, <1>10, SourceType DEF SourceInv, Reported
<1> QED
  BY <1>6, <1>9, <1>11, <1>12 DEF SourceInv

LEMMA SourcesHold ==
    ASSUME OwnSourcePage PROVE Spec => []SourceInv
<1>1. Init => SourceInv
  <2>1. \A j \in Jobs : \A p \in SourcesOf(j) : p \in Pages
    BY SourceType
  <2> QED
    BY <2>1 DEF Init, SourceInv, Reported, EmptyTree
<1>2. TypeOK /\ Inv /\ AttemptInv /\ SourceInv /\ [Next]_vars => SourceInv'
  <2> SUFFICES ASSUME TypeOK, Inv, AttemptInv, SourceInv, [Next]_vars
               PROVE  SourceInv'
    OBVIOUS
  <2>0. \A j \in Jobs : (status'[j] = "done" => status[j] = "done") /\ recorded' = recorded =>
           (Reported(j)' => \E p \in SourcesOf(j) : files[p] # Absent)
    BY DEF SourceInv, Reported
  <2>1. ASSUME NEW j \in Jobs, NEW w \in Workers, NEW e \in Extractions[j],
               StartAttempt(w, j, e)
        PROVE  SourceInv'
    <3>1. /\ UNCHANGED <<files, damaged, cur, recorded>> /\ pc[w] = "idle"
          /\ pc' = [pc EXCEPT ![w] = "compose"] /\ \A v \in Workers \ {w} : run'[v] = run[v]
          /\ \A k \in Jobs : status'[k] = "done" => status[k] = "done"
      BY <2>1 DEF StartAttempt, bundleVars, TypeOK
    <3>2. \A v \in Workers :
              /\ pc'[v] = "writing" <=> pc[v] = "writing"
              /\ pc'[v] \in {"record", "reply"} => files[SourcePage(run'[v].ext)] # Absent
      BY <3>1 DEF TypeOK, SourceInv
    <3> QED
      BY <3>1, <3>2, <2>0, MoveKeepsSource
  <2>2. ASSUME NEW w \in Workers, NEW p \in Pages, Compose(w, p)
        PROVE  SourceInv'
    <3>1. /\ UNCHANGED <<files, damaged, cur, pc, status, recorded>> /\ pc[w] = "compose"
          /\ \A v \in Workers \ {w} : run'[v] = run[v]
      BY <2>2 DEF Compose, bundleVars, serverVars, TypeOK
    <3>2. \A v \in Workers :
              pc'[v] \in {"record", "reply"} => files[SourcePage(run'[v].ext)] # Absent
      BY <3>1 DEF SourceInv
    <3> QED
      BY <3>1, <3>2, <2>0, MoveKeepsSource
  <2>3. ASSUME NEW w \in Workers, NEW p \in Pages, BeginWrite(w, p)
        PROVE  SourceInv'
    BY <2>3, BeginWriteKeepsSource
  <2>4. ASSUME NEW w \in Workers, ReachLock(w) \/ Acquire(w) \/ UpdateIndex(w) \/ AppendLog(w)
        PROVE  SourceInv'
    <3>1. UNCHANGED <<files, damaged, cur, run, status, recorded>>
      BY <2>4 DEF ReachLock, Acquire, UpdateIndex, AppendLog, bundleVars, serverVars
    <3>2. \A v \in Workers :
              /\ pc'[v] = "writing" <=> pc[v] = "writing"
              /\ pc'[v] \in {"record", "reply"} => files[SourcePage(run'[v].ext)] # Absent
      BY <2>4, <3>1 DEF ReachLock, Acquire, UpdateIndex, AppendLog, TypeOK, SourceInv
    <3> QED
      BY <3>1, <3>2, <2>0, MoveKeepsSource
  <2>5. ASSUME NEW w \in Workers, FlushPart(w) \/ EndWrite(w)
        PROVE  SourceInv'
    BY <2>5, WritingKeepsSource DEF Inv, AttemptInv
  <2>6. ASSUME NEW w \in Workers, Commit(w) \/ SwallowsError(w)
        PROVE  SourceInv'
    <3>1. /\ pc[w] = "commit" /\ pc' = [pc EXCEPT ![w] = "record"]
          /\ UNCHANGED <<files, damaged, cur, run, status, recorded>>
      BY <2>6 DEF Commit, SwallowsError, bundleVars, serverVars
    <3>2. SourcePage(run[w].ext) \in run[w].ops \ todo[w]
      BY <3>1, SourceOfRun DEF AttemptInv, PlanInv, Carries
    <3>3. files[SourcePage(run[w].ext)] # Absent
      BY <3>1, <3>2 DEF AttemptInv, WriteInv, PhaseB
    <3>4. \A v \in Workers :
              /\ pc'[v] = "writing" <=> pc[v] = "writing"
              /\ pc'[v] \in {"record", "reply"} => files[SourcePage(run'[v].ext)] # Absent
      BY <3>1, <3>3 DEF TypeOK, SourceInv
    <3> QED
      BY <3>1, <3>4, <2>0, MoveKeepsSource
  <2>7. ASSUME NEW w \in Workers, RecordRun(w)
        PROVE  SourceInv'
    <3>1. /\ pc[w] = "record" /\ pc' = [pc EXCEPT ![w] = "reply"]
          /\ UNCHANGED <<files, damaged, run, cur, status>>
          /\ recorded' \in {recorded, recorded \union {run[w].job}}
      BY <2>7 DEF RecordRun, bundleVars, serverVars
    <3>2. \E p \in SourcesOf(run[w].job) : files[p] # Absent
      BY <3>1, SourceOfRun DEF SourceInv, AttemptInv
    <3>3. \A v \in Workers :
              /\ pc'[v] = "writing" <=> pc[v] = "writing"
              /\ pc'[v] \in {"record", "reply"} => files[SourcePage(run'[v].ext)] # Absent
      BY <3>1 DEF TypeOK, SourceInv
    <3>4. \A j \in Jobs : Reported(j)' => \E p \in SourcesOf(j) : files[p] # Absent
      BY <3>1, <3>2 DEF SourceInv, Reported
    <3> QED
      BY <3>1, <3>3, <3>4, MoveKeepsSource
  <2>8. ASSUME NEW w \in Workers, Reply(w)
        PROVE  SourceInv'
    <3>1. pc[w] = "reply" /\ Leave({w}) /\ UNCHANGED <<files, damaged, recorded>>
      BY <2>8 DEF Reply, bundleVars
    <3>2. \E p \in SourcesOf(run[w].job) : files[p] # Absent
      BY <3>1, SourceOfRun DEF SourceInv, AttemptInv
    <3>3. \A j \in Jobs : status'[j] = "done" => status[j] = "done" \/ j = run[w].job
      BY <2>8 DEF Reply, TypeOK, serverVars
    <3>4. \A j \in Jobs : Reported(j)' => \E p \in SourcesOf(j) : files[p] # Absent
      BY <3>1, <3>2, <3>3 DEF SourceInv, Reported
    <3> QED
      BY <3>1, <3>4, LeaveKeepsSource DEF LeavesPage
  <2>9. ASSUME NEW W \in SUBSET Workers, Stops(W)
        PROVE  SourceInv'
    BY <2>9, <2>0, LeaveKeepsSource DEF Stops, LeavesBehind
  <2>10. CASE Waits
    <3>1. \A v \in Workers :
              /\ pc'[v] = "writing" <=> pc[v] = "writing"
              /\ pc'[v] \in {"record", "reply"} => files[SourcePage(run'[v].ext)] # Absent
      BY <2>10 DEF Waits, slotVars, SourceInv
    <3> QED
      BY <2>10, <3>1, <2>0, MoveKeepsSource DEF Waits, bundleVars, slotVars
  <2> QED
    BY <2>1, <2>2, <2>3, <2>4, <2>5, <2>6, <2>7, <2>8, <2>9, <2>10, StepKinds
    DEF AttemptInv, Inv
<1> QED
  BY <1>1, <1>2, TypeCorrect, Inductive, AttemptCarriesPlan, PTL DEF Spec

\* What GET /ingest/status and the workflow report as compiled is in every commit
\* made since, whatever crashed, failed, timed out or was tried again, and
\* whichever commits were swallowed, if no two documents share a source page.
THEOREM CommitsHoldReports ==
    ASSUME OwnSourcePage PROVE Spec => CommitsHoldReported
<1>1. TypeOK /\ Inv /\ SourceInv /\ [Next]_vars
      => [\A j \in Jobs : Reported(j) =>
             \E p \in Pages : /\ TypeOf(p) = "source" /\ Committed(p)'
                              /\ p \in damaged \/ j \in head'.files[p].facts]_head
  <2> SUFFICES ASSUME TypeOK, Inv, SourceInv, [Next]_vars, head' # head,
                      NEW j \in Jobs, Reported(j)
               PROVE  \E p \in Pages : /\ TypeOf(p) = "source" /\ Committed(p)'
                                       /\ p \in damaged \/ j \in head'.files[p].facts
    OBVIOUS
  <2>1. PICK w \in Workers : pc[w] = "commit" /\ head' = Staged
    BY HeadChanges DEF vars, bundleVars
  <2>2. PICK p \in SourcesOf(j) : files[p] # Absent
    BY DEF SourceInv
  <2>3. p \in Pages /\ TypeOf(p) = "source"
    BY <2>2, SourceType
  <2>4. files[p] # Torn /\ head'.files = files
    BY <2>1, <2>3 DEF Inv, IndexInv, Staged
  <2>5. ~ Written(p)
    BY <2>1 DEF Inv, LockInv, PhaseB, Written
  <2> QED
    BY <2>2, <2>3, <2>4, <2>5 DEF SourceInv, Committed
<1> QED
  BY <1>1, TypeCorrect, Inductive, SourcesHold, PTL DEF Spec, CommitsHoldReported

-----------------------------------------------------------------------------
(* The links of committed pages resolve.                                   *)

\* A torn page that nobody is writing stays torn: no attempt gets past it to
\* another commit.
StuckAt(p) == files[p] = Torn /\ \A w \in Workers : pc[w] = "writing" => cur[w].page # p

Stuck == \E p \in Pages : StuckAt(p)

\* The slug is planned by the attempt, so that it has a page by its commit.
PlannedBy(w, s) == \E q \in run[w].ops : SlugOf(q) = s

\* A page of the slug is there, or will be when the lock is released.
Resolves(s) ==
    \/ s \in ExistingSlugs(files)
    \/ \E w \in Workers : pc[w] \in PhaseB /\ PlannedBy(w, s)

\* Links that were planned resolve to pages of the plan or pages there are;
\* while no page is stuck, so do the links of the pages in the working tree.
PlanLinksInv ==
    \A w \in Workers : pc[w] # "idle" =>
        \A p \in run[w].ops : \A s \in PlanLinks(run[w].ext, p) :
            s \in ExistingSlugs(files) \/ PlannedBy(w, s)

TreeLinksInv ==
    Stuck \/ /\ \A p \in Pages : files[p] \notin {Absent, Torn} =>
                   \A s \in files[p].links : Resolves(s)
             /\ \A w \in Workers : pc[w] = "writing" => \A s \in cur[w].new.links : Resolves(s)

LinksInv == PlanLinksInv /\ TreeLinksInv /\ CommittedLinksResolve

\* The plan covers what it links to: a derived page that is not planned has a
\* slug that is planned or taken, and references are filtered.
LEMMA PlanCoversLinks ==
    ASSUME NEW e \in Extraction, NEW f \in Tree, NEW p \in Plan(e, f),
           NEW s \in PlanLinks(Effective(e, f), p)
    PROVE  s \in ExistingSlugs(f) \/ \E q \in Plan(e, f) : SlugOf(q) = s
<1>1. /\ Effective(e, f).source = e.source /\ Effective(e, f).derived = e.derived
      /\ Effective(e, f).refs \subseteq ExistingSlugs(f)
  BY DEF Effective, Extraction
<1>2. SlugOf(SourcePage(e)) = e.source /\ SourcePage(e) \in Plan(e, f)
  BY DEF SlugOf, SourcePage, Plan
<1>3. \/ s = e.source \/ s \in ExistingSlugs(f)
      \/ \E q \in e.derived : s = SlugOf(q)
  BY <1>1 DEF PlanLinks
<1>4. ASSUME NEW q \in e.derived, s = SlugOf(q), s # e.source, s \notin ExistingSlugs(f)
      PROVE  \E r \in Plan(e, f) : SlugOf(r) = s
  <2>1. TypeOf(q) \in {"entity", "concept"}
    BY DEF Extraction, TypeOf
  <2>2. q \in PlannedOfType(TypeOf(q), e, f)
    BY <1>4 DEF PlannedOfType, TakenElsewhere
  <2>3. CASE TypeOf(q) = "entity"
    BY <1>4, <2>2, <2>3 DEF PlannedEntities, Plan
  <2>4. CASE TypeOf(q) = "concept"
    BY <1>4, <2>2, <2>4 DEF PlannedConcepts, Plan
  <2> QED
    BY <2>1, <2>3, <2>4
<1> QED
  BY <1>2, <1>3, <1>4

LEMMA SlugsGrow ==
    ASSUME \A p \in Pages : files[p] # Absent => files'[p] # Absent
    PROVE  ExistingSlugs(files) \subseteq ExistingSlugs(files')
BY DEF ExistingSlugs, Existing

\* A step that writes no page and keeps every slot in its phase.
LEMMA MoveKeepsTreeLinks ==
    ASSUME TypeOK, TreeLinksInv, files' = files,
           \A w \in Workers : /\ pc[w] \in PhaseB => pc'[w] \in PhaseB /\ run'[w].ops = run[w].ops
                              /\ pc[w] = "writing" <=> pc'[w] = "writing"
                              /\ pc[w] = "writing" => cur'[w] = cur[w]
    PROVE  TreeLinksInv'
<1>1. Stuck => Stuck'
  BY DEF Stuck, StuckAt
<1>2. \A s : Resolves(s) => Resolves(s)'
  BY DEF Resolves, PlannedBy
<1> QED
  BY <1>1, <1>2 DEF TreeLinksInv

\* The links of the plans of slots that do nothing, or stop.
LEMMA RestingPlanLinks ==
    ASSUME TypeOK, PlanLinksInv, \A p \in Pages : files[p] # Absent => files'[p] # Absent,
           NEW v \in Workers, pc'[v] # "idle",
           pc[v] # "idle", run'[v].ops = run[v].ops, run'[v].ext = run[v].ext
    PROVE  \A p \in run'[v].ops : \A s \in PlanLinks(run'[v].ext, p) :
              s \in ExistingSlugs(files') \/ \E q \in run'[v].ops : SlugOf(q) = s
BY SlugsGrow DEF PlanLinksInv, PlannedBy

\* The lock is released with all planned pages written, or with a page stuck.
LEMMA ReleaseKeepsTreeLinks ==
    ASSUME TypeOK, LockInv, AttemptInv, TreeLinksInv, NEW w \in Workers,
           pc[w] = "commit", pc' = [pc EXCEPT ![w] = "record"],
           files' = files, cur' = cur, run' = run
    PROVE  TreeLinksInv'
<1>1. \A v \in Workers \ {w} : pc[v] \notin PhaseB
  BY Alone DEF PhaseB
<1>2. Stuck => Stuck'
  BY <1>1 DEF Stuck, StuckAt, TypeOK, PhaseB
<1>3. \A q \in run[w].ops : files[q] # Absent /\ q \in Pages
  BY RunType DEF AttemptInv, PlanInv, Carries, WriteInv, PhaseB
<1>4. \A s : Resolves(s) => s \in ExistingSlugs(files)
  BY <1>1, <1>3 DEF Resolves, PlannedBy, ExistingSlugs, Existing
<1>5. \A s : Resolves(s) => Resolves(s)'
  BY <1>4 DEF Resolves
<1>6. \A v \in Workers : pc'[v] = "writing" => pc[v] = "writing"
  BY DEF TypeOK
<1> QED
  BY <1>2, <1>5, <1>6 DEF TreeLinksInv

LEMMA BeginWriteKeepsTreeLinks ==
    ASSUME TypeOK, LockInv, AttemptInv, PlanLinksInv, TreeLinksInv,
           NEW w \in Workers, NEW p \in Pages, BeginWrite(w, p)
    PROVE  TreeLinksInv'
<1>1. /\ pc[w] = "write" /\ p \in todo[w] /\ files[p] # Torn
      /\ pc' = [pc EXCEPT ![w] = "writing"]
      /\ files' = [files EXCEPT ![p] = Torn]
      /\ cur' = [cur EXCEPT ![w] = [page |-> p, new |-> NewPage(w, p)]]
      /\ run' = [run EXCEPT ![w] = Noted(@, p)]
  BY DEF BeginWrite, IsNext
<1>2. \A v \in Workers \ {w} : pc[v] \notin PhaseB
  BY <1>1, Alone DEF PhaseB
<1>3. run[w] \in Run /\ p \in run[w].ops
  BY <1>1, RunType DEF AttemptInv, PlanInv, Carries
<1>4. run'[w].ops = run[w].ops /\ \A v \in Workers \ {w} : run'[v] = run[v]
  BY <1>1, <1>3 DEF Noted, Run, TypeOK
<1>5. /\ pc'[w] = "writing" /\ cur'[w].page = p /\ cur'[w].new = NewPage(w, p)
      /\ \A v \in Workers \ {w} : pc'[v] = pc[v] /\ cur'[v] = cur[v]
  BY <1>1 DEF TypeOK
<1>6. files'[p] = Torn /\ \A q \in Pages \ {p} : files'[q] = files[q]
  BY <1>1 DEF TypeOK, Tree
<1>7. Stuck => Stuck'
  <2> SUFFICES ASSUME NEW q \in Pages, StuckAt(q) PROVE StuckAt(q)'
    BY DEF Stuck
  <2>1. q # p
    BY <1>1 DEF StuckAt
  <2> QED
    BY <2>1, <1>5, <1>6 DEF StuckAt
<1>8. \A s : Resolves(s) => Resolves(s)'
  <2>1. ExistingSlugs(files) \subseteq ExistingSlugs(files')
    BY <1>6, MarkersAssumption, SlugsGrow
  <2> QED
    BY <2>1, <1>1, <1>4, <1>5 DEF Resolves, PlannedBy, PhaseB
<1>9. \A s \in cur'[w].new.links : Resolves(s)'
  <2>1. cur'[w].new.links = PlanLinks(run[w].ext, p)
    BY <1>1, <1>5, NewPageIs
  <2>2. \A s \in PlanLinks(run[w].ext, p) : Resolves(s)
    BY <1>1, <1>3 DEF PlanLinksInv, Resolves, PhaseB
  <2> QED
    BY <2>1, <2>2, <1>8
<1> QED
  BY <1>2, <1>5, <1>6, <1>7, <1>8, <1>9 DEF TreeLinksInv

LEMMA EndWriteKeepsTreeLinks ==
    ASSUME TypeOK, TreeLinksInv, NEW w \in Workers, EndWrite(w)
    PROVE  TreeLinksInv'
<1>1. /\ pc[w] = "writing" /\ pc' = [pc EXCEPT ![w] = "write"]
      /\ files' = [files EXCEPT ![cur[w].page] = cur[w].new]
      /\ cur' = [cur EXCEPT ![w] = NoOne] /\ run' = run
  BY DEF EndWrite
<1>2. cur[w].page \in Pages /\ cur[w].new \in Content
  BY <1>1 DEF TypeOK, Write
<1>3. /\ files'[cur[w].page] = cur[w].new
      /\ \A q \in Pages \ {cur[w].page} : files'[q] = files[q]
  BY <1>1, <1>2 DEF TypeOK, Tree
<1>4. \A v \in Workers : /\ pc'[v] = "writing" => pc[v] = "writing" /\ cur'[v] = cur[v]
                         /\ pc[v] \in PhaseB => pc'[v] \in PhaseB
  BY <1>1 DEF TypeOK, PhaseB
<1>5. Stuck => Stuck'
  <2> SUFFICES ASSUME NEW q \in Pages, StuckAt(q) PROVE StuckAt(q)'
    BY DEF Stuck
  <2>1. q # cur[w].page
    BY <1>1 DEF StuckAt
  <2> QED
    BY <2>1, <1>3, <1>4 DEF StuckAt
<1>6. \A s : Resolves(s) => Resolves(s)'
  <2>1. ExistingSlugs(files) \subseteq ExistingSlugs(files')
    BY <1>2, <1>3, MarkersAreNoContent, SlugsGrow
  <2> QED
    BY <2>1, <1>1, <1>4 DEF Resolves, PlannedBy
<1> QED
  BY <1>1, <1>3, <1>4, <1>5, <1>6 DEF TreeLinksInv

\* The part of a page that reaches the disk links to no more than the page does.
LEMMA FlushPartKeepsTreeLinks ==
    ASSUME TypeOK, TreeLinksInv, NEW w \in Workers, FlushPart(w)
    PROVE  TreeLinksInv'
<1>1. pc[w] = "writing" /\ UNCHANGED <<pc, run, cur>>
  BY DEF FlushPart, slotVars
<1>2. cur[w].page \in Pages /\ cur[w].new \in Content
  BY <1>1 DEF TypeOK, Write
<1>3. PICK part \in CutShort(cur[w].new) : files' = [files EXCEPT ![cur[w].page] = part]
  BY DEF FlushPart
<1>4. part \in Content /\ part.links \subseteq cur[w].new.links
  BY <1>2, <1>3, CutShortKeeps
<1>5. files'[cur[w].page] = part /\ \A q \in Pages \ {cur[w].page} : files'[q] = files[q]
  BY <1>2, <1>3 DEF TypeOK, Tree
<1>6. Stuck => Stuck'
  <2> SUFFICES ASSUME NEW q \in Pages, StuckAt(q) PROVE StuckAt(q)'
    BY DEF Stuck
  <2>1. q # cur[w].page
    BY <1>1 DEF StuckAt
  <2> QED
    BY <2>1, <1>1, <1>5 DEF StuckAt
<1>7. \A s : Resolves(s) => Resolves(s)'
  <2>1. ExistingSlugs(files) \subseteq ExistingSlugs(files')
    BY <1>4, <1>5, MarkersAreNoContent, SlugsGrow
  <2> QED
    BY <2>1, <1>1 DEF Resolves, PlannedBy
<1> QED
  BY <1>1, <1>4, <1>5, <1>6, <1>7 DEF TreeLinksInv

\* Slots stop: outside phase B nothing resolves through them, and in phase B
\* one stops at a torn page, which is then stuck.
LEMMA LeaveKeepsTreeLinks ==
    ASSUME TypeOK, LockInv, TreeLinksInv, NEW W \in SUBSET Workers, Leave(W), files' = files,
           \A w \in W : pc[w] \in PhaseB => \E p \in Pages : files[p] = Torn
    PROVE  TreeLinksInv'
<1>1. \A w \in Workers : IF w \in W THEN pc'[w] = "idle"
                         ELSE pc'[w] = pc[w] /\ cur'[w] = cur[w] /\ run'[w] = run[w]
  BY DEF Leave, TypeOK
<1>2. Stuck => Stuck'
  BY <1>1 DEF Stuck, StuckAt
<1>3. CASE \E w \in W : pc[w] \in PhaseB
  <2>1. \A v \in Workers : pc'[v] # "writing"
    BY <1>1, <1>3 DEF LockInv, PhaseB
  <2>2. Stuck'
    BY <2>1, <1>3 DEF Stuck, StuckAt
  <2> QED
    BY <2>2 DEF TreeLinksInv
<1>4. CASE \A w \in W : pc[w] \notin PhaseB
  <2>1. \A s : Resolves(s) => Resolves(s)'
    BY <1>1, <1>4 DEF Resolves, PlannedBy
  <2>2. \A v \in Workers : pc'[v] = "writing" => pc[v] = "writing" /\ cur'[v] = cur[v]
    BY <1>1
  <2> QED
    BY <1>2, <2>1, <2>2 DEF TreeLinksInv
<1> QED
  BY <1>3, <1>4

\* A commit takes the working tree with every planned page written.
LEMMA CommitResolves ==
    ASSUME TypeOK, Inv, AttemptInv, TreeLinksInv, NEW w \in Workers, Commit(w)
    PROVE  CommittedLinksResolve'
<1>1. pc[w] = "commit" /\ head'.files = files
  BY DEF Commit, Staged
<1>2. \A p \in Pages : files[p] # Torn
  BY <1>1 DEF Inv, IndexInv
<1>3. \A q \in run[w].ops : files[q] # Absent /\ q \in Pages
  BY <1>1, RunType DEF AttemptInv, PlanInv, Carries, WriteInv, PhaseB
<1>4. \A s : Resolves(s) => s \in ExistingSlugs(files)
  BY <1>1, <1>3, Alone DEF Resolves, PlannedBy, ExistingSlugs, Existing, Inv, PhaseB
<1>5. ~ Stuck
  BY <1>2 DEF Stuck, StuckAt
<1> QED
  BY <1>1, <1>4, <1>5 DEF CommittedLinksResolve, Committed, TreeLinksInv

\* No commit has a planned link to a page it lacks, whatever is planned and
\* written at the same time, if no process dies and no write fails: an attempt
\* that stops between two pages leaves links to pages that nobody writes.
THEOREM CommittedLinksLead ==
    ASSUME "crash" \notin FaultKinds, "disk" \notin FaultKinds
    PROVE  Spec => []CommittedLinksResolve
<1>1. Init => LinksInv
  BY DEF Init, LinksInv, PlanLinksInv, TreeLinksInv, CommittedLinksResolve, Committed, EmptyTree
<1>2. TypeOK /\ Inv /\ AttemptInv /\ LinksInv /\ [Next]_vars => LinksInv'
  <2> SUFFICES ASSUME TypeOK, Inv, AttemptInv, LinksInv, [Next]_vars
               PROVE  LinksInv'
    OBVIOUS
  <2> USE DEF LinksInv
  <2>0. head' = head => CommittedLinksResolve'
    BY DEF CommittedLinksResolve, Committed
  <2>1. ASSUME NEW j \in Jobs, NEW w \in Workers, NEW e \in Extractions[j],
               StartAttempt(w, j, e)
        PROVE  LinksInv'
    <3>1. /\ pc[w] = "idle" /\ pc' = [pc EXCEPT ![w] = "compose"]
          /\ UNCHANGED <<files, head, cur>>
      BY <2>1 DEF StartAttempt, bundleVars
    <3>2. /\ run'[w].ext = Effective(e, files) /\ run'[w].ops = Plan(e, files)
          /\ \A v \in Workers \ {w} : run'[v] = run[v] /\ pc'[v] = pc[v]
      BY <2>1 DEF StartAttempt, TypeOK
    <3>3. TreeLinksInv'
      BY <3>1, <3>2, MoveKeepsTreeLinks DEF TypeOK, PhaseB
    <3>4. PlanLinksInv'
      <4>1. e \in Extraction /\ files \in Tree
        BY IngestAssumption DEF TypeOK
      <4>2. \A p \in run'[w].ops : \A s \in PlanLinks(run'[w].ext, p) :
               s \in ExistingSlugs(files) \/ \E q \in run'[w].ops : SlugOf(q) = s
        BY <3>2, <4>1, PlanCoversLinks
      <4> QED
        BY <3>1, <3>2, <4>2 DEF PlanLinksInv, PlannedBy
    <3> QED
      BY <3>1, <3>3, <3>4, <2>0
  <2>2. ASSUME NEW w \in Workers, NEW p \in Pages, Compose(w, p)
        PROVE  LinksInv'
    <3>1. pc[w] = "compose" /\ UNCHANGED <<files, head, cur, pc>>
      BY <2>2 DEF Compose, bundleVars
    <3>2. run'[w].ops = run[w].ops /\ run'[w].ext = run[w].ext
          /\ \A v \in Workers \ {w} : run'[v] = run[v]
      BY <2>2, <3>1, RunType DEF Compose, TypeOK, Run
    <3>3. TreeLinksInv'
      BY <3>1, <3>2, MoveKeepsTreeLinks
    <3>4. PlanLinksInv'
      BY <3>1, <3>2, RestingPlanLinks DEF PlanLinksInv, PlannedBy
    <3> QED
      BY <3>1, <3>3, <3>4, <2>0
  <2>3. ASSUME NEW w \in Workers, NEW p \in Pages, BeginWrite(w, p)
        PROVE  LinksInv'
    <3>1. /\ pc[w] = "write" /\ pc' = [pc EXCEPT ![w] = "writing"]
          /\ files' = [files EXCEPT ![p] = Torn] /\ run' = [run EXCEPT ![w] = Noted(@, p)]
          /\ head' = head
      BY <2>3 DEF BeginWrite
    <3>2. run'[w].ops = run[w].ops /\ run'[w].ext = run[w].ext
          /\ \A v \in Workers \ {w} : run'[v] = run[v]
      BY <3>1, RunType DEF Noted, Run, TypeOK
    <3>3. \A q \in Pages : files[q] # Absent => files'[q] # Absent
      BY <3>1, MarkersAssumption DEF TypeOK, Tree
    <3>4. \A v \in Workers : pc'[v] # "idle" => pc[v] # "idle"
      BY <3>1 DEF TypeOK
    <3>5. PlanLinksInv'
      BY <3>2, <3>3, <3>4, RestingPlanLinks DEF PlanLinksInv, PlannedBy
    <3>6. TreeLinksInv'
      BY <2>3, BeginWriteKeepsTreeLinks DEF Inv
    <3> QED
      BY <3>1, <3>5, <3>6, <2>0
  <2>4. ASSUME NEW w \in Workers,
               \/ ReachLock(w) \/ Acquire(w) \/ UpdateIndex(w) \/ AppendLog(w) \/ RecordRun(w)
        PROVE  LinksInv'
    <3>1. UNCHANGED <<files, head, cur, run>>
      BY <2>4 DEF ReachLock, Acquire, UpdateIndex, AppendLog, RecordRun, bundleVars
    <3>2. \A v \in Workers : /\ pc'[v] # "idle" => pc[v] # "idle"
                             /\ pc[v] \in PhaseB => pc'[v] \in PhaseB
                             /\ pc[v] = "writing" <=> pc'[v] = "writing"
      BY <2>4 DEF ReachLock, Acquire, UpdateIndex, AppendLog, RecordRun, TypeOK, PhaseB
    <3>3. TreeLinksInv'
      BY <3>1, <3>2, MoveKeepsTreeLinks
    <3>4. PlanLinksInv'
      BY <3>1, <3>2, RestingPlanLinks DEF PlanLinksInv, PlannedBy
    <3> QED
      BY <3>1, <3>3, <3>4, <2>0
  <2>5. ASSUME NEW w \in Workers, EndWrite(w)
        PROVE  LinksInv'
    <3>1. /\ pc[w] = "writing" /\ pc' = [pc EXCEPT ![w] = "write"]
          /\ files' = [files EXCEPT ![cur[w].page] = cur[w].new]
          /\ run' = run /\ head' = head
      BY <2>5 DEF EndWrite
    <3>2. \A q \in Pages : files[q] # Absent => files'[q] # Absent
      BY <3>1, MarkersAreNoContent DEF TypeOK, Tree, Write
    <3>3. \A v \in Workers : pc'[v] # "idle" => pc[v] # "idle"
      BY <3>1 DEF TypeOK
    <3>4. PlanLinksInv'
      BY <3>1, <3>2, <3>3, RestingPlanLinks DEF PlanLinksInv, PlannedBy
    <3>5. TreeLinksInv'
      BY <2>5, EndWriteKeepsTreeLinks
    <3> QED
      BY <3>1, <3>4, <3>5, <2>0
  <2>5a. ASSUME NEW w \in Workers, FlushPart(w)
         PROVE  LinksInv'
    <3>1. pc[w] = "writing" /\ UNCHANGED <<pc, run, head>>
      BY <2>5a DEF FlushPart, slotVars
    <3>2. cur[w].page \in Pages /\ cur[w].new \in Content
      BY <3>1 DEF TypeOK, Write
    <3>3. \A q \in Pages : files[q] # Absent => files'[q] # Absent
      BY <2>5a, <3>2, CutShortKeeps, MarkersAreNoContent DEF FlushPart, TypeOK, Tree
    <3>4. PlanLinksInv'
      BY <3>1, <3>3, RestingPlanLinks DEF PlanLinksInv, PlannedBy
    <3>5. TreeLinksInv'
      BY <2>5a, FlushPartKeepsTreeLinks
    <3> QED
      BY <3>1, <3>4, <3>5, <2>0
  <2>6. ASSUME NEW w \in Workers, Commit(w) \/ SwallowsError(w)
        PROVE  LinksInv'
    <3>1. /\ pc[w] = "commit" /\ pc' = [pc EXCEPT ![w] = "record"]
          /\ UNCHANGED <<files, cur, run>>
      BY <2>6 DEF Commit, SwallowsError, bundleVars
    <3>2. \A v \in Workers : pc'[v] # "idle" => pc[v] # "idle"
      BY <3>1 DEF TypeOK
    <3>3. PlanLinksInv'
      BY <3>1, <3>2, RestingPlanLinks DEF PlanLinksInv, PlannedBy
    <3>4. TreeLinksInv'
      BY <3>1, ReleaseKeepsTreeLinks DEF Inv
    <3>5. CommittedLinksResolve'
      BY <2>6, <2>0, CommitResolves DEF SwallowsError, bundleVars
    <3> QED
      BY <3>3, <3>4, <3>5
  <2>7. ASSUME NEW W \in SUBSET Workers, Leave(W), files' = files, head' = head,
               \A w \in W : pc[w] \in PhaseB => \E p \in Pages : files[p] = Torn
        PROVE  LinksInv'
    <3>1. files' = files /\ head' = head
      BY <2>7
    <3>2. \A v \in Workers : pc'[v] # "idle" => pc[v] # "idle" /\ run'[v] = run[v]
      BY <2>7 DEF Leave, TypeOK
    <3>3. PlanLinksInv'
      BY <3>1, <3>2, RestingPlanLinks DEF PlanLinksInv, PlannedBy
    <3>4. TreeLinksInv'
      BY <2>7, <3>1, LeaveKeepsTreeLinks DEF Inv
    <3> QED
      BY <3>1, <3>3, <3>4, <2>0
  <2>8. CASE Waits
    <3>1. UNCHANGED <<files, head, cur, run, pc>>
      BY <2>8 DEF Waits, bundleVars, slotVars
    <3>2. PlanLinksInv'
      BY <3>1, RestingPlanLinks DEF PlanLinksInv, PlannedBy
    <3>3. TreeLinksInv'
      BY <3>1, MoveKeepsTreeLinks
    <3> QED
      BY <3>1, <3>2, <3>3, <2>0
  <2>9. ASSUME NEW w \in Workers, Reply(w) PROVE LinksInv'
    <3>1. Leave({w}) /\ files' = files /\ head' = head /\ pc[w] \notin PhaseB
      BY <2>9 DEF Reply, PhaseB, bundleVars
    <3> QED
      BY <3>1, <2>7
  <2>10. ASSUME NEW W \in SUBSET Workers, Stops(W) PROVE LinksInv'
    BY <2>10, <2>7 DEF Stops, LeavesBehind
  <2> QED
    BY <2>1, <2>2, <2>3, <2>4, <2>5, <2>5a, <2>6, <2>8, <2>9, <2>10, StepKinds
    DEF AttemptInv, Inv
<1>3. LinksInv => CommittedLinksResolve
  BY DEF LinksInv
<1> QED
  BY <1>1, <1>2, <1>3, TypeCorrect, Inductive, AttemptCarriesPlan, PTL DEF Spec

-----------------------------------------------------------------------------
(* Ingests one after the other.                                            *)

\* Hypothesis: there is one activity slot.
OneSlot == \A v, w \in Workers : v = w

\* Hypothesis: no document's source page has the slug of a page that another
\* document is about.
SourceSlugsApart ==
    \A j, k \in Jobs : \A e \in Extractions[j] : \A f \in Extractions[k] : \A p \in f.derived :
        SlugOf(p) = e.source => f.source = e.source

\* The pages are those that extractions are about, and the plan under way forks
\* none of them.
SlugsInv ==
    /\ OneTypePerSlug
    /\ \A p \in Existing(files) : TypeOf(p) = "source" \/
          \E k \in Jobs : \E f \in Extractions[k] : p \in f.derived /\ SlugOf(p) # f.source
    /\ \A w \in Workers : pc[w] # "idle" =>
          \A p \in run[w].ops : \A q \in Existing(files) : SlugOf(p) = SlugOf(q) => p = q

\* A plan made when each slug has one type forks no page.
LEMMA PlanForksNone ==
    ASSUME TypeOK, SlugsInv, SourceSlugsApart, NEW j \in Jobs, NEW e \in Extractions[j],
           NEW p \in Plan(e, files), NEW q \in Existing(files), SlugOf(p) = SlugOf(q)
    PROVE  p = q
<1>1. e \in Extraction /\ q \in Pages
  BY IngestAssumption DEF Existing
<1>2. CASE p = SourcePage(e)
  <2>1. SlugOf(q) = e.source
    BY <1>2 DEF SlugOf, SourcePage
  <2>2. TypeOf(q) = "source"
    BY <2>1 DEF SlugsInv, SourceSlugsApart
  <2> QED
    BY <1>1, <1>2, <2>1, <2>2 DEF SourcePage, TypeOf, SlugOf, Pages
<1>3. CASE p \in PlannedEntities(e, files) \union PlannedConcepts(e, files)
  <2>1. ~ TakenElsewhere(p, files)
    BY <1>3 DEF PlannedEntities, PlannedConcepts, PlannedOfType
  <2>2. SlugOf(p) \in ExistingSlugs(files)
    BY DEF ExistingSlugs
  <2> QED
    BY <2>1, <2>2 DEF TakenElsewhere, SlugsInv, OneTypePerSlug
<1> QED
  BY <1>2, <1>3 DEF Plan

\* Steps that add no page and start no plan.
LEMMA SameKeepsSlugs ==
    ASSUME SlugsInv, Existing(files') = Existing(files),
           \A w \in Workers : pc'[w] # "idle" => pc[w] # "idle" /\ run'[w].ops = run[w].ops
    PROVE  SlugsInv'
BY DEF SlugsInv, OneTypePerSlug

\* With one slot, and source pages named apart from what documents are about,
\* no two pages share a slug, although the model may take one subject for an
\* entity at one time and for a concept at another, and attempts crash between
\* their pages.
THEOREM SerialOneType ==
    ASSUME OneSlot, SourceSlugsApart
    PROVE  Spec => []OneTypePerSlug
<1>1. Init => SlugsInv
  BY DEF Init, SlugsInv, OneTypePerSlug, Existing, EmptyTree
<1>2. TypeOK /\ Inv /\ AttemptInv /\ SlugsInv /\ [Next]_vars => SlugsInv'
  <2> SUFFICES ASSUME TypeOK, Inv, AttemptInv, SlugsInv, [Next]_vars
               PROVE  SlugsInv'
    OBVIOUS
  <2>1. ASSUME NEW j \in Jobs, NEW w \in Workers, NEW e \in Extractions[j],
               StartAttempt(w, j, e)
        PROVE  SlugsInv'
    <3>1. files' = files
      BY <2>1 DEF StartAttempt, bundleVars
    <3>2. run'[w].ops = Plan(e, files)
      BY <2>1 DEF StartAttempt, TypeOK
    <3>3. \A p \in run'[w].ops : \A q \in Existing(files) : SlugOf(p) = SlugOf(q) => p = q
      BY <3>2, PlanForksNone
    <3>4. \A v \in Workers : v = w
      BY DEF OneSlot
    <3>5. \A v \in Workers : pc'[v] # "idle" =>
             \A p \in run'[v].ops : \A q \in Existing(files') : SlugOf(p) = SlugOf(q) => p = q
      BY <3>1, <3>3, <3>4
    <3> QED
      BY <3>1, <3>5 DEF SlugsInv, OneTypePerSlug
  <2>2. ASSUME NEW w \in Workers, NEW p \in Pages, Compose(w, p)
        PROVE  SlugsInv'
    <3>1. pc[w] = "compose" /\ UNCHANGED <<files, pc>>
      BY <2>2 DEF Compose, bundleVars
    <3>2. \A v \in Workers : run'[v].ops = run[v].ops
      BY <2>2, <3>1, RunType DEF Compose, TypeOK, Run
    <3> QED
      BY <3>1, <3>2, SameKeepsSlugs
  <2>3. ASSUME NEW w \in Workers, NEW p \in Pages, BeginWrite(w, p)
        PROVE  SlugsInv'
    <3>1. /\ pc[w] = "write" /\ p \in todo[w]
          /\ files' = [files EXCEPT ![p] = Torn] /\ run' = [run EXCEPT ![w] = Noted(@, p)]
      BY <2>3 DEF BeginWrite, IsNext
    <3>2. Carries(w) /\ p \in run[w].ops
      BY <3>1 DEF AttemptInv, PlanInv, Carries
    <3>3. run'[w].ops = run[w].ops
      BY <3>1, RunType DEF Noted, Run, TypeOK
    <3>4. Existing(files') = Existing(files) \union {p}
      BY <3>1, MarkersAssumption DEF Existing, TypeOK, Tree
    <3>5. \A v \in Workers : v = w
      BY DEF OneSlot
    <3>6. \A q \in Existing(files) : SlugOf(q) = SlugOf(p) => q = p
      BY <3>1, <3>2 DEF SlugsInv
    <3>7. OneTypePerSlug'
      BY <3>4, <3>6 DEF SlugsInv, OneTypePerSlug
    <3>8. TypeOf(p) = "source" \/
             \E k \in Jobs : \E f \in Extractions[k] : p \in f.derived /\ SlugOf(p) # f.source
      <4>1. CASE p = SourcePage(run[w].ext)
        BY <4>1 DEF SourcePage, TypeOf
      <4>2. CASE p # SourcePage(run[w].ext)
        BY <4>2, <3>1, <3>2, RunType DEF Carries, PlanOK
      <4> QED
        BY <4>1, <4>2
    <3>9. \A q, r \in run[w].ops : SlugOf(q) = SlugOf(r) => q = r
      BY <3>2 DEF Carries, PlanOK
    <3>10. \A v \in Workers : \A q \in run'[v].ops : \A r \in Existing(files') :
              SlugOf(q) = SlugOf(r) => q = r
      BY <3>1, <3>2, <3>3, <3>4, <3>5, <3>9 DEF SlugsInv
    <3> QED
      BY <3>4, <3>7, <3>8, <3>10 DEF SlugsInv
  <2>4. ASSUME NEW w \in Workers, FlushPart(w) \/ EndWrite(w)
        PROVE  SlugsInv'
    <3>1. pc[w] = "writing" /\ run' = run
      BY <2>4 DEF FlushPart, EndWrite, slotVars
    <3>2. /\ cur[w].new \in Content /\ cur[w].page \in Pages
          /\ files[cur[w].page] # Absent
      BY <3>1, RunType DEF AttemptInv, WriteInv, TypeOK, Write, PhaseB
    <3>3. PICK text \in Content : files' = [files EXCEPT ![cur[w].page] = text]
      BY <2>4, <3>2, CutShortKeeps DEF FlushPart, EndWrite
    <3>3a. Existing(files') = Existing(files)
      BY <3>2, <3>3, MarkersAreNoContent DEF Existing, TypeOK, Tree
    <3>4. \A v \in Workers : pc'[v] # "idle" => pc[v] # "idle"
      BY <2>4, <3>1 DEF FlushPart, EndWrite, slotVars, TypeOK
    <3> QED
      BY <3>1, <3>3a, <3>4, SameKeepsSlugs
  <2>5. ASSUME NEW w \in Workers,
               \/ ReachLock(w) \/ Acquire(w) \/ UpdateIndex(w) \/ AppendLog(w)
               \/ Commit(w) \/ SwallowsError(w) \/ RecordRun(w)
        PROVE  SlugsInv'
    <3>1. files' = files /\ run' = run
      BY <2>5 DEF ReachLock, Acquire, UpdateIndex, AppendLog, Commit, SwallowsError, RecordRun,
                  bundleVars
    <3>2. \A v \in Workers : pc'[v] # "idle" => pc[v] # "idle"
      BY <2>5 DEF ReachLock, Acquire, UpdateIndex, AppendLog, Commit, SwallowsError, RecordRun,
                  TypeOK
    <3> QED
      BY <3>1, <3>2, SameKeepsSlugs
  <2>6. ASSUME NEW W \in SUBSET Workers, Leave(W), files' = files
        PROVE  SlugsInv'
    <3>1. \A v \in Workers : pc'[v] # "idle" => pc[v] # "idle" /\ run'[v] = run[v]
      BY <2>6 DEF Leave, TypeOK
    <3> QED
      BY <2>6, <3>1, SameKeepsSlugs
  <2>7. CASE Waits
    BY <2>7, SameKeepsSlugs DEF Waits, bundleVars, slotVars
  <2> QED
    BY <2>1, <2>2, <2>3, <2>4, <2>5, <2>6, <2>7, StepKinds
    DEF AttemptInv, Inv, Stops, LeavesBehind, Reply, bundleVars
<1>3. SlugsInv => OneTypePerSlug
  BY DEF SlugsInv
<1> QED
  BY <1>1, <1>2, <1>3, TypeCorrect, Inductive, AttemptCarriesPlan, PTL DEF Spec

\* The slot has composed the body of p and not written it yet.
Fresh(w, p) ==
    \/ pc[w] = "compose" /\ p \in run[w].ops \ todo[w]
    \/ pc[w] \in {"locking", "write", "writing"} /\ p \in todo[w]

\* The working tree, what is being written and what was composed from it never
\* say less of an undamaged page than the last commit; a page that is being
\* written may.
FactsInv ==
    /\ \A p \in Pages :
          (Committed(p) /\ p \notin damaged /\ files[p] # Torn /\ ~Written(p)) =>
              head.files[p].facts \subseteq files[p].facts
    /\ \A w \in Workers :
          (pc[w] = "writing" /\ Committed(cur[w].page) /\ cur[w].page \notin damaged) =>
              head.files[cur[w].page].facts \subseteq cur[w].new.facts
    /\ \A w \in Workers : \A p \in Pages :
          (Fresh(w, p) /\ files[p] \notin {Absent, Torn}) => files[p].facts \subseteq run[w].body[p]

\* Steps that write no page, commit nothing and make no body outdated.
LEMMA MoveKeepsFacts ==
    ASSUME FactsInv, files' = files, head' = head, damaged' = damaged,
           \A w \in Workers :
              /\ pc'[w] = "writing" <=> pc[w] = "writing"
              /\ pc[w] = "writing" => cur'[w] = cur[w]
              /\ \A p \in Pages : Fresh(w, p)' =>
                    Fresh(w, p) /\ run'[w].body[p] = run[w].body[p]
    PROVE  FactsInv'
<1>1. \A p : Written(p)' <=> Written(p)
  BY DEF Written
<1> QED
  BY <1>1 DEF FactsInv, Committed

\* Slots that stop leave the page they were writing torn or damaged, or a commit
\* of the tree.
LEMMA LeaveKeepsFacts ==
    ASSUME TypeOK, Inv, FactsInv, NEW W \in SUBSET Workers, Leave(W),
           LeavesBehind(W), LeavesPage(W)
    PROVE  FactsInv'
<1>1. \A v \in Workers : IF v \in W THEN pc'[v] = "idle"
                         ELSE /\ pc'[v] = pc[v] /\ run'[v] = run[v]
                              /\ cur'[v] = cur[v] /\ todo'[v] = todo[v]
  BY DEF Leave, TypeOK
<1>2. \A v \in Workers : \A q \in Pages : Fresh(v, q)' => Fresh(v, q) /\ run'[v] = run[v]
  BY <1>1 DEF Fresh
<1>3. \A p : Written(p) => \/ files[p] \in {Absent, Torn} \/ p \in damaged' \/ Written(p)'
  BY <1>1 DEF Written, LeavesPage
<1>4. files' = files /\ damaged \subseteq damaged'
  BY DEF LeavesBehind, LeavesPage
<1>5. CASE head' = head
  <2>1. \A p \in Pages : Committed(p) => files[p] # Absent
    BY MarkersAssumption DEF Committed, Inv, KeepsInv
  <2>2. ASSUME NEW p \in Pages, Committed(p)', p \notin damaged', files'[p] # Torn, ~Written(p)'
        PROVE  head'.files[p].facts \subseteq files'[p].facts
    BY <1>3, <1>4, <1>5, <2>1, <2>2 DEF FactsInv, Committed
  <2> QED
    BY <1>1, <1>2, <1>4, <1>5, <2>2 DEF FactsInv, Committed
<1>6. CASE \E w \in W : pc[w] = "commit" /\ head' = Staged
  <2>1. \A v \in Workers : pc'[v] # "writing"
    BY <1>1, <1>6 DEF Inv, LockInv, PhaseB
  <2>2. head'.files = files
    BY <1>6 DEF Staged
  <2> QED
    BY <1>2, <1>4, <2>1, <2>2 DEF FactsInv
<1> QED
  BY <1>5, <1>6 DEF LeavesBehind

LEMMA BeginWriteKeepsFacts ==
    ASSUME TypeOK, Inv, OneSlot, FactsInv, NEW w \in Workers, NEW p \in Pages, BeginWrite(w, p)
    PROVE  FactsInv'
<1>1. /\ pc[w] = "write" /\ p \in todo[w] /\ files[p] # Torn
      /\ pc' = [pc EXCEPT ![w] = "writing"] /\ todo' = [todo EXCEPT ![w] = @ \ {p}]
      /\ files' = [files EXCEPT ![p] = Torn] /\ head' = head /\ damaged' = damaged
      /\ cur' = [cur EXCEPT ![w] = [page |-> p, new |-> NewPage(w, p)]]
      /\ run' = [run EXCEPT ![w] = Noted(@, p)]
  BY DEF BeginWrite, IsNext
<1>2. \A v \in Workers : v = w
  BY DEF OneSlot
<1>3. run'[w].body = run[w].body
  BY <1>1, RunType DEF Noted, Run, TypeOK
<1>4. /\ pc'[w] = "writing" /\ cur'[w].page = p /\ cur'[w].new = NewPage(w, p)
      /\ todo'[w] = todo[w] \ {p}
      /\ files'[p] = Torn /\ \A q \in Pages \ {p} : files'[q] = files[q]
  BY <1>1 DEF TypeOK, Tree
<1>4a. \A q : ~Written(q)
  BY <1>1, <1>2 DEF Written
<1>5. Committed(p) /\ p \notin damaged => head.files[p].facts \subseteq NewPage(w, p).facts
  <2> SUFFICES ASSUME Committed(p), p \notin damaged
               PROVE  head.files[p].facts \subseteq NewPage(w, p).facts
    OBVIOUS
  <2>1. files[p] # Absent
    BY <1>1 DEF Committed, Inv, KeepsInv
  <2>2. head.files[p].facts \subseteq files[p].facts
    BY <1>1, <1>4a DEF FactsInv
  <2>3. files[p].facts \subseteq run[w].body[p]
    BY <1>1, <2>1 DEF FactsInv, Fresh
  <2> QED
    BY <1>1, <2>2, <2>3, NewPageIs
<1>6. \A q \in Pages : Committed(q)' <=> Committed(q)
  BY <1>1 DEF Committed
<1>7. \A q \in Pages : (Fresh(w, q)' /\ files'[q] \notin {Absent, Torn}) =>
         files'[q].facts \subseteq run'[w].body[q]
  BY <1>1, <1>3, <1>4 DEF Fresh, FactsInv
<1>8. \A q \in Pages : (Committed(q)' /\ q \notin damaged' /\ files'[q] # Torn) =>
         head'.files[q].facts \subseteq files'[q].facts
  BY <1>1, <1>4, <1>4a, <1>6 DEF FactsInv
<1> QED
  BY <1>1, <1>2, <1>4, <1>5, <1>6, <1>7, <1>8 DEF FactsInv

LEMMA FlushPartKeepsFacts ==
    ASSUME TypeOK, AttemptInv, OneSlot, FactsInv, NEW w \in Workers, FlushPart(w)
    PROVE  FactsInv'
<1>1. pc[w] = "writing" /\ UNCHANGED <<pc, run, todo, cur, head, damaged>>
  BY DEF FlushPart, slotVars
<1>2. \A v \in Workers : v = w
  BY DEF OneSlot
<1>3. cur[w].page \in Pages /\ cur[w].page \notin todo[w]
  BY <1>1 DEF TypeOK, Write, AttemptInv, WriteInv
<1>4. \A q \in Pages \ {cur[w].page} : files'[q] = files[q]
  BY DEF FlushPart, TypeOK, Tree
<1>5. Written(cur[w].page)' /\ \A q : Written(q)' <=> Written(q)
  BY <1>1 DEF Written
<1>6. \A q \in Pages : (Committed(q)' /\ q \notin damaged' /\ files'[q] # Torn /\ ~Written(q)') =>
         head'.files[q].facts \subseteq files'[q].facts
  BY <1>1, <1>4, <1>5 DEF FactsInv, Committed
<1>7. \A q \in Pages : (Fresh(w, q)' /\ files'[q] \notin {Absent, Torn}) =>
         files'[q].facts \subseteq run'[w].body[q]
  BY <1>1, <1>3, <1>4 DEF Fresh, FactsInv
<1> QED
  BY <1>1, <1>2, <1>6, <1>7 DEF FactsInv, Committed

LEMMA EndWriteKeepsFacts ==
    ASSUME TypeOK, AttemptInv, OneSlot, FactsInv, NEW w \in Workers, EndWrite(w)
    PROVE  FactsInv'
<1>1. /\ pc[w] = "writing" /\ pc' = [pc EXCEPT ![w] = "write"]
      /\ files' = [files EXCEPT ![cur[w].page] = cur[w].new]
      /\ head' = head /\ damaged' = damaged /\ run' = run /\ todo' = todo
  BY DEF EndWrite
<1>2. \A v \in Workers : v = w
  BY DEF OneSlot
<1>3. cur[w].page \in Pages /\ cur[w].page \notin todo[w]
  BY <1>1 DEF TypeOK, Write, AttemptInv, WriteInv
<1>4. /\ pc'[w] = "write" /\ files'[cur[w].page] = cur[w].new
      /\ \A q \in Pages \ {cur[w].page} : files'[q] = files[q]
  BY <1>1, <1>3 DEF TypeOK, Tree
<1>5. \A q \in Pages : Committed(q)' <=> Committed(q)
  BY <1>1 DEF Committed
<1>6. \A q \in Pages : (Committed(q)' /\ q \notin damaged' /\ files'[q] # Torn) =>
         head'.files[q].facts \subseteq files'[q].facts
  BY <1>1, <1>2, <1>4, <1>5 DEF FactsInv, Written
<1>7. \A q \in Pages : (Fresh(w, q)' /\ files'[q] \notin {Absent, Torn}) =>
         files'[q].facts \subseteq run'[w].body[q]
  BY <1>1, <1>3, <1>4 DEF Fresh, FactsInv
<1> QED
  BY <1>2, <1>4, <1>6, <1>7 DEF FactsInv

LEMMA CommitKeepsFacts ==
    ASSUME TypeOK, Inv, FactsInv, NEW w \in Workers, Commit(w)
    PROVE  FactsInv'
<1>1. /\ pc[w] = "commit" /\ pc' = [pc EXCEPT ![w] = "record"]
      /\ head' = [files |-> files, index |-> index]
      /\ UNCHANGED <<files, run, todo>>
  BY DEF Commit, Staged
<1>2. \A v \in Workers : pc'[v] # "writing"
  BY <1>1, Alone DEF TypeOK, Inv, PhaseB
<1>3. \A v \in Workers : \A p \in Pages : Fresh(v, p)' => Fresh(v, p)
  BY <1>1 DEF Fresh, TypeOK
<1> QED
  BY <1>1, <1>2, <1>3 DEF FactsInv

LEMMA SerialFacts ==
    ASSUME OneSlot PROVE Spec => []FactsInv
<1>1. Init => FactsInv
  BY DEF Init, FactsInv, Fresh, Committed, EmptyTree
<1>2. TypeOK /\ Inv /\ AttemptInv /\ FactsInv /\ [Next]_vars => FactsInv'
  <2> SUFFICES ASSUME TypeOK, Inv, AttemptInv, FactsInv, [Next]_vars
               PROVE  FactsInv'
    OBVIOUS
  <2>1. ASSUME NEW j \in Jobs, NEW w \in Workers, NEW e \in Extractions[j],
               StartAttempt(w, j, e)
        PROVE  FactsInv'
    <3>1. /\ pc' = [pc EXCEPT ![w] = "compose"] /\ todo' = [todo EXCEPT ![w] = Plan(e, files)]
          /\ UNCHANGED <<files, head, damaged, cur>> /\ pc[w] = "idle"
      BY <2>1 DEF StartAttempt, bundleVars
    <3>2. run'[w].ops = Plan(e, files) /\ \A v \in Workers \ {w} : run'[v] = run[v]
      BY <2>1 DEF StartAttempt, TypeOK
    <3> QED
      BY <3>1, <3>2, MoveKeepsFacts DEF Fresh, TypeOK
  <2>2. ASSUME NEW w \in Workers, NEW p \in Pages, Compose(w, p)
        PROVE  FactsInv'
    <3>1. /\ pc[w] = "compose" /\ todo' = [todo EXCEPT ![w] = @ \ {p}]
          /\ UNCHANGED <<files, head, damaged, cur, pc>>
      BY <2>2 DEF Compose, bundleVars
    <3>2. run[w] \in Run
      BY <3>1, RunType
    <3>3. /\ run'[w].ops = run[w].ops
          /\ files[p] # Absent => files[p].facts \subseteq run'[w].body[p]
          /\ \A q \in Pages \ {p} : run'[w].body[q] = run[w].body[q]
          /\ \A v \in Workers \ {w} : run'[v] = run[v]
      BY <2>2, <3>2 DEF Compose, TypeOK, Run
    <3>4. \A v \in Workers : \A q \in Pages : Fresh(v, q)' => Fresh(v, q) \/ (v = w /\ q = p)
      BY <3>1, <3>3 DEF Fresh, TypeOK
    <3>5. \A q : (Committed(q)' <=> Committed(q)) /\ (Written(q)' <=> Written(q))
      BY <3>1 DEF Committed, Written
    <3>6. \A v \in Workers : \A q \in Pages :
             (Fresh(v, q)' /\ files'[q] \notin {Absent, Torn}) =>
                files'[q].facts \subseteq run'[v].body[q]
      BY <3>1, <3>3, <3>4 DEF FactsInv
    <3> QED
      BY <3>1, <3>5, <3>6 DEF FactsInv
  <2>3. ASSUME NEW w \in Workers, NEW p \in Pages, BeginWrite(w, p)
        PROVE  FactsInv'
    BY <2>3, BeginWriteKeepsFacts
  <2>4. ASSUME NEW w \in Workers, EndWrite(w)
        PROVE  FactsInv'
    BY <2>4, EndWriteKeepsFacts
  <2>4a. ASSUME NEW w \in Workers, FlushPart(w)
         PROVE  FactsInv'
    BY <2>4a, FlushPartKeepsFacts
  <2>5. ASSUME NEW w \in Workers, ReachLock(w)
        PROVE  FactsInv'
    <3>1. UNCHANGED <<files, head, damaged, cur, run>>
      BY <2>5 DEF ReachLock, bundleVars
    <3>2. \A v \in Workers : pc'[v] = "writing" <=> pc[v] = "writing"
      BY <2>5 DEF ReachLock, TypeOK
    <3>3. \A v \in Workers : \A q \in Pages : Fresh(v, q)' => Fresh(v, q)
      BY <2>5 DEF ReachLock, Fresh, TypeOK
    <3> QED
      BY <3>1, <3>2, <3>3, MoveKeepsFacts
  <2>6. ASSUME NEW w \in Workers,
               Acquire(w) \/ UpdateIndex(w) \/ AppendLog(w) \/ SwallowsError(w) \/ RecordRun(w)
        PROVE  FactsInv'
    <3>1. UNCHANGED <<files, head, damaged, cur, run>>
      BY <2>6 DEF Acquire, UpdateIndex, AppendLog, SwallowsError, RecordRun, bundleVars
    <3>2. \A v \in Workers : pc'[v] = "writing" <=> pc[v] = "writing"
      BY <2>6 DEF Acquire, UpdateIndex, AppendLog, SwallowsError, RecordRun, TypeOK
    <3>3. \A v \in Workers : \A q \in Pages : Fresh(v, q)' => Fresh(v, q)
      BY <2>6 DEF Acquire, UpdateIndex, AppendLog, SwallowsError, RecordRun, Fresh, TypeOK
    <3> QED
      BY <3>1, <3>2, <3>3, MoveKeepsFacts
  <2>7. ASSUME NEW w \in Workers, Commit(w)
        PROVE  FactsInv'
    BY <2>7, CommitKeepsFacts
  <2>8. ASSUME NEW w \in Workers, Reply(w)
        PROVE  FactsInv'
    BY <2>8, LeaveKeepsFacts DEF Reply, LeavesBehind, LeavesPage, bundleVars
  <2>8a. ASSUME NEW W \in SUBSET Workers, Stops(W)
         PROVE  FactsInv'
    BY <2>8a, LeaveKeepsFacts DEF Stops
  <2>9. CASE Waits
    BY <2>9, MoveKeepsFacts DEF Waits, bundleVars, slotVars, Fresh
  <2> QED
    BY <2>1, <2>2, <2>3, <2>4, <2>4a, <2>5, <2>6, <2>7, <2>8, <2>8a, <2>9, StepKinds
    DEF AttemptInv, Inv
<1> QED
  BY <1>1, <1>2, TypeCorrect, Inductive, AttemptCarriesPlan, PTL DEF Spec

\* With one slot, every later commit keeps what a committed page says, although
\* bodies are composed outside the lock, attempts crash half way, and commits
\* fail, except for pages that a failed write or a crash cut short.
THEOREM SerialKeepsFacts ==
    ASSUME OneSlot PROVE Spec => FactsNeverLost
<1>1. TypeOK /\ Inv /\ FactsInv /\ [Next]_vars
      => [\A p \in Pages : Committed(p) =>
             /\ Committed(p)'
             /\ p \in damaged \/ head.files[p].facts \subseteq head'.files[p].facts]_head
  <2> SUFFICES ASSUME TypeOK, Inv, FactsInv, [Next]_vars, head' # head,
                      NEW p \in Pages, Committed(p)
               PROVE  /\ Committed(p)'
                      /\ p \in damaged \/ head.files[p].facts \subseteq head'.files[p].facts
    OBVIOUS
  <2>1. PICK w \in Workers : pc[w] = "commit" /\ head' = Staged
    BY HeadChanges DEF vars, bundleVars
  <2>2. head'.files = files /\ files[p] # Torn /\ ~Written(p)
    BY <2>1 DEF Staged, Inv, IndexInv, LockInv, PhaseB, Written
  <2>3. files[p] # Absent
    BY <2>2 DEF Committed, Inv, KeepsInv
  <2> QED
    BY <2>2, <2>3 DEF Committed, FactsInv
<1> QED
  BY <1>1, TypeCorrect, Inductive, SerialFacts, PTL DEF Spec, FactsNeverLost
=============================================================================

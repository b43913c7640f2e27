--------------------------- MODULE OkfIngestProofs ---------------------------
(***************************************************************************)
(* Proofs about OkfIngest, for every number of slots, processes, jobs and  *)
(* slugs, every assignment of slots to processes and every bound on        *)
(* attempts and faults.                                                    *)
(*                                                                         *)
(* The inductive invariant Inv says that the lock is held exactly by the   *)
(* slot that is in phase B, that between the index rebuild and the commit  *)
(* the index is the catalogue of a tree without torn pages, and that the   *)
(* working tree never falls behind the last commit: a committed page is    *)
(* there, torn, or a revision of what was committed.                       *)
(***************************************************************************)
EXTENDS OkfIngest, TLAPS

\* The file lock and phase B: the lock is held by w exactly while w is in it.
LockInv == \A w \in Workers : lock = w <=> pc[w] \in PhaseB

\* From the rebuild of the index to the commit nothing writes a page.
IndexInv ==
    \A w \in Workers : pc[w] \in {"log", "commit"} =>
        /\ \A p \in Pages : files[p] # Torn
        /\ index = Catalog(files)

Revised(new, old) ==
    /\ new.created = old.created
    /\ old.aliases \subseteq new.aliases

\* The working tree never falls behind the last commit.
KeepsInv ==
    \A p \in Pages : head.files[p] # Absent =>
        \/ files[p] = Torn
        \/ files[p] # Absent /\ Revised(files[p], head.files[p])

\* What a slot is about to write into a torn file revises the committed page.
CurInv ==
    \A w \in Workers : (pc[w] = "writing" /\ head.files[cur[w].page] # Absent) =>
            Revised(cur[w].new, head.files[cur[w].page])

Inv == /\ LockInv /\ IndexInv /\ KeepsInv /\ CurInv
       /\ NoTornPageCommitted /\ CommittedIndexExact

-----------------------------------------------------------------------------
(* Lemmas about the operators on pages.                                    *)

LEMMA PlanType ==
    ASSUME NEW e \in Extraction, NEW f \in Tree
    PROVE  Plan(e, f) \in SUBSET Pages
BY DEF Plan, SourcePage, PlannedEntities, PlannedConcepts, PlannedOfType,
       Extraction, Pages, PageTypes

LEMMA EffectiveType ==
    ASSUME NEW e \in Extraction, NEW f \in Tree
    PROVE  Effective(e, f) \in Extraction
BY DEF Effective, Extraction

LEMMA SlugType ==
    ASSUME NEW p \in Pages
    PROVE  SlugOf(p) \in Slugs
BY DEF SlugOf, Pages

LEMMA PreparedType ==
    ASSUME NEW j \in Jobs, NEW p \in Pages, NEW e \in Extraction,
           NEW facts \in SUBSET Jobs
    PROVE  Prepared(j, p, e, facts) \in Content
<1>1. PlanLinks(e, p) \in SUBSET Slugs
  BY DEF PlanLinks, Extraction, SlugOf
<1>2. e.source \in Slugs
  BY DEF Extraction
<1> QED
  BY <1>1, <1>2 DEF Prepared, Content

\* _merge_existing yields a page that keeps the creation stamp and the aliases
\* of the page it found.
LEMMA MergeRevises ==
    ASSUME NEW new \in Content, NEW old \in Content
    PROVE  /\ MergeExisting(new, old) \in Content
           /\ Revised(MergeExisting(new, old), old)
BY DEF MergeExisting, Revised, Content

LEMMA RevisedTransitive ==
    ASSUME NEW a \in Content, NEW b \in Content, NEW c \in Content,
           Revised(a, b), Revised(b, c)
    PROVE  Revised(a, c)
BY DEF Revised, Content

\* What is left of a page that was cut short has the frontmatter of the page.
LEMMA CutShortKeeps ==
    ASSUME NEW page \in Content, NEW part \in CutShort(page)
    PROVE  /\ part \in Content
           /\ part.created = page.created /\ part.aliases = page.aliases
           /\ part.facts \subseteq page.facts /\ part.links \subseteq page.links
<1>1. PICK kept \in (SUBSET page.facts) \X (SUBSET page.links) :
         part = [page EXCEPT !.facts = kept[1], !.links = kept[2]]
  BY DEF CutShort
<1>2. /\ kept[1] \subseteq page.facts /\ kept[2] \subseteq page.links
      /\ page.facts \subseteq Jobs /\ page.links \subseteq Slugs
  BY DEF Content
<1> QED
  BY <1>1, <1>2 DEF Content

LEMMA FileCases ==
    ASSUME NEW f \in Tree, NEW p \in Pages
    PROVE  f[p] \in Content \/ f[p] = Absent \/ f[p] = Torn
BY DEF Tree, File

LEMMA CatalogType ==
    ASSUME NEW f \in Tree
    PROVE  Catalog(f) \in SUBSET (Pages \X Jobs)
<1> SUFFICES ASSUME NEW p \in Readable(f) PROVE f[p].desc \in Jobs /\ p \in Pages
  BY DEF Catalog, Readable
<1> QED
  BY FileCases DEF Readable, Content

-----------------------------------------------------------------------------
(* Type correctness.                                                       *)

LEMMA LeaveType ==
    ASSUME TypeOK, NEW W \in SUBSET Workers, Leave(W)
    PROVE  /\ lock' \in Workers \union {NoOne}
           /\ pc' \in [Workers -> {"idle", "compose", "reply"} \union NoAwait]
           /\ run' \in [Workers -> Run \union {NoOne}]
           /\ \A w \in Workers : (run[w] = NoOne <=> pc[w] = "idle")'
           /\ todo' \in [Workers -> SUBSET Pages]
           /\ cur' \in [Workers -> Write \union {NoOne}]
           /\ \A w \in Workers : (cur[w] = NoOne <=> pc[w] # "writing")'
BY DEF TypeOK, Leave

LEMMA GiveUpType ==
    ASSUME TypeOK, NEW j \in Jobs, GiveUp(j)
    PROVE  /\ status' \in [Jobs -> {"queued", "running", "done", "failed"}]
           /\ attempts' \in [Jobs -> 0..MaxAttempts]
           /\ \A k \in Jobs : (status[k] = "queued" => attempts[k] < MaxAttempts)'
           /\ owner' \in [Jobs -> Workers \union {NoOne}]
BY DEF TypeOK, GiveUp

LEMMA FaultType ==
    ASSUME TypeOK, NEW k, Fault(k)
    PROVE  faults' \in 0..MaxFaults
BY IngestAssumption DEF TypeOK, Fault

\* A slot that is not idle executes an attempt.
LEMMA RunType ==
    ASSUME TypeOK, NEW w \in Workers, pc[w] # "idle"
    PROVE  /\ run[w] \in Run
           /\ run[w].job \in Jobs /\ run[w].ext \in Extraction
           /\ run[w].ops \in SUBSET Pages
           /\ run[w].body \in [Pages -> SUBSET Jobs]
           /\ run[w].created \in SUBSET Slugs /\ run[w].updated \in SUBSET Slugs
<1>1. run[w] \in Run
  BY DEF TypeOK
<1> QED
  BY <1>1 DEF Run

LEMMA NewPageType ==
    ASSUME TypeOK, NEW w \in Workers, pc[w] # "idle", NEW p \in Pages, files[p] # Torn
    PROVE  /\ NewPage(w, p) \in Content
           /\ files[p] # Absent => Revised(NewPage(w, p), files[p])
<1> DEFINE page == Prepared(run[w].job, p, run[w].ext, run[w].body[p])
<1>1. page \in Content
  BY RunType, PreparedType
<1>2. files[p] # Absent => files[p] \in Content
  BY FileCases DEF TypeOK
<1>3. NewPage(w, p) = IF files[p] = Absent THEN page ELSE MergeExisting(page, files[p])
  BY DEF NewPage
<1> HIDE DEF page
<1> QED
  BY <1>1, <1>2, <1>3, MergeRevises

LEMMA RaiseType ==
    ASSUME TypeOK, NEW w \in Workers, pc[w] # "idle", Raise(w),
           UNCHANGED <<files, head, gitLock, recorded>>, faults' \in 0..MaxFaults,
           index' \subseteq Pages \X Jobs, log' \in Seq(LogEntry), damaged' \subseteq Pages
    PROVE  TypeOK'
<1>1. Leave({w})
  BY DEF Raise
<1>2. run[w].job \in Jobs
  BY RunType
<1>3. GiveUp(run[w].job) \/ UNCHANGED serverVars
  BY DEF Raise
<1>4. /\ status' \in [Jobs -> {"queued", "running", "done", "failed"}]
      /\ attempts' \in [Jobs -> 0..MaxAttempts]
      /\ \A k \in Jobs : (status[k] = "queued" => attempts[k] < MaxAttempts)'
      /\ owner' \in [Jobs -> Workers \union {NoOne}]
  BY <1>2, <1>3, GiveUpType DEF TypeOK, serverVars
<1> QED
  BY <1>1, <1>4, LeaveType DEF TypeOK

\* What a write that is cut off leaves is a part of the index or of an entry.
LEMMA WriteCutType ==
    ASSUME TypeOK, NEW w \in Workers, WriteCut(w)
    PROVE  /\ pc[w] \in PhaseB
           /\ index' \subseteq Pages \X Jobs /\ log' \in Seq(LogEntry) /\ damaged' \subseteq Pages
<1>1. CASE PageCut(w)
  BY <1>1 DEF PageCut, TypeOK, Readable, PhaseB
<1>2. CASE IndexCut(w)
  BY <1>2, CatalogType DEF IndexCut, TypeOK, PhaseB
<1>3. CASE LogCut(w)
  <2>1. pc[w] = "log" /\ UNCHANGED <<index, damaged>>
    BY <1>3 DEF LogCut
  <2>2. PICK c \in SUBSET run[w].created, u \in SUBSET run[w].updated :
            log' = Append(log, [subject |-> run[w].ext.source, created |-> c, updated |-> u])
    BY <1>3 DEF LogCut
  <2>3. [subject |-> run[w].ext.source, created |-> c, updated |-> u] \in LogEntry
    BY <2>1, RunType DEF LogEntry, Extraction
  <2> QED
    BY <2>1, <2>2, <2>3 DEF TypeOK, PhaseB
<1> QED
  BY <1>1, <1>2, <1>3 DEF WriteCut

\* Every reachable state is well typed, whatever is dispatched, fails or times out.
THEOREM TypeCorrect == Spec => []TypeOK
<1>1. Init => TypeOK
  <2> SUFFICES ASSUME Init PROVE TypeOK
    OBVIOUS
  <2>1. EmptyTree \in Tree
    BY DEF EmptyTree, Tree, File
  <2>2. <<>> \in Seq(LogEntry)
    OBVIOUS
  <2>3. head \in Snapshot /\ gitLock \in BOOLEAN /\ damaged \subseteq Pages
    BY <2>1 DEF Init, Snapshot
  <2> QED
    BY <2>1, <2>2, <2>3, IngestAssumption DEF Init, TypeOK
<1>2. TypeOK /\ [Next]_vars => TypeOK'
  <2> SUFFICES ASSUME TypeOK, [Next]_vars PROVE TypeOK'
    OBVIOUS
  <2>1. ASSUME NEW j \in Jobs, NEW w \in Workers, NEW e \in Extractions[j],
               StartAttempt(w, j, e)
        PROVE  TypeOK'
    <3>1. j \in Jobs /\ e \in Extraction /\ files \in Tree
      BY IngestAssumption DEF TypeOK
    <3>2. attempts[j] + 1 \in 1..MaxAttempts
      BY <2>1, IngestAssumption DEF StartAttempt, TypeOK
    <3>3. Plan(e, files) \in SUBSET Pages /\ Effective(e, files) \in Extraction
      BY <3>1, PlanType, EffectiveType
    <3>4. [job |-> j, n |-> attempts[j] + 1, ext |-> Effective(e, files),
           ops |-> Plan(e, files), body |-> [p \in Pages |-> {}],
           created |-> {}, updated |-> {}] \in Run
      BY <3>1, <3>2, <3>3 DEF Run
    <3>5. run' \in [Workers -> Run \union {NoOne}] /\ run'[w] # NoOne
      BY <2>1, <3>4, NoOneAssumption DEF StartAttempt, TypeOK
    <3> QED
      BY <2>1, <3>2, <3>3, <3>5 DEF StartAttempt, TypeOK, bundleVars
  <2>2. ASSUME NEW w \in Workers, NEW p \in Pages, Compose(w, p)
        PROVE  TypeOK'
    <3>1. run[w] \in Run /\ files \in Tree
      BY <2>2, RunType DEF Compose, TypeOK
    <3>2. files[p] # Absent => files[p].facts \in SUBSET Jobs
      BY <2>2, <3>1, FileCases DEF Compose, Content
    <3>3. {run[w].job} \union (IF files[p] = Absent THEN {} ELSE files[p].facts) \in SUBSET Jobs
      BY <3>1, <3>2 DEF Run
    <3>4. run'[w] \in Run
      BY <2>2, <3>1, <3>3 DEF Compose, TypeOK, Run
    <3>5. run' \in [Workers -> Run \union {NoOne}] /\ run'[w] # NoOne
      BY <2>2, <3>4, NoOneAssumption DEF Compose, TypeOK
    <3> QED
      BY <2>2, <3>5 DEF Compose, TypeOK, bundleVars, serverVars
  <2>3. ASSUME NEW w \in Workers, NEW p \in Pages, BeginWrite(w, p)
        PROVE  TypeOK'
    <3>1. run[w] \in Run /\ files \in Tree /\ SlugOf(p) \in Slugs
      BY <2>3, RunType, SlugType DEF BeginWrite, TypeOK
    <3>2. NewPage(w, p) \in Content
      BY <2>3, NewPageType DEF BeginWrite
    <3>3. [page |-> p, new |-> NewPage(w, p)] \in Write
      BY <3>2 DEF Write
    <3>4. cur' \in [Workers -> Write \union {NoOne}] /\ cur'[w] # NoOne
      BY <2>3, <3>3, NoOneAssumption DEF BeginWrite, TypeOK
    <3>5. Noted(run[w], p) \in Run
      BY <3>1 DEF Noted, Run
    <3>6. run' \in [Workers -> Run \union {NoOne}] /\ run'[w] # NoOne
      BY <2>3, <3>5, NoOneAssumption DEF BeginWrite, TypeOK
    <3>7. files' \in Tree
      BY <2>3, <3>1 DEF BeginWrite, Tree, File
    <3> QED
      BY <2>3, <3>4, <3>6, <3>7 DEF BeginWrite, TypeOK, serverVars, NoAwait, PhaseB
  <2>4. ASSUME NEW w \in Workers, EndWrite(w)
        PROVE  TypeOK'
    <3>1. cur[w] \in Write
      BY <2>4 DEF EndWrite, TypeOK
    <3>2. files' \in Tree
      BY <2>4, <3>1 DEF EndWrite, TypeOK, Tree, File, Write
    <3> QED
      BY <2>4, <3>2 DEF EndWrite, TypeOK, serverVars, NoAwait, PhaseB
  <2>4a. ASSUME NEW w \in Workers, FlushPart(w)
         PROVE  TypeOK'
    <3>1. cur[w] \in Write
      BY <2>4a DEF FlushPart, TypeOK
    <3>2. PICK part \in CutShort(cur[w].new) : files' = [files EXCEPT ![cur[w].page] = part]
      BY <2>4a DEF FlushPart
    <3>3. part \in Content
      BY <3>1, <3>2, CutShortKeeps DEF Write
    <3>4. files' \in Tree
      BY <3>1, <3>2, <3>3 DEF TypeOK, Tree, File
    <3> QED
      BY <2>4a, <3>4 DEF FlushPart, TypeOK, serverVars, slotVars
  <2>5. ASSUME NEW w \in Workers, UpdateIndex(w)
        PROVE  TypeOK'
    BY <2>5, CatalogType DEF UpdateIndex, TypeOK, serverVars, NoAwait, PhaseB
  <2>6. ASSUME NEW w \in Workers, AppendLog(w)
        PROVE  TypeOK'
    <3>1. [subject |-> run[w].ext.source, created |-> run[w].created,
           updated |-> run[w].updated] \in LogEntry
      BY <2>6, RunType DEF AppendLog, LogEntry, Extraction
    <3>2. log' \in Seq(LogEntry)
      BY <2>6, <3>1 DEF AppendLog, TypeOK
    <3> QED
      BY <2>6, <3>2 DEF AppendLog, TypeOK, serverVars, NoAwait, PhaseB
  <2>7. ASSUME NEW w \in Workers, Commit(w)
        PROVE  TypeOK'
    BY <2>7 DEF Commit, Staged, TypeOK, Snapshot, serverVars, NoAwait, PhaseB
  <2>8. ASSUME NEW w \in Workers,
               ReachLock(w) \/ Acquire(w) \/ GitFails(w) \/ GitLockedOut(w) \/ RecordRun(w)
        PROVE  TypeOK'
    <3>1. CASE ReachLock(w)
      BY <3>1, RunType DEF ReachLock, TypeOK, bundleVars, serverVars, NoAwait, PhaseB
    <3>2. CASE Acquire(w)
      BY <3>2 DEF Acquire, TypeOK, bundleVars, serverVars, NoAwait, PhaseB
    <3>3. CASE GitFails(w) \/ GitLockedOut(w)
      <4>1. SwallowsError(w) /\ faults' \in 0..MaxFaults
        BY <3>3, FaultType DEF GitFails, GitLockedOut, TypeOK
      <4> QED
        BY <4>1 DEF SwallowsError, TypeOK, bundleVars, serverVars, NoAwait, PhaseB
    <3>4. CASE RecordRun(w)
      <4>1. run[w].job \in Jobs
        BY <3>4, RunType DEF RecordRun
      <4>2. recorded' \subseteq Jobs /\ faults' \in 0..MaxFaults
        BY <3>4, <4>1, FaultType DEF RecordRun, TypeOK
      <4> QED
        BY <3>4, <4>2 DEF RecordRun, TypeOK, bundleVars, serverVars, NoAwait, PhaseB
    <3> QED
      BY <2>8, <3>1, <3>2, <3>3, <3>4
  <2>9. ASSUME NEW w \in Workers,
               \/ \E p \in Pages : ComposeTorn(w, p) \/ WriteTorn(w, p)
               \/ LlmFails(w) \/ LockTimesOut(w) \/ IndexTorn(w)
        PROVE  TypeOK'
    <3>1. pc[w] # "idle" /\ Raise(w)
      BY <2>9 DEF ComposeTorn, WriteTorn, LlmFails, LockTimesOut, IndexTorn
    <3>2. bundleVars' = bundleVars /\ recorded' = recorded
      BY <2>9 DEF ComposeTorn, WriteTorn, LlmFails, LockTimesOut, IndexTorn, bundleVars
    <3>3. faults' \in 0..MaxFaults
      BY <2>9, FaultType DEF ComposeTorn, WriteTorn, LlmFails, LockTimesOut, IndexTorn, TypeOK
    <3> QED
      BY <3>1, <3>2, <3>3, RaiseType DEF TypeOK, bundleVars
  <2>9a. ASSUME NEW w \in Workers, DiskFails(w)
         PROVE  TypeOK'
    <3>1. WriteCut(w) /\ Raise(w) /\ UNCHANGED <<files, head, gitLock, recorded>>
      BY <2>9a DEF DiskFails
    <3>2. faults' \in 0..MaxFaults
      BY <2>9a, FaultType DEF DiskFails
    <3>3. /\ pc[w] # "idle"
          /\ index' \subseteq Pages \X Jobs /\ log' \in Seq(LogEntry) /\ damaged' \subseteq Pages
      BY <3>1, WriteCutType DEF PhaseB
    <3> QED
      BY <3>1, <3>2, <3>3, RaiseType
  <2>10. ASSUME NEW w \in Workers, Reply(w) \/ CancelStale(w)
         PROVE  TypeOK'
    <3>1. Leave({w}) /\ bundleVars' = bundleVars /\ recorded' = recorded /\ faults' = faults
      BY <2>10 DEF Reply, CancelStale, bundleVars
    <3>2. run[w].job \in Jobs
      BY <2>10, RunType DEF Reply, CancelStale
    <3>3. /\ status' \in [Jobs -> {"queued", "running", "done", "failed"}]
          /\ attempts' \in [Jobs -> 0..MaxAttempts]
          /\ \A k \in Jobs : (status[k] = "queued" => attempts[k] < MaxAttempts)'
          /\ owner' \in [Jobs -> Workers \union {NoOne}]
      BY <2>10, <3>2 DEF Reply, CancelStale, TypeOK, serverVars
    <3> QED
      BY <3>1, <3>3, LeaveType DEF TypeOK, bundleVars
  <2>11. ASSUME NEW j \in Jobs, DeadAttemptTimesOut(j) \/ SlowAttemptTimesOut(j)
         PROVE  TypeOK'
    <3>1. GiveUp(j) /\ faults' \in 0..MaxFaults
      BY <2>11, FaultType DEF DeadAttemptTimesOut, SlowAttemptTimesOut, TypeOK
    <3>2. UNCHANGED <<bundleVars, lock, slotVars, recorded>>
      BY <2>11 DEF DeadAttemptTimesOut, SlowAttemptTimesOut
    <3> QED
      BY <3>1, <3>2, GiveUpType DEF TypeOK, bundleVars, slotVars
  <2>12. ASSUME NEW p \in Processes, Crash(p)
         PROVE  TypeOK'
    <3>1. Leave({w \in Workers : ProcessOf[w] = p}) /\ faults' \in 0..MaxFaults
      BY <2>12, FaultType DEF Crash
    <3>2. UNCHANGED <<files, serverVars, recorded>>
      BY <2>12 DEF Crash
    <3>3. CASE UNCHANGED <<index, log, damaged, head, gitLock>>
      BY <3>1, <3>2, <3>3, LeaveType DEF TypeOK, serverVars
    <3>4. CASE \E w \in Workers : WriteCut(w) /\ UNCHANGED <<head, gitLock>>
      <4>1. index' \subseteq Pages \X Jobs /\ log' \in Seq(LogEntry) /\ damaged' \subseteq Pages
        BY <3>4, WriteCutType
      <4> QED
        BY <3>1, <3>2, <3>4, <4>1, LeaveType DEF TypeOK, serverVars
    <3>5. CASE \E w \in Workers : GitKilled(w)
      <4>1. head' \in Snapshot /\ gitLock' \in BOOLEAN /\ UNCHANGED <<index, log, damaged>>
        BY <3>5 DEF GitKilled, Staged, Snapshot, TypeOK
      <4> QED
        BY <3>1, <3>2, <4>1, LeaveType DEF TypeOK, serverVars
    <3> QED
      BY <2>12, <3>3, <3>4, <3>5 DEF Crash
  <2>13. CASE UNCHANGED vars
    BY <2>13 DEF vars, TypeOK
  <2> QED
    BY <2>1, <2>2, <2>3, <2>4, <2>4a, <2>5, <2>6, <2>7, <2>8, <2>9, <2>9a, <2>10, <2>11,
       <2>12, <2>13
    DEF Next, Step, Start, Finished
<1> QED
  BY <1>1, <1>2, PTL DEF Spec

-----------------------------------------------------------------------------
(* The inductive invariant.                                                *)

\* What Leave does to the slots' program counters and to the lock.
LEMMA LeaveKeepsLock ==
    ASSUME TypeOK, LockInv, NEW W \in SUBSET Workers, Leave(W)
    PROVE  LockInv'
BY IngestAssumption DEF TypeOK, LockInv, Leave, PhaseB

\* What slots that stop may leave behind: a part of the index, or a commit.
LeavesBehind(W) ==
    /\ UNCHANGED files
    /\ index' = index \/ \E w \in W : pc[w] \in PhaseB
    /\ head' = head \/ \E w \in W : pc[w] = "commit" /\ head' = Staged

LEMMA LeaveKeepsInv ==
    ASSUME TypeOK, Inv, NEW W \in SUBSET Workers, Leave(W), LeavesBehind(W)
    PROVE  Inv'
<1>1. LockInv'
  BY LeaveKeepsLock DEF Inv
<1>2. \A w \in Workers : pc'[w] # "idle" => w \notin W /\ pc'[w] = pc[w] /\ cur'[w] = cur[w]
  BY DEF Leave, TypeOK
<1>3. ASSUME NEW v \in Workers, pc'[v] \in PhaseB
      PROVE  v \notin W /\ pc[v] = pc'[v] /\ cur[v] = cur'[v] /\ index' = index /\ head' = head
  <2>1. v \notin W /\ pc[v] = pc'[v] /\ cur[v] = cur'[v]
    BY <1>2, <1>3 DEF PhaseB
  <2>2. \A w \in W : pc[w] \notin PhaseB
    BY <1>3, <2>1 DEF Inv, LockInv
  <2> QED
    BY <2>1, <2>2 DEF LeavesBehind, PhaseB
<1>4. IndexInv' /\ CurInv'
  BY <1>3 DEF Inv, IndexInv, CurInv, LeavesBehind, PhaseB
<1>5. CASE head' = head
  BY <1>1, <1>4, <1>5 DEF Inv, KeepsInv, NoTornPageCommitted, CommittedIndexExact, LeavesBehind
<1>6. CASE \E w \in W : pc[w] = "commit" /\ head' = Staged
  <2>1. /\ \A p \in Pages : files[p] # Torn
        /\ head'.files = files /\ head'.index = Catalog(files)
    BY <1>6 DEF Inv, IndexInv, Staged
  <2>2. NoTornPageCommitted' /\ CommittedIndexExact'
    BY <2>1 DEF NoTornPageCommitted, CommittedIndexExact
  <2>3. KeepsInv'
    BY <2>1 DEF KeepsInv, Revised, LeavesBehind
  <2> QED
    BY <1>1, <1>4, <2>2, <2>3 DEF Inv
<1> QED
  BY <1>5, <1>6 DEF LeavesBehind

\* A page that is cut short while it is written revises the committed one.
LEMMA FlushPartKeepsInv ==
    ASSUME TypeOK, Inv, NEW w \in Workers, FlushPart(w)
    PROVE  Inv'
<1>1. /\ pc[w] = "writing" /\ lock = w
      /\ UNCHANGED <<pc, cur, index, log, head, lock>>
  BY DEF FlushPart, slotVars, Inv, LockInv, PhaseB
<1>2. cur[w].page \in Pages /\ cur[w].new \in Content
  BY <1>1 DEF TypeOK, Write
<1>3. PICK part \in CutShort(cur[w].new) : files' = [files EXCEPT ![cur[w].page] = part]
  BY DEF FlushPart
<1>4. part \in Content /\ part.created = cur[w].new.created /\ part.aliases = cur[w].new.aliases
  BY <1>2, <1>3, CutShortKeeps
<1>5. \A v \in Workers \ {w} : pc[v] \notin PhaseB
  BY <1>1 DEF Inv, LockInv
<1>6. LockInv' /\ IndexInv' /\ CurInv'
  BY <1>1, <1>5 DEF Inv, LockInv, IndexInv, CurInv, PhaseB
<1>7. KeepsInv'
  <2> SUFFICES ASSUME NEW p \in Pages, head.files[p] # Absent
               PROVE  \/ files'[p] = Torn
                      \/ files'[p] # Absent /\ Revised(files'[p], head.files[p])
    BY <1>1 DEF KeepsInv
  <2>1. CASE p = cur[w].page
    <3>1. files'[p] = part
      BY <1>2, <1>3, <2>1 DEF TypeOK, Tree
    <3>2. Revised(cur[w].new, head.files[p])
      BY <1>1, <2>1 DEF Inv, CurInv
    <3> QED
      BY <1>4, <3>1, <3>2, MarkersAreNoContent DEF Revised
  <2>2. CASE p # cur[w].page
    BY <1>2, <1>3, <2>2 DEF TypeOK, Inv, KeepsInv, Tree
  <2> QED
    BY <2>1, <2>2
<1> QED
  BY <1>1, <1>6, <1>7 DEF Inv, NoTornPageCommitted, CommittedIndexExact

\* Steps that leave the bundle and the lock alone and move one slot outside
\* phase B, or none.
LEMMA QuietKeepsInv ==
    ASSUME TypeOK, Inv, bundleVars' = bundleVars, lock' = lock, cur' = cur,
           NEW w \in Workers, pc[w] \notin PhaseB,
           NEW v \in {"compose", "locking", "reply"}, pc' = [pc EXCEPT ![w] = v]
    PROVE  Inv'
BY DEF TypeOK, Inv, LockInv, IndexInv, KeepsInv, CurInv, NoTornPageCommitted,
       CommittedIndexExact, bundleVars, PhaseB

LEMMA Stutter ==
    ASSUME Inv, bundleVars' = bundleVars, lock' = lock, cur' = cur, pc' = pc
    PROVE  Inv'
BY DEF Inv, LockInv, IndexInv, KeepsInv, CurInv, NoTornPageCommitted,
       CommittedIndexExact, bundleVars

LEMMA BeginWriteKeepsInv ==
    ASSUME TypeOK, Inv, NEW w \in Workers, NEW p \in Pages, BeginWrite(w, p)
    PROVE  Inv'
<1>1. /\ pc[w] = "write" /\ lock = w /\ files[p] # Torn
      /\ pc' = [pc EXCEPT ![w] = "writing"]
      /\ files' = [files EXCEPT ![p] = Torn]
      /\ cur' = [cur EXCEPT ![w] = [page |-> p, new |-> NewPage(w, p)]]
      /\ UNCHANGED <<index, log, head, lock>>
  BY DEF BeginWrite, Inv, LockInv, PhaseB
<1>2. \A v \in Workers \ {w} : pc[v] \notin PhaseB
  BY <1>1 DEF Inv, LockInv
<1>3. head.files[p] # Absent => Revised(NewPage(w, p), head.files[p])
  <2> SUFFICES ASSUME head.files[p] # Absent
               PROVE  Revised(NewPage(w, p), head.files[p])
    OBVIOUS
  <2>1. files[p] # Absent /\ Revised(files[p], head.files[p])
    BY <1>1 DEF Inv, KeepsInv
  <2>2. NewPage(w, p) \in Content /\ Revised(NewPage(w, p), files[p])
    BY <1>1, <2>1, NewPageType
  <2>3. files[p] \in Content
    BY <1>1, <2>1, FileCases DEF TypeOK
  <2>4. head.files[p] \in Content
    BY FileCases DEF TypeOK, Snapshot, Inv, NoTornPageCommitted
  <2> QED
    BY <2>1, <2>2, <2>3, <2>4, RevisedTransitive
<1>4. LockInv'
  BY <1>1, <1>2 DEF TypeOK, LockInv, Inv, PhaseB
<1>5. IndexInv'
  BY <1>1, <1>2 DEF TypeOK, IndexInv, Inv, PhaseB
<1>6. KeepsInv'
  BY <1>1 DEF TypeOK, KeepsInv, Inv, Tree
<1>7. CurInv'
  BY <1>1, <1>2, <1>3 DEF TypeOK, CurInv, PhaseB
<1> QED
  BY <1>1, <1>4, <1>5, <1>6, <1>7 DEF Inv, NoTornPageCommitted, CommittedIndexExact

LEMMA EndWriteKeepsInv ==
    ASSUME TypeOK, Inv, NEW w \in Workers, EndWrite(w)
    PROVE  Inv'
<1>1. /\ pc[w] = "writing" /\ lock = w
      /\ pc' = [pc EXCEPT ![w] = "write"]
      /\ files' = [files EXCEPT ![cur[w].page] = cur[w].new]
      /\ cur' = [cur EXCEPT ![w] = NoOne]
      /\ UNCHANGED <<index, log, head, lock>>
  BY DEF EndWrite, Inv, LockInv, PhaseB
<1>2. \A v \in Workers \ {w} : pc[v] \notin PhaseB
  BY <1>1 DEF Inv, LockInv
<1>3. cur[w].page \in Pages /\ cur[w].new \in Content
  BY <1>1 DEF TypeOK, Write
<1>4. LockInv'
  BY <1>1, <1>2 DEF TypeOK, LockInv, Inv, PhaseB
<1>5. IndexInv' /\ CurInv'
  BY <1>1, <1>2 DEF TypeOK, IndexInv, CurInv, Inv, PhaseB
<1>6. KeepsInv'
  <2> SUFFICES ASSUME NEW p \in Pages, head.files[p] # Absent
               PROVE  \/ files'[p] = Torn
                      \/ files'[p] # Absent /\ Revised(files'[p], head.files[p])
    BY <1>1 DEF KeepsInv
  <2>1. CASE p = cur[w].page
    BY <1>1, <1>3, <2>1, MarkersAreNoContent DEF TypeOK, Inv, CurInv, Tree
  <2>2. CASE p # cur[w].page
    BY <1>1, <1>3, <2>2 DEF TypeOK, Inv, KeepsInv, Tree
  <2> QED
    BY <2>1, <2>2
<1> QED
  BY <1>1, <1>4, <1>5, <1>6 DEF Inv, NoTornPageCommitted, CommittedIndexExact

LEMMA CommitKeepsInv ==
    ASSUME TypeOK, Inv, NEW w \in Workers, Commit(w)
    PROVE  Inv'
<1>1. /\ pc[w] = "commit" /\ lock = w
      /\ pc' = [pc EXCEPT ![w] = "record"]
      /\ head' = [files |-> files, index |-> index]
      /\ lock' = NoOne
      /\ UNCHANGED <<files, index, log, cur>>
  BY DEF Commit, Staged, Inv, LockInv, PhaseB
<1>2. \A v \in Workers \ {w} : pc[v] \notin PhaseB
  BY <1>1 DEF Inv, LockInv
<1>3. LockInv'
  BY <1>1, <1>2, IngestAssumption DEF TypeOK, LockInv, PhaseB
<1>4. IndexInv' /\ CurInv'
  BY <1>1, <1>2 DEF TypeOK, IndexInv, CurInv, PhaseB
<1>5. NoTornPageCommitted' /\ CommittedIndexExact'
  BY <1>1 DEF Inv, IndexInv, NoTornPageCommitted, CommittedIndexExact
<1>6. KeepsInv'
  <2> SUFFICES ASSUME NEW p \in Pages, files[p] # Absent, files[p] # Torn
               PROVE  Revised(files[p], files[p])
    BY <1>1 DEF KeepsInv
  <2> QED
    BY DEF Revised
<1> QED
  BY <1>3, <1>4, <1>5, <1>6 DEF Inv

\* The lock is held exactly by the slot in phase B, the index is exact from its
\* rebuild to the commit, and the working tree never falls behind the commit.
THEOREM Inductive == Spec => []Inv
<1>1. Init => Inv
  BY IngestAssumption, MarkersAssumption
  DEF Init, Inv, LockInv, IndexInv, KeepsInv, CurInv, NoTornPageCommitted,
      CommittedIndexExact, PhaseB, EmptyTree, Catalog, Readable
<1>2. TypeOK /\ Inv /\ [Next]_vars => Inv'
  <2> SUFFICES ASSUME TypeOK, Inv, [Next]_vars PROVE Inv'
    OBVIOUS
  <2>1. ASSUME NEW j \in Jobs, NEW w \in Workers, NEW e \in Extractions[j],
               StartAttempt(w, j, e)
        PROVE  Inv'
    BY <2>1, QuietKeepsInv DEF StartAttempt, PhaseB
  <2>2. ASSUME NEW w \in Workers, NEW p \in Pages, Compose(w, p)
        PROVE  Inv'
    BY <2>2, Stutter DEF Compose
  <2>3. ASSUME NEW w \in Workers, ReachLock(w)
        PROVE  Inv'
    BY <2>3, QuietKeepsInv DEF ReachLock, PhaseB
  <2>4. ASSUME NEW w \in Workers, Acquire(w)
        PROVE  Inv'
    BY <2>4, IngestAssumption
    DEF Acquire, TypeOK, Inv, LockInv, IndexInv, KeepsInv, CurInv,
        NoTornPageCommitted, CommittedIndexExact, bundleVars, PhaseB
  <2>5. ASSUME NEW w \in Workers, NEW p \in Pages, BeginWrite(w, p)
        PROVE  Inv'
    BY <2>5, BeginWriteKeepsInv
  <2>6. ASSUME NEW w \in Workers, EndWrite(w)
        PROVE  Inv'
    BY <2>6, EndWriteKeepsInv
  <2>6a. ASSUME NEW w \in Workers, FlushPart(w)
         PROVE  Inv'
    BY <2>6a, FlushPartKeepsInv
  <2>7. ASSUME NEW w \in Workers, UpdateIndex(w)
        PROVE  Inv'
    BY <2>7
    DEF UpdateIndex, TypeOK, Inv, LockInv, IndexInv, KeepsInv, CurInv,
        NoTornPageCommitted, CommittedIndexExact, PhaseB
  <2>8. ASSUME NEW w \in Workers, AppendLog(w)
        PROVE  Inv'
    BY <2>8
    DEF AppendLog, TypeOK, Inv, LockInv, IndexInv, KeepsInv, CurInv,
        NoTornPageCommitted, CommittedIndexExact, PhaseB
  <2>9. ASSUME NEW w \in Workers, Commit(w)
        PROVE  Inv'
    BY <2>9, CommitKeepsInv
  <2>10. ASSUME NEW w \in Workers, GitFails(w) \/ GitLockedOut(w)
         PROVE  Inv'
    <3>1. SwallowsError(w)
      BY <2>10 DEF GitFails, GitLockedOut
    <3> QED
      BY <3>1, IngestAssumption
      DEF SwallowsError, TypeOK, Inv, LockInv, IndexInv, KeepsInv, CurInv,
          NoTornPageCommitted, CommittedIndexExact, bundleVars, PhaseB
  <2>11. ASSUME NEW w \in Workers, RecordRun(w)
         PROVE  Inv'
    BY <2>11, QuietKeepsInv DEF RecordRun, PhaseB
  <2>12. ASSUME NEW w \in Workers,
                \/ \E p \in Pages : ComposeTorn(w, p) \/ WriteTorn(w, p)
                \/ LlmFails(w) \/ LockTimesOut(w) \/ DiskFails(w) \/ IndexTorn(w)
                \/ Reply(w) \/ CancelStale(w)
         PROVE  Inv'
    <3>1. CASE DiskFails(w)
      <4>1. Leave({w}) /\ WriteCut(w) /\ files' = files /\ head' = head
        BY <3>1 DEF DiskFails, Raise
      <4>2. pc[w] \in PhaseB
        BY <4>1, WriteCutType
      <4> QED
        BY <4>1, <4>2, LeaveKeepsInv DEF LeavesBehind
    <3>2. CASE ~DiskFails(w)
      <4>1. Leave({w}) /\ bundleVars' = bundleVars
        BY <2>12, <3>2 DEF ComposeTorn, WriteTorn, LlmFails, LockTimesOut,
                           IndexTorn, Reply, CancelStale, Raise, bundleVars
      <4> QED
        BY <4>1, LeaveKeepsInv DEF LeavesBehind, bundleVars
    <3> QED
      BY <3>1, <3>2
  <2>13. ASSUME NEW j \in Jobs, DeadAttemptTimesOut(j) \/ SlowAttemptTimesOut(j)
         PROVE  Inv'
    BY <2>13, Stutter DEF DeadAttemptTimesOut, SlowAttemptTimesOut, slotVars
  <2>14. ASSUME NEW p \in Processes, Crash(p)
         PROVE  Inv'
    <3> DEFINE W == {w \in Workers : ProcessOf[w] = p}
    <3>1. Leave(W) /\ files' = files
      BY <2>14 DEF Crash
    <3>2. \/ index' = index /\ head' = head
          \/ \E w \in W : WriteCut(w) /\ head' = head
          \/ \E w \in W : GitKilled(w)
      BY <2>14 DEF Crash
    <3>3. LeavesBehind(W)
      BY <3>1, <3>2, WriteCutType DEF LeavesBehind, GitKilled
    <3> QED
      BY <3>1, <3>3, LeaveKeepsInv
  <2>15. CASE UNCHANGED vars
    BY <2>15, Stutter DEF vars, bundleVars
  <2> QED
    BY <2>1, <2>2, <2>3, <2>4, <2>5, <2>6, <2>6a, <2>7, <2>8, <2>9, <2>10, <2>11,
       <2>12, <2>13, <2>14, <2>15
    DEF Next, Step, Start, Finished
<1> QED
  BY <1>1, <1>2, TypeCorrect, PTL DEF Spec

\* At most one attempt is between the acquire and the commit, in all processes.
THEOREM MutualExclusion ==
    Spec => [](\A v, w \in Workers : pc[v] \in PhaseB /\ pc[w] \in PhaseB => v = w)
<1>1. Inv => \A v, w \in Workers : pc[v] \in PhaseB /\ pc[w] \in PhaseB => v = w
  BY DEF Inv, LockInv
<1> QED
  BY <1>1, Inductive, PTL

\* No commit contains a page that does not parse.
THEOREM CommitsParse == Spec => []NoTornPageCommitted
<1>1. Inv => NoTornPageCommitted
  BY DEF Inv
<1> QED
  BY <1>1, Inductive, PTL

\* The index of every commit lists exactly its pages.
THEOREM CommitsIndexed == Spec => []CommittedIndexExact
<1>1. Inv => CommittedIndexExact
  BY DEF Inv
<1> QED
  BY <1>1, Inductive, PTL

\* The operators on pages that WikiHistory sees are those of OkfIngest.
LEMMA SameVocabulary ==
    /\ History!Content = Content
    /\ History!Pages = Pages
    /\ History!EmptyTree = EmptyTree
    /\ \A f : History!Existing(f) = Existing(f)
    /\ \A f : History!Catalog(f) = Catalog(f)
<1>1. History!Pages = Pages /\ History!Content = Content
  BY DEF History!Pages, Pages, History!PageTypes, PageTypes, History!Content, Content
<1>2. \A f : History!Readable(f) = Readable(f)
  BY <1>1 DEF History!Readable, Readable
<1> QED
  BY <1>1, <1>2 DEF History!EmptyTree, EmptyTree, History!Existing, Existing,
                    History!Catalog, Catalog

\* Only a commit changes the head, one whose git command is killed included.
LEMMA HeadChanges ==
    ASSUME Next, head' # head
    PROVE  \E w \in Workers : pc[w] = "commit" /\ head' = Staged
<1>1. ASSUME NEW j \in Jobs, Start(j) \/ DeadAttemptTimesOut(j) \/ SlowAttemptTimesOut(j)
      PROVE  head' = head
  BY <1>1 DEF Start, StartAttempt, DeadAttemptTimesOut, SlowAttemptTimesOut, bundleVars
<1>2. ASSUME NEW w \in Workers, NEW p \in Pages,
             Compose(w, p) \/ ComposeTorn(w, p) \/ BeginWrite(w, p) \/ WriteTorn(w, p)
      PROVE  head' = head
  BY <1>2 DEF Compose, ComposeTorn, BeginWrite, WriteTorn, bundleVars
<1>3. ASSUME NEW w \in Workers,
             \/ ReachLock(w) \/ Acquire(w) \/ EndWrite(w) \/ UpdateIndex(w) \/ IndexTorn(w)
             \/ AppendLog(w) \/ GitLockedOut(w) \/ RecordRun(w) \/ Reply(w)
      PROVE  head' = head
  BY <1>3 DEF ReachLock, Acquire, EndWrite, UpdateIndex, IndexTorn, AppendLog, GitLockedOut,
              SwallowsError, RecordRun, Reply, bundleVars
<1>4. ASSUME NEW w \in Workers,
             \/ LlmFails(w) \/ LockTimesOut(w) \/ DiskFails(w) \/ GitFails(w) \/ CancelStale(w)
             \/ FlushPart(w)
      PROVE  head' = head
  BY <1>4 DEF LlmFails, LockTimesOut, DiskFails, GitFails, SwallowsError, CancelStale,
              FlushPart, bundleVars
<1>5. ASSUME NEW p \in Processes, Crash(p)
      PROVE  head' = head \/ \E w \in Workers : pc[w] = "commit" /\ head' = Staged
  BY <1>5 DEF Crash, GitKilled
<1>5a. ASSUME NEW w \in Workers, Commit(w)
       PROVE  pc[w] = "commit" /\ head' = Staged
  BY <1>5a DEF Commit
<1>6. Finished => head' = head
  BY DEF Finished, vars, bundleVars
<1> QED
  BY <1>1, <1>2, <1>3, <1>4, <1>5, <1>5a, <1>6 DEF Next, Step

\* OkfIngest implements WikiHistory: a commit publishes, every other step
\* stutters.
THEOREM Refinement == Spec => HistoryOnlyGrows
<1>1. Init => History!Init
  BY SameVocabulary DEF Init, History!Init
<1>2. TypeOK /\ Inv /\ TypeOK' /\ Inv' /\ [Next]_vars => [History!Next]_head
  <2> SUFFICES ASSUME TypeOK, Inv, TypeOK', Inv', [Next]_vars, head' # head
               PROVE  History!Publish
    BY DEF History!Next
  <2>1. PICK w \in Workers : pc[w] = "commit" /\ head' = Staged
    BY HeadChanges DEF vars, bundleVars
  <2>2. History!WellFormed(head')
    BY SameVocabulary DEF Inv, NoTornPageCommitted, CommittedIndexExact, History!WellFormed
  <2>3. ASSUME NEW p \in Existing(head.files)
        PROVE  History!Revises(head'.files[p], head.files[p])
    <3>1. p \in Pages /\ head.files[p] # Absent
      BY DEF Existing
    <3>2. head'.files = files /\ files[p] # Torn
      BY <2>1, <3>1 DEF Staged, Inv, IndexInv
    <3>3. files[p] # Absent /\ Revised(files[p], head.files[p])
      BY <3>1, <3>2 DEF Inv, KeepsInv
    <3>4. files[p] \in Content
      BY <3>1, <3>2, <3>3, FileCases DEF TypeOK
    <3> QED
      BY <3>2, <3>3, <3>4, SameVocabulary DEF Revised, History!Revises
  <2> QED
    BY <2>2, <2>3, SameVocabulary DEF History!Publish
<1> QED
  BY <1>1, <1>2, TypeCorrect, Inductive, PTL
  DEF Spec, HistoryOnlyGrows, History!Spec
=============================================================================

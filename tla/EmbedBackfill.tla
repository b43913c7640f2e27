----------------------------- MODULE EmbedBackfill -----------------------------
(****************************************************************************)
(* The rows of wiki_chunks between the mirror, which replaces the chunks of *)
(* a changed page by rows without an embedding, and the backfill, which     *)
(* fills the embeddings in, a batch at a time: kicked at the end of every   *)
(* ingest workflow and run by a schedule. Both are activities that worker   *)
(* processes run at the same time; they meet in Postgres only, at READ      *)
(* COMMITTED, through row locks and the unique slug of an item. wiki_chunks *)
(* itself has no unique key, and a mirror that chunks an unchanged page     *)
(* again takes no lock on its item. Sources: _store_chunks and              *)
(* mirror_bundle (okf_mirror.py), embed_backfill.py, workflows.py, retry.py. *)
(****************************************************************************)
EXTENDS Naturals, FiniteSets

CONSTANTS
    Items,          \* pages, numbered in the order in which a mirror visits them
    Workflows,      \* ingests, each with its mirror and its backfill
    Changes,        \* the pages each ingest changes
    ChunksOf,       \* the number of chunks of each page
    Fresh,          \* pages that no ingest has written yet
    Bare,           \* items that were mirrored but never chunked
    Refused,        \* pages whose text the gateway refuses
    Batch,          \* embed_backfill_batch_size
    MaxTries,       \* maximum_attempts of the two activities
    MaxFaults,      \* bound: faults in one behaviour
    FaultKinds,     \* kinds of fault considered
    Sched,          \* the scheduled backfill, one at a time
    None

ASSUME BackfillAssumption ==
    /\ Items \subseteq Nat
    /\ Changes \in [Workflows -> SUBSET Items]
    /\ ChunksOf \in [Items -> Nat]
    /\ Fresh \subseteq Items /\ Bare \subseteq Items \ Fresh
    /\ Batch \in Nat \ {0} /\ MaxTries \in Nat \ {0} /\ MaxFaults \in Nat
    /\ FaultKinds \subseteq {"gateway", "attempt"}
    /\ Sched \notin Workflows /\ None \notin Items

VARIABLES
    text,       \* the text of each page in the bundle, by revision; 0: no page
    current,    \* the revision of each item's current version; 0: no item
    chunks,     \* wiki_chunks
    embedded,   \* the chunks that have an embedding
    clock,      \* created_at of the next chunks
    made,       \* ghost: how the chunks of each item were made
    pc,         \* what each workflow and the scheduled backfill does
    tries,      \* lost attempts of its activity
    todo,       \* a mirror's pages still to visit, with the text it collected
    seen,       \* items_with_chunks of a mirror
    tx,         \* what the open transaction has written and locked
    batch,      \* the rows a backfill has loaded
    faults

table == <<text, current, chunks, embedded, clock, made>>
vars == <<table, pc, tries, todo, seen, tx, batch, faults>>

Tasks == Workflows \union {Sched}

-----------------------------------------------------------------------------
(* State *)

\* A row of wiki_chunks: its page, the revision it was cut from, its index, and
\* when it was made.
Chunk == [item : Items, rev : Nat, n : Nat, born : Nat]

Cut(i, rev, born) == [item : {i}, rev : {rev}, n : 1..ChunksOf[i], born : {born}]

\* The item being given a version, the items that have one, those chunked again
\* without; the chunks that the DELETE under way found, the chunks deleted and
\* inserted, the chunks that were given an embedding. Ghost: the items that
\* another mirror committed since it took them up.
NoTx == [item |-> None, revs |-> [i \in {} |-> 0], re |-> {}, old |-> {},
         del |-> {}, new |-> {}, done |-> {}, met |-> {}]
NoTodo == [i \in {} |-> 0]

Locked(t) == tx[t].del \union tx[t].done
Written(t) == (DOMAIN tx[t].revs \union {tx[t].item}) \ {None}
Touched(t) == Written(t) \union tx[t].re

Of(i, S) == {c \in S : c.item = i}

\* The type of the state; besides, no row is locked by two transactions.
TypeOK ==
    /\ text \in [Items -> Nat] /\ current \in [Items -> Nat] /\ clock \in Nat
    /\ chunks \subseteq Chunk /\ embedded \subseteq chunks
    /\ made \in [Items -> {"not", "alone", "met"}]
    /\ pc \in [Tasks -> {"ingest", "mirror", "snapshot", "visit", "insert", "lock", "store",
                         "delete", "kick", "idle", "embed", "write", "end"}]
    /\ tries \in [Tasks -> 0..MaxTries]
    /\ \A t \in Tasks :
          /\ DOMAIN todo[t] \subseteq Items /\ seen[t] \subseteq Items
          /\ Locked(t) \subseteq chunks /\ tx[t].new \subseteq Chunk
          /\ batch[t] \subseteq Chunk
          /\ pc[t] \notin {"visit", "insert", "lock", "store", "delete", "write"} => tx[t] = NoTx
    /\ \A t, u \in Tasks :
          t # u => Locked(t) \intersect Locked(u) = {} /\ Written(t) \intersect Written(u) = {}
    /\ faults \in 0..MaxFaults

\* A wiki that has been mirrored and embedded, but for the pages that are not
\* written yet and the items that have no chunks.
Init ==
    /\ text = [i \in Items |-> IF i \in Fresh THEN 0 ELSE 1]
    /\ current = text
    /\ chunks = UNION {Cut(i, 1, 1) : i \in Items \ (Fresh \union Bare)}
    /\ embedded = chunks
    /\ clock = 2
    /\ made = [i \in Items |-> IF i \in Fresh \union Bare THEN "not" ELSE "alone"]
    /\ pc = [t \in Tasks |-> IF t = Sched THEN "idle" ELSE "ingest"]
    /\ tries = [t \in Tasks |-> 0]
    /\ todo = [t \in Tasks |-> NoTodo]
    /\ seen = [t \in Tasks |-> {}]
    /\ tx = [t \in Tasks |-> NoTx]
    /\ batch = [t \in Tasks |-> {}]
    /\ faults = 0

-----------------------------------------------------------------------------
(* Helpers *)

Go(t, step) == pc' = [pc EXCEPT ![t] = step]

Fault(kind) ==
    /\ kind \in FaultKinds
    /\ faults < MaxFaults
    /\ faults' = faults + 1

\* The activity of t returns or raises: its session is closed.
Close(t) ==
    /\ todo' = [todo EXCEPT ![t] = NoTodo]
    /\ seen' = [seen EXCEPT ![t] = {}]
    /\ tx' = [tx EXCEPT ![t] = NoTx]
    /\ batch' = [batch EXCEPT ![t] = {}]

Rest(t) == IF t = Sched THEN "idle" ELSE "end"

Done(t, step) ==
    /\ Close(t)
    /\ Go(t, step)
    /\ tries' = [tries EXCEPT ![t] = 0]

\* Variant: an attempt that raises leaves its session open.
Raise_KeepsTx(t) ==
    /\ Go(t, Rest(t))
    /\ UNCHANGED <<table, tries, todo, seen, tx, batch>>

\* The attempt raises and is rolled back, and the activity is tried again. After
\* the last attempt a mirror fails its workflow, a kicked backfill is given up
\* without, and the scheduled one waits for its next time.
Raise(t) ==
    /\ IF tries[t] + 1 < MaxTries
       THEN /\ Close(t)
            /\ Go(t, IF pc[t] \in {"visit", "insert", "lock", "store", "delete"} THEN "mirror"
                     ELSE IF t = Sched THEN "idle" ELSE "kick")
            /\ tries' = [tries EXCEPT ![t] = @ + 1]
       ELSE Done(t, Rest(t))
    /\ UNCHANGED table

-----------------------------------------------------------------------------
(* Ingest and mirror of workflow w *)

\* okf_ingest commits new texts of its pages.
Ingest(w) ==
    /\ pc[w] = "ingest"
    /\ text' = [i \in Items |-> IF i \in Changes[w] THEN text[i] + 1 ELSE text[i]]
    /\ Go(w, "mirror")
    /\ UNCHANGED <<current, chunks, embedded, clock, made, tries, todo, seen, tx, batch, faults>>

\* The mirror collects the pages there are, then the items that have chunks.
Collect(w) ==
    /\ pc[w] = "mirror"
    /\ todo' = [todo EXCEPT ![w] = [i \in {j \in Items : text[j] # 0} |-> text[i]]]
    /\ Go(w, "snapshot")
    /\ UNCHANGED <<table, tries, seen, tx, batch, faults>>

Snapshot(w) ==
    /\ pc[w] = "snapshot"
    /\ seen' = [seen EXCEPT ![w] = {c.item : c \in chunks}]
    /\ Go(w, "visit")
    /\ UNCHANGED <<table, tries, todo, tx, batch, faults>>

First(S) == CHOOSE i \in S : \A j \in S : i <= j

Minus(f, i) == [j \in DOMAIN f \ {i} |-> f[j]]

Plus(f, i, n) == [j \in DOMAIN f \union {i} |-> IF j = i THEN n ELSE f[j]]

AtHand(w) == First(DOMAIN todo[w])

\* A page whose text is that of the current version is skipped if its item had
\* chunks when the mirror began, and chunked again if not.
Visit(w) ==
    LET i == AtHand(w)
        unchanged == current[i] = todo[w][i]
    IN  /\ pc[w] = "visit" /\ DOMAIN todo[w] # {}
        /\ \/ /\ unchanged /\ i \in seen[w]
              /\ todo' = [todo EXCEPT ![w] = Minus(@, i)]
              /\ UNCHANGED <<pc, tx>>
           \/ /\ unchanged /\ i \notin seen[w]
              /\ tx' = [tx EXCEPT ![w].re = @ \union {i}]
              /\ Go(w, "store")
              /\ UNCHANGED todo
           \/ /\ ~ unchanged
              /\ Go(w, IF current[i] = 0 THEN "insert" ELSE "lock")
              /\ UNCHANGED <<todo, tx>>
        /\ UNCHANGED <<table, tries, seen, batch, faults>>

\* The item is written by this transaction, its chunks are next.
Writes(w) ==
    /\ tx' = [tx EXCEPT ![w].item = AtHand(w)]
    /\ Go(w, "store")
    /\ UNCHANGED <<table, tries, todo, seen, batch, faults>>

Unwaited(w) == \A u \in Tasks \ {w} : AtHand(w) \notin Written(u)

\* A page without an item gets one. The INSERT waits for a transaction that has
\* inserted the same slug, and raises if that one commits.
InsertItem(w) ==
    /\ pc[w] = "insert" /\ Unwaited(w)
    /\ IF current[AtHand(w)] = 0 THEN Writes(w) ELSE Raise(w) /\ UNCHANGED faults

\* Variant: the chunks are replaced before the item's row is written.
LockItem_Late(w) == pc[w] = "lock" /\ Writes(w)

\* A changed page gets a version: its item's row is written and locked before
\* its chunks are touched.
LockItem(w) == pc[w] = "lock" /\ Unwaited(w) /\ Writes(w)

\* Variant: the old chunks are left.
FindChunks_None(w) ==
    /\ pc[w] = "store"
    /\ Go(w, "delete")
    /\ UNCHANGED <<table, tries, todo, seen, tx, batch, faults>>

\* _store_chunks deletes in one statement the chunks that were committed when it
\* began ...
FindChunks(w) ==
    /\ pc[w] = "store"
    /\ tx' = [tx EXCEPT ![w].old = Of(AtHand(w), chunks)]
    /\ Go(w, "delete")
    /\ UNCHANGED <<table, tries, todo, seen, batch, faults>>

\* The rows still to delete: one that another transaction deletes is passed over.
Old(w) == (tx[w].old \intersect chunks) \ tx[w].del

\* ... one row after the other ...
DeleteChunk(w) ==
    /\ pc[w] = "delete"
    /\ \E c \in Old(w) : /\ \A u \in Tasks \ {w} : c \notin Locked(u)
                         /\ tx' = [tx EXCEPT ![w].del = @ \union {c}]
    /\ UNCHANGED <<table, pc, tries, todo, seen, batch, faults>>

\* ... and inserts new ones without an embedding.
InsertChunks(w) ==
    LET i == AtHand(w)
        rev == todo[w][i]
    IN  /\ pc[w] = "delete" /\ Old(w) = {}
        /\ tx' = [tx EXCEPT ![w].item = None, ![w].old = {},
                            ![w].revs = IF tx[w].item = i THEN Plus(@, i, rev) ELSE @,
                            ![w].new = @ \union Cut(i, rev, clock)]
        /\ clock' = clock + 1
        /\ todo' = [todo EXCEPT ![w] = Minus(@, i)]
        /\ Go(w, "visit")
        /\ UNCHANGED <<text, current, chunks, embedded, made, tries, seen, batch, faults>>

\* The items that w and u both work on, one of them without a lock.
Shared(w, u) == Touched(w) \intersect Touched(u) \intersect (tx[w].re \union tx[u].re)

CommitMirror(w) ==
    /\ pc[w] = "visit" /\ DOMAIN todo[w] = {}
    /\ current' = [i \in Items |-> IF i \in DOMAIN tx[w].revs THEN tx[w].revs[i] ELSE current[i]]
    /\ chunks' = (chunks \ tx[w].del) \union tx[w].new
    /\ embedded' = embedded \ tx[w].del
    /\ made' = [i \in Items |-> IF i \notin Touched(w) THEN made[i]
                                ELSE IF i \in tx[w].met THEN "met" ELSE "alone"]
    /\ tx' = [u \in Tasks |-> IF u = w THEN NoTx
                              ELSE [tx[u] EXCEPT !.met = @ \union Shared(w, u)]]
    /\ todo' = [todo EXCEPT ![w] = NoTodo]
    /\ seen' = [seen EXCEPT ![w] = {}]
    /\ tries' = [tries EXCEPT ![w] = 0]
    /\ Go(w, "kick")
    /\ UNCHANGED <<text, clock, batch, faults>>

-----------------------------------------------------------------------------
(* The backfill t *)

Pending == chunks \ embedded

Older(c, d) == c.born < d.born \/ (c.born = d.born /\ c.n < d.n)

Unwritten(t) == (batch[t] \intersect chunks) \ tx[t].done

\* The oldest rows without an embedding, up to the size of a batch.
OldestPending == {c \in Pending : Cardinality({d \in Pending : Older(d, c)}) < Batch}

LoadBatch(t) ==
    /\ pc[t] \in {"kick", "idle"}
    /\ IF Pending = {}
       THEN Done(t, Rest(t))
       ELSE /\ batch' = [batch EXCEPT ![t] = OldestPending]
            /\ Go(t, "embed")
            /\ UNCHANGED <<tries, todo, seen, tx>>
    /\ UNCHANGED <<table, faults>>

\* The gateway answers with a vector for each text.
Embed(t) ==
    /\ pc[t] = "embed"
    /\ \A c \in batch[t] : c.item \notin Refused
    /\ Go(t, "write")
    /\ UNCHANGED <<table, tries, todo, seen, tx, batch, faults>>

\* The call fails: the activity returns, leaving the rows for the next run.
EmbedFails(t) ==
    /\ pc[t] = "embed"
    /\ IF \E c \in batch[t] : c.item \in Refused THEN UNCHANGED faults ELSE Fault("gateway")
    /\ Done(t, Rest(t))
    /\ UNCHANGED table

\* The flush updates the rows one after the other in the order of their keys, for
\* which that of their making stands here; one that was deleted is not found.
WriteVector(t) ==
    /\ pc[t] = "write"
    /\ \E c \in Unwritten(t) :
          /\ \A d \in Unwritten(t) : ~ Older(d, c)
          /\ \A u \in Tasks \ {t} : c \notin Locked(u)
          /\ tx' = [tx EXCEPT ![t].done = @ \union {c}]
    /\ UNCHANGED <<table, pc, tries, todo, seen, batch, faults>>

\* Variant: the vectors are not committed.
CommitVectors_Forgets(t) ==
    /\ pc[t] = "write"
    /\ Unwritten(t) = {}
    /\ Done(t, Rest(t))
    /\ UNCHANGED <<table, faults>>

\* When rows were not found, the flush raises (StaleDataError) if the driver
\* reports how many rows a batch of updates matched, and goes unnoticed if not.
CommitVectors(t) ==
    /\ pc[t] = "write"
    /\ Unwritten(t) = {}
    /\ \/ /\ embedded' = embedded \union tx[t].done
          /\ Done(t, Rest(t))
          /\ UNCHANGED <<text, current, chunks, clock, made>>
       \/ /\ ~ batch[t] \subseteq tx[t].done
          /\ Raise(t)
    /\ UNCHANGED faults

-----------------------------------------------------------------------------
(* Failures *)

\* The rows t may write next, and those who have locked one of them, or the item
\* it waits for.
Wanted(t) ==
    IF pc[t] = "delete" THEN Old(t)
    ELSE IF pc[t] = "write" THEN {c \in Unwritten(t) : \A d \in Unwritten(t) : ~ Older(d, c)}
    ELSE {}

WaitsFor(t, u) ==
    /\ t # u
    /\ \/ Wanted(t) \intersect Locked(u) # {}
       \/ pc[t] \in {"insert", "lock"} /\ AtHand(t) \in Written(u)

\* A delete visits rows in no particular order, so it may be in a cycle of waits
\* with an update; Postgres aborts one of the two.
DeadlockAborts(t) ==
    /\ \E u \in Tasks : WaitsFor(t, u)
                       /\ \E v \in Tasks : (u = v \/ WaitsFor(u, v)) /\ WaitsFor(v, t)
    /\ Raise(t)
    /\ UNCHANGED faults

\* The attempt times out, its process dies or its connection fails.
AttemptLost(t) ==
    /\ pc[t] \in {"visit", "insert", "lock", "store", "delete", "embed", "write"}
    /\ Fault("attempt")
    /\ Raise(t)

Finished ==
    /\ \A w \in Workflows : pc[w] = "end"
    /\ pc[Sched] = "idle" /\ Pending = {}
    /\ UNCHANGED vars

Mirror(w) ==
    \/ Ingest(w) \/ Collect(w) \/ Snapshot(w) \/ Visit(w) \/ InsertItem(w) \/ LockItem(w)
    \/ FindChunks(w) \/ DeleteChunk(w) \/ InsertChunks(w) \/ CommitMirror(w)

Backfill(t) == LoadBatch(t) \/ Embed(t) \/ WriteVector(t) \/ CommitVectors(t)

Step(t) == (t \in Workflows /\ Mirror(t)) \/ Backfill(t)

Next ==
    \/ \E t \in Tasks : Step(t) \/ EmbedFails(t) \/ DeadlockAborts(t) \/ AttemptLost(t)
    \/ Finished

\* Temporal dispatches what is due, the gateway answers, Postgres gives a released
\* row to the one that waits for it and ends a cycle of waits.
Fairness ==
    /\ \A t \in Tasks : SF_vars(Step(t))
    /\ WF_vars(\E t \in Tasks : DeadlockAborts(t))

Spec == Init /\ [][Next]_vars /\ Fairness

-----------------------------------------------------------------------------
(* Properties *)

\* What a reader finds, whatever overlaps. The chunks of an item are whole sets,
\* each all that was cut from one version at one time. If the mirror that last
\* made them worked on the item alone, or met others only through the lock on
\* its row, there is one set and it is that of the current version. If it met
\* one while the page was chunked again without the lock (okf_mirror.py:254-265),
\* an older set may have stayed, but the item is not left without chunks; and
\* the next mirror that finds the page changed makes this good.
ChunksOfCurrent ==
    \A i \in Items :
        LET own == Of(i, chunks)
        IN  /\ \A c \in own : Cut(i, c.rev, c.born) \subseteq own
            /\ made[i] = "not" => own = {}
            /\ made[i] = "alone" => \E born \in 1..clock : own = Cut(i, current[i], born)
            /\ made[i] = "met" /\ ChunksOf[i] > 0 => own # {}

\* With a gateway that refuses no text for ever, all chunks are embedded in the
\* end, however mirrors, kicked and scheduled backfills and failures meet.
EveryChunkEmbedded == <>[](Pending = {})

\* No ingest is kept from its end by backfills, locks or failures.
EveryWorkflowEnds == <>[](\A w \in Workflows : pc[w] = "end")
===============================================================================

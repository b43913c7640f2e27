------------------------------ MODULE OkfMirror ------------------------------
(***************************************************************************)
(* The mirror of OKF bundles into Postgres (mirror_bundle), between the    *)
(* ingests that write the bundles and the endpoint that archives items.    *)
(*                                                                         *)
(* A job is one document of one bundle: its workflow runs an ingest, then  *)
(* a mirror of the whole bundle, each tried up to MaxAttempts times.       *)
(* Neither the file writes of an ingest nor a mirror contains an await, so *)
(* a worker process does one of them at a time; different processes, and   *)
(* the API, interleave at every file and every statement.                  *)
(*                                                                         *)
(* A mirror is one READ COMMITTED transaction: a statement sees what was   *)
(* committed when it began, a written or deleted row stays locked until    *)
(* the end, and an insert that meets an existing key fails.                *)
(***************************************************************************)
EXTENDS OkfPages, Sequences

CONSTANTS
    Workers,        \* worker processes
    Bundles,        \* bundles, one for each space
    BundleOf,       \* the bundle each document is for
    Plans,          \* the pages each document is about, with their links
    MaxAttempts,    \* maximum_attempts of the retry policies
    MaxFaults,      \* bound: faults in one behaviour
    FaultKinds,     \* kinds of fault considered
    MaxArchives,    \* bound: archive requests in one behaviour
    NoOne           \* no worker, no job, no request

ASSUME MirrorAssumption ==
    /\ Slugs \subseteq Nat      \* numbered in the order of their names
    /\ BundleOf \in [Jobs -> Bundles]
    /\ \A j \in Jobs : /\ DOMAIN Plans[j] \subseteq Pages
                       /\ Plans[j] \in [DOMAIN Plans[j] -> SUBSET Slugs]
    /\ MaxAttempts \in Nat \ {0}
    /\ MaxFaults \in Nat /\ MaxArchives \in Nat
    /\ FaultKinds \subseteq {"crash", "ingest", "flush", "timeout", "db"}
    /\ NoOne \notin Workers \union Jobs \union Slugs

VARIABLES
    tree,       \* the pages of each bundle
    holder,     \* holder of each bundle's .okf.lock
    items,      \* knowledge_items with their versions, by slug
    links,      \* explicit wiki_links, as pairs of slugs
    stage,      \* where each job's workflow stands
    tries,      \* attempts of the current activity of each job
    pc,         \* what each worker does
    job,        \* the job it does it for
    todo,       \* pages left in its current loop
    tx,         \* the open transaction of its mirror
    stale,      \* workers whose attempt the server gave up on
    strays,     \* attempts of each ingest given up on before they had the lock
    request,    \* the archive request being served
    faults, archives    \* faults and archive requests so far

bundleVars == <<tree, holder>>
dbVars     == <<items, links>>
serverVars == <<stage, tries, stale, strays>>
slotVars   == <<pc, job, todo, tx>>
apiVars    == <<request, archives>>
vars == <<tree, holder, items, links, stage, tries, pc, job, todo, tx, stale, strays,
          request, faults, archives>>

-----------------------------------------------------------------------------
(* State *)

\* A page's title and body: who wrote it last, the how manieth text of this
\* page it is, and the slugs it links to; and, for the properties, whether the
\* server had given up on the attempt when it wrote it.
Body == [page : Pages, job : Jobs, rev : Nat \ {0}, links : SUBSET Slugs, late : BOOLEAN]

\* An item; its last version is the current one.
Item == [type : PageTypes, space : Bundles, status : {"published", "archived"},
         versions : Seq(Body)]

ASSUME MarkersAreNoRow == Absent \notin Item \union Body /\ Torn \notin Body

Pair == Slugs \X Slugs

\* An open transaction: the rank of the last directory listed, the pages
\* collected, the row read for the page at hand, the rows written, the links
\* deleted and to be inserted, and the workers whose deletions it waits for.
IsTx(t) ==
    /\ DOMAIN t = {"rank", "got", "row", "rows", "del", "new", "after"}
    /\ t.rank \in 0..3 /\ t.got \subseteq Body /\ t.row \in Item \union {Absent}
    /\ DOMAIN t.rows \subseteq Slugs /\ \A s \in DOMAIN t.rows : t.rows[s] \in Item
    /\ t.del \subseteq Pair /\ t.new \subseteq Pair /\ t.after \subseteq Workers

NoTx == [rank |-> 0, got |-> {}, row |-> Absent, rows |-> [s \in {} |-> Absent],
         del |-> {}, new |-> {}, after |-> {}]

NoRequest == [slug |-> NoOne, del |-> {}, after |-> {}]

\* Worker w has a row lock on the item of slug s.
Locks(w, s) == s \in DOMAIN tx[w].rows

\* The type of the state; besides, row locks and file locks exclude each other.
TypeOK ==
    /\ tree \in [Bundles -> [Pages -> Body \union {Absent, Torn}]]
    /\ holder \in [Bundles -> Workers \union {NoOne}]
    /\ items \in [Slugs -> Item \union {Absent}]
    /\ links \subseteq Pair
    /\ stage \in [Jobs -> {"ingest", "ingesting", "mirror", "mirroring", "done", "failed"}]
    /\ tries \in [Jobs -> 0..MaxAttempts]
    /\ pc \in [Workers -> {"idle", "ingest", "writing", "read", "rows", "write", "commit"}]
    /\ job \in [Workers -> Jobs \union {NoOne}]
    /\ todo \in [Workers -> SUBSET Pages]
    /\ \A w \in Workers :
          /\ IsTx(tx[w])
          /\ job[w] = NoOne <=> pc[w] = "idle"
          /\ pc[w] \in {"ingest", "writing"} <=> \E b \in Bundles : holder[b] = w
    /\ stale \subseteq Workers
    /\ strays \in [Jobs -> Nat]
    /\ request.slug \in Slugs \union {NoOne}
    /\ \A v, w \in Workers : \A s \in Slugs :
          Locks(v, s) => (v = w \/ ~Locks(w, s)) /\ request.slug # s
    /\ faults \in 0..MaxFaults /\ archives \in 0..MaxArchives

Init ==
    /\ tree = [b \in Bundles |-> EmptyTree]
    /\ holder = [b \in Bundles |-> NoOne]
    /\ items = [s \in Slugs |-> Absent]
    /\ links = {}
    /\ stage = [j \in Jobs |-> "ingest"]
    /\ tries = [j \in Jobs |-> 0]
    /\ pc = [w \in Workers |-> "idle"]
    /\ job = [w \in Workers |-> NoOne]
    /\ todo = [w \in Workers |-> {}]
    /\ tx = [w \in Workers |-> NoTx]
    /\ stale = {}
    /\ strays = [j \in Jobs |-> 0]
    /\ request = NoRequest
    /\ faults = 0 /\ archives = 0

-----------------------------------------------------------------------------
(* Helpers *)

Bundle(w) == BundleOf[job[w]]

Last(q) == q[Len(q)]

Current(i) == Last(i.versions)

\* The order of PAGE_DIRS, and of sorted names within a directory.
Before(p, q) ==
    \/ Rank[TypeOf(p)] < Rank[TypeOf(q)]
    \/ TypeOf(p) = TypeOf(q) /\ SlugOf(p) <= SlugOf(q)

First(S) == CHOOSE p \in S : \A q \in S : Before(p, q)

Mirrored(t) == {SlugOf(b.page) : b \in t.got}

Touching(L, S) == {l \in L : l[1] \in S \/ l[2] \in S}

Fault(kind) ==
    /\ kind \in FaultKinds
    /\ faults < MaxFaults
    /\ faults' = faults + 1

\* The worker is done with its activity: the server records the outcome unless
\* it has given up on this attempt; a transaction is over.
Leave(w, to, n) ==
    /\ pc' = [pc EXCEPT ![w] = "idle"]
    /\ job' = [job EXCEPT ![w] = NoOne]
    /\ todo' = [todo EXCEPT ![w] = {}]
    /\ stale' = stale \ {w}
    /\ UNCHANGED strays
    /\ holder' = [b \in Bundles |-> IF holder[b] = w THEN NoOne ELSE holder[b]]
    /\ IF w \in stale
       THEN UNCHANGED <<stage, tries>>
       ELSE /\ stage' = [stage EXCEPT ![job[w]] = to]
            /\ tries' = [tries EXCEPT ![job[w]] = n]

\* What an activity of j becomes when an attempt of it is lost.
Retried(j) ==
    IF tries[j] = MaxAttempts THEN "failed"
    ELSE IF stage[j] = "ingesting" THEN "ingest" ELSE "mirror"

\* The transaction of w ends: its deletions, which others may wait for, are
\* decided, and the rows it inserted are newer than their statements.
Release(w, inserted) ==
    /\ tx' = [v \in Workers |->
                IF v = w THEN NoTx
                ELSE [tx[v] EXCEPT !.after = @ \ {w}, !.del = @ \ inserted]]
    /\ request' = [request EXCEPT !.after = @ \ {w}, !.del = @ \ inserted]

\* Variant: the rows an attempt wrote before it failed are kept.
Raise_CommitsRows(w) ==
    /\ Leave(w, Retried(job[w]), tries[job[w]])
    /\ Release(w, {})
    /\ items' = [s \in Slugs |-> IF Locks(w, s) THEN tx[w].rows[s] ELSE items[s]]
    /\ UNCHANGED <<tree, links, archives>>

\* Variant: a mirror that fails is not tried again and the upload is reported done.
Raise_Swallowed(w) ==
    /\ Leave(w, "done", tries[job[w]])
    /\ Release(w, {})
    /\ UNCHANGED <<tree, dbVars, archives>>

\* The activity raises, or its process dies: a mirror is rolled back.
Raise(w) ==
    /\ Leave(w, Retried(job[w]), tries[job[w]])
    /\ Release(w, {})
    /\ UNCHANGED <<tree, dbVars, archives>>

-----------------------------------------------------------------------------
(* The ingest, as far as a mirror can tell: pages written under the lock *)

\* Variant: the lock is not taken.
StartIngest_Unlocked(w, j) ==
    /\ pc[w] = "idle"
    /\ stage[j] = "ingest"
    /\ holder' = [holder EXCEPT ![BundleOf[j]] = w]
    /\ stage' = [stage EXCEPT ![j] = "ingesting"]
    /\ tries' = [tries EXCEPT ![j] = @ + 1]
    /\ pc' = [pc EXCEPT ![w] = "ingest"]
    /\ job' = [job EXCEPT ![w] = j]
    /\ todo' = [todo EXCEPT ![w] = DOMAIN Plans[j]]
    /\ UNCHANGED <<tree, dbVars, tx, stale, strays, apiVars, faults>>

\* An attempt of j's ingest takes the bundle's lock.
StartIngest(w, j) ==
    /\ pc[w] = "idle"
    /\ stage[j] = "ingest"
    /\ holder[BundleOf[j]] = NoOne
    /\ holder' = [holder EXCEPT ![BundleOf[j]] = w]
    /\ stage' = [stage EXCEPT ![j] = "ingesting"]
    /\ tries' = [tries EXCEPT ![j] = @ + 1]
    /\ pc' = [pc EXCEPT ![w] = "ingest"]
    /\ job' = [job EXCEPT ![w] = j]
    /\ todo' = [todo EXCEPT ![w] = DOMAIN Plans[j]]
    /\ UNCHANGED <<tree, dbVars, tx, stale, strays, apiVars, faults>>

\* The server gives up on an attempt that is still extracting or composing, or
\* waits for the lock; the activity does not heartbeat and is not told.
IngestTimesOut(j) ==
    /\ stage[j] = "ingest"
    /\ Fault("timeout")
    /\ tries' = [tries EXCEPT ![j] = @ + 1]
    /\ stage' = [stage EXCEPT ![j] = IF tries[j] + 1 = MaxAttempts THEN "failed" ELSE @]
    /\ strays' = [strays EXCEPT ![j] = @ + 1]
    /\ UNCHANGED <<bundleVars, dbVars, slotVars, stale, apiVars>>

\* Such an attempt goes on, whatever its job has become meanwhile.
StartStray(w, j) ==
    /\ pc[w] = "idle"
    /\ strays[j] > 0
    /\ holder[BundleOf[j]] = NoOne
    /\ holder' = [holder EXCEPT ![BundleOf[j]] = w]
    /\ strays' = [strays EXCEPT ![j] = @ - 1]
    /\ stale' = stale \union {w}
    /\ pc' = [pc EXCEPT ![w] = "ingest"]
    /\ job' = [job EXCEPT ![w] = j]
    /\ todo' = [todo EXCEPT ![w] = DOMAIN Plans[j]]
    /\ UNCHANGED <<tree, dbVars, stage, tries, tx, apiVars, faults>>

\* The text that replaces the page.
NextBody(p, j) ==
    LET old == tree[BundleOf[j]][p]
    IN  [page |-> p, job |-> j, links |-> Plans[j][p], late |-> FALSE,
         rev |-> IF old = Absent THEN 1 ELSE old.rev + 1]

\* write_text truncates the file before it writes the new text; the page is
\* held in tx.got meanwhile.
BeginWrite(w) ==
    LET p == First(todo[w])
    IN  /\ pc[w] = "ingest" /\ todo[w] # {}
        /\ tree[Bundle(w)][p] # Torn
        /\ tx' = [tx EXCEPT ![w].got = {NextBody(p, job[w])}]
        /\ tree' = [tree EXCEPT ![Bundle(w)][p] = Torn]
        /\ pc' = [pc EXCEPT ![w] = "writing"]
        /\ UNCHANGED <<holder, dbVars, serverVars, job, todo, apiVars, faults>>

Written(w, body) == [body EXCEPT !.late = (w \in stale)]

\* A part of the text is flushed that parses, with the links up to the cut; the
\* whole text is another one.
FlushPart(w) ==
    /\ pc[w] = "writing"
    /\ Fault("flush")
    /\ \E b \in tx[w].got : \E upToCut \in SUBSET b.links :
          /\ tree[Bundle(w)][b.page] = Torn
          /\ tree' = [tree EXCEPT ![Bundle(w)][b.page] =
                                        Written(w, [b EXCEPT !.links = upToCut])]
          /\ tx' = [tx EXCEPT ![w].got = {[b EXCEPT !.rev = @ + 1]}]
    /\ UNCHANGED <<holder, dbVars, serverVars, pc, job, todo, apiVars>>

EndWrite(w) ==
    /\ pc[w] = "writing"
    /\ \E b \in tx[w].got : tree' = [tree EXCEPT ![Bundle(w)][b.page] = Written(w, b)]
    /\ todo' = [todo EXCEPT ![w] = @ \ {First(@)}]
    /\ tx' = [tx EXCEPT ![w] = NoTx]
    /\ pc' = [pc EXCEPT ![w] = "ingest"]
    /\ UNCHANGED <<holder, dbVars, serverVars, job, apiVars, faults>>

\* The page to update, or any page when index.md is rebuilt, does not parse.
IngestTorn(w) ==
    /\ pc[w] = "ingest"
    /\ \E p \in Pages : /\ tree[Bundle(w)][p] = Torn
                        /\ todo[w] # {} => p = First(todo[w])
    /\ Raise(w)
    /\ UNCHANGED faults

\* A write, the index or the log fails.
IngestFails(w) ==
    /\ pc[w] \in {"ingest", "writing"}
    /\ Fault("ingest")
    /\ Raise(w)

\* The commit, and the release of the lock: the workflow goes on to the mirror.
EndIngest(w) ==
    /\ pc[w] = "ingest" /\ todo[w] = {}
    /\ \A p \in Pages : tree[Bundle(w)][p] # Torn
    /\ Leave(w, "mirror", 0)
    /\ UNCHANGED <<tree, dbVars, tx, apiVars, faults>>

-----------------------------------------------------------------------------
(* The mirror: collecting the pages *)

StartMirror(w, j) ==
    /\ pc[w] = "idle"
    /\ stage[j] = "mirror"
    /\ stage' = [stage EXCEPT ![j] = "mirroring"]
    /\ tries' = [tries EXCEPT ![j] = @ + 1]
    /\ pc' = [pc EXCEPT ![w] = "read"]
    /\ job' = [job EXCEPT ![w] = j]
    /\ UNCHANGED <<bundleVars, dbVars, todo, tx, stale, strays, apiVars, faults>>

\* The next directory is listed.
ListPages(w) ==
    LET r == tx[w].rank + 1
    IN  /\ pc[w] = "read" /\ todo[w] = {} /\ r <= 3
        /\ tx' = [tx EXCEPT ![w].rank = r]
        /\ todo' = [todo EXCEPT ![w] =
                     {p \in Pages : Rank[TypeOf(p)] = r /\ tree[Bundle(w)][p] # Absent}]
        /\ UNCHANGED <<bundleVars, dbVars, serverVars, pc, job, apiVars, faults>>

\* The next page is read; a slug that was seen in an earlier directory is
\* dropped without reading.
ReadPage(w) ==
    LET p == First(todo[w])
        page == tree[Bundle(w)][p]
    IN  /\ pc[w] = "read" /\ todo[w] # {}
        /\ page = Torn => SlugOf(p) \in Mirrored(tx[w])
        /\ tx' = [tx EXCEPT ![w].got =
                    IF SlugOf(p) \in Mirrored(tx[w]) THEN @ ELSE @ \union {page}]
        /\ todo' = [todo EXCEPT ![w] = @ \ {p}]
        /\ UNCHANGED <<bundleVars, dbVars, serverVars, pc, job, apiVars, faults>>

\* The page does not parse, or is being written at this moment.
ReadTorn(w) ==
    LET p == First(todo[w])
    IN  /\ pc[w] = "read" /\ todo[w] # {}
        /\ SlugOf(p) \notin Mirrored(tx[w])
        /\ tree[Bundle(w)][p] = Torn
        /\ Raise(w)
        /\ UNCHANGED faults

EndCollect(w) ==
    /\ pc[w] = "read" /\ todo[w] = {} /\ tx[w].rank = 3
    /\ pc' = [pc EXCEPT ![w] = "rows"]
    /\ todo' = [todo EXCEPT ![w] = {b.page : b \in tx[w].got}]
    /\ UNCHANGED <<bundleVars, dbVars, serverVars, job, tx, apiVars, faults>>

-----------------------------------------------------------------------------
(* The mirror: one item after another *)

\* The collected page at hand.
Page(w) == CHOOSE b \in tx[w].got : b.page = First(todo[w])

\* Variants: every text is taken for a new one; an archived item is not skipped.
SameText_Never(row, page) == FALSE

SameText_Published(row, page) == Current(row) = page /\ row.status = "published"

SameText(row, page) == Current(row) = page

\* The page has an item that needs no update.
Skips(w) ==
    LET i == items[SlugOf(Page(w).page)]
    IN  i # Absent /\ SameText(i, Page(w)) /\ i.type = TypeOf(Page(w).page)

SkipRow(w) ==
    /\ pc[w] = "rows" /\ todo[w] # {}
    /\ Skips(w)
    /\ todo' = [todo EXCEPT ![w] = @ \ {First(@)}]
    /\ UNCHANGED <<bundleVars, dbVars, serverVars, pc, job, tx, apiVars, faults>>

\* The item and its current version are selected; what is written next follows
\* from what they were at this moment.
ReadRow(w) ==
    /\ pc[w] = "rows" /\ todo[w] # {}
    /\ ~Skips(w)
    /\ tx' = [tx EXCEPT ![w].row = items[SlugOf(Page(w).page)]]
    /\ pc' = [pc EXCEPT ![w] = "write"]
    /\ UNCHANGED <<bundleVars, dbVars, serverVars, job, todo, apiVars, faults>>

\* No other transaction, and no archive request, holds the row of slug s.
RowFree(w, s) ==
    (\A v \in Workers \ {w} : ~Locks(v, s)) /\ request.slug # s

\* Variant: the type of an existing item is kept.
Updated_KeepsType(now, row, page) ==
    [now EXCEPT !.status = IF SameText(row, page) \/ row.status = "published" THEN @ ELSE "published",
                !.versions = IF SameText(row, page) THEN @ ELSE Append(@, page)]

\* The columns an update writes are those whose value differs from the row that
\* was read; `now' is the row when the lock is granted.
Updated(now, row, page) ==
    [now EXCEPT !.type = IF row.type = TypeOf(page.page) THEN @ ELSE TypeOf(page.page),
                !.status = IF SameText(row, page) \/ row.status = "published" THEN @ ELSE "published",
                !.versions = IF SameText(row, page) THEN @ ELSE Append(@, page)]

NewItem(w, page) ==
    [type |-> TypeOf(page.page), space |-> Bundle(w), status |-> "published",
     versions |-> <<page>>]

\* The item is inserted, or updated, and its row stays locked.
WriteRow(w) ==
    LET s == SlugOf(Page(w).page)
        row == tx[w].row
        written == IF row = Absent THEN NewItem(w, Page(w)) ELSE Updated(items[s], row, Page(w))
    IN  /\ pc[w] = "write"
        /\ RowFree(w, s)
        /\ row = Absent => items[s] = Absent
        /\ tx' = [tx EXCEPT ![w].row = Absent, ![w].rows = [x \in DOMAIN @ \union {s} |->
                                            IF x = s THEN written ELSE @[x]]]
        /\ todo' = [todo EXCEPT ![w] = @ \ {First(@)}]
        /\ pc' = [pc EXCEPT ![w] = "rows"]
        /\ UNCHANGED <<bundleVars, dbVars, serverVars, job, apiVars, faults>>

\* The slug, free when the row was read, is taken: IntegrityError.
InsertFails(w) ==
    LET s == SlugOf(Page(w).page)
    IN  /\ pc[w] = "write"
        /\ RowFree(w, s)
        /\ tx[w].row = Absent /\ items[s] # Absent
        /\ Raise(w)
        /\ UNCHANGED faults

-----------------------------------------------------------------------------
(* The mirror: the links, and the commit *)

\* The edges of the collected pages: to another page of this mirror, or to any
\* item there is.
Edges(t) ==
    {l \in Pair : /\ l[1] # l[2]
                  /\ \E b \in t.got : SlugOf(b.page) = l[1] /\ l[2] \in b.links
                  /\ l[2] \in Mirrored(t) \/ items[l[2]] # Absent}

\* Variant: the old edges are left in place.
OldEdges_None(t) == {}

\* The edges in the database that a mirror deletes: from or to its pages.
OldEdges(t) == Touching(links, Mirrored(t))

\* The links are deleted and the new ones prepared.  A row that another
\* transaction has deleted makes this one wait for it; the rows of an archive
\* request are waited for here.
BuildLinks(w) ==
    /\ pc[w] = "rows" /\ todo[w] = {}
    /\ request.del \intersect OldEdges(tx[w]) = {}
    /\ tx' = [tx EXCEPT
                ![w].del = OldEdges(tx[w]), ![w].new = Edges(tx[w]),
                ![w].after = {v \in Workers \ {w} : tx[v].del \intersect OldEdges(tx[w]) # {}}]
    /\ pc' = [pc EXCEPT ![w] = "commit"]
    /\ UNCHANGED <<bundleVars, dbVars, serverVars, job, todo, apiVars, faults>>

\* An edge was inserted meanwhile by another mirror: uq_wiki_link.
Duplicate(w) == tx[w].new \intersect (links \ tx[w].del) # {}

\* The transaction becomes visible as a whole; the workflow is done.
Commit(w) ==
    /\ pc[w] = "commit" /\ tx[w].after = {}
    /\ ~Duplicate(w)
    /\ items' = [s \in Slugs |-> IF Locks(w, s) THEN tx[w].rows[s] ELSE items[s]]
    /\ links' = (links \ tx[w].del) \union tx[w].new
    /\ Release(w, tx[w].new)
    /\ Leave(w, "done", 0)
    /\ UNCHANGED <<tree, archives, faults>>

CommitFails(w) ==
    /\ pc[w] = "commit" /\ tx[w].after = {}
    /\ Duplicate(w)
    /\ Raise(w)
    /\ UNCHANGED faults

\* A statement or the connection fails.
DbFails(w) ==
    /\ pc[w] \in {"rows", "write", "commit"}
    /\ Fault("db")
    /\ Raise(w)

-----------------------------------------------------------------------------
(* Process deaths, timeouts, and the API *)

Crash(w) ==
    /\ pc[w] # "idle"
    /\ Fault("crash")
    /\ Raise(w)

\* start_to_close_timeout of an ingest that has the lock, or of a mirror; both
\* go on all the same.
TimesOut(w) ==
    /\ pc[w] # "idle"
    /\ w \notin stale
    /\ Fault("timeout")
    /\ stale' = stale \union {w}
    /\ stage' = [stage EXCEPT ![job[w]] = Retried(job[w])]
    /\ UNCHANGED <<bundleVars, dbVars, tries, strays, slotVars, apiVars>>

\* DELETE /items/{slug}: the item is found published, its row updated, and the
\* deletion of its links begins.
BeginArchive(s) ==
    LET touched == Touching(links, {s})
    IN  /\ request.slug = NoOne
        /\ archives < MaxArchives
        /\ items[s] # Absent
        /\ items[s].status = "published"
        /\ \A v \in Workers : ~Locks(v, s)
        /\ request' = [slug |-> s, del |-> touched,
                       after |-> {v \in Workers : tx[v].del \intersect touched # {}}]
        /\ archives' = archives + 1
        /\ UNCHANGED <<bundleVars, dbVars, serverVars, slotVars, faults>>

\* The request commits.
EndArchive ==
    /\ request.slug # NoOne /\ request.after = {}
    /\ items' = [items EXCEPT ![request.slug].status = "archived"]
    /\ links' = links \ request.del
    /\ request' = NoRequest
    /\ UNCHANGED <<bundleVars, serverVars, slotVars, archives, faults>>

-----------------------------------------------------------------------------
(* Specification *)

\* The steps of one worker that the code takes by itself.
Step(w) ==
    \/ BeginWrite(w) \/ EndWrite(w) \/ IngestTorn(w) \/ EndIngest(w)
    \/ ListPages(w) \/ ReadPage(w) \/ ReadTorn(w) \/ EndCollect(w)
    \/ SkipRow(w) \/ ReadRow(w) \/ WriteRow(w) \/ InsertFails(w)
    \/ BuildLinks(w) \/ Commit(w) \/ CommitFails(w)

Start(j) == \E w \in Workers : StartIngest(w, j) \/ StartMirror(w, j)

Settled == \A j \in Jobs : stage[j] \in {"done", "failed"}

Idle == (\A w \in Workers : pc[w] = "idle") /\ request = NoRequest

Finished == Settled /\ Idle /\ UNCHANGED vars

Next ==
    \/ \E j \in Jobs : \/ Start(j) \/ IngestTimesOut(j)
                       \/ \E w \in Workers : StartStray(w, j)
    \/ \E w \in Workers : \/ Step(w) \/ FlushPart(w) \/ IngestFails(w)
                          \/ DbFails(w) \/ Crash(w) \/ TimesOut(w)
    \/ \E s \in Slugs : BeginArchive(s)
    \/ EndArchive
    \/ Finished

Spec == Init /\ [][Next]_vars

\* Workers keep running, the server schedules attempts, and a request ends.
Fairness ==
    /\ \A w \in Workers : WF_vars(Step(w))
    /\ \A j \in Jobs : WF_vars(Start(j))
    /\ WF_vars(EndArchive)

FairSpec == Spec /\ Fairness

-----------------------------------------------------------------------------
(* Properties *)

\* The pages of bundle b that become items: those whose slug is in no earlier
\* directory.
Winners(b) ==
    {p \in Pages : /\ tree[b][p] \notin {Absent, Torn}
                   /\ \A q \in Pages : (tree[b][q] # Absent /\ SlugOf(q) = SlugOf(p)) => Before(p, q)}

Published(s) == items[s] # Absent /\ items[s].status = "published"

\* The item of page p of bundle b serves the page under its type, and between
\* published items the graph has exactly the edges the page has.
PageCurrent(b, p) ==
    LET i == items[SlugOf(p)]
    IN  /\ i # Absent
        /\ Current(i) = tree[b][p] /\ i.type = TypeOf(p)
        /\ Published(SlugOf(p)) =>
             \A s \in Slugs \ {SlugOf(p)} : Published(s) =>
                 (<<SlugOf(p), s>> \in links <=> s \in tree[b][p].links)

\* The items of bundle b serve the pages of b.
IndexCurrent(b) == \A p \in Winners(b) : PageCurrent(b, p)

\* The text is one of the versions of the item of slug s.
IsVersion(s, page) ==
    items[s] # Absent /\ \E k \in DOMAIN items[s].versions : items[s].versions[k] = page

\* Every mirror that succeeds leaves the index equal to its bundle, whatever
\* earlier mirrors failed half way (mirror_bundle: "Sync every page in the
\* bundle into Postgres").
MirrorLeavesIndexCurrent ==
    [][\A w \in Workers : \A b \in Bundles :
          (Commit(w) /\ b = Bundle(w)) => IndexCurrent(b)']_vars

\* Once every upload is done and nothing runs, the derived index equals the
\* bundles, whichever mirror committed last: except for a page that an ingest
\* wrote after the server had given up on it, until the next mirror reads it.
SettledIndexCurrent ==
    ((\A j \in Jobs : stage[j] = "done") /\ Idle) =>
        \A b \in Bundles : \A p \in Winners(b) :
            (~tree[b][p].late \/ IsVersion(SlugOf(p), tree[b][p])) => PageCurrent(b, p)

\* A mirror of an unchanged page adds no version: no two consecutive versions
\* of an item are the same text, retried and repeated mirrors included.
VersionsDiffer ==
    \A s \in Slugs : items[s] # Absent =>
        \A k \in 1 .. Len(items[s].versions) - 1 :
            items[s].versions[k] # items[s].versions[k + 1]

\* The edges of the graph are those of the texts that are served: rows and
\* edges of one mirror become visible together.
EdgesOfServedText ==
    \A s, t \in Slugs : (s # t /\ Published(s) /\ Published(t)) =>
        (<<s, t>> \in links <=> t \in Current(items[s]).links)

\* An upload reported done is served: each page it was the last to write, and
\* that no page of an earlier directory hides, is a version of its item, also
\* when mirrors of other processes overtook its own, and when attempts of its
\* ingest that were given up on went on beside it. What such an attempt writes
\* itself, after that, waits for the next mirror.
DoneIsServed ==
    \A j \in Jobs : stage[j] = "done" =>
        \A p \in Winners(BundleOf[j]) :
            LET page == tree[BundleOf[j]][p]
            IN  (page.job = j /\ ~page.late) => IsVersion(SlugOf(p), page)

\* An archived item is published again only with a new version: a mirror of
\* unchanged pages, a retry for one, does not bring it back.
ComesBackOnlyChanged ==
    [][\A s \in Slugs : (items[s] # Absent /\ ~Published(s) /\ Published(s)') =>
          Current(items'[s]) # Current(items[s])]_items

\* With fewer faults than attempts every upload is mirrored in the end.
EveryUploadServed == \A j \in Jobs : <>(stage[j] = "done")
==============================================================================

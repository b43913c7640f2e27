---------------------------- MODULE OkfMirrorProofs ----------------------------
(****************************************************************************)
(* Proofs about OkfMirror, for any number of workers, bundles, documents    *)
(* and pages and every bound on attempts, faults and archive requests.      *)
(*                                                                          *)
(* MirrorInv is the invariant of any number of worker processes: a mirror   *)
(* has, of the pages its own job wrote, collected those it has passed and   *)
(* written those it has handled, and the rows it writes keep every text of  *)
(* the rows there are. SerialInv, of one worker process, says in addition   *)
(* that what a mirror has read is still what the bundle and the tables      *)
(* hold; and WholeInv, of bundles that share no slug, what the tables then  *)
(* say as a whole.                                                          *)
(****************************************************************************)
EXTENDS OkfMirror, WellFoundedInduction, TLAPS

\* Functions from some of the slugs to items: rows written.
Rows == UNION {[S -> Item] : S \in SUBSET Slugs}

Transaction == [rank : 0..3, got : SUBSET Body, row : Item \union {Absent}, rows : Rows,
                del : SUBSET Pair, new : SUBSET Pair, after : SUBSET Workers]

\* The type of each variable.
ShapeInv ==
    /\ tree \in [Bundles -> [Pages -> Body \union {Absent, Torn}]]
    /\ holder \in [Bundles -> Workers \union {NoOne}]
    /\ items \in [Slugs -> Item \union {Absent}] /\ links \subseteq Pair
    /\ stage \in [Jobs -> {"ingest", "ingesting", "mirror", "mirroring", "done", "failed"}]
    /\ tries \in [Jobs -> 0..MaxAttempts]
    /\ pc \in [Workers -> {"idle", "ingest", "writing", "read", "rows", "write", "commit"}]
    /\ job \in [Workers -> Jobs \union {NoOne}]
    /\ todo \in [Workers -> SUBSET Pages]
    /\ tx \in [Workers -> Transaction]
    /\ stale \subseteq Workers /\ strays \in [Jobs -> Nat]
    /\ request \in [slug : Slugs \union {NoOne}, del : SUBSET Pair, after : SUBSET Workers]
    /\ faults \in 0..MaxFaults /\ archives \in 0..MaxArchives

\* A file holds the text of its own page, an item has a text, and a request is
\* about an item.
PlaceInv ==
    /\ \A b \in Bundles : \A p \in Pages : tree[b][p] \in Body => tree[b][p].page = p
    /\ \A s \in Slugs : items[s] # Absent => Len(items[s].versions) > 0
    /\ request.slug # NoOne => items[request.slug] # Absent

Ingesting(w) == pc[w] \in {"ingest", "writing"}

Mirroring(w) == pc[w] \in {"read", "rows", "write", "commit"}

\* A worker does what the server has it do, unless the server gave up on it, and
\* holds the lock of a bundle when it ingests into it.
Attempt(w) ==
    /\ job[w] = NoOne <=> pc[w] = "idle"
    /\ \A b \in Bundles : holder[b] = w <=> (Ingesting(w) /\ b = BundleOf[job[w]])
    /\ Ingesting(w) /\ w \notin stale => stage[job[w]] = "ingesting"
    /\ Mirroring(w) => stage[job[w]] \notin {"ingest", "ingesting"}
    /\ Mirroring(w) /\ w \notin stale => stage[job[w]] = "mirroring"
    /\ w \in stale => pc[w] # "idle"

\* The server runs one attempt of a job at a time, and no more than it may.
ServerInv ==
    /\ \A v, w \in Workers \ stale : job[v] = job[w] /\ pc[v] # "idle" => v = w
    /\ \A j \in Jobs : stage[j] \in {"ingest", "mirror"} => tries[j] < MaxAttempts

\* A transaction that has written nothing.
Blank(t) == t.row = Absent /\ DOMAIN t.rows = {} /\ t.del = {} /\ t.new = {} /\ t.after = {}

\* What a worker has collected and has to do by each step of its activity.
Progress(w) ==
    /\ pc[w] = "idle" => todo[w] = {}
    /\ pc[w] \in {"idle", "ingest"} => tx[w].rank = 0 /\ tx[w].got = {}
    /\ pc[w] \in {"idle", "ingest", "writing", "read"} => Blank(tx[w])
    /\ Ingesting(w) => todo[w] \subseteq DOMAIN Plans[job[w]]
    /\ pc[w] = "writing" => /\ tx[w].rank = 0
                            /\ \A b \in tx[w].got : b.job = job[w]
    /\ pc[w] = "read" => \A p \in todo[w] :
          /\ tree[Bundle(w)][p] # Absent /\ Rank[TypeOf(p)] = tx[w].rank
          /\ \A b \in tx[w].got : b.page # p
    /\ Mirroring(w) =>
          /\ \A b \in tx[w].got : /\ tree[Bundle(w)][b.page] # Absent
                                  /\ Rank[TypeOf(b.page)] <= tx[w].rank
          /\ \A b, c \in tx[w].got : SlugOf(b.page) = SlugOf(c.page) => b = c
    /\ pc[w] \in {"rows", "write"} => todo[w] \subseteq {b.page : b \in tx[w].got}
    /\ pc[w] = "write" => todo[w] # {}
    /\ pc[w] = "commit" => todo[w] = {}
    /\ tx[w].row # Absent => pc[w] = "write"

Texts(i) == {i.versions[k] : k \in DOMAIN i.versions}

\* The row that was read, and those that were written, are of items that have
\* lost no text since, and lose none.
Follows(w) ==
    /\ tx[w].row # Absent =>
          LET s == SlugOf(Page(w).page)
          IN  /\ items[s] # Absent /\ Texts(tx[w].row) \subseteq Texts(items[s])
              /\ Len(tx[w].row.versions) > 0
    /\ \A s \in DOMAIN tx[w].rows :
          /\ Len(tx[w].rows[s].versions) > 0
          /\ items[s] # Absent => Texts(items[s]) \subseteq Texts(tx[w].rows[s])

\* A row is locked by one mirror only, and not when an archive request has it.
LocksInv ==
    \A v, w \in Workers : \A s \in Slugs :
        Locks(v, s) => (v = w \/ ~Locks(w, s)) /\ request.slug # s

\* The text is among those of its item, or will be when w commits.
Carries(w, page) ==
    LET s == SlugOf(page.page)
    IN  \/ items[s] # Absent /\ page \in Texts(items[s])
        \/ Locks(w, s) /\ page \in Texts(tx[w].rows[s])

\* Of the pages its job was the last to write, and not late, a mirror has
\* collected those it has passed, and written those it has handled.
Covers(w) ==
    \A p \in Winners(Bundle(w)) :
        LET page == tree[Bundle(w)][p]
        IN  page.job = job[w] /\ ~page.late =>
              /\ pc[w] = "read" /\ Rank[TypeOf(p)] <= tx[w].rank =>
                    p \in todo[w] \/ page \in tx[w].got
              /\ pc[w] \in {"rows", "write", "commit"} =>
                    page \in tx[w].got /\ (p \in todo[w] \/ Carries(w, page))

WorkerInv(w) == Progress(w) /\ Follows(w) /\ (Mirroring(w) => Covers(w))

MirrorInv ==
    /\ ShapeInv /\ PlaceInv /\ ServerInv /\ LocksInv /\ DoneIsServed
    /\ \A w \in Workers : Attempt(w) /\ WorkerInv(w)

-----------------------------------------------------------------------------
(* Lemmas about the operators.                                             *)

\* A set of numbers that is not empty has a least one.
LEMMA LeastNumber ==
    ASSUME NEW S \in SUBSET Nat, S # {}
    PROVE  \E x \in S : \A y \in S : x <= y
<1> DEFINE R == OpToRel(<, Nat)
<1>1. IsWellFoundedOn(R, Nat)
  BY NatLessThanWellFounded
<1>2. \A x, y \in Nat : y < x => <<y, x>> \in R
  BY DEF OpToRel
<1> HIDE DEF R
<1>3. PICK x \in S : \A y \in S : ~ (<<y, x>> \in R)
  BY <1>1, WFMin
<1>4. \A y \in S : ~ (y < x)
  BY <1>2, <1>3
<1>5. \A y \in S : x <= y
  BY <1>4
<1> QED
  BY <1>5

LEMMA PageParts ==
    ASSUME NEW p \in Pages
    PROVE  TypeOf(p) \in PageTypes /\ SlugOf(p) \in Slugs /\ SlugOf(p) \in Nat
           /\ p = <<TypeOf(p), SlugOf(p)>> /\ Rank[TypeOf(p)] \in 1..3
<1>1. PICK t \in PageTypes, s \in Slugs : p = <<t, s>>
  BY DEF Pages
<1>2. TypeOf(p) = t /\ SlugOf(p) = s
  BY <1>1 DEF TypeOf, SlugOf
<1>3. Slugs \subseteq Nat
  BY MirrorAssumption
<1>4. Rank[t] \in 1..3
  BY DEF PageTypes, Rank
<1> QED
  BY <1>1, <1>2, <1>3, <1>4

\* Pages of one slug and one rank are one page.
LEMMA RankIsType ==
    ASSUME NEW p \in Pages, NEW q \in Pages, Rank[TypeOf(p)] = Rank[TypeOf(q)]
    PROVE  TypeOf(p) = TypeOf(q) /\ (SlugOf(p) = SlugOf(q) => p = q)
<1>1. TypeOf(p) = TypeOf(q)
  BY PageParts DEF PageTypes, Rank
<1> QED
  BY <1>1, PageParts

\* Of two pages of one slug that are each before the other there is one.
LEMMA BeforeOneAnother ==
    ASSUME NEW p \in Pages, NEW q \in Pages, SlugOf(p) = SlugOf(q), Before(p, q), Before(q, p)
    PROVE  p = q
<1>1. Rank[TypeOf(p)] \in 1..3 /\ Rank[TypeOf(q)] \in 1..3
  BY PageParts
<1>2. TypeOf(p) = TypeOf(q)
  BY <1>1 DEF Before
<1> QED
  BY <1>2, PageParts

\* The order of the loops has a first page.
LEMMA FirstIsMember ==
    ASSUME NEW S \in SUBSET Pages, S # {}
    PROVE  First(S) \in S
<1>1. {Rank[TypeOf(p)] : p \in S} \in SUBSET Nat /\ {Rank[TypeOf(p)] : p \in S} # {}
  BY PageParts
<1>2. PICK p \in S : \A q \in S : Rank[TypeOf(p)] <= Rank[TypeOf(q)]
  <2>1. PICK r \in {Rank[TypeOf(p)] : p \in S} : \A n \in {Rank[TypeOf(p)] : p \in S} : r <= n
    BY <1>1, LeastNumber
  <2>2. PICK p \in S : r = Rank[TypeOf(p)]
    BY <2>1
  <2> QED
    BY <2>1, <2>2
<1> DEFINE T == {q \in S : TypeOf(q) = TypeOf(p)}
<1>3. {SlugOf(q) : q \in T} \in SUBSET Nat /\ {SlugOf(q) : q \in T} # {}
  BY PageParts
<1>4. PICK m \in {SlugOf(q) : q \in T} : \A n \in {SlugOf(q) : q \in T} : m <= n
  BY <1>3, LeastNumber
<1>5. PICK f \in T : SlugOf(f) = m
  BY <1>4
<1>6. ASSUME NEW q \in S PROVE Before(f, q)
  <2>1. Rank[TypeOf(f)] <= Rank[TypeOf(q)]
    BY <1>2, <1>5
  <2>2. Rank[TypeOf(f)] \in Nat /\ Rank[TypeOf(q)] \in Nat
    BY <1>5, PageParts
  <2>3. CASE Rank[TypeOf(f)] < Rank[TypeOf(q)]
    BY <2>3 DEF Before
  <2>4. CASE Rank[TypeOf(f)] = Rank[TypeOf(q)]
    <3>1. TypeOf(f) = TypeOf(q)
      BY <2>4, <1>5, RankIsType
    <3>2. SlugOf(q) \in {SlugOf(x) : x \in T}
      BY <1>5, <3>1
    <3> QED
      BY <1>4, <1>5, <3>1, <3>2 DEF Before
  <2> QED
    BY <2>1, <2>2, <2>3, <2>4
<1> HIDE DEF T
<1>7. \E f0 \in S : \A q \in S : Before(f0, q)
  BY <1>5, <1>6 DEF T
<1> QED
  BY <1>7 DEF First

LEMMA RowsAre ==
    ASSUME NEW f \in Rows
    PROVE  f \in [DOMAIN f -> Item] /\ DOMAIN f \subseteq Slugs
BY DEF Rows

LEMMA NoTxType ==
    /\ NoTx \in Transaction /\ NoTx.rank = 0 /\ NoTx.got = {} /\ Blank(NoTx)
<1>1. NoTx.rows \in [{} -> Item]
  BY DEF NoTx
<1>2. NoTx.rows \in Rows
  BY <1>1 DEF Rows
<1> QED
  BY <1>1, <1>2 DEF NoTx, Transaction, Blank

LEMMA ItemParts ==
    ASSUME NEW i \in Item
    PROVE  /\ i.type \in PageTypes /\ i.space \in Bundles /\ i.status \in {"published", "archived"}
           /\ i.versions \in Seq(Body) /\ Texts(i) \subseteq Body
           /\ (Len(i.versions) > 0 => Current(i) \in Texts(i))
<1>1. i.versions \in Seq(Body)
  BY DEF Item
<1>2. Len(i.versions) > 0 => Current(i) \in Texts(i)
  BY <1>1 DEF Texts, Current, Last
<1>3. Texts(i) \subseteq Body
  BY <1>1 DEF Texts
<1> QED
  BY <1>1, <1>2, <1>3 DEF Item

\* What an update makes of an item.
LEMMA UpdatedIs ==
    ASSUME NEW now \in Item, NEW row \in Item, NEW page \in Body, Len(now.versions) > 0
    PROVE  /\ Updated(now, row, page) \in Item
           /\ Len(Updated(now, row, page).versions) > 0
           /\ Texts(now) \subseteq Texts(Updated(now, row, page))
           /\ ~SameText(row, page) => page \in Texts(Updated(now, row, page))
<1> DEFINE new == Updated(now, row, page)
<1>1. page.page \in Pages
  BY DEF Body
<1>2. /\ new.versions = IF SameText(row, page) THEN now.versions ELSE Append(now.versions, page)
      /\ new \in Item
  <2>1. TypeOf(page.page) \in PageTypes
    BY <1>1, PageParts
  <2>2. now.versions \in Seq(Body) /\ Append(now.versions, page) \in Seq(Body)
    BY DEF Item
  <2> QED
    BY <2>1, <2>2 DEF Updated, Item
<1>3. now.versions \in Seq(Body)
  BY DEF Item
<1> HIDE DEF new
<1>4. CASE SameText(row, page)
  BY <1>2, <1>4 DEF Texts, new
<1>5. CASE ~SameText(row, page)
  <2>1. new.versions = Append(now.versions, page)
    BY <1>2, <1>5
  <2>2. /\ Len(new.versions) = Len(now.versions) + 1
        /\ \A k \in 1..Len(now.versions) : new.versions[k] = now.versions[k]
        /\ new.versions[Len(new.versions)] = page
        /\ DOMAIN new.versions = 1..Len(new.versions) /\ DOMAIN now.versions = 1..Len(now.versions)
        /\ Len(now.versions) \in Nat
    BY <1>3, <2>1
  <2>3. Texts(now) \subseteq Texts(new) /\ page \in Texts(new)
    BY <2>2 DEF Texts
  <2> QED
    BY <1>2, <1>5, <2>2, <2>3 DEF new
<1> QED
  BY <1>4, <1>5

LEMMA TypeFromInv ==
    ASSUME MirrorInv PROVE TypeOK
<1>1. ASSUME NEW w \in Workers PROVE IsTx(tx[w])
  <2>1. tx[w] \in Transaction /\ tx[w].rows \in Rows
    BY DEF MirrorInv, ShapeInv, Transaction
  <2>2. DOMAIN tx[w].rows \subseteq Slugs /\ \A s \in DOMAIN tx[w].rows : tx[w].rows[s] \in Item
    BY <2>1, RowsAre
  <2> QED
    BY <2>1, <2>2 DEF IsTx, Transaction
<1>2. ASSUME NEW w \in Workers
      PROVE  /\ job[w] = NoOne <=> pc[w] = "idle"
             /\ pc[w] \in {"ingest", "writing"} <=> \E b \in Bundles : holder[b] = w
  <2>1. Attempt(w) /\ job[w] \in Jobs \union {NoOne}
    BY DEF MirrorInv, ShapeInv
  <2>2. Ingesting(w) => BundleOf[job[w]] \in Bundles
    BY <2>1, MirrorAssumption DEF Attempt, Ingesting
  <2> QED
    BY <2>1, <2>2 DEF Attempt, Ingesting
<1> QED
  BY <1>1, <1>2 DEF MirrorInv, ShapeInv, LocksInv, TypeOK

-----------------------------------------------------------------------------
(* What a step of one worker leaves to the others.                         *)

\* Worker v is where it was; a row it waits for may be gone.
Rests(v) ==
    /\ pc'[v] = pc[v] /\ job'[v] = job[v] /\ todo'[v] = todo[v]
    /\ tx'[v].rank = tx[v].rank /\ tx'[v].got = tx[v].got
    /\ tx'[v].row = tx[v].row /\ tx'[v].rows = tx[v].rows /\ tx'[v].new = tx[v].new
    /\ tx'[v].del \subseteq tx[v].del /\ tx'[v].after \subseteq tx[v].after

\* No page disappears, and only a job that is being ingested writes one, or an
\* attempt that was given up on.
TreeKeeps ==
    \A b \in Bundles : \A p \in Pages :
        /\ tree[b][p] # Absent => tree'[b][p] # Absent
        /\ tree'[b][p] \notin {Absent, Torn} =>
              \/ tree'[b][p] = tree[b][p]
              \/ stage[tree'[b][p].job] = "ingesting" \/ tree'[b][p].late

\* No item disappears or loses a text.
ItemsKeep ==
    \A s \in Slugs : items[s] # Absent =>
        items'[s] # Absent /\ Texts(items[s]) \subseteq Texts(items'[s])

LEMMA WinnersKeep ==
    ASSUME TreeKeeps, NEW b \in Bundles, NEW p \in Winners(b)',
           stage[tree'[b][p].job] # "ingesting", ~tree'[b][p].late
    PROVE  p \in Winners(b) /\ tree'[b][p] = tree[b][p]
<1>1. p \in Pages /\ tree'[b][p] \notin {Absent, Torn}
      /\ \A q \in Pages : (tree'[b][q] # Absent /\ SlugOf(q) = SlugOf(p)) => Before(p, q)
  BY DEF Winners
<1>2. tree'[b][p] = tree[b][p]
  BY <1>1 DEF TreeKeeps
<1>3. \A q \in Pages : tree[b][q] # Absent => tree'[b][q] # Absent
  BY DEF TreeKeeps
<1> QED
  BY <1>1, <1>2, <1>3 DEF Winners

\* A mirror works for a job, in its bundle.
LEMMA JobAtHand ==
    ASSUME MirrorInv, NEW w \in Workers, pc[w] # "idle"
    PROVE  job[w] \in Jobs /\ Bundle(w) \in Bundles /\ (Ingesting(w) \/ Mirroring(w))
<1>1. job[w] \in Jobs \union {NoOne} /\ job[w] # NoOne
  BY DEF MirrorInv, ShapeInv, Attempt
<1>2. BundleOf[job[w]] \in Bundles
  BY <1>1, MirrorAssumption
<1> QED
  BY <1>1, <1>2 DEF Bundle, MirrorInv, ShapeInv, Ingesting, Mirroring

\* The collected page at hand is one, and it is the first to do.
LEMMA PageAtHand ==
    ASSUME ShapeInv, NEW w \in Workers, Progress(w), pc[w] \in {"rows", "write"}, todo[w] # {}
    PROVE  /\ Page(w) \in tx[w].got /\ Page(w) \in Body
           /\ Page(w).page = First(todo[w]) /\ First(todo[w]) \in todo[w]
           /\ Page(w).page \in Pages /\ SlugOf(Page(w).page) \in Slugs
<1>1. todo[w] \in SUBSET Pages /\ tx[w].got \subseteq Body
  BY DEF ShapeInv, Transaction
<1>2. First(todo[w]) \in todo[w]
  BY <1>1, FirstIsMember
<1>3. \E b \in tx[w].got : b.page = First(todo[w])
  BY <1>2 DEF Progress
<1>4. Page(w) \in tx[w].got /\ Page(w).page = First(todo[w])
  BY <1>3 DEF Page
<1>5. Page(w) \in Body /\ Page(w).page \in Pages
  BY <1>1, <1>2, <1>4
<1> QED
  BY <1>2, <1>4, <1>5, PageParts

LEMMA RestingWorker ==
    ASSUME MirrorInv, NEW v \in Workers, Rests(v), TreeKeeps, ItemsKeep,
           \A s \in DOMAIN tx[v].rows : items'[s] = items[s]
    PROVE  WorkerInv(v)'
<1>1. Progress(v) /\ Follows(v) /\ (Mirroring(v) => Covers(v)) /\ ShapeInv
  BY DEF MirrorInv, WorkerInv
<1>2. Mirroring(v) => /\ pc[v] # "idle" /\ Bundle(v) \in Bundles
                      /\ stage[job[v]] # "ingesting"
  BY JobAtHand DEF MirrorInv, Attempt, Mirroring
<1>3. Bundle(v)' = Bundle(v) /\ (Mirroring(v)' <=> Mirroring(v)) /\ (Ingesting(v)' <=> Ingesting(v))
  BY DEF Rests, Bundle, Mirroring, Ingesting
<1>4. Blank(tx[v]) => Blank(tx'[v])
  BY DEF Rests, Blank
<1>5. \A b \in tx[v].got : b.page \in Pages
  BY <1>1 DEF ShapeInv, Transaction, Body
<1>6. \A p \in todo[v] : p \in Pages
  BY <1>1 DEF ShapeInv
<1>7. Progress(v)'
  <2>1. pc[v] = "read" => \A p \in todo[v] :
            /\ tree'[Bundle(v)][p] # Absent /\ Rank[TypeOf(p)] = tx[v].rank
            /\ \A b \in tx[v].got : b.page # p
    BY <1>1, <1>2, <1>6 DEF Progress, TreeKeeps, Mirroring
  <2>2. Mirroring(v) => \A b \in tx[v].got :
            tree'[Bundle(v)][b.page] # Absent /\ Rank[TypeOf(b.page)] <= tx[v].rank
    BY <1>1, <1>2, <1>5 DEF Progress, TreeKeeps
  <2> QED
    BY <1>1, <1>3, <1>4, <2>1, <2>2 DEF Progress, Rests
<1>8. Follows(v)'
  <2>1. Page(v)' = Page(v)
    BY DEF Page, Rests
  <2>2. tx[v].row # Absent => SlugOf(Page(v).page) \in Slugs
    BY <1>1, PageAtHand DEF Progress
  <2>3. tx[v].row # Absent =>
          /\ items'[SlugOf(Page(v).page)] # Absent
          /\ Texts(tx[v].row) \subseteq Texts(items'[SlugOf(Page(v).page)])
          /\ Len(tx[v].row.versions) > 0
    BY <1>1, <2>2 DEF Follows, ItemsKeep
  <2>4. \A s \in DOMAIN tx[v].rows :
          /\ Len(tx[v].rows[s].versions) > 0
          /\ items'[s] # Absent => Texts(items'[s]) \subseteq Texts(tx[v].rows[s])
    BY <1>1 DEF Follows
  <2>5. /\ tx'[v].row = tx[v].row /\ tx'[v].rows = tx[v].rows
        /\ Texts(tx[v].row)' = Texts(tx[v].row)
        /\ \A s : Texts(items[s])' = Texts(items'[s])
        /\ \A s : Texts(tx[v].rows[s])' = Texts(tx[v].rows[s])
    BY DEF Rests, Texts
  <2> QED
    BY <2>1, <2>3, <2>4, <2>5 DEF Follows
<1>9. ASSUME Mirroring(v) PROVE Covers(v)'
  <2>1. ASSUME NEW p \in Winners(Bundle(v))', NEW page, page = tree'[Bundle(v)][p],
               page.job = job[v], ~page.late
        PROVE  /\ pc[v] = "read" /\ Rank[TypeOf(p)] <= tx[v].rank =>
                     p \in todo[v] \/ page \in tx[v].got
               /\ pc[v] \in {"rows", "write", "commit"} =>
                     page \in tx[v].got /\ (p \in todo[v] \/ Carries(v, page)')
    <3>1. p \in Winners(Bundle(v)) /\ page = tree[Bundle(v)][p]
      BY <1>2, <1>3, <1>9, <2>1, WinnersKeep
    <3>2. p \in Pages /\ page \in Body /\ SlugOf(page.page) \in Slugs
      <4>1. p \in Pages /\ page \notin {Absent, Torn}
        BY <3>1 DEF Winners
      <4>2. page \in Body
        BY <1>1, <1>2, <1>9, <3>1, <4>1 DEF ShapeInv
      <4> QED
        BY <4>1, <4>2, PageParts DEF Body
    <3>3. Carries(v, page) => Carries(v, page)'
      <4>1. \A s : /\ Texts(items[s])' = Texts(items'[s])
                   /\ Texts(tx[v].rows[s])' = Texts(tx[v].rows[s])
        BY DEF Texts, Rests
      <4>2. tx'[v].rows = tx[v].rows
        BY DEF Rests
      <4> QED
        BY <3>2, <4>1, <4>2 DEF Carries, ItemsKeep, Locks
    <3>4. /\ pc[v] = "read" /\ Rank[TypeOf(p)] <= tx[v].rank =>
                p \in todo[v] \/ page \in tx[v].got
          /\ pc[v] \in {"rows", "write", "commit"} =>
                page \in tx[v].got /\ (p \in todo[v] \/ Carries(v, page))
      BY <1>1, <1>9, <2>1, <3>1 DEF Covers
    <3> QED
      BY <3>3, <3>4
  <2>2. /\ Bundle(v)' = Bundle(v) /\ pc'[v] = pc[v] /\ job'[v] = job[v] /\ todo'[v] = todo[v]
        /\ tx'[v].rank = tx[v].rank /\ tx'[v].got = tx[v].got
    BY <1>3 DEF Rests
  <2> QED
    BY <2>1, <2>2 DEF Covers
<1> QED
  BY <1>3, <1>7, <1>8, <1>9 DEF WorkerInv

\* What DoneIsServed says of a job.
JobServed(j) ==
    \A p \in Winners(BundleOf[j]) :
        (tree[BundleOf[j]][p].job = j /\ ~tree[BundleOf[j]][p].late) =>
            items[SlugOf(p)] # Absent /\ tree[BundleOf[j]][p] \in Texts(items[SlugOf(p)])

LEMMA DoneIsJobServed ==
    DoneIsServed <=> \A j \in Jobs : stage[j] = "done" => JobServed(j)
BY DEF DoneIsServed, IsVersion, JobServed, Texts

LEMMA ServedStays ==
    ASSUME MirrorInv, TreeKeeps, ItemsKeep, NEW j \in Jobs, stage[j] = "done"
    PROVE  JobServed(j)'
<1> SUFFICES ASSUME NEW p \in Winners(BundleOf[j])', tree'[BundleOf[j]][p].job = j,
                    ~tree'[BundleOf[j]][p].late
             PROVE  /\ items'[SlugOf(p)] # Absent
                    /\ tree'[BundleOf[j]][p] \in Texts(items[SlugOf(p)])'
  BY DEF JobServed
<1>1. BundleOf[j] \in Bundles /\ JobServed(j)
  BY MirrorAssumption, DoneIsJobServed DEF MirrorInv
<1>2. p \in Winners(BundleOf[j]) /\ tree'[BundleOf[j]][p] = tree[BundleOf[j]][p]
  BY <1>1, WinnersKeep
<1>3. SlugOf(p) \in Slugs
  BY <1>2, PageParts DEF Winners
<1>4. Texts(items[SlugOf(p)])' = Texts(items'[SlugOf(p)])
  BY DEF Texts
<1> QED
  BY <1>1, <1>2, <1>3, <1>4 DEF ItemsKeep, JobServed

LEMMA DoneKeeps ==
    ASSUME MirrorInv, TreeKeeps, ItemsKeep,
           \A j \in Jobs : stage'[j] = "done" => stage[j] = "done"
    PROVE  DoneIsServed'
<1>1. \A j \in Jobs : stage'[j] = "done" => JobServed(j)'
  BY ServedStays
<1>2. (DoneIsServed <=> \A j \in Jobs : stage[j] = "done" => JobServed(j))'
  BY DoneIsJobServed, PTL
<1> QED
  BY <1>1, <1>2

-----------------------------------------------------------------------------
(* Attempts that begin and end.                                            *)

LEMMA LeaveKeepsAttempts ==
    ASSUME MirrorInv, NEW w \in Workers, pc[w] # "idle",
           NEW to \in {"ingest", "mirror", "done", "failed"}, NEW n \in 0..MaxAttempts,
           Leave(w, to, n),
           Mirroring(w) => to # "ingest",
           to \in {"ingest", "mirror"} => n < MaxAttempts
    PROVE  /\ ServerInv' /\ \A v \in Workers : Attempt(v)'
           /\ pc' \in [Workers -> {"idle", "ingest", "writing", "read", "rows", "write", "commit"}]
           /\ job' \in [Workers -> Jobs \union {NoOne}] /\ todo' \in [Workers -> SUBSET Pages]
           /\ stale' \subseteq Workers /\ strays' = strays /\ holder' \in [Bundles -> Workers \union {NoOne}]
           /\ stage' \in [Jobs -> {"ingest", "ingesting", "mirror", "mirroring", "done", "failed"}]
           /\ tries' \in [Jobs -> 0..MaxAttempts]
           /\ pc'[w] = "idle" /\ job'[w] = NoOne /\ todo'[w] = {}
           /\ \A v \in Workers \ {w} : pc'[v] = pc[v] /\ job'[v] = job[v] /\ todo'[v] = todo[v]
<1>1. ShapeInv /\ ServerInv /\ \A v \in Workers : Attempt(v)
  BY DEF MirrorInv
<1>2. job[w] \in Jobs /\ (Ingesting(w) \/ Mirroring(w))
  BY JobAtHand
<1>3. /\ pc'[w] = "idle" /\ job'[w] = NoOne /\ todo'[w] = {}
      /\ \A v \in Workers \ {w} : pc'[v] = pc[v] /\ job'[v] = job[v] /\ todo'[v] = todo[v]
      /\ stale' = stale \ {w} /\ strays' = strays
      /\ holder' = [b \in Bundles |-> IF holder[b] = w THEN NoOne ELSE holder[b]]
  BY <1>1 DEF Leave, ShapeInv
<1>4. /\ pc' \in [Workers -> {"idle", "ingest", "writing", "read", "rows", "write", "commit"}]
      /\ job' \in [Workers -> Jobs \union {NoOne}] /\ todo' \in [Workers -> SUBSET Pages]
      /\ stale' \subseteq Workers /\ strays' = strays /\ holder' \in [Bundles -> Workers \union {NoOne}]
  BY <1>1, <1>3 DEF Leave, ShapeInv
<1>5. /\ stage' \in [Jobs -> {"ingest", "ingesting", "mirror", "mirroring", "done", "failed"}]
      /\ tries' \in [Jobs -> 0..MaxAttempts]
  BY <1>1, <1>2 DEF Leave, ShapeInv
<1>6. \A j \in Jobs : \/ stage'[j] = stage[j] /\ tries'[j] = tries[j]
                      \/ j = job[w] /\ w \notin stale /\ stage'[j] = to /\ tries'[j] = n
  BY <1>1, <1>2 DEF Leave, ShapeInv
<1>7. ServerInv'
  <2>1. \A v \in Workers \ stale' : pc'[v] # "idle" => v # w /\ v \notin stale
    BY <1>3
  <2>2. \A j \in Jobs : stage'[j] \in {"ingest", "mirror"} => tries'[j] < MaxAttempts
    BY <1>1, <1>6 DEF ServerInv
  <2>3. ASSUME NEW u \in Workers \ stale', NEW v \in Workers \ stale',
               job'[u] = job'[v], pc'[u] # "idle"
        PROVE  u = v
    <3>1. u # w /\ u \notin stale
      BY <2>1, <2>3
    <3>2. job'[u] # NoOne
      BY <1>1, <1>3, <2>3, <3>1 DEF Attempt
    <3>3. v # w
      BY <1>3, <2>3, <3>2
    <3> QED
      BY <1>1, <1>3, <2>3, <3>1, <3>3 DEF ServerInv
  <2> QED
    BY <2>2, <2>3 DEF ServerInv
<1>8. Attempt(w)'
  <2>1. \A b \in Bundles : holder'[b] # w
    BY <1>1, <1>3, MirrorAssumption DEF ShapeInv
  <2> QED
    BY <1>3, <2>1 DEF Attempt, Ingesting, Mirroring
<1>9. ASSUME NEW v \in Workers \ {w} PROVE Attempt(v)'
  <2>1. Attempt(v) /\ pc'[v] = pc[v] /\ job'[v] = job[v] /\ (v \in stale' <=> v \in stale)
        /\ (Ingesting(v)' <=> Ingesting(v)) /\ (Mirroring(v)' <=> Mirroring(v))
    BY <1>1, <1>3 DEF Ingesting, Mirroring
  <2>2. \A b \in Bundles : holder'[b] = v <=> holder[b] = v
    BY <1>3, MirrorAssumption
  <2>3. Ingesting(v) \/ Mirroring(v) => pc[v] # "idle" /\ job[v] \in Jobs
    <3>1. Ingesting(v) \/ Mirroring(v) => pc[v] # "idle"
      BY DEF Ingesting, Mirroring
    <3> QED
      BY <3>1, JobAtHand
  <2>4. Ingesting(v) /\ v \notin stale => stage'[job[v]] = "ingesting"
    <3> SUFFICES ASSUME Ingesting(v), v \notin stale PROVE stage'[job[v]] = "ingesting"
      OBVIOUS
    <3>1. pc[v] # "idle" /\ stage[job[v]] = "ingesting"
      BY <2>1, <2>3 DEF Attempt
    <3>2. w \notin stale => job[v] # job[w]
      BY <1>1, <3>1 DEF ServerInv
    <3> QED
      BY <1>6, <2>3, <3>1, <3>2
  <2>5. Mirroring(v) => stage'[job[v]] \notin {"ingest", "ingesting"}
    <3> SUFFICES ASSUME Mirroring(v), stage'[job[v]] # stage[job[v]]
                 PROVE  stage'[job[v]] \notin {"ingest", "ingesting"}
      BY <2>1 DEF Attempt
    <3>1. job[v] = job[w] /\ stage'[job[v]] = to
      BY <1>6, <2>3
    <3>2. w \notin stale /\ Mirroring(w)
      BY <1>1, <1>2, <1>6, <2>1, <2>3, <3>1 DEF Attempt
    <3> QED
      BY <3>1, <3>2
  <2>6. Mirroring(v) /\ v \notin stale => stage'[job[v]] = "mirroring"
    <3> SUFFICES ASSUME Mirroring(v), v \notin stale PROVE stage'[job[v]] = "mirroring"
      OBVIOUS
    <3>1. stage[job[v]] = "mirroring" /\ pc[v] # "idle"
      BY <2>1, <2>3 DEF Attempt
    <3>2. w \notin stale => job[v] # job[w]
      BY <1>1, <3>1 DEF ServerInv
    <3> QED
      BY <1>6, <2>3, <3>1, <3>2
  <2>7. Bundle(v)' = Bundle(v)
    BY <2>1 DEF Bundle
  <2> QED
    BY <2>1, <2>2, <2>4, <2>5, <2>6 DEF Attempt
<1> QED
  BY <1>3, <1>4, <1>5, <1>7, <1>8, <1>9

LEMMA ReleaseIs ==
    ASSUME ShapeInv, NEW w \in Workers, NEW ins, Release(w, ins)
    PROVE  /\ tx' \in [Workers -> Transaction] /\ tx'[w] = NoTx
           /\ request' \in [slug : Slugs \union {NoOne}, del : SUBSET Pair, after : SUBSET Workers]
           /\ request'.slug = request.slug /\ request'.del \subseteq request.del
           /\ \A v \in Workers \ {w} :
                /\ tx'[v].rank = tx[v].rank /\ tx'[v].got = tx[v].got
                /\ tx'[v].row = tx[v].row /\ tx'[v].rows = tx[v].rows /\ tx'[v].new = tx[v].new
                /\ tx'[v].del \subseteq tx[v].del /\ tx'[v].after \subseteq tx[v].after
<1>1. tx' = [v \in Workers |->
                IF v = w THEN NoTx
                ELSE [tx[v] EXCEPT !.after = @ \ {w}, !.del = @ \ ins]]
      /\ request' = [request EXCEPT !.after = @ \ {w}, !.del = @ \ ins]
  BY DEF Release
<1>2. ASSUME NEW v \in Workers
      PROVE  LET t == [tx[v] EXCEPT !.after = @ \ {w}, !.del = @ \ ins]
             IN  /\ t \in Transaction
                 /\ t.rank = tx[v].rank /\ t.got = tx[v].got
                 /\ t.row = tx[v].row /\ t.rows = tx[v].rows /\ t.new = tx[v].new
                 /\ t.del \subseteq tx[v].del /\ t.after \subseteq tx[v].after
  <2> DEFINE t == [tx[v] EXCEPT !.after = tx[v].after \ {w}, !.del = tx[v].del \ ins]
  <2>1. tx[v] \in Transaction
    BY DEF ShapeInv
  <2>2. /\ t.rank = tx[v].rank /\ t.got = tx[v].got /\ t.row = tx[v].row
        /\ t.rows = tx[v].rows /\ t.new = tx[v].new
        /\ t.del = tx[v].del \ ins /\ t.after = tx[v].after \ {w}
    BY <2>1 DEF Transaction
  <2>3. t \in Transaction
    BY <2>1 DEF Transaction
  <2> QED
    BY <2>2, <2>3
<1>3. NoTx \in Transaction
  BY NoTxType
<1>4. tx' \in [Workers -> Transaction] /\ tx'[w] = NoTx
  BY <1>1, <1>2, <1>3
<1>5. request \in [slug : Slugs \union {NoOne}, del : SUBSET Pair, after : SUBSET Workers]
  BY DEF ShapeInv
<1>6. /\ request' \in [slug : Slugs \union {NoOne}, del : SUBSET Pair, after : SUBSET Workers]
      /\ request'.slug = request.slug /\ request'.del \subseteq request.del
  BY <1>1, <1>5
<1> QED
  BY <1>1, <1>2, <1>4, <1>6

LEMMA LocksShrink ==
    ASSUME LocksInv, \A v \in Workers : DOMAIN tx'[v].rows \subseteq DOMAIN tx[v].rows,
           request'.slug \in {request.slug, NoOne}
    PROVE  LocksInv'
<1>1. NoOne \notin Slugs
  BY MirrorAssumption
<1> QED
  BY <1>1 DEF LocksInv, Locks

LEMMA FaultType ==
    ASSUME ShapeInv, NEW kind, Fault(kind) PROVE faults' \in 0..MaxFaults
<1>1. MaxFaults \in Nat /\ faults \in 0..MaxFaults
  BY MirrorAssumption DEF ShapeInv
<1> QED
  BY <1>1 DEF Fault

\* An attempt raises or its process dies: nothing that was written remains.
LEMMA RaiseKeepsInv ==
    ASSUME MirrorInv, NEW w \in Workers, pc[w] # "idle", Raise(w), faults' \in 0..MaxFaults
    PROVE  MirrorInv'
<1> DEFINE j == job[w]
<1>1. ShapeInv /\ PlaceInv /\ LocksInv /\ DoneIsServed /\ j \in Jobs
      /\ (Ingesting(w) \/ Mirroring(w)) /\ Attempt(w)
  BY JobAtHand DEF MirrorInv
<1>2. /\ Leave(w, Retried(j), tries[j]) /\ Release(w, {})
      /\ UNCHANGED <<tree, items, links, archives>>
  BY DEF Raise, dbVars
<1> HIDE DEF j
<1>3. /\ tries[j] \in 0..MaxAttempts /\ Retried(j) \in {"ingest", "mirror", "done", "failed"}
      /\ Retried(j) # "done" /\ (Mirroring(w) => Retried(j) # "ingest")
      /\ (Retried(j) \in {"ingest", "mirror"} => tries[j] < MaxAttempts)
  <2>1. MaxAttempts \in Nat /\ tries[j] \in 0..MaxAttempts
    BY <1>1, MirrorAssumption DEF ShapeInv
  <2>2. Mirroring(w) => stage[j] # "ingesting"
    BY <1>1 DEF Attempt, j
  <2> QED
    BY <2>1, <2>2 DEF Retried
<1>4. /\ ServerInv' /\ \A v \in Workers : Attempt(v)'
      /\ pc' \in [Workers -> {"idle", "ingest", "writing", "read", "rows", "write", "commit"}]
      /\ job' \in [Workers -> Jobs \union {NoOne}] /\ todo' \in [Workers -> SUBSET Pages]
      /\ stale' \subseteq Workers /\ strays' = strays /\ holder' \in [Bundles -> Workers \union {NoOne}]
      /\ stage' \in [Jobs -> {"ingest", "ingesting", "mirror", "mirroring", "done", "failed"}]
      /\ tries' \in [Jobs -> 0..MaxAttempts]
      /\ pc'[w] = "idle" /\ job'[w] = NoOne /\ todo'[w] = {}
      /\ \A v \in Workers \ {w} : pc'[v] = pc[v] /\ job'[v] = job[v] /\ todo'[v] = todo[v]
  BY <1>2, <1>3, LeaveKeepsAttempts
<1>5. /\ tx' \in [Workers -> Transaction] /\ tx'[w] = NoTx
      /\ request' \in [slug : Slugs \union {NoOne}, del : SUBSET Pair, after : SUBSET Workers]
      /\ request'.slug = request.slug
      /\ \A v \in Workers \ {w} : Rests(v)
  BY <1>1, <1>2, <1>4, ReleaseIs DEF Rests
<1>6. ShapeInv'
  BY <1>1, <1>2, <1>4, <1>5 DEF ShapeInv
<1>7. PlaceInv'
  BY <1>1, <1>2, <1>5 DEF PlaceInv
<1>8. TreeKeeps /\ ItemsKeep
  BY <1>2 DEF TreeKeeps, ItemsKeep, Texts
<1>9. LocksInv'
  <2>1. DOMAIN tx'[w].rows = {}
    BY <1>5, NoTxType DEF Blank
  <2> QED
    BY <1>1, <1>5, <2>1, LocksShrink DEF Rests
<1>10. \A i \in Jobs : stage'[i] = "done" => stage[i] = "done"
  BY <1>1, <1>2, <1>3 DEF Leave, ShapeInv, j
<1>11. DoneIsServed'
  BY <1>8, <1>10, DoneKeeps
<1>12. WorkerInv(w)'
  <2>1. pc'[w] = "idle" /\ todo'[w] = {} /\ tx'[w] = NoTx
    BY <1>4, <1>5
  <2> QED
    BY <2>1, NoTxType DEF WorkerInv, Progress, Follows, Ingesting, Mirroring, Blank
<1>13. \A v \in Workers \ {w} : WorkerInv(v)'
  BY <1>2, <1>5, <1>8, RestingWorker
<1> QED
  BY <1>4, <1>6, <1>7, <1>9, <1>11, <1>12, <1>13 DEF MirrorInv

LEMMA StartKeepsAttempts ==
    ASSUME MirrorInv, NEW w \in Workers, NEW j \in Jobs, pc[w] = "idle",
           stage[j] \in {"ingest", "mirror"},
           NEW ing \in BOOLEAN, ing <=> stage[j] = "ingest",
           ing => holder[BundleOf[j]] = NoOne,
           stage' = [stage EXCEPT ![j] = IF ing THEN "ingesting" ELSE "mirroring"],
           tries' = [tries EXCEPT ![j] = @ + 1],
           pc' = [pc EXCEPT ![w] = IF ing THEN "ingest" ELSE "read"],
           job' = [job EXCEPT ![w] = j],
           holder' = IF ing THEN [holder EXCEPT ![BundleOf[j]] = w] ELSE holder,
           stale' = stale
    PROVE  /\ ServerInv' /\ \A v \in Workers : Attempt(v)'
           /\ tries' \in [Jobs -> 0..MaxAttempts]
           /\ w \notin stale
<1>1. ShapeInv /\ ServerInv /\ \A v \in Workers : Attempt(v)
  BY DEF MirrorInv
<1>2. /\ pc'[w] = (IF ing THEN "ingest" ELSE "read") /\ job'[w] = j
      /\ \A v \in Workers \ {w} : pc'[v] = pc[v] /\ job'[v] = job[v]
      /\ stage'[j] = (IF ing THEN "ingesting" ELSE "mirroring")
      /\ \A i \in Jobs \ {j} : stage'[i] = stage[i] /\ tries'[i] = tries[i]
      /\ BundleOf[j] \in Bundles /\ j # NoOne
      /\ \A b \in Bundles : holder'[b] = IF ing /\ b = BundleOf[j] THEN w ELSE holder[b]
  BY <1>1, MirrorAssumption DEF ShapeInv
<1>3. tries' \in [Jobs -> 0..MaxAttempts]
  <2>1. tries[j] < MaxAttempts /\ tries[j] \in 0..MaxAttempts /\ MaxAttempts \in Nat
    BY <1>1, MirrorAssumption DEF ServerInv, ShapeInv
  <2> QED
    BY <1>1, <2>1 DEF ShapeInv
<1>4. w \notin stale
  BY <1>1 DEF Attempt
<1>5. ASSUME NEW v \in Workers \ {w}, job[v] = j
      PROVE  /\ Ingesting(v) \/ Mirroring(v) => v \in stale
             /\ Mirroring(v) => ~ing
  BY <1>1, <1>5 DEF Attempt
<1>6. ASSUME NEW v \in Workers \ {w} PROVE Attempt(v)'
  <2>1. Attempt(v) /\ pc'[v] = pc[v] /\ job'[v] = job[v] /\ stale' = stale
        /\ (Ingesting(v)' <=> Ingesting(v)) /\ (Mirroring(v)' <=> Mirroring(v))
    BY <1>1, <1>2 DEF Ingesting, Mirroring
  <2>2. \A b \in Bundles : holder'[b] = v <=> holder[b] = v
    BY <1>2, MirrorAssumption
  <2>3. Ingesting(v) \/ Mirroring(v) => job[v] \in Jobs
    <3>1. Ingesting(v) \/ Mirroring(v) => pc[v] # "idle"
      BY DEF Ingesting, Mirroring
    <3> QED
      BY <3>1, JobAtHand
  <2>4. Ingesting(v) /\ v \notin stale => stage'[job[v]] = stage[job[v]]
    BY <1>2, <1>5, <2>3
  <2>5. Mirroring(v) => \/ stage'[job[v]] = stage[job[v]]
                        \/ v \in stale /\ stage'[job[v]] = "mirroring"
    BY <1>2, <1>5, <2>3
  <2> QED
    BY <2>1, <2>2, <2>4, <2>5 DEF Attempt
<1>7. Attempt(w)'
  <2>1. \A b \in Bundles : holder[b] # w
    BY <1>1 DEF Attempt, Ingesting
  <2> QED
    BY <1>2, <1>4, <2>1 DEF Attempt, Ingesting, Mirroring
<1>8. ServerInv'
  <2>1. \A i \in Jobs : stage'[i] \in {"ingest", "mirror"} => tries'[i] < MaxAttempts
    BY <1>1, <1>2 DEF ServerInv
  <2>2. ASSUME NEW v \in Workers \ stale, v # w PROVE job[v] # j
    <3>1. CASE pc[v] = "idle"
      BY <1>1, <1>2, <3>1 DEF Attempt
    <3>2. CASE pc[v] # "idle"
      BY <1>5, <2>2, <3>2, JobAtHand
    <3> QED
      BY <3>1, <3>2
  <2>3. ASSUME NEW u \in Workers \ stale, NEW v \in Workers \ stale,
               job'[u] = job'[v], pc'[u] # "idle"
        PROVE  u = v
    BY <1>1, <1>2, <2>2, <2>3 DEF ServerInv
  <2> QED
    BY <2>1, <2>3 DEF ServerInv
<1> QED
  BY <1>3, <1>4, <1>6, <1>7, <1>8

\* Steps of w within an activity: the server and the other workers see none.
LEMMA StepKeepsInv ==
    ASSUME MirrorInv, NEW w \in Workers, ShapeInv', PlaceInv',
           UNCHANGED <<holder, items, stage, tries, stale, strays, job>>,
           (Ingesting(w) /\ Ingesting(w)') \/ (Mirroring(w) /\ Mirroring(w)'),
           \A v \in Workers \ {w} : Rests(v), TreeKeeps, LocksInv', WorkerInv(w)'
    PROVE  MirrorInv'
<1>1. ItemsKeep
  BY DEF ItemsKeep, Texts
<1>2. DoneIsServed'
  BY <1>1, DoneKeeps
<1>3. \A v \in Workers \ {w} : WorkerInv(v)'
  BY <1>1, RestingWorker
<1>4. ASSUME NEW v \in Workers PROVE Attempt(v)'
  <2>1. Attempt(v) /\ (Ingesting(v)' <=> Ingesting(v)) /\ (Mirroring(v)' <=> Mirroring(v))
        /\ (pc'[v] = "idle" <=> pc[v] = "idle")
    BY DEF MirrorInv, Ingesting, Mirroring, Rests
  <2> QED
    BY <2>1 DEF Attempt
<1>5. ServerInv'
  <2>1. \A v \in Workers : pc'[v] # "idle" => pc[v] # "idle"
    BY DEF Ingesting, Mirroring, Rests
  <2> QED
    BY <2>1 DEF MirrorInv, ServerInv
<1> QED
  BY <1>2, <1>3, <1>4, <1>5 DEF MirrorInv

-----------------------------------------------------------------------------
(* The ingest.                                                             *)

LEMMA StartIngestKeepsInv ==
    ASSUME MirrorInv, NEW w \in Workers, NEW j \in Jobs, StartIngest(w, j)
    PROVE  MirrorInv'
<1>1. /\ pc[w] = "idle" /\ stage[j] = "ingest" /\ holder[BundleOf[j]] = NoOne
      /\ holder' = [holder EXCEPT ![BundleOf[j]] = w]
      /\ stage' = [stage EXCEPT ![j] = "ingesting"] /\ tries' = [tries EXCEPT ![j] = @ + 1]
      /\ pc' = [pc EXCEPT ![w] = "ingest"] /\ job' = [job EXCEPT ![w] = j]
      /\ todo' = [todo EXCEPT ![w] = DOMAIN Plans[j]]
      /\ UNCHANGED <<tree, items, links, tx, stale, strays, request, archives, faults>>
  BY DEF StartIngest, dbVars, apiVars
<1>2. ShapeInv /\ PlaceInv /\ LocksInv /\ WorkerInv(w)
  BY DEF MirrorInv
<1>3. ServerInv' /\ (\A v \in Workers : Attempt(v)') /\ tries' \in [Jobs -> 0..MaxAttempts]
  BY <1>1, StartKeepsAttempts
<1>4. DOMAIN Plans[j] \subseteq Pages
  BY MirrorAssumption
<1>5. /\ pc'[w] = "ingest" /\ job'[w] = j /\ todo'[w] = DOMAIN Plans[j] /\ tx'[w] = tx[w]
      /\ \A v \in Workers \ {w} : Rests(v)
  BY <1>1, <1>2 DEF ShapeInv, Rests
<1>6. ShapeInv'
  BY <1>1, <1>2, <1>3, <1>4 DEF ShapeInv
<1>7. PlaceInv' /\ LocksInv' /\ TreeKeeps /\ ItemsKeep
  BY <1>1, <1>2 DEF PlaceInv, LocksInv, Locks, TreeKeeps, ItemsKeep, Texts
<1>8. WorkerInv(w)'
  <2>1. tx[w].rank = 0 /\ tx[w].got = {} /\ Blank(tx[w])
    BY <1>1, <1>2 DEF WorkerInv, Progress
  <2> QED
    BY <1>5, <2>1 DEF WorkerInv, Progress, Follows, Ingesting, Mirroring, Blank
<1>9. \A v \in Workers \ {w} : WorkerInv(v)'
  BY <1>1, <1>5, <1>7, RestingWorker
<1>10. DoneIsServed'
  <2>1. \A i \in Jobs : stage'[i] = "done" => stage[i] = "done"
    BY <1>1, <1>2 DEF ShapeInv
  <2> QED
    BY <1>7, <2>1, DoneKeeps
<1> QED
  BY <1>3, <1>6, <1>7, <1>8, <1>9, <1>10 DEF MirrorInv

\* The server gives up on an attempt that has not got the lock.
LEMMA IngestTimesOutKeepsInv ==
    ASSUME MirrorInv, NEW j \in Jobs, IngestTimesOut(j)
    PROVE  MirrorInv'
<1>1. /\ stage[j] = "ingest" /\ Fault("timeout")
      /\ tries' = [tries EXCEPT ![j] = @ + 1]
      /\ stage' = [stage EXCEPT ![j] = IF tries[j] + 1 = MaxAttempts THEN "failed" ELSE @]
      /\ strays' = [strays EXCEPT ![j] = @ + 1]
      /\ UNCHANGED <<tree, holder, items, links, pc, job, todo, tx, stale, request, archives>>
  BY DEF IngestTimesOut, bundleVars, dbVars, slotVars, apiVars
<1>2. ShapeInv /\ PlaceInv /\ LocksInv /\ ServerInv
      /\ \A v \in Workers : Attempt(v)
  BY DEF MirrorInv
<1>3. /\ tries[j] < MaxAttempts /\ tries[j] \in 0..MaxAttempts /\ MaxAttempts \in Nat
  BY <1>1, <1>2, MirrorAssumption DEF ServerInv, ShapeInv
<1>4. /\ tries'[j] = tries[j] + 1
      /\ stage'[j] \in {"ingest", "failed"} /\ (stage'[j] = "ingest" => tries'[j] < MaxAttempts)
      /\ \A i \in Jobs \ {j} : stage'[i] = stage[i] /\ tries'[i] = tries[i]
  BY <1>1, <1>2, <1>3 DEF ShapeInv
<1>5. ShapeInv'
  <2>1. stage' \in [Jobs -> {"ingest", "ingesting", "mirror", "mirroring", "done", "failed"}]
    BY <1>1, <1>2, <1>4 DEF ShapeInv
  <2>2. tries' \in [Jobs -> 0..MaxAttempts]
    BY <1>1, <1>2, <1>3, <1>4 DEF ShapeInv
  <2>3. strays' \in [Jobs -> Nat]
    BY <1>1, <1>2 DEF ShapeInv
  <2>4. faults' \in 0..MaxFaults
    BY <1>1, <1>2, FaultType
  <2> QED
    BY <1>1, <1>2, <2>1, <2>2, <2>3, <2>4 DEF ShapeInv
<1>6. PlaceInv' /\ LocksInv' /\ TreeKeeps /\ ItemsKeep
  BY <1>1, <1>2 DEF PlaceInv, LocksInv, Locks, TreeKeeps, ItemsKeep, Texts
<1>7. DoneIsServed'
  BY <1>4, <1>6, DoneKeeps
<1>8. ServerInv'
  BY <1>1, <1>2, <1>4 DEF ServerInv
<1>9. ASSUME NEW v \in Workers PROVE Attempt(v)' /\ WorkerInv(v)'
  <2>1. Rests(v)
    BY <1>1 DEF Rests
  <2>2. WorkerInv(v)'
    BY <1>1, <1>6, <2>1, RestingWorker
  <2>3. Attempt(v) /\ (Ingesting(v)' <=> Ingesting(v)) /\ (Mirroring(v)' <=> Mirroring(v))
    BY <1>1, <1>2 DEF Ingesting, Mirroring
  <2>4. pc[v] # "idle" => job[v] \in Jobs
    BY JobAtHand
  <2>5. Ingesting(v) \/ Mirroring(v) => pc[v] # "idle"
    BY DEF Ingesting, Mirroring
  <2>6. Mirroring(v) \/ (Ingesting(v) /\ v \notin stale) => stage'[job[v]] = stage[job[v]]
    BY <1>1, <1>4, <2>3, <2>4, <2>5 DEF Attempt
  <2> QED
    BY <1>1, <2>2, <2>3, <2>6 DEF Attempt
<1> QED
  BY <1>5, <1>6, <1>7, <1>8, <1>9 DEF MirrorInv

\* Such an attempt takes the lock.
LEMMA StartStrayKeepsInv ==
    ASSUME MirrorInv, NEW w \in Workers, NEW j \in Jobs, StartStray(w, j)
    PROVE  MirrorInv'
<1>1. /\ pc[w] = "idle" /\ strays[j] > 0 /\ holder[BundleOf[j]] = NoOne
      /\ holder' = [holder EXCEPT ![BundleOf[j]] = w]
      /\ strays' = [strays EXCEPT ![j] = @ - 1] /\ stale' = stale \union {w}
      /\ pc' = [pc EXCEPT ![w] = "ingest"] /\ job' = [job EXCEPT ![w] = j]
      /\ todo' = [todo EXCEPT ![w] = DOMAIN Plans[j]]
      /\ UNCHANGED <<tree, items, links, stage, tries, tx, request, archives, faults>>
  BY DEF StartStray, dbVars, apiVars
<1>2. ShapeInv /\ PlaceInv /\ LocksInv /\ WorkerInv(w) /\ ServerInv
      /\ \A v \in Workers : Attempt(v)
  BY DEF MirrorInv
<1>3. /\ pc'[w] = "ingest" /\ job'[w] = j /\ todo'[w] = DOMAIN Plans[j] /\ tx'[w] = tx[w]
      /\ \A v \in Workers \ {w} : Rests(v)
      /\ BundleOf[j] \in Bundles /\ j # NoOne /\ DOMAIN Plans[j] \subseteq Pages
      /\ \A b \in Bundles : holder'[b] = IF b = BundleOf[j] THEN w ELSE holder[b]
  BY <1>1, <1>2, MirrorAssumption DEF ShapeInv, Rests
<1>4. strays' \in [Jobs -> Nat]
  BY <1>1, <1>2 DEF ShapeInv
<1>5. ShapeInv'
  BY <1>1, <1>2, <1>3, <1>4 DEF ShapeInv
<1>6. PlaceInv' /\ LocksInv' /\ TreeKeeps /\ ItemsKeep
  BY <1>1, <1>2 DEF PlaceInv, LocksInv, Locks, TreeKeeps, ItemsKeep, Texts
<1>7. DoneIsServed'
  BY <1>1, <1>6, DoneKeeps
<1>8. ServerInv'
  <2>1. \A v \in Workers \ stale' : v # w /\ v \notin stale /\ pc'[v] = pc[v] /\ job'[v] = job[v]
    BY <1>1, <1>3 DEF Rests
  <2> QED
    BY <1>1, <1>2, <2>1 DEF ServerInv
<1>9. Attempt(w)' /\ WorkerInv(w)'
  <2>1. \A b \in Bundles : holder[b] # w
    BY <1>1, <1>2 DEF Attempt, Ingesting
  <2>2. tx[w].rank = 0 /\ tx[w].got = {} /\ Blank(tx[w])
    BY <1>1, <1>2 DEF WorkerInv, Progress
  <2>3. Attempt(w)'
    BY <1>1, <1>3, <2>1 DEF Attempt, Ingesting, Mirroring
  <2>4. WorkerInv(w)'
    BY <1>3, <2>2 DEF WorkerInv, Progress, Follows, Ingesting, Mirroring, Blank
  <2> QED
    BY <2>3, <2>4
<1>10. ASSUME NEW v \in Workers \ {w} PROVE Attempt(v)' /\ WorkerInv(v)'
  <2>1. WorkerInv(v)'
    BY <1>1, <1>3, <1>6, RestingWorker
  <2>2. Attempt(v) /\ (v \in stale' <=> v \in stale) /\ pc'[v] = pc[v] /\ job'[v] = job[v]
        /\ (Ingesting(v)' <=> Ingesting(v)) /\ (Mirroring(v)' <=> Mirroring(v))
    BY <1>1, <1>2, <1>3 DEF Ingesting, Mirroring, Rests
  <2>3. \A b \in Bundles : holder'[b] = v <=> holder[b] = v
    BY <1>1, <1>3, MirrorAssumption
  <2> QED
    BY <1>1, <2>1, <2>2, <2>3 DEF Attempt
<1> QED
  BY <1>5, <1>6, <1>7, <1>8, <1>9, <1>10 DEF MirrorInv

LEMMA BeginWriteKeepsInv ==
    ASSUME MirrorInv, NEW w \in Workers, BeginWrite(w)
    PROVE  MirrorInv'
<1> DEFINE p == First(todo[w])
           body == NextBody(p, job[w])
<1>1. /\ pc[w] = "ingest" /\ todo[w] # {} /\ tree[Bundle(w)][p] # Torn
      /\ tx' = [tx EXCEPT ![w].got = {body}]
      /\ tree' = [tree EXCEPT ![Bundle(w)][p] = Torn]
      /\ pc' = [pc EXCEPT ![w] = "writing"]
      /\ UNCHANGED <<holder, items, links, stage, tries, stale, strays, job, todo, request, archives, faults>>
  BY DEF BeginWrite, dbVars, serverVars, apiVars
<1>2. ShapeInv /\ PlaceInv /\ LocksInv /\ Progress(w) /\ job[w] \in Jobs /\ Bundle(w) \in Bundles
  BY <1>1, JobAtHand DEF MirrorInv, WorkerInv
<1>3. p \in Pages /\ p \in todo[w] /\ p \in DOMAIN Plans[job[w]]
  BY <1>1, <1>2, FirstIsMember DEF ShapeInv, Progress, Ingesting
<1> HIDE DEF p
<1>4. body \in Body /\ body.job = job[w]
  <2>1. Plans[job[w]][p] \in SUBSET Slugs
    BY <1>2, <1>3, MirrorAssumption
  <2>2. tree[BundleOf[job[w]]][p] = Absent \/ tree[BundleOf[job[w]]][p].rev \in Nat
    BY <1>1, <1>2, <1>3 DEF ShapeInv, Bundle, Body
  <2> QED
    BY <1>2, <1>3, <2>1, <2>2 DEF NextBody, Body
<1> HIDE DEF body
<1>5. /\ tx'[w] \in Transaction /\ tx'[w].rank = tx[w].rank /\ tx'[w].got = {body}
      /\ tx'[w].row = tx[w].row /\ tx'[w].rows = tx[w].rows /\ tx'[w].del = tx[w].del
      /\ tx'[w].new = tx[w].new /\ tx'[w].after = tx[w].after
      /\ \A v \in Workers \ {w} : tx'[v] = tx[v]
  <2>1. tx[w] \in Transaction
    BY <1>2 DEF ShapeInv
  <2>2. tx'[w] = [tx[w] EXCEPT !.got = {body}] /\ \A v \in Workers \ {w} : tx'[v] = tx[v]
    BY <1>1, <1>2 DEF ShapeInv
  <2> QED
    BY <1>4, <2>1, <2>2 DEF Transaction
<1>6. /\ pc'[w] = "writing" /\ \A v \in Workers \ {w} : pc'[v] = pc[v]
  BY <1>1, <1>2 DEF ShapeInv
<1>7. ShapeInv'
  <2>1. tree' \in [Bundles -> [Pages -> Body \union {Absent, Torn}]]
    BY <1>1, <1>2, <1>3 DEF ShapeInv
  <2>2. tx' \in [Workers -> Transaction]
    BY <1>1, <1>2, <1>5 DEF ShapeInv
  <2> QED
    BY <1>1, <1>2, <2>1, <2>2 DEF ShapeInv
<1>8. /\ tree'[Bundle(w)][p] = Torn
      /\ \A b \in Bundles, q \in Pages :
            b # Bundle(w) \/ q # p => tree'[b][q] = tree[b][q]
  BY <1>1, <1>2, <1>3 DEF ShapeInv
<1>9. TreeKeeps
  BY <1>8, MarkersAssumption DEF TreeKeeps
<1>10. PlaceInv'
  BY <1>1, <1>2, <1>8, MarkersAreNoRow DEF PlaceInv
<1>11. LocksInv'
  BY <1>1, <1>2, <1>5 DEF LocksInv, Locks
<1>12. \A v \in Workers \ {w} : Rests(v)
  BY <1>1, <1>5, <1>6 DEF Rests
<1>13. WorkerInv(w)'
  <2>1. tx[w].rank = 0 /\ Blank(tx[w])
    BY <1>1, <1>2 DEF Progress
  <2> QED
    BY <1>1, <1>2, <1>4, <1>5, <1>6, <2>1
       DEF WorkerInv, Progress, Follows, Ingesting, Mirroring, Blank
<1>14. Ingesting(w) /\ Ingesting(w)'
  BY <1>1, <1>6 DEF Ingesting
<1>15. UNCHANGED <<holder, items, stage, tries, stale, strays, job>>
  BY <1>1
<1> QED
  BY <1>7, <1>9, <1>10, <1>11, <1>12, <1>13, <1>14, <1>15, StepKeepsInv

\* The text that is written differs from what was composed in what it says of its attempt.
LEMMA WrittenIs ==
    ASSUME NEW w, NEW b \in Body
    PROVE  /\ Written(w, b) \in Body /\ (Written(w, b).late <=> w \in stale)
           /\ Written(w, b).page = b.page /\ Written(w, b).job = b.job
           /\ Written(w, b).rev = b.rev /\ Written(w, b).links = b.links
<1>1. CASE w \in stale
  <2>1. (w \in stale) = TRUE
    BY <1>1
  <2>2. Written(w, b) = [b EXCEPT !.late = TRUE]
    BY <2>1 DEF Written
  <2> QED
    BY <1>1, <2>2 DEF Body
<1>2. CASE w \notin stale
  <2>1. (w \in stale) = FALSE
    BY <1>2
  <2>2. Written(w, b) = [b EXCEPT !.late = FALSE]
    BY <2>1 DEF Written
  <2> QED
    BY <1>2, <2>2 DEF Body
<1> QED
  BY <1>1, <1>2

\* What a write puts into the bundle, whole or in part.
LEMMA WrittenKeeps ==
    ASSUME MirrorInv, NEW w \in Workers, pc[w] = "writing", NEW b \in Body, b.job = job[w],
           tree' = [tree EXCEPT ![Bundle(w)][b.page] = Written(w, b)]
    PROVE  /\ TreeKeeps /\ tree' \in [Bundles -> [Pages -> Body \union {Absent, Torn}]]
           /\ \A c \in Bundles : \A p \in Pages : tree'[c][p] \in Body => tree'[c][p].page = p
<1> DEFINE t == Written(w, b)
<1>1. ShapeInv /\ PlaceInv /\ Bundle(w) \in Bundles
      /\ (w \in stale \/ stage[job[w]] = "ingesting")
  BY JobAtHand DEF MirrorInv, Attempt, Ingesting
<1>2. t \in Body /\ t.page = b.page /\ t.job = job[w] /\ (t.late <=> w \in stale) /\ b.page \in Pages
  BY WrittenIs DEF Body
<1> HIDE DEF t
<1>3. tree' = [tree EXCEPT ![Bundle(w)][t.page] = t]
  BY <1>2 DEF t
<1>4. tree' \in [Bundles -> [Pages -> Body \union {Absent, Torn}]]
  BY <1>1, <1>2, <1>3 DEF ShapeInv
<1>5. /\ tree'[Bundle(w)][t.page] = t
      /\ \A c \in Bundles, q \in Pages :
            c # Bundle(w) \/ q # t.page => tree'[c][q] = tree[c][q]
  BY <1>1, <1>2, <1>3 DEF ShapeInv
<1>6. TreeKeeps
  <2>1. t.late \/ stage[t.job] = "ingesting"
    BY <1>1, <1>2
  <2> QED
    BY <1>2, <1>5, <2>1, MarkersAreNoRow DEF TreeKeeps
<1>7. \A c \in Bundles : \A p \in Pages : tree'[c][p] \in Body => tree'[c][p].page = p
  BY <1>1, <1>2, <1>5 DEF PlaceInv
<1> QED
  BY <1>4, <1>6, <1>7

LEMMA FlushPartKeepsInv ==
    ASSUME MirrorInv, NEW w \in Workers, FlushPart(w)
    PROVE  MirrorInv'
<1>0. PICK b \in tx[w].got : \E upToCut \in SUBSET b.links :
          /\ tree' = [tree EXCEPT ![Bundle(w)][b.page] = Written(w, [b EXCEPT !.links = upToCut])]
          /\ tx' = [tx EXCEPT ![w].got = {[b EXCEPT !.rev = @ + 1]}]
  BY DEF FlushPart
<1>1. PICK upToCut \in SUBSET b.links :
          /\ tree' = [tree EXCEPT ![Bundle(w)][b.page] = Written(w, [b EXCEPT !.links = upToCut])]
          /\ tx' = [tx EXCEPT ![w].got = {[b EXCEPT !.rev = @ + 1]}]
  BY <1>0
<1>2. /\ pc[w] = "writing" /\ Fault("flush")
      /\ UNCHANGED <<holder, items, links, stage, tries, stale, strays, pc, job, todo, request,
                     archives>>
  BY DEF FlushPart, dbVars, serverVars, apiVars
<1>3. ShapeInv /\ PlaceInv /\ LocksInv /\ Progress(w)
  BY DEF MirrorInv, WorkerInv
<1>4. b \in Body /\ b.job = job[w]
  BY <1>1, <1>2, <1>3 DEF ShapeInv, Transaction, Progress
<1> DEFINE part == [b EXCEPT !.links = upToCut]
           whole == [b EXCEPT !.rev = b.rev + 1]
<1>5. part \in Body /\ part.page = b.page /\ part.job = job[w]
      /\ whole \in Body /\ whole.job = job[w]
  BY <1>1, <1>4 DEF Body
<1>6. tree' = [tree EXCEPT ![Bundle(w)][part.page] = Written(w, part)]
      /\ tx' = [tx EXCEPT ![w].got = {whole}]
  BY <1>1, <1>5
<1> HIDE DEF part, whole
<1>7. /\ TreeKeeps /\ tree' \in [Bundles -> [Pages -> Body \union {Absent, Torn}]]
      /\ \A c \in Bundles : \A p \in Pages : tree'[c][p] \in Body => tree'[c][p].page = p
  BY <1>2, <1>5, <1>6, WrittenKeeps
<1>8. /\ tx'[w] \in Transaction /\ tx'[w].rank = tx[w].rank /\ tx'[w].got = {whole}
      /\ tx'[w].row = tx[w].row /\ tx'[w].rows = tx[w].rows /\ tx'[w].del = tx[w].del
      /\ tx'[w].new = tx[w].new /\ tx'[w].after = tx[w].after
      /\ \A v \in Workers \ {w} : tx'[v] = tx[v]
  <2>1. tx[w] \in Transaction
    BY <1>3 DEF ShapeInv
  <2>2. tx'[w] = [tx[w] EXCEPT !.got = {whole}] /\ \A v \in Workers \ {w} : tx'[v] = tx[v]
    BY <1>3, <1>6 DEF ShapeInv
  <2> QED
    BY <1>5, <2>1, <2>2 DEF Transaction
<1>9. ShapeInv'
  <2>1. faults' \in 0..MaxFaults
    BY <1>2, <1>3, FaultType
  <2>2. tx' \in [Workers -> Transaction]
    BY <1>3, <1>6, <1>8 DEF ShapeInv
  <2> QED
    BY <1>2, <1>3, <1>7, <2>1, <2>2 DEF ShapeInv
<1>10. PlaceInv'
  BY <1>2, <1>3, <1>7 DEF PlaceInv
<1>11. LocksInv' /\ \A v \in Workers \ {w} : Rests(v)
  BY <1>2, <1>3, <1>8 DEF LocksInv, Locks, Rests
<1>12. WorkerInv(w)'
  <2>1. Blank(tx'[w]) /\ tx'[w].rank = 0
    BY <1>2, <1>3, <1>8 DEF Progress, Blank
  <2> QED
    BY <1>2, <1>3, <1>5, <1>8, <2>1 DEF WorkerInv, Progress, Follows, Ingesting, Mirroring, Blank
<1>13. Ingesting(w) /\ Ingesting(w)'
  BY <1>2 DEF Ingesting
<1>14. UNCHANGED <<holder, items, stage, tries, stale, strays, job>>
  BY <1>2
<1> QED
  BY <1>7, <1>9, <1>10, <1>11, <1>12, <1>13, <1>14, StepKeepsInv

LEMMA EndWriteKeepsInv ==
    ASSUME MirrorInv, NEW w \in Workers, EndWrite(w)
    PROVE  MirrorInv'
<1>1. PICK b \in tx[w].got : tree' = [tree EXCEPT ![Bundle(w)][b.page] = Written(w, b)]
  BY DEF EndWrite
<1>2. /\ pc[w] = "writing"
      /\ todo' = [todo EXCEPT ![w] = @ \ {First(@)}]
      /\ tx' = [tx EXCEPT ![w] = NoTx]
      /\ pc' = [pc EXCEPT ![w] = "ingest"]
      /\ UNCHANGED <<holder, items, links, stage, tries, stale, strays, job, request, archives, faults>>
  BY DEF EndWrite, dbVars, serverVars, apiVars
<1>3. ShapeInv /\ PlaceInv /\ LocksInv /\ Progress(w)
  BY DEF MirrorInv, WorkerInv
<1>4. b \in Body /\ b.job = job[w]
  BY <1>1, <1>2, <1>3 DEF ShapeInv, Transaction, Progress
<1>5. /\ pc'[w] = "ingest" /\ todo'[w] \subseteq todo[w] /\ tx'[w] = NoTx
      /\ \A v \in Workers \ {w} : Rests(v)
  BY <1>2, <1>3 DEF ShapeInv, Rests
<1>6. /\ TreeKeeps /\ tree' \in [Bundles -> [Pages -> Body \union {Absent, Torn}]]
      /\ \A c \in Bundles : \A p \in Pages : tree'[c][p] \in Body => tree'[c][p].page = p
  BY <1>1, <1>2, <1>4, WrittenKeeps
<1>7. ShapeInv'
  BY <1>2, <1>3, <1>6, NoTxType DEF ShapeInv
<1>8. PlaceInv'
  BY <1>2, <1>3, <1>6 DEF PlaceInv
<1>9. LocksInv'
  <2>1. DOMAIN tx'[w].rows = {}
    BY <1>5, NoTxType DEF Blank
  <2> QED
    BY <1>2, <1>3, <1>5, <2>1, LocksShrink DEF Rests
<1>10. WorkerInv(w)'
  BY <1>2, <1>3, <1>5, NoTxType DEF WorkerInv, Progress, Follows, Ingesting, Mirroring, Blank
<1>11. Ingesting(w) /\ Ingesting(w)'
  BY <1>2, <1>5 DEF Ingesting
<1>12. UNCHANGED <<holder, items, stage, tries, stale, strays, job>>
  BY <1>2
<1> QED
  BY <1>5, <1>6, <1>7, <1>8, <1>9, <1>10, <1>11, <1>12, StepKeepsInv

LEMMA EndIngestKeepsInv ==
    ASSUME MirrorInv, NEW w \in Workers, EndIngest(w)
    PROVE  MirrorInv'
<1>1. /\ pc[w] = "ingest" /\ Leave(w, "mirror", 0)
      /\ UNCHANGED <<tree, items, links, tx, request, archives, faults>>
  BY DEF EndIngest, dbVars, apiVars
<1>2. ShapeInv /\ PlaceInv /\ LocksInv /\ Progress(w) /\ 0 < MaxAttempts /\ 0 \in 0..MaxAttempts
      /\ job[w] \in Jobs
  BY <1>1, JobAtHand, MirrorAssumption DEF MirrorInv, WorkerInv
<1>3. /\ ServerInv' /\ \A v \in Workers : Attempt(v)'
      /\ pc' \in [Workers -> {"idle", "ingest", "writing", "read", "rows", "write", "commit"}]
      /\ job' \in [Workers -> Jobs \union {NoOne}] /\ todo' \in [Workers -> SUBSET Pages]
      /\ stale' \subseteq Workers /\ strays' = strays /\ holder' \in [Bundles -> Workers \union {NoOne}]
      /\ stage' \in [Jobs -> {"ingest", "ingesting", "mirror", "mirroring", "done", "failed"}]
      /\ tries' \in [Jobs -> 0..MaxAttempts]
      /\ pc'[w] = "idle" /\ job'[w] = NoOne /\ todo'[w] = {}
      /\ \A v \in Workers \ {w} : pc'[v] = pc[v] /\ job'[v] = job[v] /\ todo'[v] = todo[v]
  BY <1>1, <1>2, LeaveKeepsAttempts DEF Mirroring
<1>4. ShapeInv'
  BY <1>1, <1>2, <1>3 DEF ShapeInv
<1>5. PlaceInv' /\ LocksInv' /\ TreeKeeps /\ ItemsKeep
  BY <1>1, <1>2 DEF PlaceInv, LocksInv, Locks, TreeKeeps, ItemsKeep, Texts
<1>6. \A i \in Jobs : stage'[i] = "done" => stage[i] = "done"
  BY <1>1, <1>2 DEF Leave, ShapeInv
<1>7. DoneIsServed'
  BY <1>5, <1>6, DoneKeeps
<1>8. WorkerInv(w)'
  <2>1. tx'[w].rank = 0 /\ tx'[w].got = {} /\ Blank(tx'[w])
    BY <1>1, <1>2 DEF Progress
  <2> QED
    BY <1>3, <2>1 DEF WorkerInv, Progress, Follows, Ingesting, Mirroring, Blank
<1>9. \A v \in Workers \ {w} : WorkerInv(v)'
  <2>1. \A v \in Workers \ {w} : Rests(v)
    BY <1>1, <1>3 DEF Rests
  <2> QED
    BY <1>1, <1>5, <2>1, RestingWorker
<1> QED
  BY <1>3, <1>4, <1>5, <1>7, <1>8, <1>9 DEF MirrorInv

-----------------------------------------------------------------------------
(* The mirror.                                                             *)

LEMMA StartMirrorKeepsInv ==
    ASSUME MirrorInv, NEW w \in Workers, NEW j \in Jobs, StartMirror(w, j)
    PROVE  MirrorInv'
<1>1. /\ pc[w] = "idle" /\ stage[j] = "mirror"
      /\ stage' = [stage EXCEPT ![j] = "mirroring"] /\ tries' = [tries EXCEPT ![j] = @ + 1]
      /\ pc' = [pc EXCEPT ![w] = "read"] /\ job' = [job EXCEPT ![w] = j]
      /\ UNCHANGED <<tree, holder, items, links, todo, tx, stale, strays, request, archives, faults>>
  BY DEF StartMirror, bundleVars, dbVars, apiVars
<1>2. ShapeInv /\ PlaceInv /\ LocksInv /\ WorkerInv(w)
  BY DEF MirrorInv
<1>3. ServerInv' /\ (\A v \in Workers : Attempt(v)') /\ tries' \in [Jobs -> 0..MaxAttempts]
  BY <1>1, StartKeepsAttempts
<1>4. /\ pc'[w] = "read" /\ job'[w] = j /\ \A v \in Workers \ {w} : Rests(v)
  BY <1>1, <1>2 DEF ShapeInv, Rests
<1>5. ShapeInv'
  BY <1>1, <1>2, <1>3 DEF ShapeInv
<1>6. PlaceInv' /\ LocksInv' /\ TreeKeeps /\ ItemsKeep
  BY <1>1, <1>2 DEF PlaceInv, LocksInv, Locks, TreeKeeps, ItemsKeep, Texts
<1>7. tx'[w].rank = 0 /\ tx'[w].got = {} /\ Blank(tx'[w]) /\ todo'[w] = {}
  BY <1>1, <1>2 DEF WorkerInv, Progress
<1>8. WorkerInv(w)'
  <2>1. Covers(w)'
    <3>1. \A p \in Pages : ~ (Rank[TypeOf(p)] <= 0)
      BY PageParts
    <3>2. \A p \in Winners(Bundle(w))' : ~ (Rank[TypeOf(p)] <= 0)
      BY <3>1 DEF Winners
    <3> QED
      BY <1>4, <1>7, <3>2 DEF Covers
  <2> QED
    BY <1>4, <1>7, <2>1 DEF WorkerInv, Progress, Follows, Ingesting, Mirroring, Blank
<1>9. \A v \in Workers \ {w} : WorkerInv(v)'
  BY <1>1, <1>4, <1>6, RestingWorker
<1>10. DoneIsServed'
  <2>1. \A i \in Jobs : stage'[i] = "done" => stage[i] = "done"
    BY <1>1, <1>2 DEF ShapeInv
  <2> QED
    BY <1>6, <2>1, DoneKeeps
<1> QED
  BY <1>3, <1>5, <1>6, <1>8, <1>9, <1>10 DEF MirrorInv

\* A statement of a mirror before its commit is seen by nobody else.
LEMMA StatementKeepsInv ==
    ASSUME MirrorInv, NEW w \in Workers, Mirroring(w), Mirroring(w)',
           UNCHANGED <<tree, holder, items, links, stage, tries, stale, strays, job, request,
                       archives, faults>>,
           \A v \in Workers \ {w} : pc'[v] = pc[v] /\ todo'[v] = todo[v] /\ tx'[v] = tx[v],
           pc' \in [Workers -> {"idle", "ingest", "writing", "read", "rows", "write", "commit"}],
           todo' \in [Workers -> SUBSET Pages], tx' \in [Workers -> Transaction],
           \A s \in DOMAIN tx'[w].rows : s \in DOMAIN tx[w].rows \/ RowFree(w, s),
           Progress(w)', Follows(w)', Covers(w)'
    PROVE  MirrorInv'
<1>1. ShapeInv /\ PlaceInv /\ LocksInv
  BY DEF MirrorInv
<1>2. ShapeInv' /\ PlaceInv' /\ TreeKeeps
  BY <1>1 DEF ShapeInv, PlaceInv, TreeKeeps
<1>3. LocksInv'
  BY <1>1 DEF LocksInv, Locks, RowFree
<1>4. \A v \in Workers \ {w} : Rests(v)
  BY DEF Rests
<1>5. WorkerInv(w)'
  BY DEF WorkerInv
<1> QED
  BY <1>2, <1>3, <1>4, <1>5, StepKeepsInv

LEMMA ListPagesKeepsInv ==
    ASSUME MirrorInv, NEW w \in Workers, ListPages(w)
    PROVE  MirrorInv'
<1> DEFINE r == tx[w].rank + 1
<1>1. /\ pc[w] = "read" /\ todo[w] = {} /\ r <= 3
      /\ tx' = [tx EXCEPT ![w].rank = r]
      /\ todo' = [todo EXCEPT ![w] =
                     {p \in Pages : Rank[TypeOf(p)] = r /\ tree[Bundle(w)][p] # Absent}]
      /\ UNCHANGED <<tree, holder, items, links, stage, tries, stale, strays, pc, job, request,
                     archives, faults>>
  BY DEF ListPages, bundleVars, dbVars, serverVars, apiVars
<1>2. ShapeInv /\ Progress(w) /\ Follows(w) /\ Covers(w) /\ tx[w] \in Transaction
      /\ Mirroring(w) /\ Bundle(w)' = Bundle(w)
  BY <1>1 DEF MirrorInv, WorkerInv, ShapeInv, Mirroring, Bundle
<1>3. r \in 0..3 /\ tx[w].rank \in Nat
  BY <1>1, <1>2 DEF Transaction
<1>4. /\ todo'[w] = {p \in Pages : Rank[TypeOf(p)] = r /\ tree[Bundle(w)][p] # Absent}
      /\ tx'[w] = [tx[w] EXCEPT !.rank = r]
      /\ \A v \in Workers \ {w} : pc'[v] = pc[v] /\ todo'[v] = todo[v] /\ tx'[v] = tx[v]
  BY <1>1, <1>2 DEF ShapeInv
<1> HIDE DEF r
<1>5. /\ tx'[w] \in Transaction /\ tx'[w].rank = r
      /\ tx'[w].got = tx[w].got /\ tx'[w].row = tx[w].row /\ tx'[w].rows = tx[w].rows
      /\ tx'[w].del = tx[w].del /\ tx'[w].new = tx[w].new /\ tx'[w].after = tx[w].after
  BY <1>2, <1>3, <1>4 DEF Transaction
<1>6. tx' \in [Workers -> Transaction] /\ todo' \in [Workers -> SUBSET Pages]
  BY <1>1, <1>2, <1>4, <1>5 DEF ShapeInv
<1>7. \A b \in tx[w].got : /\ tree[Bundle(w)][b.page] # Absent
                           /\ Rank[TypeOf(b.page)] <= tx[w].rank
                           /\ Rank[TypeOf(b.page)] < r
  <2>1. \A b \in tx[w].got : Rank[TypeOf(b.page)] \in Nat
    BY <1>2, PageParts DEF Transaction, Body
  <2> QED
    BY <1>2, <1>3, <2>1 DEF Progress, r
<1>8. Progress(w)'
  <2>1. Blank(tx[w]) /\ Blank(tx'[w])
    BY <1>1, <1>2, <1>5 DEF Progress, Blank
  <2>2. \A p \in todo'[w] : /\ tree[Bundle(w)][p] # Absent /\ Rank[TypeOf(p)] = r
                            /\ \A b \in tx[w].got : b.page # p
    BY <1>3, <1>4, <1>7
  <2>3. \A b \in tx[w].got : Rank[TypeOf(b.page)] <= r
    <3>1. \A b \in tx[w].got : Rank[TypeOf(b.page)] \in Nat
      BY <1>2, PageParts DEF Transaction, Body
    <3> QED
      BY <1>3, <1>7, <3>1
  <2> QED
    BY <1>1, <1>2, <1>5, <1>7, <2>1, <2>2, <2>3 DEF Progress, Ingesting, Mirroring
<1>9. Follows(w)'
  <2>1. tx'[w].row = Absent /\ DOMAIN tx'[w].rows = {}
    BY <1>1, <1>2, <1>5 DEF Progress, Blank
  <2> QED
    BY <2>1 DEF Follows
<1>10. Covers(w)'
  <2> SUFFICES ASSUME NEW p \in Winners(Bundle(w)), tree[Bundle(w)][p].job = job[w],
                      ~tree[Bundle(w)][p].late,
                      Rank[TypeOf(p)] <= r
               PROVE  p \in todo'[w] \/ tree[Bundle(w)][p] \in tx[w].got
    BY <1>1, <1>2, <1>5 DEF Covers, Winners
  <2>1. p \in Pages /\ tree[Bundle(w)][p] # Absent /\ Rank[TypeOf(p)] \in Nat
    BY PageParts DEF Winners
  <2>2. CASE Rank[TypeOf(p)] = r
    BY <1>4, <2>1, <2>2
  <2>3. CASE Rank[TypeOf(p)] # r
    <3>1. Rank[TypeOf(p)] <= tx[w].rank
      BY <1>3, <2>1, <2>3 DEF r
    <3> QED
      BY <1>1, <1>2, <3>1 DEF Covers
  <2> QED
    BY <2>2, <2>3
<1>11. Mirroring(w)' /\ pc' \in [Workers -> {"idle", "ingest", "writing", "read", "rows", "write", "commit"}]
  BY <1>1, <1>2 DEF Mirroring, ShapeInv
<1> QED
  BY <1>1, <1>2, <1>4, <1>5, <1>6, <1>8, <1>9, <1>10, <1>11, StatementKeepsInv

LEMMA ReadPageKeepsInv ==
    ASSUME MirrorInv, NEW w \in Workers, ReadPage(w)
    PROVE  MirrorInv'
<1> DEFINE p == First(todo[w])
           page == tree[Bundle(w)][p]
           got == IF SlugOf(p) \in Mirrored(tx[w]) THEN tx[w].got ELSE tx[w].got \union {page}
<1>1. /\ pc[w] = "read" /\ todo[w] # {}
      /\ page = Torn => SlugOf(p) \in Mirrored(tx[w])
      /\ tx' = [tx EXCEPT ![w].got = got]
      /\ todo' = [todo EXCEPT ![w] = todo[w] \ {p}]
      /\ UNCHANGED <<tree, holder, items, links, stage, tries, stale, strays, pc, job, request,
                     archives, faults>>
  BY DEF ReadPage, bundleVars, dbVars, serverVars, apiVars
<1>2. ShapeInv /\ PlaceInv /\ Progress(w) /\ Follows(w) /\ Covers(w) /\ tx[w] \in Transaction
      /\ Mirroring(w) /\ Bundle(w)' = Bundle(w) /\ Bundle(w) \in Bundles
  BY <1>1, JobAtHand DEF MirrorInv, WorkerInv, ShapeInv, Mirroring, Bundle
<1>3. p \in todo[w] /\ p \in Pages /\ page # Absent /\ Rank[TypeOf(p)] = tx[w].rank
      /\ \A b \in tx[w].got : b.page # p
  BY <1>1, <1>2, FirstIsMember DEF Progress, ShapeInv
<1> HIDE DEF p
<1>4. SlugOf(p) \notin Mirrored(tx[w]) => page \in Body /\ page.page = p
  BY <1>1, <1>2, <1>3 DEF ShapeInv, PlaceInv
<1> HIDE DEF page
<1>5. got \subseteq Body /\ tx[w].got \subseteq got /\ \A b \in got : b \in tx[w].got \/ b = page
  BY <1>2, <1>4 DEF Transaction
<1>6. /\ todo'[w] = todo[w] \ {p} /\ tx'[w] = [tx[w] EXCEPT !.got = got]
      /\ \A v \in Workers \ {w} : pc'[v] = pc[v] /\ todo'[v] = todo[v] /\ tx'[v] = tx[v]
  BY <1>1, <1>2 DEF ShapeInv
<1> HIDE DEF got
<1>7. /\ tx'[w] \in Transaction /\ tx'[w].rank = tx[w].rank
      /\ tx'[w].got = got /\ tx'[w].row = tx[w].row /\ tx'[w].rows = tx[w].rows
      /\ tx'[w].del = tx[w].del /\ tx'[w].new = tx[w].new /\ tx'[w].after = tx[w].after
  BY <1>2, <1>5, <1>6 DEF Transaction
<1>8. tx' \in [Workers -> Transaction] /\ todo' \in [Workers -> SUBSET Pages]
  BY <1>1, <1>2, <1>6, <1>7 DEF ShapeInv
<1>9. \A b \in got : /\ tree[Bundle(w)][b.page] # Absent
                     /\ Rank[TypeOf(b.page)] <= tx[w].rank
                     /\ b.page \notin todo'[w]
  <2> SUFFICES ASSUME NEW b \in got
               PROVE  /\ tree[Bundle(w)][b.page] # Absent
                      /\ Rank[TypeOf(b.page)] <= tx[w].rank
                      /\ b.page \notin todo'[w]
    OBVIOUS
  <2>1. CASE b \in tx[w].got
    BY <1>1, <1>2, <1>6, <2>1 DEF Progress
  <2>2. CASE b \notin tx[w].got
    <3>1. b = page /\ page.page = p
      BY <1>4, <1>5, <2>2 DEF got
    <3>2. Rank[TypeOf(p)] \in Nat
      BY <1>3, PageParts
    <3> QED
      BY <1>3, <1>6, <3>1, <3>2 DEF page
  <2> QED
    BY <2>1, <2>2
<1>10. \A b, c \in got : SlugOf(b.page) = SlugOf(c.page) => b = c
  <2>1. SlugOf(p) \notin Mirrored(tx[w]) =>
          page.page = p /\ \A b \in tx[w].got : SlugOf(b.page) # SlugOf(p)
    BY <1>4 DEF Mirrored
  <2>2. \A b, c \in tx[w].got : SlugOf(b.page) = SlugOf(c.page) => b = c
    BY <1>2 DEF Progress
  <2> QED
    BY <2>1, <2>2 DEF got
<1>11. Blank(tx'[w])
  BY <1>1, <1>2, <1>7 DEF Progress, Blank
<1>12. Progress(w)'
  BY <1>1, <1>2, <1>6, <1>7, <1>9, <1>10, <1>11 DEF Progress, Ingesting, Mirroring, Blank
<1>13. Follows(w)'
  BY <1>11 DEF Follows, Blank
<1>14. Covers(w)'
  <2> SUFFICES ASSUME NEW q \in Winners(Bundle(w)), tree[Bundle(w)][q].job = job[w],
                      ~tree[Bundle(w)][q].late,
                      Rank[TypeOf(q)] <= tx[w].rank
               PROVE  q \in todo'[w] \/ tree[Bundle(w)][q] \in got
    BY <1>1, <1>2, <1>7 DEF Covers, Winners
  <2>1. q \in todo[w] \/ tree[Bundle(w)][q] \in tx[w].got
    BY <1>1, <1>2 DEF Covers
  <2>2. CASE q # p
    BY <1>5, <1>6, <2>1, <2>2
  <2>3. CASE q = p /\ SlugOf(p) \notin Mirrored(tx[w])
    BY <2>3 DEF got, page
  <2>4. CASE q = p /\ SlugOf(p) \in Mirrored(tx[w])
    <3>1. PICK b \in tx[w].got : SlugOf(b.page) = SlugOf(p)
      BY <2>4 DEF Mirrored
    <3>2. b.page \in Pages /\ tree[Bundle(w)][b.page] # Absent
          /\ Rank[TypeOf(b.page)] <= Rank[TypeOf(p)] /\ b.page # p
      BY <1>2, <1>3, <3>1 DEF Progress, Transaction, Body
    <3>3. Before(p, b.page)
      BY <2>4, <3>1, <3>2 DEF Winners
    <3>4. Rank[TypeOf(p)] = Rank[TypeOf(b.page)]
      <4>1. Rank[TypeOf(p)] \in Nat /\ Rank[TypeOf(b.page)] \in Nat
        BY <1>3, <3>2, PageParts
      <4> QED
        BY <3>2, <3>3, <4>1 DEF Before
    <3> QED
      BY <1>3, <3>1, <3>2, <3>4, RankIsType
  <2> QED
    BY <2>2, <2>3, <2>4
<1>15. Mirroring(w)' /\ pc' \in [Workers -> {"idle", "ingest", "writing", "read", "rows", "write", "commit"}]
  BY <1>1, <1>2 DEF Mirroring, ShapeInv
<1>16. \A s \in DOMAIN tx'[w].rows : s \in DOMAIN tx[w].rows
  BY <1>7
<1> QED
  BY <1>1, <1>2, <1>6, <1>8, <1>12, <1>13, <1>14, <1>15, <1>16, StatementKeepsInv

LEMMA EndCollectKeepsInv ==
    ASSUME MirrorInv, NEW w \in Workers, EndCollect(w)
    PROVE  MirrorInv'
<1>1. /\ pc[w] = "read" /\ todo[w] = {} /\ tx[w].rank = 3
      /\ pc' = [pc EXCEPT ![w] = "rows"]
      /\ todo' = [todo EXCEPT ![w] = {b.page : b \in tx[w].got}]
      /\ UNCHANGED <<tree, holder, items, links, stage, tries, stale, strays, job, tx, request,
                     archives, faults>>
  BY DEF EndCollect, bundleVars, dbVars, serverVars, apiVars
<1>2. ShapeInv /\ PlaceInv /\ Progress(w) /\ Follows(w) /\ Covers(w) /\ tx[w] \in Transaction
      /\ Mirroring(w) /\ Bundle(w)' = Bundle(w) /\ Bundle(w) \in Bundles
  BY <1>1, JobAtHand DEF MirrorInv, WorkerInv, ShapeInv, Mirroring, Bundle
<1>3. {b.page : b \in tx[w].got} \subseteq Pages
  BY <1>2 DEF Transaction, Body
<1>4. /\ pc'[w] = "rows" /\ todo'[w] = {b.page : b \in tx[w].got} /\ tx'[w] = tx[w]
      /\ \A v \in Workers \ {w} : pc'[v] = pc[v] /\ todo'[v] = todo[v] /\ tx'[v] = tx[v]
  BY <1>1, <1>2 DEF ShapeInv
<1>5. /\ pc' \in [Workers -> {"idle", "ingest", "writing", "read", "rows", "write", "commit"}]
      /\ todo' \in [Workers -> SUBSET Pages] /\ tx' \in [Workers -> Transaction]
      /\ Mirroring(w)'
  BY <1>1, <1>2, <1>3, <1>4 DEF ShapeInv, Mirroring
<1>6. Progress(w)' /\ Follows(w)'
  BY <1>1, <1>2, <1>4 DEF Progress, Follows, Ingesting, Mirroring, Blank
<1>7. Covers(w)'
  <2> SUFFICES ASSUME NEW p \in Winners(Bundle(w)), tree[Bundle(w)][p].job = job[w],
                      ~tree[Bundle(w)][p].late
               PROVE  tree[Bundle(w)][p] \in tx[w].got /\ p \in todo'[w]
    BY <1>1, <1>2, <1>4 DEF Covers, Winners
  <2>1. p \in Pages /\ tree[Bundle(w)][p] \in Body /\ Rank[TypeOf(p)] <= 3
    <3>1. p \in Pages /\ tree[Bundle(w)][p] \notin {Absent, Torn}
      BY DEF Winners
    <3>2. Rank[TypeOf(p)] \in 1..3
      BY <3>1, PageParts
    <3> QED
      BY <1>2, <3>1, <3>2 DEF ShapeInv
  <2>2. tree[Bundle(w)][p] \in tx[w].got
    BY <1>1, <1>2, <2>1 DEF Covers
  <2>3. tree[Bundle(w)][p].page = p
    BY <1>2, <2>1 DEF PlaceInv
  <2> QED
    BY <1>4, <2>2, <2>3
<1> QED
  BY <1>1, <1>2, <1>4, <1>5, <1>6, <1>7, StatementKeepsInv

\* The page at hand is done with: it is among its item's texts.
LEMMA SkipRowKeepsInv ==
    ASSUME MirrorInv, NEW w \in Workers, SkipRow(w)
    PROVE  MirrorInv'
<1> DEFINE s == SlugOf(Page(w).page)
<1>1. /\ pc[w] = "rows" /\ todo[w] # {}
      /\ items[s] # Absent /\ Current(items[s]) = Page(w)
      /\ todo' = [todo EXCEPT ![w] = todo[w] \ {First(todo[w])}]
      /\ UNCHANGED <<tree, holder, items, links, stage, tries, stale, strays, pc, job, tx, request,
                     archives, faults>>
  BY DEF SkipRow, Skips, SameText, bundleVars, dbVars, serverVars, apiVars
<1>2. ShapeInv /\ PlaceInv /\ Progress(w) /\ Follows(w) /\ Covers(w) /\ tx[w] \in Transaction
      /\ Mirroring(w) /\ Bundle(w)' = Bundle(w) /\ Bundle(w) \in Bundles
  BY <1>1, JobAtHand DEF MirrorInv, WorkerInv, ShapeInv, Mirroring, Bundle
<1>3. /\ Page(w) \in tx[w].got /\ Page(w).page = First(todo[w]) /\ s \in Slugs
  BY <1>1, <1>2, PageAtHand
<1>4. Page(w) \in Texts(items[s])
  BY <1>1, <1>2, <1>3, ItemParts DEF ShapeInv, PlaceInv
<1> HIDE DEF s
<1>5. /\ todo'[w] = todo[w] \ {Page(w).page} /\ tx'[w] = tx[w]
      /\ \A v \in Workers \ {w} : pc'[v] = pc[v] /\ todo'[v] = todo[v] /\ tx'[v] = tx[v]
  BY <1>1, <1>2, <1>3 DEF ShapeInv
<1>6. /\ pc' \in [Workers -> {"idle", "ingest", "writing", "read", "rows", "write", "commit"}]
      /\ todo' \in [Workers -> SUBSET Pages] /\ tx' \in [Workers -> Transaction]
      /\ Mirroring(w)'
  BY <1>1, <1>2 DEF ShapeInv, Mirroring
<1>7. tx[w].row = Absent
  BY <1>1, <1>2 DEF Progress
<1>8. Progress(w)' /\ Follows(w)'
  <2>1. Progress(w)'
    BY <1>1, <1>2, <1>5, <1>7 DEF Progress, Ingesting, Mirroring
  <2>2. \A r \in DOMAIN tx[w].rows :
          /\ Len(tx[w].rows[r].versions) > 0
          /\ items[r] # Absent => Texts(items[r]) \subseteq Texts(tx[w].rows[r])
    BY <1>2 DEF Follows
  <2>3. /\ tx'[w].row = Absent /\ tx'[w].rows = tx[w].rows /\ items' = items
        /\ \A r : /\ Texts(items[r])' = Texts(items[r])
                  /\ Texts(tx[w].rows[r])' = Texts(tx[w].rows[r])
    BY <1>1, <1>5, <1>7 DEF Texts
  <2>4. Follows(w)'
    BY <2>2, <2>3 DEF Follows
  <2> QED
    BY <2>1, <2>4
<1>9. Covers(w)'
  <2> SUFFICES ASSUME NEW p \in Winners(Bundle(w)), tree[Bundle(w)][p].job = job[w],
                      ~tree[Bundle(w)][p].late
               PROVE  tree[Bundle(w)][p] \in tx[w].got
                      /\ (p \in todo'[w] \/ Carries(w, tree[Bundle(w)][p]))
    <3>1. \A x : Carries(w, x)' <=> Carries(w, x)
      BY <1>1, <1>5 DEF Carries, Locks, Texts
    <3>2. Winners(Bundle(w))' = Winners(Bundle(w))
      BY <1>1, <1>2 DEF Winners
    <3> QED
      BY <1>1, <1>2, <1>5, <3>1, <3>2 DEF Covers
  <2>1. tree[Bundle(w)][p] \in tx[w].got
        /\ (p \in todo[w] \/ Carries(w, tree[Bundle(w)][p]))
    BY <1>1, <1>2 DEF Covers
  <2>2. CASE p = Page(w).page
    <3>1. tree[Bundle(w)][p] \in Body
      BY <1>2, <2>1 DEF Transaction
    <3>2. tree[Bundle(w)][p].page = p
      BY <1>2, <3>1 DEF PlaceInv, Winners
    <3>3. tree[Bundle(w)][p] = Page(w)
      BY <1>2, <1>3, <2>1, <2>2, <3>2 DEF Progress
    <3> QED
      BY <1>1, <1>4, <2>1, <3>3 DEF Carries, s
  <2>3. CASE p # Page(w).page
    BY <1>5, <2>1, <2>3
  <2> QED
    BY <2>2, <2>3
<1> QED
  BY <1>1, <1>2, <1>5, <1>6, <1>8, <1>9, StatementKeepsInv

LEMMA ReadRowKeepsInv ==
    ASSUME MirrorInv, NEW w \in Workers, ReadRow(w)
    PROVE  MirrorInv'
<1> DEFINE s == SlugOf(Page(w).page)
<1>1. /\ pc[w] = "rows" /\ todo[w] # {}
      /\ tx' = [tx EXCEPT ![w].row = items[s]]
      /\ pc' = [pc EXCEPT ![w] = "write"]
      /\ UNCHANGED <<tree, holder, items, links, stage, tries, stale, strays, todo, job, request,
                     archives, faults>>
  BY DEF ReadRow, bundleVars, dbVars, serverVars, apiVars
<1>2. ShapeInv /\ PlaceInv /\ Progress(w) /\ Follows(w) /\ Covers(w) /\ tx[w] \in Transaction
      /\ Mirroring(w) /\ Bundle(w)' = Bundle(w)
  BY <1>1 DEF MirrorInv, WorkerInv, ShapeInv, Mirroring, Bundle
<1>3. s \in Slugs /\ items[s] \in Item \union {Absent}
  BY <1>1, <1>2, PageAtHand DEF ShapeInv
<1>4. /\ pc'[w] = "write" /\ tx'[w] = [tx[w] EXCEPT !.row = items[s]]
      /\ \A v \in Workers \ {w} : pc'[v] = pc[v] /\ todo'[v] = todo[v] /\ tx'[v] = tx[v]
  BY <1>1, <1>2 DEF ShapeInv
<1>5. /\ tx'[w] \in Transaction /\ tx'[w].rank = tx[w].rank
      /\ tx'[w].got = tx[w].got /\ tx'[w].row = items[s] /\ tx'[w].rows = tx[w].rows
      /\ tx'[w].del = tx[w].del /\ tx'[w].new = tx[w].new /\ tx'[w].after = tx[w].after
  BY <1>2, <1>3, <1>4 DEF Transaction
<1>6. Page(w)' = Page(w)
  BY <1>1, <1>5 DEF Page
<1>7. /\ pc' \in [Workers -> {"idle", "ingest", "writing", "read", "rows", "write", "commit"}]
      /\ todo' \in [Workers -> SUBSET Pages] /\ tx' \in [Workers -> Transaction]
      /\ Mirroring(w)'
  BY <1>1, <1>2, <1>4, <1>5 DEF ShapeInv, Mirroring
<1>8. Progress(w)'
  BY <1>1, <1>2, <1>4, <1>5 DEF Progress, Ingesting, Mirroring
<1>9. Follows(w)'
  <2>1. \A r \in DOMAIN tx[w].rows :
          /\ Len(tx[w].rows[r].versions) > 0
          /\ items[r] # Absent => Texts(items[r]) \subseteq Texts(tx[w].rows[r])
    BY <1>2 DEF Follows
  <2>2. items[s] # Absent => Len(items[s].versions) > 0
    BY <1>2, <1>3 DEF PlaceInv
  <2>3. /\ tx'[w].row = items[s] /\ tx'[w].rows = tx[w].rows /\ items' = items
        /\ \A r : /\ Texts(items[r])' = Texts(items[r])
                  /\ Texts(tx[w].rows[r])' = Texts(tx[w].rows[r])
        /\ Texts(tx[w].row)' = Texts(items[s])
    BY <1>1, <1>5 DEF Texts
  <2> QED
    BY <1>6, <2>1, <2>2, <2>3 DEF Follows, s
<1>10. Covers(w)'
  <2>1. \A x : Carries(w, x)' <=> Carries(w, x)
    BY <1>1, <1>5 DEF Carries, Locks, Texts
  <2>2. Winners(Bundle(w))' = Winners(Bundle(w))
    BY <1>1, <1>2 DEF Winners
  <2> QED
    BY <1>1, <1>2, <1>4, <1>5, <2>1, <2>2 DEF Covers
<1>11. \A r \in DOMAIN tx'[w].rows : r \in DOMAIN tx[w].rows
  BY <1>5
<1> QED
  BY <1>1, <1>2, <1>4, <1>7, <1>8, <1>9, <1>10, <1>11, StatementKeepsInv

\* The row of an item that is written carries the text of the page at hand.
LEMMA RowWrittenIs ==
    ASSUME MirrorInv, NEW w \in Workers, pc[w] = "write",
           tx[w].row = Absent => items[SlugOf(Page(w).page)] = Absent,
           NEW written,
           written = IF tx[w].row = Absent THEN NewItem(w, Page(w))
                     ELSE Updated(items[SlugOf(Page(w).page)], tx[w].row, Page(w))
    PROVE  /\ written \in Item /\ Len(written.versions) > 0
           /\ Page(w) \in Texts(written)
           /\ items[SlugOf(Page(w).page)] # Absent =>
                 Texts(items[SlugOf(Page(w).page)]) \subseteq Texts(written)
<1> DEFINE s == SlugOf(Page(w).page)
<1>1. /\ ShapeInv /\ PlaceInv /\ Progress(w) /\ Follows(w) /\ tx[w] \in Transaction
      /\ Bundle(w) \in Bundles
  BY JobAtHand DEF MirrorInv, WorkerInv, ShapeInv
<1>2. /\ Page(w) \in Body /\ Page(w).page \in Pages /\ s \in Slugs
  BY <1>1, PageAtHand DEF Progress
<1>3. CASE tx[w].row = Absent
  <2> DEFINE q == <<Page(w)>>
  <2>1. q \in Seq(Body) /\ Len(q) > 0 /\ Page(w) \in {q[k] : k \in DOMAIN q}
    BY <1>2
  <2>2. written = [type |-> TypeOf(Page(w).page), space |-> Bundle(w), status |-> "published",
                   versions |-> q]
    BY <1>3 DEF NewItem
  <2> HIDE DEF q
  <2>3. TypeOf(Page(w).page) \in PageTypes
    BY <1>2, PageParts
  <2>4. written \in Item /\ written.versions = q
    BY <1>1, <2>1, <2>2, <2>3 DEF Item
  <2>5. s \in Slugs /\ (items[s] # Absent => FALSE)
    BY <1>2, <1>3
  <2> QED
    BY <2>1, <2>4, <2>5 DEF Texts
<1>4. CASE tx[w].row # Absent
  <2>1. /\ items[s] \in Item /\ tx[w].row \in Item /\ Len(items[s].versions) > 0
        /\ Len(tx[w].row.versions) > 0
        /\ Texts(tx[w].row) \subseteq Texts(items[s]) /\ items[s] # Absent
    BY <1>1, <1>2, <1>4 DEF ShapeInv, PlaceInv, Follows, Transaction
  <2>2. written = Updated(items[s], tx[w].row, Page(w))
    BY <1>4
  <2>3. /\ written \in Item /\ Len(written.versions) > 0 /\ Texts(items[s]) \subseteq Texts(written)
        /\ ~SameText(tx[w].row, Page(w)) => Page(w) \in Texts(written)
    BY <1>2, <2>1, <2>2, UpdatedIs
  <2>4. SameText(tx[w].row, Page(w)) => Page(w) \in Texts(tx[w].row)
    BY <2>1, ItemParts DEF SameText
  <2> QED
    BY <2>1, <2>3, <2>4
<1> QED
  BY <1>3, <1>4

LEMMA WriteRowKeepsInv ==
    ASSUME MirrorInv, NEW w \in Workers, WriteRow(w)
    PROVE  MirrorInv'
<1> DEFINE s == SlugOf(Page(w).page)
           written == IF tx[w].row = Absent THEN NewItem(w, Page(w))
                      ELSE Updated(items[s], tx[w].row, Page(w))
           rows == [x \in DOMAIN tx[w].rows \union {s} |->
                       IF x = s THEN written ELSE tx[w].rows[x]]
<1>1. /\ pc[w] = "write" /\ RowFree(w, s)
      /\ tx[w].row = Absent => items[s] = Absent
      /\ tx' = [tx EXCEPT ![w].row = Absent, ![w].rows = rows]
      /\ todo' = [todo EXCEPT ![w] = todo[w] \ {First(todo[w])}]
      /\ pc' = [pc EXCEPT ![w] = "rows"]
      /\ UNCHANGED <<tree, holder, items, links, stage, tries, stale, strays, job, request,
                     archives, faults>>
  BY DEF WriteRow, bundleVars, dbVars, serverVars, apiVars
<1>2. ShapeInv /\ PlaceInv /\ Progress(w) /\ Follows(w) /\ Covers(w) /\ tx[w] \in Transaction
      /\ Mirroring(w) /\ Bundle(w)' = Bundle(w)
  BY <1>1 DEF MirrorInv, WorkerInv, ShapeInv, Mirroring, Bundle
<1>3. /\ Page(w) \in tx[w].got /\ Page(w).page = First(todo[w]) /\ s \in Slugs
  BY <1>1, <1>2, PageAtHand DEF Progress
<1>4. /\ written \in Item /\ Len(written.versions) > 0 /\ Page(w) \in Texts(written)
      /\ items[s] # Absent => Texts(items[s]) \subseteq Texts(written)
  BY <1>1, RowWrittenIs
<1> HIDE DEF s, written
<1>5. tx[w].rows \in [DOMAIN tx[w].rows -> Item] /\ DOMAIN tx[w].rows \subseteq Slugs
  BY <1>2, RowsAre DEF Transaction
<1>6. /\ rows \in [DOMAIN tx[w].rows \union {s} -> Item] /\ DOMAIN rows = DOMAIN tx[w].rows \union {s}
      /\ rows[s] = written /\ \A r \in DOMAIN tx[w].rows \ {s} : rows[r] = tx[w].rows[r]
      /\ rows \in Rows
  <2>1. rows \in [DOMAIN tx[w].rows \union {s} -> Item]
    BY <1>4, <1>5
  <2>2. DOMAIN tx[w].rows \union {s} \in SUBSET Slugs
    BY <1>3, <1>5
  <2> QED
    BY <2>1, <2>2 DEF Rows
<1> HIDE DEF rows
<1>7. /\ todo'[w] = todo[w] \ {Page(w).page} /\ pc'[w] = "rows"
      /\ tx'[w] = [tx[w] EXCEPT !.row = Absent, !.rows = rows]
      /\ \A v \in Workers \ {w} : pc'[v] = pc[v] /\ todo'[v] = todo[v] /\ tx'[v] = tx[v]
  BY <1>1, <1>2, <1>3 DEF ShapeInv
<1>8. /\ tx'[w] \in Transaction /\ tx'[w].rank = tx[w].rank
      /\ tx'[w].got = tx[w].got /\ tx'[w].row = Absent /\ tx'[w].rows = rows
  BY <1>2, <1>6, <1>7 DEF Transaction
<1>9. /\ pc' \in [Workers -> {"idle", "ingest", "writing", "read", "rows", "write", "commit"}]
      /\ todo' \in [Workers -> SUBSET Pages] /\ tx' \in [Workers -> Transaction]
      /\ Mirroring(w)'
  BY <1>1, <1>2, <1>7, <1>8 DEF ShapeInv, Mirroring
<1>10. Progress(w)'
  <2>1. /\ pc'[w] = "rows" /\ todo'[w] \subseteq todo[w] /\ tree' = tree
        /\ tx'[w].rank = tx[w].rank /\ tx'[w].got = tx[w].got /\ tx'[w].row = Absent
    BY <1>1, <1>7, <1>8
  <2>2. /\ \A b \in tx[w].got : /\ tree[Bundle(w)][b.page] # Absent
                                /\ Rank[TypeOf(b.page)] <= tx[w].rank
        /\ \A b, c \in tx[w].got : SlugOf(b.page) = SlugOf(c.page) => b = c
        /\ todo[w] \subseteq {b.page : b \in tx[w].got}
    BY <1>1, <1>2 DEF Progress
  <2> QED
    BY <1>2, <2>1, <2>2 DEF Progress, Ingesting, Mirroring
<1>11. Follows(w)'
  <2>1. \A r \in DOMAIN rows :
          /\ Len(rows[r].versions) > 0
          /\ items[r] # Absent => Texts(items[r]) \subseteq Texts(rows[r])
    BY <1>2, <1>4, <1>6 DEF Follows
  <2>2. /\ tx'[w].row = Absent /\ tx'[w].rows = rows /\ items' = items
        /\ \A r : /\ Texts(items[r])' = Texts(items[r])
                  /\ Texts(tx[w].rows[r])' = Texts(rows[r])
    BY <1>1, <1>8 DEF Texts
  <2> QED
    BY <2>1, <2>2 DEF Follows
<1>12. Covers(w)'
  <2>1. ASSUME NEW page, NEW p \in Winners(Bundle(w)), page = tree[Bundle(w)][p],
               page.job = job[w], ~page.late
        PROVE  page \in tx[w].got /\ (p \in todo'[w] \/ Carries(w, page)')
    <3>1. page \in tx[w].got /\ (p \in todo[w] \/ Carries(w, page))
      BY <1>1, <1>2, <2>1 DEF Covers
    <3>2. page.page = p
      <4>1. page \in Body /\ p \in Pages /\ Bundle(w) \in Bundles
        BY <1>1, <1>2, <3>1, JobAtHand DEF Transaction, Winners
      <4> QED
        BY <1>2, <2>1, <4>1 DEF PlaceInv
    <3>3. CASE SlugOf(page.page) = s
      <4>1. page = Page(w)
        BY <1>2, <1>3, <3>1, <3>3 DEF Progress, s
      <4>2. page \in Texts(rows[s])
        BY <1>4, <1>6, <4>1
      <4>3. \A r : Texts(tx[w].rows[r])' = Texts(rows[r])
        BY <1>8 DEF Texts
      <4>4. Carries(w, page)'
        BY <1>6, <1>8, <3>3, <4>2, <4>3 DEF Carries, Locks
      <4> QED
        BY <3>1, <4>4
    <3>4. CASE SlugOf(page.page) # s
      <4>1. p # Page(w).page
        BY <3>2, <3>4 DEF s
      <4>2. Carries(w, page) => Carries(w, page)'
        <5>1. \A r \in DOMAIN tx[w].rows \ {s} :
                 r \in DOMAIN rows /\ Texts(tx[w].rows[r])' = Texts(tx[w].rows[r])
          BY <1>6, <1>8 DEF Texts
        <5>2. \A r : Texts(items[r])' = Texts(items[r])
          BY <1>1 DEF Texts
        <5> QED
          BY <1>1, <1>8, <3>4, <5>1, <5>2 DEF Carries, Locks
      <4> QED
        BY <1>7, <3>1, <4>1, <4>2
    <3> QED
      BY <3>3, <3>4
  <2>2. Winners(Bundle(w))' = Winners(Bundle(w))
    BY <1>1, <1>2 DEF Winners
  <2> QED
    BY <1>1, <1>2, <1>7, <1>8, <2>1, <2>2 DEF Covers
<1>13. \A r \in DOMAIN tx'[w].rows : r \in DOMAIN tx[w].rows \/ RowFree(w, r)
  BY <1>1, <1>6, <1>8
<1> QED
  BY <1>1, <1>2, <1>7, <1>9, <1>10, <1>11, <1>12, <1>13, StatementKeepsInv
LEMMA BuildLinksKeepsInv ==
    ASSUME MirrorInv, NEW w \in Workers, BuildLinks(w)
    PROVE  MirrorInv'
<1> DEFINE old == OldEdges(tx[w])
           new == Edges(tx[w])
           after == {v \in Workers \ {w} : tx[v].del \intersect old # {}}
<1>1. /\ pc[w] = "rows" /\ todo[w] = {}
      /\ tx' = [tx EXCEPT ![w].del = old, ![w].new = new, ![w].after = after]
      /\ pc' = [pc EXCEPT ![w] = "commit"]
      /\ UNCHANGED <<tree, holder, items, links, stage, tries, stale, strays, todo, job, request,
                     archives, faults>>
  BY DEF BuildLinks, bundleVars, dbVars, serverVars, apiVars
<1>2. ShapeInv /\ Progress(w) /\ Follows(w) /\ Covers(w) /\ tx[w] \in Transaction
      /\ Mirroring(w) /\ Bundle(w)' = Bundle(w)
  BY <1>1 DEF MirrorInv, WorkerInv, ShapeInv, Mirroring, Bundle
<1>3. old \subseteq Pair /\ new \subseteq Pair /\ after \subseteq Workers
  BY <1>2 DEF ShapeInv, OldEdges, Touching, Edges
<1> HIDE DEF old, new, after
<1>4. /\ pc'[w] = "commit"
      /\ tx'[w] = [tx[w] EXCEPT !.del = old, !.new = new, !.after = after]
      /\ \A v \in Workers \ {w} : pc'[v] = pc[v] /\ todo'[v] = todo[v] /\ tx'[v] = tx[v]
  BY <1>1, <1>2 DEF ShapeInv
<1>5. /\ tx'[w] \in Transaction /\ tx'[w].rank = tx[w].rank
      /\ tx'[w].got = tx[w].got /\ tx'[w].row = tx[w].row /\ tx'[w].rows = tx[w].rows
  BY <1>2, <1>3, <1>4 DEF Transaction
<1>6. /\ pc' \in [Workers -> {"idle", "ingest", "writing", "read", "rows", "write", "commit"}]
      /\ todo' \in [Workers -> SUBSET Pages] /\ tx' \in [Workers -> Transaction]
      /\ Mirroring(w)'
  BY <1>1, <1>2, <1>4, <1>5 DEF ShapeInv, Mirroring
<1>7. tx[w].row = Absent
  BY <1>1, <1>2 DEF Progress
<1>8. Progress(w)'
  <2>1. /\ pc'[w] = "commit" /\ todo'[w] = {} /\ tree' = tree
        /\ tx'[w].rank = tx[w].rank /\ tx'[w].got = tx[w].got /\ tx'[w].row = Absent
    BY <1>1, <1>4, <1>5, <1>7
  <2>2. /\ \A b \in tx[w].got : /\ tree[Bundle(w)][b.page] # Absent
                                /\ Rank[TypeOf(b.page)] <= tx[w].rank
        /\ \A b, c \in tx[w].got : SlugOf(b.page) = SlugOf(c.page) => b = c
    BY <1>2 DEF Progress
  <2> QED
    BY <1>2, <2>1, <2>2 DEF Progress, Ingesting, Mirroring
<1>9. Follows(w)'
  <2>1. \A r \in DOMAIN tx[w].rows :
          /\ Len(tx[w].rows[r].versions) > 0
          /\ items[r] # Absent => Texts(items[r]) \subseteq Texts(tx[w].rows[r])
    BY <1>2 DEF Follows
  <2>2. /\ tx'[w].row = Absent /\ tx'[w].rows = tx[w].rows /\ items' = items
        /\ \A r : /\ Texts(items[r])' = Texts(items[r])
                  /\ Texts(tx[w].rows[r])' = Texts(tx[w].rows[r])
    BY <1>1, <1>5, <1>7 DEF Texts
  <2> QED
    BY <2>1, <2>2 DEF Follows
<1>10. Covers(w)'
  <2>1. \A x : Carries(w, x)' <=> Carries(w, x)
    BY <1>1, <1>5 DEF Carries, Locks, Texts
  <2>2. Winners(Bundle(w))' = Winners(Bundle(w))
    BY <1>1, <1>2 DEF Winners
  <2> QED
    BY <1>1, <1>2, <1>4, <1>5, <2>1, <2>2 DEF Covers
<1>11. \A r \in DOMAIN tx'[w].rows : r \in DOMAIN tx[w].rows
  BY <1>5
<1> QED
  BY <1>1, <1>2, <1>4, <1>6, <1>8, <1>9, <1>10, <1>11, StatementKeepsInv

\* A commit makes the texts it carries visible, and takes none away.
LEMMA CommitKeepsInv ==
    ASSUME MirrorInv, NEW w \in Workers, Commit(w)
    PROVE  MirrorInv'
<1>1. /\ pc[w] = "commit"
      /\ items' = [s \in Slugs |-> IF Locks(w, s) THEN tx[w].rows[s] ELSE items[s]]
      /\ links' = (links \ tx[w].del) \union tx[w].new
      /\ Release(w, tx[w].new) /\ Leave(w, "done", 0)
      /\ UNCHANGED <<tree, archives, faults>>
  BY DEF Commit
<1>2. ShapeInv /\ PlaceInv /\ LocksInv /\ Progress(w) /\ Follows(w) /\ Covers(w)
      /\ tx[w] \in Transaction /\ job[w] \in Jobs /\ Bundle(w) \in Bundles
  BY <1>1, JobAtHand DEF MirrorInv, WorkerInv, ShapeInv, Mirroring
<1>3. /\ ServerInv' /\ \A v \in Workers : Attempt(v)'
      /\ pc' \in [Workers -> {"idle", "ingest", "writing", "read", "rows", "write", "commit"}]
      /\ job' \in [Workers -> Jobs \union {NoOne}] /\ todo' \in [Workers -> SUBSET Pages]
      /\ stale' \subseteq Workers /\ strays' = strays /\ holder' \in [Bundles -> Workers \union {NoOne}]
      /\ stage' \in [Jobs -> {"ingest", "ingesting", "mirror", "mirroring", "done", "failed"}]
      /\ tries' \in [Jobs -> 0..MaxAttempts]
      /\ pc'[w] = "idle" /\ job'[w] = NoOne /\ todo'[w] = {}
      /\ \A v \in Workers \ {w} : pc'[v] = pc[v] /\ job'[v] = job[v] /\ todo'[v] = todo[v]
  <2>1. 0 \in 0..MaxAttempts /\ "done" \in {"ingest", "mirror", "done", "failed"}
        /\ pc[w] # "idle"
    BY <1>1, MirrorAssumption
  <2> QED
    BY <1>1, <2>1, LeaveKeepsAttempts
<1>4. /\ tx' \in [Workers -> Transaction] /\ tx'[w] = NoTx
      /\ request' \in [slug : Slugs \union {NoOne}, del : SUBSET Pair, after : SUBSET Workers]
      /\ request'.slug = request.slug
      /\ \A v \in Workers \ {w} : Rests(v)
  BY <1>1, <1>2, <1>3, ReleaseIs DEF Rests
<1>5. tx[w].rows \in [DOMAIN tx[w].rows -> Item] /\ DOMAIN tx[w].rows \subseteq Slugs
      /\ tx[w].del \subseteq Pair /\ tx[w].new \subseteq Pair
  BY <1>2, RowsAre DEF Transaction
<1>6. \A s \in Slugs : /\ Locks(w, s) => items'[s] = tx[w].rows[s] /\ items'[s] \in Item
                       /\ ~Locks(w, s) => items'[s] = items[s]
  BY <1>1, <1>5 DEF Locks
<1>7. \A i \in Item : i # Absent
  BY MarkersAreNoRow
<1>8. ItemsKeep
  <2>1. \A s \in Slugs : Locks(w, s) /\ items[s] # Absent =>
            Texts(items[s]) \subseteq Texts(tx[w].rows[s])
    BY <1>2 DEF Follows, Locks
  <2> QED
    BY <1>6, <1>7, <2>1 DEF ItemsKeep
<1>9. TreeKeeps
  BY <1>1 DEF TreeKeeps
<1>10. ShapeInv'
  <2>1. items' \in [Slugs -> Item \union {Absent}]
    BY <1>1, <1>2, <1>6 DEF ShapeInv
  <2> QED
    BY <1>1, <1>2, <1>3, <1>4, <1>5, <2>1 DEF ShapeInv
<1>11. PlaceInv'
  <2>1. \A s \in Slugs : items'[s] # Absent => Len(items'[s].versions) > 0
    BY <1>2, <1>6 DEF PlaceInv, Follows, Locks
  <2>2. request'.slug # NoOne => items'[request'.slug] # Absent
    BY <1>2, <1>4, <1>8 DEF PlaceInv, ItemsKeep, ShapeInv
  <2> QED
    BY <1>1, <1>2, <2>1, <2>2 DEF PlaceInv
<1>12. LocksInv'
  <2>1. DOMAIN tx'[w].rows = {}
    BY <1>4, NoTxType DEF Blank
  <2> QED
    BY <1>2, <1>4, <2>1, LocksShrink DEF Rests
<1>13. WorkerInv(w)'
  <2>1. pc'[w] = "idle" /\ todo'[w] = {} /\ tx'[w] = NoTx
    BY <1>3, <1>4
  <2> QED
    BY <2>1, NoTxType DEF WorkerInv, Progress, Follows, Ingesting, Mirroring, Blank
<1>14. ASSUME NEW v \in Workers \ {w} PROVE WorkerInv(v)'
  <2>1. DOMAIN tx[v].rows \subseteq Slugs
    BY <1>2, RowsAre DEF ShapeInv, Transaction
  <2>2. \A s \in DOMAIN tx[v].rows : items'[s] = items[s]
    BY <1>2, <1>6, <2>1 DEF LocksInv, Locks
  <2> QED
    BY <1>4, <1>8, <1>9, <2>2, RestingWorker
<1>15. DoneIsServed'
  <2>1. ASSUME NEW j \in Jobs, stage'[j] = "done" PROVE JobServed(j)'
    <3>1. CASE stage[j] = "done"
      BY <1>8, <1>9, <3>1, ServedStays
    <3>2. CASE stage[j] # "done"
      <4>1. j = job[w]
        BY <1>1, <1>2, <2>1, <3>2 DEF Leave, ShapeInv
      <4>2. ASSUME NEW page, NEW p \in Winners(Bundle(w)), page = tree[Bundle(w)][p],
                   page.job = job[w], ~page.late
            PROVE  items'[SlugOf(p)] # Absent /\ page \in Texts(items'[SlugOf(p)])
        <5>1. Carries(w, page)
          BY <1>1, <1>2, <4>2 DEF Covers, Progress
        <5>2. page.page = p /\ SlugOf(p) \in Slugs
          <6>1. p \in Pages /\ page \notin {Absent, Torn}
            BY <4>2 DEF Winners
          <6>2. page \in Body
            BY <1>2, <4>2, <6>1 DEF ShapeInv
          <6> QED
            BY <1>2, <4>2, <6>1, <6>2, PageParts DEF PlaceInv
        <5> QED
          BY <1>6, <1>7, <1>8, <5>1, <5>2 DEF Carries, ItemsKeep
      <4>3. /\ Winners(BundleOf[j])' = Winners(Bundle(w)) /\ tree' = tree
            /\ \A s : Texts(items[s])' = Texts(items'[s])
        BY <1>1, <4>1 DEF Bundle, Winners, Texts
      <4> QED
        BY <4>1, <4>2, <4>3 DEF JobServed, Bundle
    <3> QED
      BY <3>1, <3>2
  <2>2. (DoneIsServed <=> \A j \in Jobs : stage[j] = "done" => JobServed(j))'
    BY DoneIsJobServed, PTL
  <2> QED
    BY <2>1, <2>2
<1> QED
  BY <1>3, <1>10, <1>11, <1>12, <1>13, <1>14, <1>15 DEF MirrorInv
-----------------------------------------------------------------------------
(* Failures, the timeout of a mirror, and archive requests.                *)

LEMMA FailuresKeepInv ==
    ASSUME MirrorInv, NEW w \in Workers,
           \/ IngestTorn(w) \/ IngestFails(w) \/ ReadTorn(w) \/ InsertFails(w)
           \/ CommitFails(w) \/ DbFails(w) \/ Crash(w)
    PROVE  MirrorInv'
<1>1. pc[w] # "idle" /\ Raise(w)
  BY DEF IngestTorn, IngestFails, ReadTorn, InsertFails, CommitFails, DbFails, Crash
<1>2. faults' = faults \/ \E kind : Fault(kind)
  BY DEF IngestTorn, IngestFails, ReadTorn, InsertFails, CommitFails, DbFails, Crash
<1>3. faults' \in 0..MaxFaults
  BY <1>2, FaultType DEF MirrorInv, ShapeInv
<1> QED
  BY <1>1, <1>3, RaiseKeepsInv

\* The server gives up on an attempt that writes or mirrors, and goes on.
LEMMA TimesOutKeepsInv ==
    ASSUME MirrorInv, NEW w \in Workers, TimesOut(w)
    PROVE  MirrorInv'
<1> DEFINE j == job[w]
<1>1. /\ pc[w] # "idle" /\ w \notin stale /\ Fault("timeout")
      /\ stale' = stale \union {w}
      /\ stage' = [stage EXCEPT ![j] = Retried(j)]
      /\ UNCHANGED <<tree, holder, items, links, tries, strays, pc, job, todo, tx, request, archives>>
  BY DEF TimesOut, bundleVars, dbVars, slotVars, apiVars
<1>2. ShapeInv /\ PlaceInv /\ LocksInv /\ ServerInv /\ DoneIsServed /\ j \in Jobs
      /\ (\A v \in Workers : Attempt(v) /\ WorkerInv(v)) /\ (Ingesting(w) \/ Mirroring(w))
  BY <1>1, JobAtHand DEF MirrorInv
<1> HIDE DEF j
<1>3. stage[j] = IF Ingesting(w) THEN "ingesting" ELSE "mirroring"
  BY <1>1, <1>2 DEF Attempt, j
<1>4. /\ stage'[j] \in {"ingest", "mirror", "failed"}
      /\ (stage'[j] = "ingest" => Ingesting(w))
      /\ (stage'[j] \in {"ingest", "mirror"} => tries[j] < MaxAttempts)
      /\ \A i \in Jobs \ {j} : stage'[i] = stage[i]
  <2>1. tries[j] \in 0..MaxAttempts /\ MaxAttempts \in Nat
    BY <1>2, MirrorAssumption DEF ShapeInv
  <2>2. /\ Retried(j) \in {"ingest", "mirror", "failed"} /\ (Retried(j) = "ingest" => Ingesting(w))
        /\ (Retried(j) \in {"ingest", "mirror"} => tries[j] < MaxAttempts)
    BY <1>3, <2>1 DEF Retried
  <2> QED
    BY <1>1, <1>2, <2>2 DEF ShapeInv
<1>5. ShapeInv'
  <2>1. stage' \in [Jobs -> {"ingest", "ingesting", "mirror", "mirroring", "done", "failed"}]
    BY <1>1, <1>2, <1>4 DEF ShapeInv
  <2>2. faults' \in 0..MaxFaults
    BY <1>1, <1>2, FaultType
  <2> QED
    BY <1>1, <1>2, <2>1, <2>2 DEF ShapeInv
<1>6. PlaceInv' /\ LocksInv' /\ TreeKeeps /\ ItemsKeep
  BY <1>1, <1>2 DEF PlaceInv, LocksInv, Locks, TreeKeeps, ItemsKeep, Texts
<1>7. DoneIsServed'
  <2>1. \A i \in Jobs : stage'[i] = "done" => stage[i] = "done"
    BY <1>4
  <2> QED
    BY <1>6, <2>1, DoneKeeps
<1>8. ServerInv'
  <2>1. \A i \in Jobs : stage'[i] \in {"ingest", "mirror"} => tries'[i] < MaxAttempts
    BY <1>1, <1>2, <1>4 DEF ServerInv
  <2>2. \A u, v \in Workers \ stale' : (job'[v] = job'[u] /\ pc'[v] # "idle") => v = u
    BY <1>1, <1>2 DEF ServerInv
  <2> QED
    BY <2>1, <2>2 DEF ServerInv
<1>9. ASSUME NEW v \in Workers PROVE Attempt(v)' /\ WorkerInv(v)'
  <2>1. WorkerInv(v)'
    <3>1. Rests(v)
      BY <1>1 DEF Rests
    <3> QED
      BY <1>1, <1>6, <3>1, RestingWorker
  <2>2. /\ Attempt(v) /\ (Ingesting(v)' <=> Ingesting(v)) /\ (Mirroring(v)' <=> Mirroring(v))
        /\ pc'[v] = pc[v] /\ job'[v] = job[v] /\ holder' = holder
    BY <1>1, <1>2 DEF Ingesting, Mirroring
  <2>3. Attempt(v)'
    <3>1. CASE v = w
      <4>1. v \in stale' /\ (Mirroring(w) => ~Ingesting(w)) /\ job[v] = j
        BY <1>1, <3>1 DEF Ingesting, Mirroring, j
      <4> QED
        BY <1>1, <1>4, <2>2, <3>1, <4>1 DEF Attempt
    <3>2. CASE v # w
      <4>1. v \in stale' <=> v \in stale
        BY <1>1, <3>2
      <4>2. (Ingesting(v) \/ Mirroring(v)) => pc[v] # "idle" /\ job[v] \in Jobs
        <5>1. (Ingesting(v) \/ Mirroring(v)) => pc[v] # "idle"
          BY DEF Ingesting, Mirroring
        <5> QED
          BY <5>1, JobAtHand
      <4>3. ASSUME Ingesting(v) \/ Mirroring(v), v \notin stale
            PROVE  stage'[job[v]] = stage[job[v]]
        <5>1. job[v] # j
          BY <1>1, <1>2, <3>2, <4>2, <4>3 DEF ServerInv, j
        <5> QED
          BY <1>4, <4>2, <4>3, <5>1
      <4>4. ASSUME Mirroring(v) PROVE stage'[job[v]] \notin {"ingest", "ingesting"}
        <5>1. stage[job[v]] \notin {"ingest", "ingesting"}
          BY <2>2, <4>4 DEF Attempt
        <5> QED
          BY <1>3, <1>4, <4>2, <4>4, <5>1
      <4> QED
        BY <2>2, <4>1, <4>3, <4>4 DEF Attempt
    <3> QED
      BY <3>1, <3>2
  <2> QED
    BY <2>1, <2>3
<1> QED
  BY <1>5, <1>6, <1>7, <1>8, <1>9 DEF MirrorInv

\* A step of the endpoint: the workers and the bundles see none.
LEMMA RequestKeepsInv ==
    ASSUME MirrorInv, ShapeInv', PlaceInv', LocksInv', ItemsKeep,
           UNCHANGED <<tree, holder, stage, tries, stale, strays, pc, job, todo, tx, faults>>,
           \A v \in Workers : \A s \in DOMAIN tx[v].rows : items'[s] = items[s]
    PROVE  MirrorInv'
<1>1. TreeKeeps
  BY DEF TreeKeeps
<1>2. DoneIsServed'
  BY <1>1, DoneKeeps
<1>3. \A v \in Workers : WorkerInv(v)'
  <2>1. \A v \in Workers : Rests(v)
    BY DEF Rests
  <2> QED
    BY <1>1, <2>1, RestingWorker
<1>4. ServerInv' /\ \A v \in Workers : Attempt(v)'
  BY DEF MirrorInv, ServerInv, Attempt, Ingesting, Mirroring
<1> QED
  BY <1>2, <1>3, <1>4 DEF MirrorInv

LEMMA BeginArchiveKeepsInv ==
    ASSUME MirrorInv, NEW s \in Slugs, BeginArchive(s)
    PROVE  MirrorInv'
<1>1. /\ archives < MaxArchives /\ items[s] # Absent
      /\ \A v \in Workers : ~Locks(v, s)
      /\ request' = [slug |-> s, del |-> Touching(links, {s}),
                     after |-> {v \in Workers : tx[v].del \intersect Touching(links, {s}) # {}}]
      /\ archives' = archives + 1
      /\ UNCHANGED <<tree, holder, items, links, stage, tries, stale, strays, pc, job, todo, tx, faults>>
  BY DEF BeginArchive, bundleVars, dbVars, serverVars, slotVars
<1>2. ShapeInv /\ PlaceInv /\ LocksInv
  BY DEF MirrorInv
<1>3. ShapeInv'
  <2>1. archives' \in 0..MaxArchives
    BY <1>1, <1>2, MirrorAssumption DEF ShapeInv
  <2>2. request' \in [slug : Slugs \union {NoOne}, del : SUBSET Pair, after : SUBSET Workers]
    BY <1>1, <1>2 DEF ShapeInv, Touching
  <2> QED
    BY <1>1, <1>2, <2>1, <2>2 DEF ShapeInv
<1>4. PlaceInv' /\ LocksInv' /\ ItemsKeep
  BY <1>1, <1>2 DEF PlaceInv, LocksInv, Locks, ItemsKeep, Texts
<1> QED
  BY <1>1, <1>3, <1>4, RequestKeepsInv

LEMMA EndArchiveKeepsInv ==
    ASSUME MirrorInv, EndArchive
    PROVE  MirrorInv'
<1> DEFINE s == request.slug
<1>1. /\ s # NoOne
      /\ items' = [items EXCEPT ![s].status = "archived"]
      /\ links' = links \ request.del
      /\ request' = NoRequest
      /\ UNCHANGED <<tree, holder, stage, tries, stale, strays, pc, job, todo, tx, archives, faults>>
  BY DEF EndArchive, bundleVars, serverVars, slotVars
<1>2. ShapeInv /\ PlaceInv /\ LocksInv
  BY DEF MirrorInv
<1>3. s \in Slugs /\ items[s] \in Item
  BY <1>1, <1>2 DEF ShapeInv, PlaceInv
<1> HIDE DEF s
<1>4. /\ items'[s] = [items[s] EXCEPT !.status = "archived"]
      /\ \A r \in Slugs \ {s} : items'[r] = items[r]
  BY <1>1, <1>2, <1>3 DEF ShapeInv
<1>5. items'[s] \in Item /\ items'[s].versions = items[s].versions /\ items'[s] # Absent
  BY <1>3, <1>4, MarkersAreNoRow DEF Item
<1>6. ShapeInv'
  <2>1. items' \in [Slugs -> Item \union {Absent}]
    BY <1>1, <1>2, <1>4, <1>5 DEF ShapeInv
  <2>2. request' \in [slug : Slugs \union {NoOne}, del : SUBSET Pair, after : SUBSET Workers]
    BY <1>1 DEF NoRequest
  <2> QED
    BY <1>1, <1>2, <2>1, <2>2 DEF ShapeInv
<1>7. PlaceInv'
  BY <1>1, <1>2, <1>3, <1>4, <1>5, MarkersAreNoRow DEF PlaceInv, NoRequest
<1>8. request'.slug = NoOne /\ NoOne \notin Slugs
  BY <1>1, MirrorAssumption DEF NoRequest
<1>9. LocksInv'
  BY <1>1, <1>2, <1>8, LocksShrink
<1>10. ItemsKeep
  <2>1. Texts(items'[s]) = Texts(items[s])
    BY <1>5 DEF Texts
  <2> QED
    BY <1>3, <1>4, <1>5, <2>1 DEF ItemsKeep
<1>11. ASSUME NEW v \in Workers, NEW r \in DOMAIN tx[v].rows PROVE items'[r] = items[r]
  <2>1. r \in Slugs
    BY <1>2, RowsAre DEF ShapeInv, Transaction
  <2> QED
    BY <1>2, <1>4, <2>1 DEF LocksInv, Locks, s
<1> QED
  BY <1>1, <1>6, <1>7, <1>9, <1>10, <1>11, RequestKeepsInv

-----------------------------------------------------------------------------
(* Any number of worker processes.                                         *)

LEMMA MirrorInvInit ==
    ASSUME Init PROVE MirrorInv
<1>1. ShapeInv
  <2>1. MaxAttempts \in Nat /\ MaxFaults \in Nat /\ MaxArchives \in Nat
    BY MirrorAssumption
  <2>2. request \in [slug : Slugs \union {NoOne}, del : SUBSET Pair, after : SUBSET Workers]
    BY DEF Init, NoRequest
  <2>3. tree \in [Bundles -> [Pages -> Body \union {Absent, Torn}]]
    BY DEF Init, EmptyTree
  <2> QED
    BY <2>1, <2>2, <2>3, NoTxType DEF Init, ShapeInv
<1>2. PlaceInv
  BY MarkersAreNoRow DEF Init, PlaceInv, EmptyTree, NoRequest
<1>3. ServerInv
  BY MirrorAssumption DEF Init, ServerInv
<1>4. \A w \in Workers : tx[w] = NoTx /\ pc[w] = "idle" /\ job[w] = NoOne /\ todo[w] = {}
  BY DEF Init
<1>5. LocksInv
  BY <1>4, NoTxType DEF LocksInv, Locks, Blank
<1>6. DoneIsServed
  BY DEF Init, DoneIsServed
<1>7. ASSUME NEW w \in Workers PROVE Attempt(w) /\ WorkerInv(w)
  <2>1. Attempt(w)
    BY MirrorAssumption DEF Init, Attempt, Ingesting, Mirroring
  <2>2. WorkerInv(w)
    BY <1>4, NoTxType DEF WorkerInv, Progress, Follows, Ingesting, Mirroring, Blank
  <2> QED
    BY <2>1, <2>2
<1> QED
  BY <1>1, <1>2, <1>3, <1>5, <1>6, <1>7 DEF MirrorInv

LEMMA StutterKeepsInv ==
    ASSUME MirrorInv, UNCHANGED vars PROVE MirrorInv'
<1>1. UNCHANGED <<tree, holder, items, links, stage, tries, pc, job, todo, tx, stale, strays,
                  request, faults, archives>>
  BY DEF vars
<1>2. ShapeInv' /\ PlaceInv' /\ LocksInv' /\ ItemsKeep
  BY <1>1 DEF MirrorInv, ShapeInv, PlaceInv, LocksInv, Locks, ItemsKeep, Texts
<1> QED
  BY <1>1, <1>2, RequestKeepsInv

LEMMA MirrorInvStep ==
    ASSUME MirrorInv, [Next]_vars PROVE MirrorInv'
<1>1. CASE \E j \in Jobs : Start(j)
  BY <1>1, StartIngestKeepsInv, StartMirrorKeepsInv DEF Start
<1>7. CASE \E j \in Jobs : IngestTimesOut(j) \/ \E w \in Workers : StartStray(w, j)
  BY <1>7, IngestTimesOutKeepsInv, StartStrayKeepsInv
<1>2. ASSUME NEW w \in Workers, Step(w) PROVE MirrorInv'
  BY <1>2, BeginWriteKeepsInv, EndWriteKeepsInv, EndIngestKeepsInv, ListPagesKeepsInv,
     ReadPageKeepsInv, EndCollectKeepsInv, SkipRowKeepsInv, ReadRowKeepsInv,
     WriteRowKeepsInv, BuildLinksKeepsInv, CommitKeepsInv, FailuresKeepInv DEF Step
<1>3. ASSUME NEW w \in Workers,
             FlushPart(w) \/ IngestFails(w) \/ DbFails(w) \/ Crash(w) \/ TimesOut(w)
      PROVE  MirrorInv'
  BY <1>3, FlushPartKeepsInv, FailuresKeepInv, TimesOutKeepsInv
<1>4. CASE \E s \in Slugs : BeginArchive(s)
  BY <1>4, BeginArchiveKeepsInv
<1>5. CASE EndArchive
  BY <1>5, EndArchiveKeepsInv
<1>6. CASE Finished \/ UNCHANGED vars
  BY <1>6, StutterKeepsInv DEF Finished
<1> QED
  BY <1>1, <1>2, <1>3, <1>4, <1>5, <1>6, <1>7 DEF Next

LEMMA MirrorInvariant == Spec => []MirrorInv
<1>1. Init => MirrorInv
  BY MirrorInvInit
<1>2. MirrorInv /\ [Next]_vars => MirrorInv'
  BY MirrorInvStep
<1> QED
  BY <1>1, <1>2, PTL DEF Spec

\* Whatever fails, and however many processes mirror at a time, rows stay well
\* formed and row locks and file locks exclude each other.
THEOREM MirrorTypes == Spec => []TypeOK
<1>1. MirrorInv => TypeOK
  BY TypeFromInv
<1> QED
  BY <1>1, MirrorInvariant, PTL

\* An upload that is reported done is served (the workflow answers only after
\* mirror_bundle committed): its texts that are still in the bundle are
\* versions of their items, whichever mirrors ran beside its own, failed,
\* timed out and went on, or were repeated.
THEOREM UploadsAreServed == Spec => []DoneIsServed
<1>1. MirrorInv => DoneIsServed
  BY DEF MirrorInv
<1> QED
  BY <1>1, MirrorInvariant, PTL
-----------------------------------------------------------------------------
(* One worker process: what a mirror has read stays so until it commits.   *)

OneWorker == \A v, w \in Workers : v = w

VersionsApart(i) ==
    \A k \in 1 .. Len(i.versions) - 1 : i.versions[k] # i.versions[k + 1]

\* The item is there with the page as its text and type.
Serves(i, page) == i # Absent /\ Current(i) = page /\ i.type = TypeOf(page.page)

\* The item of slug s as the mirror of w would leave it.
Row(w, s) == IF Locks(w, s) THEN tx[w].rows[s] ELSE items[s]

\* What a mirror has collected is what the bundle holds.
Sees(w) ==
    /\ \A b \in tx[w].got : b = tree[Bundle(w)][b.page] /\ b.page \in Winners(Bundle(w))
    /\ \A p \in Pages : tree[Bundle(w)][p] # Absent =>
          /\ pc[w] = "read" /\ Rank[TypeOf(p)] <= tx[w].rank =>
                p \in todo[w] \/ SlugOf(p) \in Mirrored(tx[w])
          /\ pc[w] # "read" => SlugOf(p) \in Mirrored(tx[w])

\* The row it has read is current but for its status; the rows it has written
\* repeat no text and bring back only what changed; the pages it has handled
\* are served.
Handles(w) ==
    /\ tx[w].row # Absent =>
          LET i == items[SlugOf(Page(w).page)]
          IN  i.versions = tx[w].row.versions /\ i.type = tx[w].row.type
    /\ \A s \in DOMAIN tx[w].rows :
          /\ VersionsApart(tx[w].rows[s])
          /\ (items[s] # Absent /\ ~Published(s) /\ tx[w].rows[s].status = "published") =>
                Current(tx[w].rows[s]) # Current(items[s])
          /\ \E b \in tx[w].got : SlugOf(b.page) = s /\ b.page \notin todo[w]
    /\ pc[w] # "read" => \A b \in tx[w].got :
          b.page \notin todo[w] => Serves(Row(w, SlugOf(b.page)), b)

\* The links it deletes are all those of its pages.
Built(w) ==
    pc[w] = "commit" => /\ Touching(links, Mirrored(tx[w])) \subseteq tx[w].del
                        /\ tx[w].del \subseteq Touching(Pair, Mirrored(tx[w]))
                        /\ tx[w].new = Edges(tx[w])

MirrorSerial(w) == Sees(w) /\ Handles(w) /\ Built(w) /\ stage[job[w]] # "done"

SerialInv ==
    /\ VersionsDiffer
    /\ \A w \in Workers : Mirroring(w) => MirrorSerial(w)
    /\ request.del \subseteq Touching(Pair, {request.slug})

LEMMA VersionsApartIs ==
    VersionsDiffer <=> \A s \in Slugs : items[s] # Absent => VersionsApart(items[s])
BY DEF VersionsDiffer, VersionsApart

\* A step of the only worker that commits nothing.
LEMMA SerialStep ==
    ASSUME OneWorker, SerialInv, NEW w \in Workers, items' = items,
           request'.slug = request.slug, request'.del \subseteq request.del,
           Mirroring(w)' => MirrorSerial(w)'
    PROVE  SerialInv'
<1>1. VersionsDiffer'
  BY DEF SerialInv, VersionsDiffer
<1>2. \A v \in Workers : v = w
  BY DEF OneWorker
<1>3. \A v \in Workers : Mirroring(v)' => MirrorSerial(v)'
  BY <1>2
<1> QED
  BY <1>1, <1>3 DEF SerialInv

\* A step of the only worker that leaves it reading pages.
LEMMA SerialReading ==
    ASSUME OneWorker, SerialInv, NEW w \in Workers, items' = items, request' = request,
           pc'[w] = "read", tx'[w].row = Absent, DOMAIN tx'[w].rows = {},
           Sees(w)', stage'[job'[w]] # "done"
    PROVE  SerialInv'
<1>1. Handles(w)' /\ Built(w)'
  BY DEF Handles, Built
<1>2. MirrorSerial(w)'
  BY <1>1 DEF MirrorSerial
<1> QED
  BY <1>2, SerialStep

LEMMA StartMirrorSerial ==
    ASSUME OneWorker, MirrorInv, SerialInv, NEW w \in Workers, NEW j \in Jobs, StartMirror(w, j)
    PROVE  SerialInv'
<1>1. /\ pc[w] = "idle" /\ stage' = [stage EXCEPT ![j] = "mirroring"]
      /\ pc' = [pc EXCEPT ![w] = "read"] /\ job' = [job EXCEPT ![w] = j]
      /\ UNCHANGED <<items, tx, request>>
  BY DEF StartMirror, dbVars, apiVars
<1>2. ShapeInv /\ Progress(w)
  BY DEF MirrorInv, WorkerInv
<1>3. /\ pc'[w] = "read" /\ job'[w] = j /\ stage'[j] = "mirroring"
      /\ tx'[w].rank = 0 /\ tx'[w].got = {} /\ tx'[w].row = Absent /\ DOMAIN tx'[w].rows = {}
  BY <1>1, <1>2 DEF ShapeInv, Progress, Blank
<1>4. Sees(w)'
  <2>1. \A p \in Pages : ~ (Rank[TypeOf(p)] <= 0)
    BY PageParts
  <2> QED
    BY <1>3, <2>1 DEF Sees
<1> QED
  BY <1>1, <1>3, <1>4, SerialReading

\* What every reading step knows.
LEMMA MirrorSees ==
    ASSUME MirrorInv, SerialInv, NEW w \in Workers, Mirroring(w)
    PROVE  /\ ShapeInv /\ PlaceInv /\ LocksInv /\ Progress(w) /\ tx[w] \in Transaction
           /\ Sees(w) /\ Handles(w) /\ Built(w) /\ stage[job[w]] # "done"
           /\ Bundle(w) \in Bundles /\ job[w] \in Jobs
<1>1. pc[w] # "idle"
  BY DEF Mirroring
<1>2. Bundle(w) \in Bundles /\ job[w] \in Jobs
  BY <1>1, JobAtHand
<1> QED
  BY <1>2 DEF MirrorInv, WorkerInv, ShapeInv, SerialInv, MirrorSerial

LEMMA ListPagesSerial ==
    ASSUME OneWorker, MirrorInv, SerialInv, NEW w \in Workers, ListPages(w)
    PROVE  SerialInv'
<1> DEFINE r == tx[w].rank + 1
<1>1. /\ pc[w] = "read" /\ todo[w] = {} /\ r <= 3
      /\ tx' = [tx EXCEPT ![w].rank = r]
      /\ todo' = [todo EXCEPT ![w] =
                     {p \in Pages : Rank[TypeOf(p)] = r /\ tree[Bundle(w)][p] # Absent}]
      /\ UNCHANGED <<tree, items, stage, pc, job, request>>
  BY DEF ListPages, bundleVars, dbVars, serverVars, apiVars
<1>2. ShapeInv /\ Progress(w) /\ tx[w] \in Transaction /\ Sees(w) /\ stage[job[w]] # "done"
      /\ Bundle(w)' = Bundle(w)
  BY <1>1, MirrorSees DEF Mirroring, Bundle
<1>3. /\ todo'[w] = {p \in Pages : Rank[TypeOf(p)] = r /\ tree[Bundle(w)][p] # Absent}
      /\ tx'[w] = [tx[w] EXCEPT !.rank = r]
  BY <1>1, <1>2 DEF ShapeInv
<1>4. r \in 0..3 /\ tx[w].rank \in Nat
  BY <1>1, <1>2 DEF Transaction
<1> HIDE DEF r
<1>5. /\ tx'[w].rank = r /\ tx'[w].got = tx[w].got
      /\ tx'[w].row = tx[w].row /\ tx'[w].rows = tx[w].rows
  BY <1>2, <1>3 DEF Transaction
<1>6. Sees(w)'
  <2>1. ASSUME NEW p \in Pages, tree[Bundle(w)][p] # Absent, Rank[TypeOf(p)] <= r
        PROVE  p \in todo'[w] \/ SlugOf(p) \in Mirrored(tx[w])
    <3>1. CASE Rank[TypeOf(p)] = r
      BY <1>3, <2>1, <3>1
    <3>2. CASE Rank[TypeOf(p)] # r
      <4>1. Rank[TypeOf(p)] <= tx[w].rank
        BY <1>4, <2>1, <3>2, PageParts DEF r
      <4> QED
        BY <1>1, <1>2, <2>1, <4>1 DEF Sees
    <3> QED
      BY <3>1, <3>2
  <2>2. Mirrored(tx[w])' = Mirrored(tx[w]) /\ Winners(Bundle(w))' = Winners(Bundle(w))
    BY <1>1, <1>2, <1>5 DEF Mirrored, Winners
  <2> QED
    BY <1>1, <1>2, <1>5, <2>1, <2>2 DEF Sees
<1>7. tx'[w].row = Absent /\ DOMAIN tx'[w].rows = {}
  BY <1>1, <1>2, <1>5 DEF Progress, Blank
<1> QED
  BY <1>1, <1>2, <1>6, <1>7, SerialReading

LEMMA ReadPageSerial ==
    ASSUME OneWorker, MirrorInv, SerialInv, NEW w \in Workers, ReadPage(w)
    PROVE  SerialInv'
<1> DEFINE p == First(todo[w])
           page == tree[Bundle(w)][p]
           got == IF SlugOf(p) \in Mirrored(tx[w]) THEN tx[w].got ELSE tx[w].got \union {page}
<1>1. /\ pc[w] = "read" /\ todo[w] # {}
      /\ page = Torn => SlugOf(p) \in Mirrored(tx[w])
      /\ tx' = [tx EXCEPT ![w].got = got]
      /\ todo' = [todo EXCEPT ![w] = todo[w] \ {p}]
      /\ UNCHANGED <<tree, items, stage, pc, job, request>>
  BY DEF ReadPage, bundleVars, dbVars, serverVars, apiVars
<1>2. ShapeInv /\ PlaceInv /\ Progress(w) /\ tx[w] \in Transaction /\ Sees(w)
      /\ stage[job[w]] # "done" /\ Bundle(w)' = Bundle(w) /\ Bundle(w) \in Bundles
  BY <1>1, MirrorSees DEF Mirroring, Bundle
<1>3. p \in todo[w] /\ p \in Pages /\ page # Absent /\ Rank[TypeOf(p)] = tx[w].rank
  BY <1>1, <1>2, FirstIsMember DEF Progress, ShapeInv
<1>4. /\ todo'[w] = todo[w] \ {p} /\ tx'[w] = [tx[w] EXCEPT !.got = got]
  BY <1>1, <1>2 DEF ShapeInv
<1> HIDE DEF p
<1>5. SlugOf(p) \notin Mirrored(tx[w]) =>
          page \in Body /\ page # Torn /\ page.page = p
  BY <1>1, <1>2, <1>3, MarkersAreNoRow DEF ShapeInv, PlaceInv
<1>6. /\ tx'[w].rank = tx[w].rank /\ tx'[w].got = got
      /\ tx'[w].row = tx[w].row /\ tx'[w].rows = tx[w].rows
  BY <1>2, <1>4 DEF Transaction
<1>7. Mirrored(tx'[w]) = Mirrored(tx[w]) \union {SlugOf(p)}
  <2>1. Mirrored(tx'[w]) = {SlugOf(b.page) : b \in got}
    BY <1>6 DEF Mirrored
  <2>2. CASE SlugOf(p) \in Mirrored(tx[w])
    BY <2>1, <2>2 DEF Mirrored
  <2>3. CASE SlugOf(p) \notin Mirrored(tx[w])
    BY <1>5, <2>1, <2>3 DEF Mirrored
  <2> QED
    BY <2>2, <2>3
<1>8. SlugOf(p) \notin Mirrored(tx[w]) => p \in Winners(Bundle(w))
  <2> SUFFICES ASSUME SlugOf(p) \notin Mirrored(tx[w]), NEW q \in Pages,
                      tree[Bundle(w)][q] # Absent, SlugOf(q) = SlugOf(p)
               PROVE  Before(p, q)
    BY <1>3, <1>5 DEF Winners
  <2>1. Rank[TypeOf(q)] \in Nat /\ Rank[TypeOf(p)] \in Nat /\ SlugOf(p) \in Nat
    BY <1>3, PageParts
  <2>2. Rank[TypeOf(p)] <= Rank[TypeOf(q)]
    <3>1. SUFFICES ASSUME Rank[TypeOf(q)] < Rank[TypeOf(p)] PROVE FALSE
      BY <2>1
    <3>2. q \in todo[w]
      BY <1>1, <1>2, <1>3, <2>1, <3>1 DEF Sees
    <3> QED
      BY <1>1, <1>2, <1>3, <2>1, <3>1, <3>2 DEF Progress
  <2>3. CASE Rank[TypeOf(p)] < Rank[TypeOf(q)]
    BY <2>3 DEF Before
  <2>4. CASE Rank[TypeOf(p)] = Rank[TypeOf(q)]
    BY <1>3, <2>1, <2>4, RankIsType DEF Before
  <2> QED
    BY <2>1, <2>2, <2>3, <2>4
<1>9. Sees(w)'
  <2>1. \A b \in got : b = tree[Bundle(w)][b.page] /\ b.page \in Winners(Bundle(w))
    BY <1>2, <1>5, <1>8 DEF Sees
  <2>2. ASSUME NEW q \in Pages, tree[Bundle(w)][q] # Absent, Rank[TypeOf(q)] <= tx[w].rank
        PROVE  q \in todo'[w] \/ SlugOf(q) \in Mirrored(tx'[w])
    BY <1>1, <1>2, <1>4, <1>7, <2>2 DEF Sees
  <2>3. Winners(Bundle(w))' = Winners(Bundle(w))
    BY <1>1, <1>2 DEF Winners
  <2> HIDE DEF got
  <2> QED
    BY <1>1, <1>2, <1>6, <2>1, <2>2, <2>3 DEF Sees
<1>10. tx'[w].row = Absent /\ DOMAIN tx'[w].rows = {}
  BY <1>1, <1>2, <1>6 DEF Progress, Blank
<1> QED
  BY <1>1, <1>2, <1>9, <1>10, SerialReading
\* A step of the only worker on its rows: what it has collected stays.
LEMMA SeesStays ==
    ASSUME NEW w \in Workers, Sees(w), pc[w] = "read" => todo[w] = {} /\ tx[w].rank = 3,
           pc'[w] # "read", tree' = tree, job'[w] = job[w], tx'[w].got = tx[w].got
    PROVE  Sees(w)'
<1>1. /\ Bundle(w)' = Bundle(w) /\ Winners(Bundle(w))' = Winners(Bundle(w))
      /\ Mirrored(tx[w])' = Mirrored(tx[w])
  BY DEF Bundle, Winners, Mirrored
<1>2. \A p \in Pages : tree[Bundle(w)][p] # Absent => SlugOf(p) \in Mirrored(tx[w])
  <2>1. \A p \in Pages : Rank[TypeOf(p)] <= 3
    BY PageParts
  <2> QED
    BY <2>1 DEF Sees
<1>3. \A b \in tx[w].got : b = tree[Bundle(w)][b.page] /\ b.page \in Winners(Bundle(w))
  BY DEF Sees
<1> QED
  BY <1>1, <1>2, <1>3 DEF Sees

LEMMA EndCollectSerial ==
    ASSUME OneWorker, MirrorInv, SerialInv, NEW w \in Workers, EndCollect(w)
    PROVE  SerialInv'
<1>1. /\ pc[w] = "read" /\ todo[w] = {} /\ tx[w].rank = 3
      /\ pc' = [pc EXCEPT ![w] = "rows"]
      /\ todo' = [todo EXCEPT ![w] = {b.page : b \in tx[w].got}]
      /\ UNCHANGED <<tree, items, stage, job, tx, request>>
  BY DEF EndCollect, bundleVars, dbVars, serverVars, apiVars
<1>2. ShapeInv /\ Progress(w) /\ Sees(w) /\ stage[job[w]] # "done"
  BY <1>1, MirrorSees DEF Mirroring
<1>3. pc'[w] = "rows" /\ todo'[w] = {b.page : b \in tx[w].got} /\ tx'[w] = tx[w]
  BY <1>1, <1>2 DEF ShapeInv
<1>4. Sees(w)'
  BY <1>1, <1>2, <1>3, SeesStays
<1>5. Handles(w)'
  <2>1. tx'[w].row = Absent /\ DOMAIN tx'[w].rows = {}
    BY <1>1, <1>2, <1>3 DEF Progress, Blank
  <2>2. \A b \in tx'[w].got : b.page \in todo'[w]
    BY <1>3
  <2> QED
    BY <2>1, <2>2 DEF Handles
<1>6. Built(w)'
  BY <1>3 DEF Built
<1> QED
  BY <1>1, <1>2, <1>4, <1>5, <1>6, SerialStep DEF MirrorSerial

LEMMA SkipRowSerial ==
    ASSUME OneWorker, MirrorInv, SerialInv, NEW w \in Workers, SkipRow(w)
    PROVE  SerialInv'
<1> DEFINE s == SlugOf(Page(w).page)
<1>1. /\ pc[w] = "rows" /\ todo[w] # {}
      /\ items[s] # Absent /\ Current(items[s]) = Page(w) /\ items[s].type = TypeOf(Page(w).page)
      /\ todo' = [todo EXCEPT ![w] = todo[w] \ {First(todo[w])}]
      /\ UNCHANGED <<tree, items, stage, pc, job, tx, request>>
  BY DEF SkipRow, Skips, SameText, bundleVars, dbVars, serverVars, apiVars
<1>2. ShapeInv /\ Progress(w) /\ Sees(w) /\ Handles(w) /\ stage[job[w]] # "done"
  BY <1>1, MirrorSees DEF Mirroring
<1>3. /\ Page(w) \in tx[w].got /\ Page(w).page = First(todo[w]) /\ First(todo[w]) \in todo[w]
  BY <1>1, <1>2, PageAtHand
<1>4. todo'[w] = todo[w] \ {Page(w).page} /\ tx'[w] = tx[w] /\ pc'[w] = "rows"
  BY <1>1, <1>2, <1>3 DEF ShapeInv
<1>5. Sees(w)'
  BY <1>1, <1>2, <1>4, SeesStays
<1>6. \A b, c \in tx[w].got : SlugOf(b.page) = SlugOf(c.page) => b = c
  BY <1>1, <1>2 DEF Progress, Mirroring
<1>7. ~Locks(w, s)
  BY <1>2, <1>3, <1>6 DEF Handles, Locks
<1>8. Handles(w)'
  <2>1. tx'[w].row = Absent
    BY <1>1, <1>2, <1>4 DEF Progress
  <2>2. ASSUME NEW r \in DOMAIN tx[w].rows
        PROVE  /\ VersionsApart(tx[w].rows[r])
               /\ (items[r] # Absent /\ ~Published(r) /\ tx[w].rows[r].status = "published") =>
                     Current(tx[w].rows[r]) # Current(items[r])
               /\ \E b \in tx[w].got : SlugOf(b.page) = r /\ b.page \notin todo'[w]
    BY <1>2, <1>4 DEF Handles
  <2>3. ASSUME NEW b \in tx[w].got, b.page \notin todo'[w]
        PROVE  Serves(Row(w, SlugOf(b.page)), b)
    <3>1. CASE b.page \notin todo[w]
      BY <1>1, <1>2, <3>1 DEF Handles
    <3>2. CASE b.page \in todo[w]
      <4>1. b = Page(w)
        BY <1>3, <1>4, <1>6, <2>3, <3>2
      <4> QED
        BY <1>1, <1>7, <4>1 DEF Row, Serves
    <3> QED
      BY <3>1, <3>2
  <2>4. \A r : (Published(r)' <=> Published(r)) /\ Row(w, r)' = Row(w, r)
    BY <1>1, <1>4 DEF Published, Row, Locks
  <2> QED
    BY <1>1, <1>4, <2>1, <2>2, <2>3, <2>4 DEF Handles
<1>9. Built(w)'
  BY <1>4 DEF Built
<1> QED
  BY <1>1, <1>2, <1>5, <1>8, <1>9, SerialStep DEF MirrorSerial

LEMMA ReadRowSerial ==
    ASSUME OneWorker, MirrorInv, SerialInv, NEW w \in Workers, ReadRow(w)
    PROVE  SerialInv'
<1> DEFINE s == SlugOf(Page(w).page)
<1>1. /\ pc[w] = "rows" /\ todo[w] # {}
      /\ tx' = [tx EXCEPT ![w].row = items[s]]
      /\ pc' = [pc EXCEPT ![w] = "write"]
      /\ UNCHANGED <<tree, items, stage, todo, job, request>>
  BY DEF ReadRow, bundleVars, dbVars, serverVars, apiVars
<1>2. ShapeInv /\ tx[w] \in Transaction /\ Sees(w) /\ Handles(w) /\ stage[job[w]] # "done"
  BY <1>1, MirrorSees DEF Mirroring
<1>3. pc'[w] = "write" /\ tx'[w] = [tx[w] EXCEPT !.row = items[s]]
  BY <1>1, <1>2 DEF ShapeInv
<1>4. /\ tx'[w].rank = tx[w].rank /\ tx'[w].got = tx[w].got /\ tx'[w].row = items[s]
      /\ tx'[w].rows = tx[w].rows
  BY <1>2, <1>3 DEF Transaction
<1>5. Sees(w)'
  BY <1>1, <1>2, <1>3, <1>4, SeesStays
<1>6. Handles(w)'
  <2>1. Page(w)' = Page(w)
    BY <1>1, <1>4 DEF Page
  <2>2. \A r : (Published(r)' <=> Published(r)) /\ Row(w, r)' = Row(w, r)
    BY <1>1, <1>4 DEF Published, Row, Locks
  <2> QED
    BY <1>1, <1>2, <1>3, <1>4, <2>1, <2>2 DEF Handles
<1>7. Built(w)'
  BY <1>3 DEF Built
<1> QED
  BY <1>1, <1>2, <1>5, <1>6, <1>7, SerialStep DEF MirrorSerial

LEMMA AppendedIs ==
    ASSUME NEW q \in Seq(Body), NEW x \in Body, Len(q) > 0, q[Len(q)] # x,
           \A k \in 1 .. Len(q) - 1 : q[k] # q[k + 1], NEW r, r = Append(q, x)
    PROVE  r[Len(r)] = x /\ \A k \in 1 .. Len(r) - 1 : r[k] # r[k + 1]
<1>1. /\ Len(r) = Len(q) + 1 /\ r[Len(q) + 1] = x /\ \A k \in 1 .. Len(q) : r[k] = q[k]
      /\ Len(q) \in Nat
  OBVIOUS
<1>2. ASSUME NEW k \in 1 .. Len(q) PROVE r[k] # r[k + 1]
  <2>1. CASE k = Len(q)
    BY <1>1, <2>1
  <2>2. CASE k # Len(q)
    <3>1. k \in 1 .. Len(q) - 1 /\ k + 1 \in 1 .. Len(q)
      BY <1>1, <2>2
    <3> QED
      BY <1>1, <3>1
  <2> QED
    BY <2>1, <2>2
<1> QED
  BY <1>1, <1>2

\* The row that is written serves the page at hand, repeats no text, and is
\* published again only with another text.
LEMMA WrittenServes ==
    ASSUME MirrorInv, SerialInv, NEW w \in Workers, pc[w] = "write",
           NEW s, s = SlugOf(Page(w).page),
           tx[w].row = Absent => items[s] = Absent,
           NEW written,
           written = IF tx[w].row = Absent THEN NewItem(w, Page(w))
                     ELSE Updated(items[s], tx[w].row, Page(w))
    PROVE  /\ VersionsApart(written) /\ Serves(written, Page(w))
           /\ (items[s] # Absent /\ ~Published(s) /\ written.status = "published") =>
                  Current(written) # Current(items[s])
<1>1. /\ ShapeInv /\ PlaceInv /\ Progress(w) /\ tx[w] \in Transaction /\ Handles(w)
      /\ Bundle(w) \in Bundles
  BY MirrorSees DEF Mirroring
<1>2. /\ Page(w) \in Body /\ Page(w).page \in Pages /\ s \in Slugs
  BY <1>1, PageAtHand DEF Progress
<1>3. written \in Item /\ written # Absent
  BY RowWrittenIs, MarkersAreNoRow
<1>4. CASE tx[w].row = Absent
  <2> DEFINE q == <<Page(w)>>
  <2>1. /\ written.type = TypeOf(Page(w).page) /\ written.versions = q
        /\ items[s] = Absent
    BY <1>4 DEF NewItem
  <2>2. Len(q) = 1 /\ q[1] = Page(w)
    OBVIOUS
  <2> HIDE DEF q
  <2>3. VersionsApart(written)
    <3>1. Len(written.versions) = 1
      BY <2>1, <2>2
    <3>2. \A k \in 1 .. 1 - 1 : FALSE
      OBVIOUS
    <3> QED
      BY <3>1, <3>2 DEF VersionsApart
  <2>4. Current(written) = Page(w)
    BY <2>1, <2>2 DEF Current, Last
  <2> QED
    BY <1>3, <2>1, <2>3, <2>4 DEF Serves
<1>5. CASE tx[w].row # Absent
  <2> DEFINE i == items[s]
             row == tx[w].row
  <2>1. row \in Item /\ i.versions = row.versions /\ i.type = row.type
    BY <1>1, <1>5 DEF Transaction, Handles
  <2>2. i \in Item /\ Len(i.versions) > 0
    <3>1. Follows(w)
      BY DEF MirrorInv, WorkerInv
    <3>2. i # Absent
      BY <1>5, <3>1 DEF Follows
    <3> QED
      BY <1>1, <1>2, <3>2 DEF ShapeInv, PlaceInv
  <2>3. VersionsApart(i)
    BY <1>2, <2>2, VersionsApartIs, MarkersAreNoRow DEF SerialInv
  <2>4. written = Updated(i, row, Page(w))
    BY <1>5
  <2>5. i = items[s]
    OBVIOUS
  <2> HIDE DEF i, row
  <2>6. /\ written.versions = IF SameText(row, Page(w)) THEN i.versions
                              ELSE Append(i.versions, Page(w))
        /\ written.type = TypeOf(Page(w).page)
        /\ written.status = IF SameText(row, Page(w)) \/ row.status = "published"
                            THEN i.status ELSE "published"
    BY <2>1, <2>2, <2>4 DEF Updated, Item
  <2>7. i.versions \in Seq(Body) /\ Current(i) = Current(row)
    BY <2>1, <2>2 DEF Item, Current
  <2>8. CASE SameText(row, Page(w))
    <3>1. VersionsApart(written) /\ Current(written) = Page(w) /\ written.status = i.status
      BY <2>3, <2>6, <2>7, <2>8 DEF VersionsApart, Current, SameText
    <3> QED
      BY <1>3, <2>5, <2>6, <3>1 DEF Serves, Published
  <2>9. CASE ~SameText(row, Page(w))
    <3>1. i.versions[Len(i.versions)] # Page(w)
      BY <2>7, <2>9 DEF SameText, Current, Last
    <3>2. /\ written.versions[Len(written.versions)] = Page(w)
          /\ \A k \in 1 .. Len(written.versions) - 1 : written.versions[k] # written.versions[k + 1]
      <4>1. \A k \in 1 .. Len(i.versions) - 1 : i.versions[k] # i.versions[k + 1]
        BY <2>3 DEF VersionsApart
      <4>2. PICK q : q = i.versions
        OBVIOUS
      <4>3. PICK r : r = written.versions
        OBVIOUS
      <4>4. PICK x : x = Page(w)
        OBVIOUS
      <4>5. /\ q \in Seq(Body) /\ x \in Body /\ Len(q) > 0 /\ q[Len(q)] # x
            /\ \A k \in 1 .. Len(q) - 1 : q[k] # q[k + 1]
            /\ r = Append(q, x)
        BY <1>2, <2>2, <2>6, <2>7, <2>9, <3>1, <4>1, <4>2, <4>3, <4>4
      <4>6. r[Len(r)] = x /\ \A k \in 1 .. Len(r) - 1 : r[k] # r[k + 1]
        BY <4>5, AppendedIs
      <4> QED
        BY <4>3, <4>4, <4>6
    <3>3. Current(written) = Page(w) /\ Current(i) # Page(w)
      BY <3>1, <3>2 DEF Current, Last
    <3> QED
      BY <1>3, <2>5, <2>6, <3>2, <3>3 DEF Serves, VersionsApart
  <2> QED
    BY <2>8, <2>9
<1> QED
  BY <1>4, <1>5

LEMMA WriteRowSerial ==
    ASSUME OneWorker, MirrorInv, SerialInv, NEW w \in Workers, WriteRow(w)
    PROVE  SerialInv'
<1>1. PICK s : s = SlugOf(Page(w).page)
  OBVIOUS
<1>2. PICK written : written = IF tx[w].row = Absent THEN NewItem(w, Page(w))
                               ELSE Updated(items[s], tx[w].row, Page(w))
  OBVIOUS
<1>3. PICK rows : rows = [x \in DOMAIN tx[w].rows \union {s} |->
                              IF x = s THEN written ELSE tx[w].rows[x]]
  OBVIOUS
<1>4. /\ pc[w] = "write"
      /\ tx[w].row = Absent => items[s] = Absent
      /\ tx' = [tx EXCEPT ![w].row = Absent, ![w].rows = rows]
      /\ todo' = [todo EXCEPT ![w] = todo[w] \ {First(todo[w])}]
      /\ pc' = [pc EXCEPT ![w] = "rows"]
      /\ UNCHANGED <<tree, items, stage, job, request>>
  BY <1>1, <1>2, <1>3 DEF WriteRow, bundleVars, dbVars, serverVars, apiVars
<1>5. ShapeInv /\ Progress(w) /\ tx[w] \in Transaction /\ Sees(w) /\ Handles(w)
      /\ stage[job[w]] # "done" /\ \A b, c \in tx[w].got : SlugOf(b.page) = SlugOf(c.page) => b = c
  BY <1>4, MirrorSees DEF Mirroring, Progress
<1>6. /\ Page(w) \in tx[w].got /\ Page(w).page = First(todo[w])
  BY <1>4, <1>5, PageAtHand DEF Progress
<1>7. /\ VersionsApart(written) /\ Serves(written, Page(w))
      /\ (items[s] # Absent /\ ~Published(s) /\ written.status = "published") =>
             Current(written) # Current(items[s])
  BY <1>1, <1>2, <1>4, WrittenServes
<1>8. /\ DOMAIN rows = DOMAIN tx[w].rows \union {s} /\ rows[s] = written
      /\ \A r \in DOMAIN tx[w].rows \ {s} : rows[r] = tx[w].rows[r]
  BY <1>3
<1>9. /\ todo'[w] = todo[w] \ {Page(w).page} /\ pc'[w] = "rows"
      /\ tx'[w] = [tx[w] EXCEPT !.row = Absent, !.rows = rows]
  BY <1>4, <1>5, <1>6 DEF ShapeInv
<1>10. /\ tx'[w].got = tx[w].got /\ tx'[w].row = Absent /\ tx'[w].rows = rows
  BY <1>5, <1>9 DEF Transaction
<1>11. Sees(w)'
  BY <1>4, <1>5, <1>9, <1>10, SeesStays
<1>12. Handles(w)'
  <2>1. ASSUME NEW r \in DOMAIN rows
        PROVE  /\ VersionsApart(rows[r])
               /\ (items[r] # Absent /\ ~Published(r) /\ rows[r].status = "published") =>
                     Current(rows[r]) # Current(items[r])
               /\ \E b \in tx[w].got : SlugOf(b.page) = r /\ b.page \notin todo'[w]
    <3>1. CASE r = s
      BY <1>1, <1>6, <1>7, <1>8, <1>9, <3>1
    <3>2. CASE r # s
      <4>1. r \in DOMAIN tx[w].rows /\ rows[r] = tx[w].rows[r]
        BY <1>8, <3>2
      <4> QED
        BY <1>5, <1>9, <4>1 DEF Handles
    <3> QED
      BY <3>1, <3>2
  <2>2. ASSUME NEW b \in tx[w].got, b.page \notin todo'[w]
        PROVE  Serves(IF SlugOf(b.page) \in DOMAIN rows THEN rows[SlugOf(b.page)]
                      ELSE items[SlugOf(b.page)], b)
    <3>1. CASE SlugOf(b.page) = s
      <4>1. b = Page(w)
        BY <1>1, <1>5, <1>6, <3>1
      <4> QED
        BY <1>7, <1>8, <3>1, <4>1
    <3>2. CASE SlugOf(b.page) # s
      <4>1. b.page \notin todo[w]
        BY <1>1, <1>9, <2>2, <3>2
      <4>2. Serves(Row(w, SlugOf(b.page)), b)
        BY <1>4, <1>5, <4>1 DEF Handles
      <4> QED
        BY <1>8, <3>2, <4>2 DEF Row, Locks
    <3> QED
      BY <3>1, <3>2
  <2>3. \A r : /\ Published(r)' <=> Published(r)
               /\ Row(w, r)' = IF r \in DOMAIN rows THEN rows[r] ELSE items[r]
    BY <1>4, <1>10 DEF Published, Row, Locks
  <2>4. \A b \in tx[w].got : b.page \notin todo'[w] => Serves(Row(w, SlugOf(b.page)), b)'
    <3>1. \A i, b : Serves(i, b)' <=> Serves(i', b')
      BY DEF Serves, Current, Last
    <3> QED
      BY <2>2, <2>3 DEF Serves, Current, Last
  <2>5. /\ tx'[w].got = tx[w].got /\ tx'[w].row = Absent /\ tx'[w].rows = rows /\ items' = items
    BY <1>4, <1>10
  <2> QED
    BY <2>1, <2>3, <2>4, <2>5 DEF Handles
<1>13. Built(w)'
  BY <1>9 DEF Built
<1> QED
  BY <1>4, <1>5, <1>11, <1>12, <1>13, SerialStep DEF MirrorSerial
LEMMA BuildLinksSerial ==
    ASSUME OneWorker, MirrorInv, SerialInv, NEW w \in Workers, BuildLinks(w)
    PROVE  SerialInv'
<1>1. PICK old : old = OldEdges(tx[w])
  OBVIOUS
<1>2. PICK new : new = Edges(tx[w])
  OBVIOUS
<1>3. PICK after : after = {v \in Workers \ {w} : tx[v].del \intersect old # {}}
  OBVIOUS
<1>4. /\ pc[w] = "rows"
      /\ tx' = [tx EXCEPT ![w].del = old, ![w].new = new, ![w].after = after]
      /\ pc' = [pc EXCEPT ![w] = "commit"]
      /\ UNCHANGED <<tree, items, links, stage, todo, job, request>>
  BY <1>1, <1>2, <1>3 DEF BuildLinks, bundleVars, dbVars, serverVars, apiVars
<1>5. ShapeInv /\ Progress(w) /\ tx[w] \in Transaction /\ Sees(w) /\ Handles(w)
      /\ stage[job[w]] # "done"
  BY <1>4, MirrorSees DEF Mirroring
<1>6. pc'[w] = "commit" /\ tx'[w] = [tx[w] EXCEPT !.del = old, !.new = new, !.after = after]
  BY <1>4, <1>5 DEF ShapeInv
<1>7. /\ tx'[w].got = tx[w].got /\ tx'[w].row = tx[w].row /\ tx'[w].rows = tx[w].rows
      /\ tx'[w].del = old /\ tx'[w].new = new
  BY <1>5, <1>6 DEF Transaction
<1>8. Sees(w)'
  BY <1>4, <1>5, <1>6, <1>7, SeesStays
<1>9. Handles(w)'
  <2>1. tx[w].row = Absent
    BY <1>4, <1>5 DEF Progress
  <2>2. \A r : (Published(r)' <=> Published(r)) /\ Row(w, r)' = Row(w, r)
    BY <1>4, <1>7 DEF Published, Row, Locks
  <2> QED
    BY <1>4, <1>5, <1>7, <2>1, <2>2 DEF Handles
<1>10. Built(w)'
  <2>1. Mirrored(tx'[w]) = Mirrored(tx[w])
    BY <1>7 DEF Mirrored
  <2>2. Edges(tx[w])' = new
    BY <1>2, <1>4, <1>7, <2>1 DEF Edges
  <2>3. old = Touching(links, Mirrored(tx[w])) /\ links \subseteq Pair
    BY <1>1, <1>5 DEF OldEdges, ShapeInv
  <2> QED
    BY <1>4, <1>7, <2>1, <2>2, <2>3 DEF Built, Touching
<1> QED
  BY <1>4, <1>5, <1>8, <1>9, <1>10, SerialStep DEF MirrorSerial

\* The mirror goes on when the server has given up on it.
\* What the server decides while the worker goes on.
LEMMA ServerSerial ==
    ASSUME OneWorker, MirrorInv, SerialInv, NEW w \in Workers,
           UNCHANGED <<tree, items, links, pc, job, todo, tx, request>>,
           \A j \in Jobs : stage'[j] = "done" => stage[j] = "done"
    PROVE  SerialInv'
<1>1. ASSUME Mirroring(w) PROVE MirrorSerial(w)'
  <2>1. ShapeInv /\ Sees(w) /\ Handles(w) /\ Built(w) /\ job[w] \in Jobs /\ stage[job[w]] # "done"
    BY <1>1, MirrorSees
  <2>2. Sees(w)'
    BY <2>1 DEF Sees, Bundle, Winners, Mirrored
  <2>3. Handles(w)'
    <3>1. \A r : (Published(r)' <=> Published(r)) /\ Row(w, r)' = Row(w, r)
      BY DEF Published, Row, Locks
    <3>2. Page(w)' = Page(w)
      BY DEF Page
    <3> QED
      BY <2>1, <3>1, <3>2 DEF Handles
  <2>4. Built(w)'
    BY <2>1 DEF Built, Mirrored, Edges
  <2> QED
    BY <2>1, <2>2, <2>3, <2>4 DEF MirrorSerial
<1>2. Mirroring(w)' <=> Mirroring(w)
  BY DEF Mirroring
<1> QED
  BY <1>1, <1>2, SerialStep

LEMMA TimesOutSerial ==
    ASSUME OneWorker, MirrorInv, SerialInv, NEW w \in Workers, TimesOut(w)
    PROVE  SerialInv'
<1>1. /\ pc[w] # "idle" /\ stage' = [stage EXCEPT ![job[w]] = Retried(job[w])]
      /\ UNCHANGED <<tree, items, links, pc, job, todo, tx, request>>
  BY DEF TimesOut, bundleVars, dbVars, slotVars, apiVars
<1>2. \A j \in Jobs : stage'[j] = "done" => stage[j] = "done"
  BY <1>1 DEF MirrorInv, ShapeInv, Retried
<1> QED
  BY <1>1, <1>2, ServerSerial

LEMMA IngestTimesOutSerial ==
    ASSUME OneWorker, MirrorInv, SerialInv, NEW j \in Jobs, IngestTimesOut(j)
    PROVE  SerialInv'
<1>1. /\ stage[j] = "ingest"
      /\ stage' = [stage EXCEPT ![j] = IF tries[j] + 1 = MaxAttempts THEN "failed" ELSE @]
      /\ UNCHANGED <<tree, items, links, pc, job, todo, tx, request>>
  BY DEF IngestTimesOut, bundleVars, dbVars, slotVars, apiVars
<1>2. \A i \in Jobs : stage'[i] = "done" => stage[i] = "done"
  BY <1>1 DEF MirrorInv, ShapeInv
<1>3. CASE Workers = {}
  BY <1>1, <1>3 DEF SerialInv, VersionsDiffer
<1>4. CASE Workers # {}
  BY <1>1, <1>2, <1>4, ServerSerial
<1> QED
  BY <1>3, <1>4

\* Steps of an ingest, and the failures.
LEMMA QuietSerial ==
    ASSUME OneWorker, MirrorInv, SerialInv, NEW w \in Workers,
           \/ \E j \in Jobs : StartIngest(w, j) \/ StartStray(w, j)
           \/ BeginWrite(w) \/ FlushPart(w) \/ EndWrite(w) \/ IngestTorn(w) \/ EndIngest(w)
           \/ ReadTorn(w) \/ InsertFails(w) \/ CommitFails(w) \/ IngestFails(w) \/ DbFails(w) \/ Crash(w)
    PROVE  SerialInv'
<1>1. ShapeInv
  BY DEF MirrorInv
<1>2. CASE \/ \E j \in Jobs : StartIngest(w, j) \/ StartStray(w, j)
           \/ BeginWrite(w) \/ FlushPart(w) \/ EndWrite(w) \/ EndIngest(w)
  <2>1. items' = items /\ request' = request
    BY <1>2 DEF StartIngest, StartStray, BeginWrite, FlushPart, EndWrite, EndIngest, dbVars,
                apiVars
  <2>2. pc'[w] \in {"ingest", "writing", "idle"}
    BY <1>1, <1>2 DEF StartIngest, StartStray, BeginWrite, FlushPart, EndWrite, EndIngest,
                     Leave, ShapeInv
  <2> QED
    BY <2>1, <2>2, SerialStep DEF Mirroring
<1>3. CASE Raise(w)
  <2>1. items' = items /\ Leave(w, Retried(job[w]), tries[job[w]]) /\ Release(w, {})
    BY <1>3 DEF Raise, dbVars
  <2>2. pc'[w] = "idle"
    BY <1>1, <2>1 DEF Leave, ShapeInv
  <2>3. request'.slug = request.slug /\ request'.del \subseteq request.del
    BY <1>1, <2>1, ReleaseIs
  <2> QED
    BY <2>1, <2>2, <2>3, SerialStep DEF Mirroring
<1> QED
  BY <1>2, <1>3 DEF IngestTorn, ReadTorn, InsertFails, CommitFails, IngestFails, DbFails, Crash

\* A step of the endpoint changes at most the status of an item no mirror has.
LEMMA RequestSerial ==
    ASSUME MirrorInv, SerialInv,
           UNCHANGED <<tree, stage, pc, job, todo, tx>>, links' \subseteq links,
           request'.del \subseteq Touching(Pair, {request'.slug}),
           \A s \in Slugs : items'[s] = Absent <=> items[s] = Absent,
           \A s \in Slugs : items[s] # Absent => /\ items'[s].versions = items[s].versions
                                                 /\ items'[s].type = items[s].type,
           \A w \in Workers : \A s \in Slugs : Locks(w, s) => items'[s] = items[s]
    PROVE  SerialInv'
<1>1. VersionsDiffer'
  BY DEF SerialInv, VersionsDiffer
<1>2. ASSUME NEW w \in Workers, Mirroring(w) PROVE MirrorSerial(w)'
  <2>1. ShapeInv /\ PlaceInv /\ LocksInv /\ Progress(w) /\ tx[w] \in Transaction
        /\ Sees(w) /\ Handles(w) /\ Built(w) /\ stage[job[w]] # "done"
    BY <1>2, MirrorSees
  <2>2. \A b \in tx[w].got : b.page \in Pages /\ SlugOf(b.page) \in Slugs
    BY <2>1, PageParts DEF Transaction, Body
  <2>3. \A s \in DOMAIN tx[w].rows : s \in Slugs /\ Locks(w, s) /\ items'[s] = items[s]
    BY <2>1, RowsAre DEF Transaction, Locks
  <2>4. Page(w)' = Page(w) /\ (tx[w].row # Absent =>
            /\ SlugOf(Page(w).page) \in Slugs /\ items[SlugOf(Page(w).page)] # Absent)
    <3>1. tx[w].row # Absent => SlugOf(Page(w).page) \in Slugs
      BY <2>1, PageAtHand DEF Progress
    <3>2. Follows(w)
      BY DEF MirrorInv, WorkerInv
    <3> QED
      BY <3>1, <3>2 DEF Page, Follows
  <2>5. \A s \in Slugs : \A b : Serves(Row(w, s), b) => Serves(Row(w, s)', b)
    <3> SUFFICES ASSUME NEW s \in Slugs, NEW b, Serves(Row(w, s), b) PROVE Serves(Row(w, s)', b)
      OBVIOUS
    <3>1. Row(w, s) = (IF Locks(w, s) THEN tx[w].rows[s] ELSE items[s])
          /\ Row(w, s)' = (IF Locks(w, s) THEN tx[w].rows[s] ELSE items'[s])
      BY DEF Row, Locks
    <3>2. CASE Locks(w, s)
      BY <3>1, <3>2
    <3>3. CASE ~Locks(w, s)
      BY <3>1, <3>3 DEF Serves, Current
    <3> QED
      BY <3>2, <3>3
  <2>6. Sees(w)'
    BY <2>1 DEF Sees, Bundle, Winners, Mirrored
  <2>7. Handles(w)'
    <3>1. tx[w].row # Absent =>
            LET i == items'[SlugOf(Page(w).page)]
            IN  i.versions = tx[w].row.versions /\ i.type = tx[w].row.type
      BY <2>1, <2>4 DEF Handles
    <3>2. \A s \in DOMAIN tx[w].rows :
            /\ VersionsApart(tx[w].rows[s])
            /\ (items'[s] # Absent /\ ~Published(s)' /\ tx[w].rows[s].status = "published") =>
                  Current(tx[w].rows[s]) # Current(items'[s])
            /\ \E b \in tx[w].got : SlugOf(b.page) = s /\ b.page \notin todo[w]
      <4>1. \A s \in DOMAIN tx[w].rows : Published(s)' <=> Published(s)
        BY <2>3 DEF Published
      <4> QED
        BY <2>1, <2>3, <4>1 DEF Handles
    <3>3. pc[w] # "read" => \A b \in tx[w].got :
            b.page \notin todo[w] => Serves(Row(w, SlugOf(b.page))', b)
      BY <2>1, <2>2, <2>5 DEF Handles
    <3>4. \A i, b : Serves(i, b)' <=> Serves(i', b')
      BY DEF Serves, Current, Last
    <3> QED
      BY <2>4, <3>1, <3>2, <3>3, <3>4 DEF Handles
  <2>8. Built(w)'
    <3>1. Mirrored(tx[w])' = Mirrored(tx[w])
      BY DEF Mirrored
    <3>2. Edges(tx[w])' = Edges(tx[w])
      <4>1. \A l \in Pair : l[2] \in Slugs
        BY DEF Pair
      <4> QED
        BY <3>1, <4>1 DEF Edges
    <3> QED
      BY <2>1, <3>1, <3>2 DEF Built, Touching
  <2> QED
    BY <2>1, <2>6, <2>7, <2>8 DEF MirrorSerial
<1>3. \A w \in Workers : Mirroring(w)' <=> Mirroring(w)
  BY DEF Mirroring
<1> QED
  BY <1>1, <1>2, <1>3 DEF SerialInv

LEMMA ArchiveSerial ==
    ASSUME MirrorInv, SerialInv, EndArchive \/ \E s \in Slugs : BeginArchive(s)
    PROVE  SerialInv'
<1>1. ShapeInv /\ PlaceInv /\ LocksInv
  BY DEF MirrorInv
<1>2. ASSUME NEW s \in Slugs, BeginArchive(s) PROVE SerialInv'
  <2>1. request' = [slug |-> s, del |-> Touching(links, {s}),
                    after |-> {v \in Workers : tx[v].del \intersect Touching(links, {s}) # {}}]
        /\ UNCHANGED <<tree, items, links, stage, pc, job, todo, tx>>
    BY <1>2 DEF BeginArchive, bundleVars, dbVars, serverVars, slotVars
  <2>2. request'.del \subseteq Touching(Pair, {request'.slug})
    BY <1>1, <2>1 DEF ShapeInv, Touching
  <2> QED
    BY <2>1, <2>2, RequestSerial
<1>3. CASE EndArchive
  <2>1. PICK s : s = request.slug
    OBVIOUS
  <2>2. /\ s # NoOne /\ items' = [items EXCEPT ![s].status = "archived"]
        /\ links' \subseteq links /\ request' = NoRequest
        /\ UNCHANGED <<tree, stage, pc, job, todo, tx>>
    BY <1>3, <2>1 DEF EndArchive, bundleVars, serverVars, slotVars
  <2>3. s \in Slugs /\ items[s] \in Item
    BY <1>1, <2>1, <2>2 DEF ShapeInv, PlaceInv
  <2>4. /\ items'[s] = [items[s] EXCEPT !.status = "archived"]
        /\ \A r \in Slugs \ {s} : items'[r] = items[r]
    BY <1>1, <2>2, <2>3 DEF ShapeInv
  <2>5. items'[s] # Absent /\ items[s] # Absent /\ items'[s].versions = items[s].versions
        /\ items'[s].type = items[s].type
    BY <2>3, <2>4, MarkersAreNoRow DEF Item
  <2>6. \A w \in Workers : \A r \in Slugs : Locks(w, r) => items'[r] = items[r]
    BY <1>1, <2>1, <2>4 DEF LocksInv
  <2>7. request'.del \subseteq Touching(Pair, {request'.slug})
    BY <2>2 DEF NoRequest
  <2> QED
    BY <2>2, <2>4, <2>5, <2>6, <2>7, RequestSerial
<1> QED
  BY <1>2, <1>3

\* Items after the commit of w are the rows it leaves.
LEMMA CommitSerial ==
    ASSUME OneWorker, MirrorInv, SerialInv, NEW w \in Workers, Commit(w)
    PROVE  SerialInv'
<1>1. /\ pc[w] = "commit" /\ Leave(w, "done", 0) /\ Release(w, tx[w].new)
      /\ items' = [s \in Slugs |-> IF Locks(w, s) THEN tx[w].rows[s] ELSE items[s]]
  BY DEF Commit
<1>2. ShapeInv /\ Handles(w)
  BY <1>1, MirrorSees DEF Mirroring
<1>3. pc'[w] = "idle" /\ \A v \in Workers : v = w
  BY <1>1, <1>2 DEF Leave, ShapeInv, OneWorker
<1>4. request'.slug = request.slug /\ request'.del \subseteq request.del
  BY <1>1, <1>2, ReleaseIs
<1>5. VersionsDiffer'
  <2>1. \A s \in Slugs : items'[s] # Absent => VersionsApart(items'[s])
    <3>1. \A s \in Slugs : items[s] # Absent => VersionsApart(items[s])
      BY VersionsApartIs DEF SerialInv
    <3> QED
      BY <1>1, <1>2, <3>1 DEF Handles, Locks
  <2> QED
    BY <2>1 DEF VersionsDiffer, VersionsApart
<1> QED
  BY <1>3, <1>4, <1>5 DEF SerialInv, Mirroring

LEMMA SerialInvInit ==
    ASSUME Init PROVE SerialInv
BY DEF Init, SerialInv, VersionsDiffer, NoRequest, Mirroring

LEMMA SerialInvStep ==
    ASSUME OneWorker, MirrorInv, SerialInv, [Next]_vars PROVE SerialInv'
<1>1. CASE \E j \in Jobs : Start(j)
  BY <1>1, StartMirrorSerial, QuietSerial DEF Start
<1>6. CASE \E j \in Jobs : IngestTimesOut(j) \/ \E w \in Workers : StartStray(w, j)
  BY <1>6, IngestTimesOutSerial, QuietSerial
<1>2. ASSUME NEW w \in Workers, Step(w) PROVE SerialInv'
  BY <1>2, QuietSerial, ListPagesSerial, ReadPageSerial, EndCollectSerial, SkipRowSerial,
     ReadRowSerial, WriteRowSerial, BuildLinksSerial, CommitSerial DEF Step
<1>3. ASSUME NEW w \in Workers,
             FlushPart(w) \/ IngestFails(w) \/ DbFails(w) \/ Crash(w) \/ TimesOut(w)
      PROVE  SerialInv'
  BY <1>3, QuietSerial, TimesOutSerial
<1>4. CASE EndArchive \/ \E s \in Slugs : BeginArchive(s)
  BY <1>4, ArchiveSerial
<1>5. CASE Finished \/ UNCHANGED vars
  <2>1. UNCHANGED <<tree, stage, pc, job, todo, tx, links, items, request>>
    BY <1>5 DEF Finished, vars
  <2> QED
    BY <2>1, RequestSerial DEF SerialInv
<1> QED
  BY <1>1, <1>2, <1>3, <1>4, <1>5, <1>6 DEF Next

LEMMA SerialInvariant ==
    ASSUME OneWorker
    PROVE  Spec => [](MirrorInv /\ SerialInv)
<1>1. Init => SerialInv
  BY SerialInvInit
<1>2. MirrorInv /\ SerialInv /\ [Next]_vars => SerialInv'
  BY SerialInvStep
<1> QED
  BY <1>1, <1>2, MirrorInvariant, PTL DEF Spec

\* With one worker process a mirror never adds a version that repeats the text
\* before it, whatever fails, times out, is repeated or archived meanwhile
\* (mirror_bundle compares a page with the current version only). Two
\* processes can: each compares before the other commits.
THEOREM SerialVersionsDiffer ==
    ASSUME OneWorker
    PROVE  Spec => []VersionsDiffer
<1>1. SerialInv => VersionsDiffer
  BY DEF SerialInv
<1> QED
  BY <1>1, SerialInvariant, PTL
-----------------------------------------------------------------------------
(* What a commit leaves.                                                   *)

LEMMA WinnersApart ==
    ASSUME NEW b, NEW p \in Winners(b), NEW q \in Winners(b), SlugOf(p) = SlugOf(q)
    PROVE  p = q
BY BeforeOneAnother DEF Winners

LEMMA CommitLeaves ==
    ASSUME MirrorInv, SerialInv, NEW w \in Workers, Commit(w),
           NEW bundle, bundle = Bundle(w), NEW known, known = Mirrored(tx[w])
    PROVE  /\ tree' = tree /\ bundle \in Bundles
           \* the items of other slugs stay
           /\ \A s \in Slugs : s \notin known => items'[s] = items[s]
           \* each slug is served with one of the pages there are, and with its links
           /\ \A s \in known : \E b \in tx[w].got :
                 /\ s = SlugOf(b.page) /\ b.page \in Winners(bundle) /\ b = tree[bundle][b.page]
                 /\ Serves(items'[s], b)
                 /\ \A t \in Slugs : (t # s /\ items'[t] # Absent) =>
                       (<<s, t>> \in links' <=> t \in b.links)
           \* of the links of other slugs those between them stay
           /\ \A s, t \in Slugs : s \notin known =>
                 (<<s, t>> \in links' <=> (t \notin known /\ <<s, t>> \in links))
           /\ \A p \in Pages : tree[bundle][p] # Absent => SlugOf(p) \in known
<1>1. /\ pc[w] = "commit" /\ tree' = tree
      /\ items' = [s \in Slugs |-> IF Locks(w, s) THEN tx[w].rows[s] ELSE items[s]]
      /\ links' = (links \ tx[w].del) \union tx[w].new
  BY DEF Commit
<1>2. /\ ShapeInv /\ Progress(w) /\ tx[w] \in Transaction /\ Sees(w) /\ Handles(w) /\ Built(w)
      /\ bundle \in Bundles
  BY <1>1, MirrorSees DEF Mirroring
<1>3. /\ Touching(links, known) \subseteq tx[w].del /\ tx[w].del \subseteq Touching(Pair, known)
      /\ tx[w].new = Edges(tx[w])
  BY <1>1, <1>2 DEF Built
<1>4. /\ todo[w] = {} /\ \A b, c \in tx[w].got : SlugOf(b.page) = SlugOf(c.page) => b = c
  BY <1>1, <1>2 DEF Progress, Mirroring
<1>5. \A s \in Slugs : items'[s] = Row(w, s) /\ (Locks(w, s) => s \in known)
  BY <1>1, <1>2 DEF Row, Handles, Locks, Mirrored
<1>6. \A b \in tx[w].got : b.page \in Pages /\ SlugOf(b.page) \in Slugs
  BY <1>2, PageParts DEF Transaction, Body
<1>7. \A s, t : <<s, t>> \in Edges(tx[w]) <=>
          /\ s \in Slugs /\ t \in Slugs /\ s # t
          /\ \E b \in tx[w].got : SlugOf(b.page) = s /\ t \in b.links
          /\ t \in known \/ items[t] # Absent
  BY DEF Edges, Pair
<1>8. \A L, S, s, t : <<s, t>> \in Touching(L, S) <=> (<<s, t>> \in L /\ (s \in S \/ t \in S))
  BY DEF Touching
<1>9. \A s \in Slugs : s \notin known => items'[s] = items[s]
  BY <1>5 DEF Row
<1>10. ASSUME NEW s \in known
       PROVE  \E b \in tx[w].got :
                 /\ s = SlugOf(b.page) /\ b.page \in Winners(bundle) /\ b = tree[bundle][b.page]
                 /\ Serves(items'[s], b)
                 /\ \A t \in Slugs : (t # s /\ items'[t] # Absent) =>
                       (<<s, t>> \in links' <=> t \in b.links)
  <2>1. PICK b \in tx[w].got : SlugOf(b.page) = s
    BY DEF Mirrored
  <2>2. b.page \in Winners(bundle) /\ b = tree[bundle][b.page]
    BY <1>2 DEF Sees
  <2>3. Serves(items'[s], b)
    BY <1>1, <1>2, <1>4, <1>5, <1>6, <2>1 DEF Handles
  <2>4. ASSUME NEW t \in Slugs, t # s, items'[t] # Absent
        PROVE  <<s, t>> \in links' <=> t \in b.links
    <3>1. <<s, t>> \in links' <=> <<s, t>> \in Edges(tx[w])
      BY <1>1, <1>3, <1>8
    <3>2. t \in known \/ items[t] # Absent
      BY <1>9, <2>4
    <3>3. s \in Slugs /\ \A c \in tx[w].got : SlugOf(c.page) = s => c = b
      BY <1>4, <1>6, <2>1
    <3> QED
      BY <1>7, <2>1, <2>4, <3>1, <3>2, <3>3
  <2> QED
    BY <2>1, <2>2, <2>3, <2>4
<1>11. ASSUME NEW s \in Slugs, NEW t \in Slugs, s \notin known
       PROVE  <<s, t>> \in links' <=> (t \notin known /\ <<s, t>> \in links)
  <2>1. <<s, t>> \notin Edges(tx[w])
    BY <1>7, <1>11 DEF Mirrored
  <2> QED
    BY <1>1, <1>3, <1>8, <1>11, <2>1
<1>12. \A p \in Pages : tree[bundle][p] # Absent => SlugOf(p) \in known
  BY <1>1, <1>2 DEF Sees
<1> QED
  BY <1>1, <1>2, <1>9, <1>10, <1>11, <1>12

LEMMA CommitIndex ==
    ASSUME MirrorInv, SerialInv, NEW w \in Workers, Commit(w), NEW bundle, bundle = Bundle(w)
    PROVE  IndexCurrent(bundle)'
<1> SUFFICES ASSUME NEW p \in Winners(bundle), NEW s, s = SlugOf(p)
             PROVE  /\ items'[s] # Absent
                    /\ Current(items'[s]) = tree[bundle][p] /\ items'[s].type = TypeOf(p)
                    /\ \A t \in Slugs \ {s} : items'[t] # Absent =>
                          (<<s, t>> \in links' <=> t \in tree[bundle][p].links)
  <2>1. tree' = tree /\ Winners(bundle)' = Winners(bundle)
    BY DEF Commit, Winners
  <2>2. \A t : Published(t)' => items'[t] # Absent
    BY DEF Published
  <2>3. \A i : Current(i)' = Current(i')
    BY DEF Current, Last
  <2> QED
    BY <2>1, <2>2, <2>3 DEF IndexCurrent, PageCurrent, Current, Last
<1>1. PICK known : known = Mirrored(tx[w])
  OBVIOUS
<1>2. p \in Pages /\ tree[bundle][p] # Absent
  BY DEF Winners
<1>3. s \in known
  BY <1>1, <1>2, CommitLeaves
<1>4. PICK b \in tx[w].got :
         /\ s = SlugOf(b.page) /\ b.page \in Winners(bundle) /\ b = tree[bundle][b.page]
         /\ Serves(items'[s], b)
         /\ \A t \in Slugs : (t # s /\ items'[t] # Absent) =>
               (<<s, t>> \in links' <=> t \in b.links)
  BY <1>1, <1>3, CommitLeaves
<1>5. p = b.page
  BY <1>4, WinnersApart
<1> QED
  BY <1>4, <1>5 DEF Serves

\* With one worker process each mirror that succeeds leaves the index equal to
\* its bundle, whatever earlier mirrors failed half way (mirror_bundle: every
\* page of the bundle, and every edge of those pages), in any number of
\* bundles.
THEOREM SerialMirrorIsCurrent ==
    ASSUME OneWorker
    PROVE  Spec => MirrorLeavesIndexCurrent
<1>1. MirrorInv /\ SerialInv /\ [Next]_vars
      => [\A w \in Workers : \A b \in Bundles :
             (Commit(w) /\ b = Bundle(w)) => IndexCurrent(b)']_vars
  BY CommitIndex
<1> QED
  BY <1>1, SerialInvariant, PTL DEF Spec, MirrorLeavesIndexCurrent

\* The steps that write items.
LEMMA ItemsChange ==
    ASSUME MirrorInv, [Next]_vars, items' # items
    PROVE  EndArchive \/ \E w \in Workers : Commit(w)
<1>1. ASSUME NEW w \in Workers
      PROVE  /\ (\E j \in Jobs : StartIngest(w, j) \/ StartStray(w, j) \/ StartMirror(w, j))
                => items' = items
             /\ (BeginWrite(w) \/ FlushPart(w) \/ EndWrite(w) \/ EndIngest(w) \/ ListPages(w) \/ ReadPage(w)
                 \/ EndCollect(w)) => items' = items
             /\ (SkipRow(w) \/ ReadRow(w) \/ WriteRow(w) \/ BuildLinks(w) \/ TimesOut(w))
                => items' = items
  BY DEF StartIngest, StartStray, StartMirror, BeginWrite, FlushPart, EndWrite, EndIngest,
         ListPages, ReadPage, EndCollect, SkipRow, ReadRow, WriteRow, BuildLinks, TimesOut, dbVars
<1>2. ASSUME NEW w \in Workers
      PROVE  (IngestTorn(w) \/ ReadTorn(w) \/ InsertFails(w) \/ CommitFails(w) \/ IngestFails(w)
              \/ DbFails(w) \/ Crash(w)) => items' = items
  BY DEF IngestTorn, ReadTorn, InsertFails, CommitFails, IngestFails, DbFails, Crash, Raise,
         dbVars
<1>3. ((\E s \in Slugs : BeginArchive(s)) \/ (\E j \in Jobs : IngestTimesOut(j)) \/ Finished
       \/ UNCHANGED vars) => items' = items
  BY DEF BeginArchive, IngestTimesOut, Finished, vars, dbVars
<1> QED
  BY <1>1, <1>2, <1>3 DEF Next, Start, Step

\* With one worker process an archived item comes back only with a new text
\* (mirror_bundle: an item whose text is unchanged keeps its status).
THEOREM SerialComesBackChanged ==
    ASSUME OneWorker
    PROVE  Spec => ComesBackOnlyChanged
<1>1. MirrorInv /\ SerialInv /\ [Next]_vars
      => [\A s \in Slugs : (items[s] # Absent /\ ~Published(s) /\ Published(s)') =>
             Current(items'[s]) # Current(items[s])]_items
  <2> SUFFICES ASSUME MirrorInv, SerialInv, [Next]_vars, items' # items, NEW s \in Slugs,
                      items[s] # Absent, ~Published(s), Published(s)'
               PROVE  Current(items'[s]) # Current(items[s])
    OBVIOUS
  <2>1. items'[s] # Absent /\ items'[s].status = "published" /\ items[s].status # "published"
    BY DEF Published
  <2>2. CASE EndArchive
    <3>1. PICK r : r = request.slug
      OBVIOUS
    <3>2. r # NoOne /\ items' = [items EXCEPT ![r].status = "archived"]
      BY <2>2, <3>1 DEF EndArchive
    <3>3. ShapeInv /\ r \in Slugs /\ items[r] # Absent
      BY <3>1, <3>2 DEF MirrorInv, ShapeInv, PlaceInv
    <3>4. items'[r].status = "archived" /\ \A q \in Slugs \ {r} : items'[q] = items[q]
      BY <3>2, <3>3, MarkersAreNoRow DEF ShapeInv, Item
    <3> QED
      BY <2>1, <3>4
  <2>3. ASSUME NEW w \in Workers, Commit(w) PROVE Current(items'[s]) # Current(items[s])
    <3>1. /\ pc[w] = "commit"
          /\ items' = [x \in Slugs |-> IF Locks(w, x) THEN tx[w].rows[x] ELSE items[x]]
      BY <2>3 DEF Commit
    <3>2. Handles(w)
      BY <3>1, MirrorSees DEF Mirroring
    <3> QED
      BY <2>1, <3>1, <3>2 DEF Handles, Locks
  <2> QED
    BY <2>2, <2>3, ItemsChange
<1> QED
  BY <1>1, SerialInvariant, PTL DEF Spec, ComesBackOnlyChanged
-----------------------------------------------------------------------------
(* One worker process, and bundles that name no slug of one another.       *)

\* The slugs the documents of a bundle are about, or link to.
Named(b) ==
    UNION {{SlugOf(p) : p \in DOMAIN Plans[j]} \union UNION {Plans[j][p] : p \in DOMAIN Plans[j]} :
              j \in {i \in Jobs : BundleOf[i] = b}}

BundlesApart == \A b, c \in Bundles : b # c => Named(b) \intersect Named(c) = {}

\* The pages of a bundle, and the one being written, are what its documents name.
NamedInv ==
    /\ \A b \in Bundles : \A p \in Pages : tree[b][p] # Absent =>
          SlugOf(p) \in Named(b) /\ (tree[b][p] # Torn => tree[b][p].links \subseteq Named(b))
    /\ \A w \in Workers : pc[w] = "writing" => \A b \in tx[w].got :
          SlugOf(b.page) \in Named(Bundle(w)) /\ b.links \subseteq Named(Bundle(w))

\* An item is of a page of some bundle.
ItemsPlaced ==
    \A s \in Slugs : items[s] # Absent =>
        \E b \in Bundles : /\ \E p \in Pages : SlugOf(p) = s /\ tree[b][p] # Absent
                           /\ Current(items[s]).links \subseteq Named(b)

\* The text is of a page that is there, and not newer than that is.
Past(t) ==
    LET now == tree[BundleOf[t.job]][t.page]
    IN  now # Absent /\ (now # Torn => t.rev <= now.rev)

\* The text about to be written is newer than the page and every version of it.
Newer(w, g) ==
    LET now == tree[Bundle(w)][g.page]
    IN  /\ now # Absent /\ (now # Torn => now.rev < g.rev)
        /\ \A s \in Slugs : items[s] # Absent => \A t \in Texts(items[s]) :
              (BundleOf[t.job] = Bundle(w) /\ t.page = g.page) => t.rev < g.rev

\* The versions are texts of pages, and no text is written twice.
FreshInv ==
    /\ \A b \in Bundles : \A p \in Pages :
          tree[b][p] \notin {Absent, Torn} => BundleOf[tree[b][p].job] = b
    /\ \A s \in Slugs : items[s] # Absent => \A t \in Texts(items[s]) : Past(t)
    /\ \A w \in Workers : pc[w] = "writing" => \A g \in tx[w].got : Newer(w, g)
    /\ \A w \in Workers : Mirroring(w) =>
          \A s \in DOMAIN tx[w].rows : \A t \in Texts(tx[w].rows[s]) :
              t \in tx[w].got \/ (items[s] # Absent /\ t \in Texts(items[s]))

\* The pages of a bundle whose uploads are all done are what the index says,
\* except for those written late that no mirror has read.
BundlesCurrent ==
    \A b \in Bundles :
        (\A j \in Jobs : BundleOf[j] = b => stage[j] = "done") =>
            \A p \in Winners(b) :
                (~tree[b][p].late \/ IsVersion(SlugOf(p), tree[b][p])) => PageCurrent(b, p)

WholeInv == NamedInv /\ EdgesOfServedText /\ ItemsPlaced /\ FreshInv /\ BundlesCurrent

LEMMA NamedIs ==
    ASSUME NEW j \in Jobs, NEW p \in DOMAIN Plans[j]
    PROVE  SlugOf(p) \in Named(BundleOf[j]) /\ Plans[j][p] \subseteq Named(BundleOf[j])
BY DEF Named

\* A step that leaves the pages, the items and the links alone.
LEMMA WholeStays ==
    ASSUME WholeInv, UNCHANGED <<tree, items, links>>, FreshInv',
           \A j \in Jobs : stage'[j] = "done" => stage[j] = "done",
           \A w \in Workers : pc'[w] = "writing" =>
               pc[w] = "writing" /\ tx'[w] = tx[w] /\ job'[w] = job[w]
    PROVE  WholeInv'
<1>1. NamedInv'
  BY DEF WholeInv, NamedInv, Bundle
<1>2. EdgesOfServedText'
  BY DEF WholeInv, EdgesOfServedText, Published, Current, Last
<1>3. ItemsPlaced'
  BY DEF WholeInv, ItemsPlaced, Current, Last
<1>4. /\ \A b, p : PageCurrent(b, p)' <=> PageCurrent(b, p)
      /\ \A b : Winners(b)' = Winners(b)
      /\ \A r, page : IsVersion(r, page)' <=> IsVersion(r, page)
  BY DEF PageCurrent, Winners, Published, Current, Last, IsVersion
<1>5. BundlesCurrent'
  BY <1>4 DEF WholeInv, BundlesCurrent
<1> QED
  BY <1>1, <1>2, <1>3, <1>5 DEF WholeInv

\* A step of an ingest that writes a page of its bundle.
LEMMA WholeWriting ==
    ASSUME MirrorInv, WholeInv, UNCHANGED <<items, links, stage>>, TreeKeeps, NamedInv', FreshInv',
           ShapeInv',
           \A b \in Bundles : \A p \in Pages : tree'[b][p] \notin {Absent, Torn} =>
               \/ tree'[b][p] = tree[b][p]
               \/ stage[tree'[b][p].job] = "ingesting"
               \/ tree'[b][p].late /\ ~IsVersion(SlugOf(p), tree'[b][p])
    PROVE  WholeInv'
<1>1. EdgesOfServedText'
  BY DEF WholeInv, EdgesOfServedText, Published, Current, Last
<1>2. ItemsPlaced'
  BY DEF WholeInv, ItemsPlaced, Current, Last, TreeKeeps
<1>3. BundlesCurrent'
  <2>1. \A r, page : IsVersion(r, page)' <=> IsVersion(r, page)
    BY DEF IsVersion
  <2> SUFFICES ASSUME NEW b \in Bundles, \A j \in Jobs : BundleOf[j] = b => stage[j] = "done",
                      NEW p \in Winners(b)',
                      ~tree'[b][p].late \/ IsVersion(SlugOf(p), tree'[b][p])
               PROVE  PageCurrent(b, p)'
    BY <2>1 DEF BundlesCurrent
  <2>2. /\ p \in Pages /\ tree'[b][p] \notin {Absent, Torn}
        /\ \A q \in Pages : (tree'[b][q] # Absent /\ SlugOf(q) = SlugOf(p)) => Before(p, q)
    BY DEF Winners
  <2>3. stage[tree'[b][p].job] # "ingesting"
    <3>1. tree'[b][p].job \in Jobs /\ BundleOf[tree'[b][p].job] = b
      <4>1. tree'[b][p] \in Body
        BY <2>2 DEF ShapeInv
      <4> QED
        BY <2>2, <4>1 DEF FreshInv, Body
    <3> QED
      BY <3>1
  <2>4. tree'[b][p] = tree[b][p]
    BY <2>2, <2>3
  <2>5. p \in Winners(b)
    BY <2>2, <2>4 DEF Winners, TreeKeeps
  <2>6. PageCurrent(b, p)
    BY <2>4, <2>5 DEF WholeInv, BundlesCurrent
  <2> QED
    BY <2>4, <2>6 DEF PageCurrent, Published, Current, Last
<1> QED
  BY <1>1, <1>2, <1>3 DEF WholeInv

LEMMA BeginWriteWhole ==
    ASSUME OneWorker, MirrorInv, WholeInv, NEW w \in Workers, BeginWrite(w)
    PROVE  WholeInv'
<1>1. PICK p : p = First(todo[w])
  OBVIOUS
<1>2. PICK j : j = job[w]
  OBVIOUS
<1>3. PICK body : body = NextBody(p, j)
  OBVIOUS
<1>4. PICK bundle : bundle = Bundle(w)
  OBVIOUS
<1>5. /\ pc[w] = "ingest" /\ todo[w] # {}
      /\ tx' = [tx EXCEPT ![w].got = {body}]
      /\ tree' = [tree EXCEPT ![bundle][p] = Torn]
      /\ UNCHANGED <<items, links, stage, job>>
  BY <1>1, <1>2, <1>3, <1>4 DEF BeginWrite, dbVars, serverVars
<1>6. ShapeInv /\ j \in Jobs /\ bundle \in Bundles /\ Progress(w) /\ bundle = BundleOf[j]
  BY <1>2, <1>4, <1>5, JobAtHand DEF MirrorInv, WorkerInv, Bundle
<1>7. p \in Pages /\ p \in DOMAIN Plans[j]
  BY <1>1, <1>2, <1>5, <1>6, FirstIsMember DEF ShapeInv, Progress, Ingesting
<1>8. body.page = p /\ body.links = Plans[j][p]
  BY <1>3 DEF NextBody
<1>9. /\ tree'[bundle][p] = Torn
      /\ \A b \in Bundles, q \in Pages : b # bundle \/ q # p => tree'[b][q] = tree[b][q]
      /\ \A b \in Bundles : b # bundle => tree'[b] = tree[b]
  BY <1>5, <1>6, <1>7 DEF ShapeInv
<1>10. TreeKeeps
  BY <1>9, MarkersAssumption DEF TreeKeeps
<1>11. tx'[w].got = {body} /\ Bundle(w)' = bundle /\ \A v \in Workers : v = w
  BY <1>4, <1>5, <1>6 DEF ShapeInv, Transaction, Bundle, OneWorker
<1>12. NamedInv'
  <2>1. SlugOf(p) \in Named(bundle) /\ body.links \subseteq Named(bundle)
    BY <1>6, <1>7, <1>8, NamedIs
  <2>2. \A b \in Bundles : \A q \in Pages : tree'[b][q] # Absent =>
          SlugOf(q) \in Named(b) /\ (tree'[b][q] # Torn => tree'[b][q].links \subseteq Named(b))
    BY <1>9, <2>1 DEF WholeInv, NamedInv
  <2> QED
    BY <1>8, <1>11, <2>1, <2>2 DEF NamedInv
<1>13. FreshInv'
  <2>1. /\ body.rev \in Nat /\ body.job = j
        /\ tree[bundle][p] # Absent => tree[bundle][p].rev \in Nat /\ body.rev = tree[bundle][p].rev + 1
    <3>1. tree[bundle][p] \in Body \union {Absent}
      BY <1>1, <1>4, <1>6, <1>7 DEF ShapeInv, BeginWrite
    <3>2. tree[bundle][p] # Absent => tree[bundle][p].rev \in Nat
      BY <3>1 DEF Body
    <3>3. /\ body.job = j
          /\ body.rev = IF tree[bundle][p] = Absent THEN 1 ELSE tree[bundle][p].rev + 1
      BY <1>3, <1>6 DEF NextBody
    <3> QED
      BY <3>2, <3>3
  <2>2. pc'[w] = "writing" /\ tree[bundle][p] # Torn
    BY <1>1, <1>4, <1>6 DEF BeginWrite, ShapeInv
  <2>3. ASSUME NEW s \in Slugs, items[s] # Absent, NEW t \in Texts(items[s])
        PROVE  /\ t.job \in Jobs /\ t.page \in Pages /\ t.rev \in Nat /\ BundleOf[t.job] \in Bundles
               /\ Past(t) /\ Past(t)'
               /\ (BundleOf[t.job] = bundle /\ t.page = p) => t.rev < body.rev
    <3>1. items[s] \in Item
      BY <1>6, <2>3 DEF ShapeInv
    <3>2. t \in Body
      BY <2>3, <3>1, ItemParts
    <3>3. t.job \in Jobs /\ t.page \in Pages /\ t.rev \in Nat /\ BundleOf[t.job] \in Bundles
      BY <3>2, MirrorAssumption DEF Body
    <3>4. Past(t)
      BY <2>3 DEF WholeInv, FreshInv
    <3>5. Past(t)'
      BY <1>9, <3>3, <3>4, MarkersAssumption DEF Past
    <3>6. (BundleOf[t.job] = bundle /\ t.page = p) => t.rev < body.rev
      <4>1. ASSUME BundleOf[t.job] = bundle, t.page = p
            PROVE  tree[bundle][p] # Absent /\ t.rev <= tree[bundle][p].rev
        BY <2>2, <3>4, <4>1 DEF Past
      <4> QED
        BY <2>1, <3>3, <4>1
    <3> QED
      BY <3>3, <3>4, <3>5, <3>6
  <2>4. \A b \in Bundles : \A q \in Pages :
          tree'[b][q] \notin {Absent, Torn} => BundleOf[tree'[b][q].job] = b
    BY <1>9 DEF WholeInv, FreshInv
  <2>5. \A s \in Slugs : items'[s] # Absent => \A t \in Texts(items[s])' : Past(t)'
    BY <1>5, <2>3 DEF Texts
  <2>6. Newer(w, body)'
    BY <1>5, <1>8, <1>9, <1>11, <2>3, MarkersAssumption DEF Newer, Texts
  <2> QED
    BY <1>11, <2>2, <2>4, <2>5, <2>6 DEF FreshInv, Mirroring
<1>14. ShapeInv' /\ \A b \in Bundles : \A q \in Pages :
          tree'[b][q] \notin {Absent, Torn} => tree'[b][q] = tree[b][q]
  <2>1. ShapeInv'
    BY BeginWriteKeepsInv DEF MirrorInv
  <2> QED
    BY <1>9, <2>1
<1> QED
  BY <1>5, <1>10, <1>12, <1>13, <1>14, WholeWriting

\* A write, whole or in part, puts a text there that was never read.
LEMMA WrittenWhole ==
    ASSUME OneWorker, MirrorInv, WholeInv, NEW w \in Workers, pc[w] = "writing",
           NEW bundle, bundle = Bundle(w), NEW b \in tx[w].got,
           NEW x \in Body, x.page = b.page, x.job = b.job, x.rev = b.rev,
           x.links \subseteq b.links,
           tree' = [tree EXCEPT ![bundle][x.page] = Written(w, x)],
           UNCHANGED <<items, links, stage, job>>, MirrorInv',
           \/ pc'[w] = "ingest"
           \/ /\ pc'[w] = "writing"
              /\ \A g \in tx'[w].got : g.page = b.page /\ g.rev > b.rev /\ g.links = b.links
    PROVE  WholeInv'
<1> DEFINE n == Written(w, x)
<1>1. ShapeInv /\ bundle \in Bundles /\ job[w] \in Jobs /\ bundle = BundleOf[job[w]]
      /\ \A v \in Workers : v = w
  BY JobAtHand DEF MirrorInv, OneWorker, Bundle
<1>2. b \in Body /\ b.job = job[w] /\ b.rev \in Nat /\ b.page \in Pages
  BY <1>1 DEF ShapeInv, Transaction, Body, MirrorInv, WorkerInv, Progress
<1>3. /\ n \in Body /\ n.page = b.page /\ n.job = job[w] /\ n.rev = b.rev /\ n.links \subseteq b.links
      /\ (n.late <=> w \in stale) /\ n # Absent
  BY <1>2, WrittenIs, MarkersAreNoRow
<1> HIDE DEF n
<1>4. tree' = [tree EXCEPT ![bundle][b.page] = n]
  BY <1>3 DEF n
<1>5. /\ tree'[bundle][b.page] = n
      /\ \A c \in Bundles, q \in Pages : c # bundle \/ q # b.page => tree'[c][q] = tree[c][q]
  BY <1>1, <1>2, <1>4 DEF ShapeInv
<1>6. TreeKeeps
  BY <1>2, WrittenKeeps
<1>7. Newer(w, b) /\ SlugOf(b.page) \in Named(bundle) /\ b.links \subseteq Named(bundle)
  BY DEF WholeInv, FreshInv, NamedInv
<1>8. Bundle(w)' = bundle
  BY DEF Bundle
<1>9. NamedInv'
  <2>1. \A c \in Bundles : \A q \in Pages : tree'[c][q] # Absent =>
          SlugOf(q) \in Named(c) /\ (tree'[c][q] # Torn => tree'[c][q].links \subseteq Named(c))
    BY <1>3, <1>5, <1>7 DEF WholeInv, NamedInv
  <2> QED
    BY <1>1, <1>7, <1>8, <2>1 DEF NamedInv
<1>10. ASSUME NEW s \in Slugs, items[s] # Absent, NEW t \in Texts(items[s])
       PROVE  /\ t.job \in Jobs /\ t.page \in Pages /\ t.rev \in Nat /\ t # n /\ Past(t)'
              /\ (BundleOf[t.job] = bundle /\ t.page = b.page) => t.rev < b.rev
  <2>1. items[s] \in Item
    BY <1>1, <1>10 DEF ShapeInv
  <2>2. t \in Body
    BY <1>10, <2>1, ItemParts
  <2>3. t.job \in Jobs /\ t.page \in Pages /\ t.rev \in Nat /\ BundleOf[t.job] \in Bundles
    BY <2>2, MirrorAssumption DEF Body
  <2>4. Past(t)
    BY <1>10 DEF WholeInv, FreshInv
  <2>5. (BundleOf[t.job] = bundle /\ t.page = b.page) => t.rev < b.rev
    BY <1>7, <1>10 DEF Newer
  <2>6. t # n
    BY <1>1, <1>2, <1>3, <2>3, <2>5
  <2>7. Past(t)'
    BY <1>2, <1>3, <1>5, <2>3, <2>4, <2>5 DEF Past
  <2> QED
    BY <2>3, <2>5, <2>6, <2>7
<1>11. FreshInv'
  <2>1. \A c \in Bundles : \A q \in Pages :
          tree'[c][q] \notin {Absent, Torn} => BundleOf[tree'[c][q].job] = c
    BY <1>1, <1>3, <1>5 DEF WholeInv, FreshInv
  <2>2. \A s : Texts(items[s])' = Texts(items[s])
    BY DEF Texts
  <2>3. \A s \in Slugs : items'[s] # Absent => \A t \in Texts(items[s])' : Past(t)'
    BY <1>10, <2>2
  <2>4. ASSUME pc'[w] = "writing", NEW g \in tx'[w].got PROVE Newer(w, g)'
    <3>1. g.page = b.page /\ g.rev > b.rev
      BY <2>4
    <3>2. g.rev \in Nat
      BY <2>4 DEF MirrorInv, ShapeInv, Transaction, Body
    <3>3. \A s \in Slugs : items[s] # Absent => \A t \in Texts(items[s]) :
            (BundleOf[t.job] = bundle /\ t.page = g.page) => t.rev < g.rev
      BY <1>2, <1>10, <3>1, <3>2
    <3> QED
      BY <1>2, <1>3, <1>5, <1>8, <2>2, <3>1, <3>2, <3>3 DEF Newer
  <2> QED
    BY <1>1, <2>1, <2>3, <2>4 DEF FreshInv, Mirroring
<1>12. ~IsVersion(SlugOf(b.page), n)
  <2>1. SlugOf(b.page) \in Slugs
    BY <1>2, PageParts
  <2> QED
    BY <1>10, <2>1 DEF IsVersion, Texts
<1>13. \A c \in Bundles : \A p \in Pages : tree'[c][p] \notin {Absent, Torn} =>
          \/ tree'[c][p] = tree[c][p]
          \/ stage[tree'[c][p].job] = "ingesting"
          \/ tree'[c][p].late /\ ~IsVersion(SlugOf(p), tree'[c][p])
  <2>1. w \in stale \/ stage[job[w]] = "ingesting"
    BY DEF MirrorInv, Attempt, Ingesting
  <2> QED
    BY <1>3, <1>5, <1>12, <2>1
<1>14. ShapeInv'
  BY DEF MirrorInv
<1> QED
  BY <1>6, <1>9, <1>11, <1>13, <1>14, WholeWriting

LEMMA EndWriteWhole ==
    ASSUME OneWorker, MirrorInv, WholeInv, NEW w \in Workers, EndWrite(w)
    PROVE  WholeInv'
<1>1. PICK bundle : bundle = Bundle(w)
  OBVIOUS
<1>2. PICK b \in tx[w].got : tree' = [tree EXCEPT ![bundle][b.page] = Written(w, b)]
  BY <1>1 DEF EndWrite
<1>3. /\ pc[w] = "writing" /\ pc'[w] = "ingest" /\ UNCHANGED <<items, links, stage, job>>
  BY DEF EndWrite, dbVars, serverVars, MirrorInv, ShapeInv
<1>4. b \in Body /\ b.links \subseteq b.links
  BY <1>2 DEF MirrorInv, ShapeInv, Transaction
<1>5. MirrorInv'
  BY EndWriteKeepsInv
<1> QED
  BY <1>1, <1>2, <1>3, <1>4, <1>5, WrittenWhole

LEMMA FlushPartWhole ==
    ASSUME OneWorker, MirrorInv, WholeInv, NEW w \in Workers, FlushPart(w)
    PROVE  WholeInv'
<1>1. PICK bundle : bundle = Bundle(w)
  OBVIOUS
<1>2. PICK b \in tx[w].got : \E upToCut \in SUBSET b.links :
          /\ tree' = [tree EXCEPT ![bundle][b.page] = Written(w, [b EXCEPT !.links = upToCut])]
          /\ tx' = [tx EXCEPT ![w].got = {[b EXCEPT !.rev = @ + 1]}]
  BY <1>1 DEF FlushPart
<1>3. PICK upToCut \in SUBSET b.links :
          /\ tree' = [tree EXCEPT ![bundle][b.page] = Written(w, [b EXCEPT !.links = upToCut])]
          /\ tx' = [tx EXCEPT ![w].got = {[b EXCEPT !.rev = @ + 1]}]
  BY <1>2
<1>4. /\ pc[w] = "writing" /\ pc'[w] = "writing" /\ UNCHANGED <<items, links, stage, job>>
      /\ tx \in [Workers -> Transaction]
  BY DEF FlushPart, dbVars, serverVars, MirrorInv, ShapeInv
<1>5. b \in Body /\ b.rev \in Nat
  BY <1>2, <1>4 DEF Transaction, Body
<1>6. PICK x : x = [b EXCEPT !.links = upToCut]
  OBVIOUS
<1>7. /\ x \in Body /\ x.page = b.page /\ x.job = b.job /\ x.rev = b.rev /\ x.links \subseteq b.links
      /\ tree' = [tree EXCEPT ![bundle][x.page] = Written(w, x)]
  BY <1>3, <1>5, <1>6 DEF Body
<1>8. \A g \in tx'[w].got : g.page = b.page /\ g.rev > b.rev /\ g.links = b.links
  <2>1. tx'[w].got = {[b EXCEPT !.rev = b.rev + 1]}
    BY <1>3, <1>4 DEF Transaction
  <2> QED
    BY <1>5, <2>1 DEF Body
<1>9. MirrorInv'
  BY FlushPartKeepsInv
<1> QED
  BY <1>1, <1>2, <1>4, <1>7, <1>8, <1>9, WrittenWhole

\* The steps of the only worker that write neither pages nor items.
LEMMA QuietFresh ==
    ASSUME OneWorker, FreshInv, NEW w \in Workers, UNCHANGED <<tree, items>>,
           pc'[w] # "writing",
           Mirroring(w)' => \/ DOMAIN tx'[w].rows = {}
                            \/ Mirroring(w) /\ tx'[w].rows = tx[w].rows /\ tx'[w].got = tx[w].got
    PROVE  FreshInv'
<1>1. \A t : Past(t)' <=> Past(t)
  BY DEF Past
<1>2. \A s : Texts(items[s])' = Texts(items[s])
  BY DEF Texts
<1>3. \A s \in Slugs : items'[s] # Absent => \A t \in Texts(items[s])' : Past(t)'
  BY <1>1, <1>2 DEF FreshInv
<1>4. ASSUME Mirroring(w)', NEW s \in DOMAIN tx'[w].rows, NEW t \in Texts(tx[w].rows[s])'
      PROVE  t \in tx'[w].got \/ (items'[s] # Absent /\ t \in Texts(items[s])')
  <2>1. Mirroring(w) /\ tx'[w].rows = tx[w].rows /\ tx'[w].got = tx[w].got
    BY <1>4
  <2>2. Texts(tx[w].rows[s])' = Texts(tx[w].rows[s])
    BY <2>1 DEF Texts
  <2> QED
    BY <1>2, <1>4, <2>1, <2>2 DEF FreshInv
<1>5. \A v \in Workers : v = w
  BY DEF OneWorker
<1> QED
  BY <1>3, <1>4, <1>5 DEF FreshInv

LEMMA WriteRowFresh ==
    ASSUME OneWorker, MirrorInv, FreshInv, NEW w \in Workers, WriteRow(w)
    PROVE  FreshInv'
<1> DEFINE s == SlugOf(Page(w).page)
           written == IF tx[w].row = Absent THEN NewItem(w, Page(w))
                      ELSE Updated(items[s], tx[w].row, Page(w))
           rows == [r \in DOMAIN tx[w].rows \union {s} |->
                       IF r = s THEN written ELSE tx[w].rows[r]]
<1>1. /\ pc[w] = "write" /\ tx' = [tx EXCEPT ![w].row = Absent, ![w].rows = rows]
      /\ pc' = [pc EXCEPT ![w] = "rows"] /\ UNCHANGED <<tree, items>>
  BY DEF WriteRow, bundleVars, dbVars
<1>2. /\ ShapeInv /\ Progress(w) /\ Follows(w) /\ tx[w] \in Transaction /\ Mirroring(w)
      /\ \A v \in Workers : v = w
  BY <1>1 DEF MirrorInv, WorkerInv, ShapeInv, Mirroring, OneWorker
<1>3. Page(w) \in tx[w].got /\ Page(w) \in Body /\ s \in Slugs
  BY <1>1, <1>2, PageAtHand DEF Progress
<1>4. \A t \in Texts(written) : t = Page(w) \/ (items[s] # Absent /\ t \in Texts(items[s]))
  <2>1. CASE tx[w].row = Absent
    <3>1. written.versions = <<Page(w)>>
      BY <2>1 DEF NewItem
    <3> QED
      BY <3>1 DEF Texts
  <2>2. CASE tx[w].row # Absent
    <3>1. items[s] # Absent /\ items[s] \in Item
      BY <1>2, <1>3, <2>2 DEF Follows, ShapeInv
    <3>2. PICK q : q = items[s].versions
      OBVIOUS
    <3>3. q \in Seq(Body)
      BY <3>1, <3>2 DEF Item
    <3>4. written.versions = q \/ written.versions = Append(q, Page(w))
      BY <2>2, <3>1, <3>2 DEF Updated, Item
    <3>5. \A k \in DOMAIN Append(q, Page(w)) : \/ Append(q, Page(w))[k] = Page(w)
                                               \/ k \in DOMAIN q /\ Append(q, Page(w))[k] = q[k]
      BY <1>3, <3>3
    <3>6. ASSUME NEW k \in DOMAIN written.versions
          PROVE  \/ written.versions[k] = Page(w)
                 \/ k \in DOMAIN q /\ written.versions[k] = q[k]
      BY <3>4, <3>5
    <3>7. \A k \in DOMAIN q : q[k] \in Texts(items[s])
      BY <3>2 DEF Texts
    <3> HIDE DEF written, s
    <3> QED
      BY <3>1, <3>6, <3>7 DEF Texts
  <2> QED
    BY <2>1, <2>2
<1> HIDE DEF s, written
<1>5. /\ tx'[w].rows = rows /\ tx'[w].got = tx[w].got /\ pc'[w] = "rows"
  BY <1>1, <1>2 DEF ShapeInv, Transaction
<1>6. /\ DOMAIN rows = DOMAIN tx[w].rows \union {s} /\ rows[s] = written
      /\ \A r \in DOMAIN tx[w].rows \ {s} : rows[r] = tx[w].rows[r]
  OBVIOUS
<1> HIDE DEF rows
<1>7. \A t : Past(t)' <=> Past(t)
  BY <1>1 DEF Past
<1>8. \A r : Texts(items[r])' = Texts(items[r])
  BY <1>1 DEF Texts
<1>9. \A r \in Slugs : items'[r] # Absent => \A t \in Texts(items[r])' : Past(t)'
  BY <1>1, <1>7, <1>8 DEF FreshInv
<1>10. ASSUME NEW r \in DOMAIN tx'[w].rows, NEW t \in Texts(tx[w].rows[r])'
       PROVE  t \in tx'[w].got \/ (items'[r] # Absent /\ t \in Texts(items[r])')
  <2>1. Texts(tx[w].rows[r])' = Texts(rows[r])
    BY <1>5 DEF Texts
  <2>2. CASE r = s
    BY <1>1, <1>3, <1>4, <1>5, <1>6, <1>8, <1>10, <2>1, <2>2
  <2>3. CASE r # s
    BY <1>1, <1>2, <1>5, <1>6, <1>8, <1>10, <2>1, <2>3 DEF FreshInv
  <2> QED
    BY <2>2, <2>3
<1> QED
  BY <1>1, <1>2, <1>5, <1>9, <1>10 DEF FreshInv

\* The steps of the only worker that write neither pages nor tables.
LEMMA QuietWhole ==
    ASSUME OneWorker, MirrorInv, WholeInv, NEW w \in Workers,
           \/ \E j \in Jobs : StartIngest(w, j) \/ StartStray(w, j) \/ StartMirror(w, j)
           \/ EndIngest(w) \/ ListPages(w) \/ ReadPage(w) \/ EndCollect(w) \/ SkipRow(w)
           \/ ReadRow(w) \/ WriteRow(w) \/ BuildLinks(w) \/ TimesOut(w)
           \/ IngestTorn(w) \/ ReadTorn(w) \/ InsertFails(w) \/ CommitFails(w)
           \/ IngestFails(w) \/ DbFails(w) \/ Crash(w)
    PROVE  WholeInv'
<1>1. ShapeInv /\ \A v \in Workers : v = w
  BY DEF MirrorInv, OneWorker
<1>2. CASE \/ \E j \in Jobs : StartIngest(w, j) \/ StartStray(w, j) \/ StartMirror(w, j)
           \/ EndIngest(w) \/ ListPages(w) \/ ReadPage(w) \/ EndCollect(w) \/ SkipRow(w)
           \/ ReadRow(w) \/ WriteRow(w) \/ BuildLinks(w) \/ TimesOut(w)
  <2>1. UNCHANGED <<tree, items, links>>
    BY <1>2 DEF StartIngest, StartStray, StartMirror, EndIngest, ListPages, ReadPage, EndCollect,
                SkipRow, ReadRow, WriteRow, BuildLinks, TimesOut, dbVars, bundleVars
  <2>2. \A j \in Jobs : stage'[j] = "done" => stage[j] = "done"
    <3>1. CASE ListPages(w) \/ ReadPage(w) \/ EndCollect(w) \/ SkipRow(w) \/ ReadRow(w)
               \/ WriteRow(w) \/ BuildLinks(w)
      <4>1. stage' = stage
        BY <3>1 DEF ListPages, ReadPage, EndCollect, SkipRow, ReadRow, WriteRow, BuildLinks,
                    serverVars
      <4> QED
        BY <4>1
    <3>2. CASE \E j \in Jobs : StartIngest(w, j) \/ StartStray(w, j) \/ StartMirror(w, j)
      BY <1>1, <3>2 DEF StartIngest, StartStray, StartMirror, ShapeInv
    <3>3. CASE EndIngest(w)
      BY <1>1, <3>3 DEF EndIngest, Leave, ShapeInv
    <3>4. CASE TimesOut(w)
      BY <1>1, <3>4 DEF TimesOut, Retried, ShapeInv
    <3> QED
      BY <1>2, <3>1, <3>2, <3>3, <3>4
  <2>3. CASE TimesOut(w)
    <3>1. UNCHANGED <<pc, job, tx>>
      BY <2>3 DEF TimesOut, slotVars
    <3>2. FreshInv'
      BY <2>1, <3>1 DEF WholeInv, FreshInv, Past, Newer, Texts, Bundle, Mirroring
    <3> QED
      BY <2>1, <2>2, <3>1, <3>2, WholeStays
  <2>4. CASE ~TimesOut(w)
    <3>1. pc'[w] # "writing"
      BY <1>1, <1>2, <2>4 DEF StartIngest, StartStray, StartMirror, EndIngest, ListPages, ReadPage,
                EndCollect, SkipRow, ReadRow, WriteRow, BuildLinks, Leave, ShapeInv
    <3>2. FreshInv'
      <4>1. CASE WriteRow(w)
        BY <4>1, WriteRowFresh DEF WholeInv
      <4>2. CASE \E j \in Jobs : StartIngest(w, j) \/ StartStray(w, j) \/ StartMirror(w, j)
        <5>1. pc[w] = "idle" /\ tx' = tx
          BY <4>2 DEF StartIngest, StartStray, StartMirror
        <5>2. DOMAIN tx'[w].rows = {}
          BY <5>1 DEF MirrorInv, WorkerInv, Progress, Blank
        <5> QED
          BY <2>1, <3>1, <5>2, QuietFresh DEF WholeInv
      <4>3. CASE EndIngest(w)
        <5>1. pc'[w] = "idle"
          BY <1>1, <4>3 DEF EndIngest, Leave, ShapeInv
        <5> QED
          BY <2>1, <3>1, <5>1, QuietFresh DEF WholeInv, Mirroring
      <4>4. CASE ListPages(w) \/ ReadPage(w) \/ EndCollect(w)
        <5>1. pc[w] = "read"
          BY <4>4 DEF ListPages, ReadPage, EndCollect
        <5>2. DOMAIN tx[w].rows = {} /\ tx[w] \in Transaction
          BY <1>1, <5>1 DEF MirrorInv, WorkerInv, Progress, Blank, ShapeInv
        <5>3. tx'[w].rows = tx[w].rows
          BY <1>1, <4>4, <5>2 DEF ListPages, ReadPage, EndCollect, ShapeInv, Transaction
        <5> QED
          BY <2>1, <3>1, <5>2, <5>3, QuietFresh DEF WholeInv
      <4>5. CASE SkipRow(w) \/ ReadRow(w) \/ BuildLinks(w)
        <5>1. Mirroring(w) /\ tx[w] \in Transaction
          BY <1>1, <4>5 DEF SkipRow, ReadRow, BuildLinks, Mirroring, ShapeInv
        <5>2. tx'[w].rows = tx[w].rows /\ tx'[w].got = tx[w].got
          BY <1>1, <4>5, <5>1 DEF SkipRow, ReadRow, BuildLinks, ShapeInv, Transaction
        <5> QED
          BY <2>1, <3>1, <5>1, <5>2, QuietFresh DEF WholeInv
      <4> QED
        BY <1>2, <2>4, <4>1, <4>2, <4>3, <4>4, <4>5
    <3> QED
      BY <1>1, <2>1, <2>2, <3>1, <3>2, WholeStays
  <2> QED
    BY <2>3, <2>4
<1>3. CASE Raise(w)
  <2>1. UNCHANGED <<tree, items, links>> /\ Leave(w, Retried(job[w]), tries[job[w]])
    BY <1>3 DEF Raise, dbVars
  <2>2. \A j \in Jobs : stage'[j] = "done" => stage[j] = "done"
    BY <1>1, <2>1 DEF Leave, Retried, ShapeInv
  <2>3. pc'[w] = "idle"
    BY <1>1, <2>1 DEF Leave, ShapeInv
  <2>4. FreshInv'
    BY <2>1, <2>3, QuietFresh DEF WholeInv, Mirroring
  <2> QED
    BY <1>1, <2>1, <2>2, <2>3, <2>4, WholeStays
<1> QED
  BY <1>2, <1>3 DEF IngestTorn, ReadTorn, InsertFails, CommitFails, IngestFails, DbFails, Crash

\* A commit changes nothing of the bundles apart from its own.
LEMMA CommitWhole ==
    ASSUME OneWorker, BundlesApart, MirrorInv, SerialInv, WholeInv, NEW w \in Workers, Commit(w)
    PROVE  WholeInv'
<1>1. PICK bundle : bundle = Bundle(w)
  OBVIOUS
<1>2. PICK known : known = Mirrored(tx[w])
  OBVIOUS
<1>3. /\ tree' = tree /\ bundle \in Bundles
      /\ \A s \in Slugs : s \notin known => items'[s] = items[s]
      /\ \A s \in known : \E b \in tx[w].got :
            /\ s = SlugOf(b.page) /\ b.page \in Winners(bundle) /\ b = tree[bundle][b.page]
            /\ Serves(items'[s], b)
            /\ \A t \in Slugs : (t # s /\ items'[t] # Absent) =>
                  (<<s, t>> \in links' <=> t \in b.links)
      /\ \A s, t \in Slugs : s \notin known =>
            (<<s, t>> \in links' <=> (t \notin known /\ <<s, t>> \in links))
      /\ \A p \in Pages : tree[bundle][p] # Absent => SlugOf(p) \in known
  BY <1>1, <1>2, CommitLeaves
<1>4. /\ ShapeInv /\ pc[w] = "commit" /\ Leave(w, "done", 0) /\ job[w] \in Jobs
      /\ bundle = BundleOf[job[w]]
  BY <1>1, JobAtHand DEF MirrorInv, Commit, Bundle
<1>5. pc'[w] = "idle" /\ \A v \in Workers : v = w
  BY <1>4 DEF Leave, ShapeInv, OneWorker
<1>6. ASSUME NEW b, b.page \in Winners(bundle), b = tree[bundle][b.page]
      PROVE  /\ b.page \in Pages /\ tree[bundle][b.page] # Absent
             /\ SlugOf(b.page) \in Named(bundle) /\ b.links \subseteq Named(bundle)
  BY <1>3, <1>6 DEF Winners, WholeInv, NamedInv
<1>7. \A s \in known : s \in Named(bundle)
  BY <1>3, <1>6
<1>8. ASSUME NEW c \in Bundles, c # bundle, NEW s \in Named(c) PROVE s \notin known
  BY <1>3, <1>7, <1>8 DEF BundlesApart
<1>9. \A s : Published(s)' <=> (items'[s] # Absent /\ items'[s].status = "published")
  BY DEF Published
<1>10. EdgesOfServedText'
  <2> SUFFICES ASSUME NEW s \in Slugs, NEW t \in Slugs, s # t, Published(s)', Published(t)'
               PROVE  <<s, t>> \in links' <=> t \in Current(items'[s]).links
    BY DEF EdgesOfServedText, Current, Last
  <2>1. items'[s] # Absent /\ items'[t] # Absent
    BY <1>9
  <2>2. CASE s \in known
    BY <1>3, <2>1, <2>2 DEF Serves
  <2>3. CASE s \notin known
    <3>1. items'[s] = items[s] /\ Published(s)
      BY <1>3, <1>9, <2>3 DEF Published
    <3>2. PICK c \in Bundles : /\ \E p \in Pages : SlugOf(p) = s /\ tree[c][p] # Absent
                               /\ Current(items[s]).links \subseteq Named(c)
      BY <2>1, <3>1 DEF WholeInv, ItemsPlaced
    <3>3. c # bundle
      BY <1>3, <2>3, <3>2
    <3>4. CASE t \in known
      BY <1>3, <1>8, <2>3, <3>1, <3>2, <3>3, <3>4
    <3>5. CASE t \notin known
      <4>1. items'[t] = items[t] /\ Published(t)
        BY <1>3, <1>9, <3>5 DEF Published
      <4>2. <<s, t>> \in links <=> t \in Current(items[s]).links
        BY <3>1, <4>1 DEF WholeInv, EdgesOfServedText
      <4> QED
        BY <1>3, <2>3, <3>1, <3>5, <4>2
    <3> QED
      BY <3>4, <3>5
  <2> QED
    BY <2>2, <2>3
<1>11. ItemsPlaced'
  <2> SUFFICES ASSUME NEW s \in Slugs, items'[s] # Absent
               PROVE  \E b \in Bundles :
                          /\ \E p \in Pages : SlugOf(p) = s /\ tree[b][p] # Absent
                          /\ Current(items'[s]).links \subseteq Named(b)
    BY <1>3 DEF ItemsPlaced, Current, Last
  <2>1. CASE s \in known
    BY <1>3, <1>6, <2>1 DEF Serves
  <2>2. CASE s \notin known
    BY <1>3, <2>2 DEF WholeInv, ItemsPlaced
  <2> QED
    BY <2>1, <2>2
<1>12. BundlesCurrent'
  <2> SUFFICES ASSUME NEW c \in Bundles, \A j \in Jobs : BundleOf[j] = c => stage'[j] = "done",
                      NEW p \in Winners(c),
                      ~tree[c][p].late \/ IsVersion(SlugOf(p), tree[c][p])'
               PROVE  PageCurrent(c, p)'
    <3>1. \A c \in Bundles : Winners(c)' = Winners(c)
      BY <1>3 DEF Winners
    <3> QED
      BY <1>3, <3>1 DEF BundlesCurrent, IndexCurrent
  <2>1. CASE c = bundle
    <3>1. IndexCurrent(bundle)' /\ Winners(bundle)' = Winners(bundle)
      BY <1>1, <1>3, CommitIndex DEF Winners
    <3> QED
      BY <2>1, <3>1 DEF IndexCurrent
  <2>2. CASE c # bundle
    <3>1. \A j \in Jobs : BundleOf[j] = c => stage[j] = "done"
      BY <1>4, <2>2 DEF Leave, ShapeInv
    <3>2. PICK s : s = SlugOf(p)
      OBVIOUS
    <3>3. /\ s \in Named(c) /\ s \in Slugs /\ tree[c][p].links \subseteq Named(c)
          /\ s \notin known
      BY <1>8, <2>2, <3>2, PageParts DEF Winners, WholeInv, NamedInv
    <3>4. items'[s] = items[s]
      BY <1>3, <3>3
    <3>5. PageCurrent(c, p)
      BY <1>3, <3>1, <3>2, <3>4 DEF WholeInv, BundlesCurrent, IsVersion
    <3>6. ASSUME NEW t \in Slugs \ {s}, Published(s)', Published(t)'
          PROVE  <<s, t>> \in links' <=> t \in tree[c][p].links
      <4>1. CASE t \in known
        BY <1>3, <1>8, <2>2, <3>3, <4>1
      <4>2. CASE t \notin known
        <5>1. Published(s) /\ Published(t)
          BY <1>3, <1>9, <3>4, <3>6, <4>2 DEF Published
        <5> QED
          BY <1>3, <3>2, <3>3, <3>5, <3>6, <4>2, <5>1 DEF PageCurrent
      <4> QED
        BY <4>1, <4>2
    <3> QED
      BY <1>3, <3>2, <3>4, <3>5, <3>6 DEF PageCurrent, Current, Last
  <2> QED
    BY <2>1, <2>2
<1>14. FreshInv'
  <2>1. /\ Sees(w) /\ Mirroring(w) /\ tx[w] \in Transaction /\ Bundle(w) \in Bundles
        /\ items' = [s \in Slugs |-> IF Locks(w, s) THEN tx[w].rows[s] ELSE items[s]]
    <3>1. Mirroring(w)
      BY <1>4 DEF Mirroring
    <3> QED
      BY <3>1, MirrorSees DEF Commit
  <2>2. ASSUME NEW t \in tx[w].got PROVE Past(t)
    <3>1. t \in Body /\ t = tree[Bundle(w)][t.page] /\ t.page \in Pages /\ t.rev \in Nat
      BY <2>1, <2>2 DEF Sees, Transaction, Body
    <3>2. t # Absent /\ t # Torn
      BY <3>1, MarkersAreNoRow
    <3>3. BundleOf[t.job] = Bundle(w)
      BY <2>1, <3>1, <3>2 DEF WholeInv, FreshInv
    <3> QED
      BY <3>1, <3>2, <3>3 DEF Past
  <2>3. ASSUME NEW s \in Slugs, items'[s] # Absent, NEW t \in Texts(items'[s]) PROVE Past(t)
    <3>1. CASE Locks(w, s)
      <4>1. s \in DOMAIN tx[w].rows /\ items'[s] = tx[w].rows[s]
        BY <2>1, <3>1 DEF Locks
      <4> QED
        BY <2>1, <2>2, <2>3, <4>1 DEF WholeInv, FreshInv
    <3>2. CASE ~Locks(w, s)
      BY <2>1, <2>3, <3>2 DEF WholeInv, FreshInv
    <3> QED
      BY <3>1, <3>2
  <2>4. \A s \in Slugs : items'[s] # Absent => \A t \in Texts(items[s])' : Past(t)'
    BY <1>3, <2>3 DEF Past, Texts
  <2> QED
    BY <1>3, <1>5, <2>4 DEF WholeInv, FreshInv, Mirroring
<1>13. NamedInv'
  BY <1>3, <1>5 DEF WholeInv, NamedInv
<1> QED
  BY <1>10, <1>11, <1>12, <1>13, <1>14 DEF WholeInv

\* An archive request takes an item and its edges out, and nothing else.
LEMMA EndArchiveWhole ==
    ASSUME MirrorInv, SerialInv, WholeInv, EndArchive
    PROVE  WholeInv'
<1>1. PICK s : s = request.slug
  OBVIOUS
<1>2. PICK del : del = request.del
  OBVIOUS
<1>3. /\ s # NoOne /\ items' = [items EXCEPT ![s].status = "archived"]
      /\ links' = links \ del
      /\ UNCHANGED <<tree, stage, pc, job, tx>>
  BY <1>1, <1>2 DEF EndArchive, bundleVars, serverVars, slotVars
<1>4. ShapeInv /\ s \in Slugs /\ items[s] \in Item
  BY <1>1, <1>3 DEF MirrorInv, ShapeInv, PlaceInv
<1>5. /\ items'[s] = [items[s] EXCEPT !.status = "archived"]
      /\ \A r \in Slugs \ {s} : items'[r] = items[r]
  BY <1>3, <1>4 DEF ShapeInv
<1>6. /\ items'[s].status = "archived" /\ items[s] # Absent /\ items'[s] # Absent
      /\ items'[s].versions = items[s].versions /\ items'[s].type = items[s].type
  BY <1>4, <1>5, MarkersAreNoRow DEF Item
<1>7. \A r \in Slugs : Published(r)' => r # s /\ Published(r)
  BY <1>5, <1>6 DEF Published
<1>8. \A r \in Slugs : Current(items'[r]) = Current(items[r]) /\ items'[r].type = items[r].type
                       /\ (items'[r] = Absent <=> items[r] = Absent)
  BY <1>5, <1>6 DEF Current
<1>9. \A r, t : r # s /\ t # s => (<<r, t>> \in links' <=> <<r, t>> \in links)
  BY <1>1, <1>2, <1>3 DEF SerialInv, Touching
<1>10. EdgesOfServedText'
  <2> SUFFICES ASSUME NEW r \in Slugs, NEW t \in Slugs, r # t, Published(r)', Published(t)'
               PROVE  <<r, t>> \in links' <=> t \in Current(items'[r]).links
    BY DEF EdgesOfServedText, Current, Last
  <2> QED
    BY <1>7, <1>8, <1>9 DEF WholeInv, EdgesOfServedText
<1>11. ItemsPlaced'
  <2> SUFFICES ASSUME NEW r \in Slugs, items'[r] # Absent
               PROVE  \E b \in Bundles :
                          /\ \E p \in Pages : SlugOf(p) = r /\ tree[b][p] # Absent
                          /\ Current(items'[r]).links \subseteq Named(b)
    BY <1>3 DEF ItemsPlaced, Current, Last
  <2> QED
    BY <1>8 DEF WholeInv, ItemsPlaced
<1>12. BundlesCurrent'
  <2>1. \A b : Winners(b)' = Winners(b)
    BY <1>3 DEF Winners
  <2>2. \A r \in Slugs : \A page : IsVersion(r, page)' => IsVersion(r, page)
    BY <1>5, <1>6 DEF IsVersion
  <2>3. ASSUME NEW b \in Bundles, NEW p \in Winners(b), PageCurrent(b, p) PROVE PageCurrent(b, p)'
    <3>1. SlugOf(p) \in Slugs
      BY PageParts DEF Winners
    <3>2. /\ items'[SlugOf(p)] # Absent /\ Current(items'[SlugOf(p)]) = tree[b][p]
          /\ items'[SlugOf(p)].type = TypeOf(p)
      BY <1>8, <2>3, <3>1 DEF PageCurrent
    <3>3. Published(SlugOf(p))' => \A t \in Slugs \ {SlugOf(p)} : Published(t)' =>
              (<<SlugOf(p), t>> \in links' <=> t \in tree[b][p].links)
      BY <1>7, <1>9, <2>3, <3>1 DEF PageCurrent
    <3> QED
      BY <1>3, <3>2, <3>3 DEF PageCurrent, Current, Last
  <2>4. \A b \in Bundles : \A p \in Winners(b) : SlugOf(p) \in Slugs
    BY PageParts DEF Winners
  <2> QED
    BY <1>3, <2>1, <2>2, <2>3, <2>4 DEF WholeInv, BundlesCurrent
<1>14. FreshInv'
  <2>1. \A r \in Slugs : /\ Texts(items[r])' = Texts(items[r])
                         /\ items'[r] # Absent <=> items[r] # Absent
    <3>1. \A r \in Slugs : items'[r].versions = items[r].versions
      BY <1>5, <1>6
    <3> QED
      BY <1>5, <1>6, <3>1 DEF Texts
  <2>2. \A t : Past(t)' <=> Past(t)
    BY <1>3 DEF Past
  <2>3. \A w \in Workers : \A g : Newer(w, g) => Newer(w, g)'
    BY <1>3, <2>1 DEF Newer, Bundle
  <2>4. \A w \in Workers : (Mirroring(w)' <=> Mirroring(w)) /\ DOMAIN tx[w].rows \subseteq Slugs
        /\ \A r : Texts(tx[w].rows[r])' = Texts(tx[w].rows[r])
    BY <1>3, <1>4, RowsAre DEF Mirroring, Texts, ShapeInv, Transaction
  <2>5. ASSUME NEW w \in Workers, Mirroring(w), NEW r \in DOMAIN tx[w].rows,
               NEW t \in Texts(tx[w].rows[r])
        PROVE  t \in tx[w].got \/ (items'[r] # Absent /\ t \in Texts(items[r])')
    BY <2>1, <2>4, <2>5 DEF WholeInv, FreshInv
  <2> QED
    BY <1>3, <2>1, <2>2, <2>3, <2>4, <2>5 DEF WholeInv, FreshInv
<1>13. NamedInv'
  BY <1>3 DEF WholeInv, NamedInv, Bundle
<1> QED
  BY <1>10, <1>11, <1>12, <1>13, <1>14 DEF WholeInv

LEMMA WholeInvInit ==
    ASSUME Init PROVE WholeInv
<1>1. \A b \in Bundles : \A p \in Pages : tree[b][p] = Absent
  BY DEF Init, EmptyTree
<1>2. \A s \in Slugs : items[s] = Absent
  BY DEF Init
<1>3. NamedInv
  BY <1>1 DEF NamedInv, Init
<1>4. EdgesOfServedText /\ ItemsPlaced
  BY <1>2 DEF EdgesOfServedText, ItemsPlaced, Published
<1>5. BundlesCurrent
  BY <1>1 DEF BundlesCurrent, Winners
<1>6. FreshInv
  BY <1>1, <1>2 DEF FreshInv, Init, Mirroring
<1> QED
  BY <1>3, <1>4, <1>5, <1>6 DEF WholeInv

LEMMA WholeInvStep ==
    ASSUME OneWorker, BundlesApart, MirrorInv, SerialInv, WholeInv, [Next]_vars
    PROVE  WholeInv'
<1>1. CASE \E j \in Jobs : Start(j)
  BY <1>1, QuietWhole DEF Start
<1>6. CASE \E j \in Jobs : \E w \in Workers : StartStray(w, j)
  BY <1>6, QuietWhole
<1>2. ASSUME NEW w \in Workers, Step(w) PROVE WholeInv'
  BY <1>2, BeginWriteWhole, EndWriteWhole, QuietWhole, CommitWhole DEF Step
<1>3. ASSUME NEW w \in Workers,
             FlushPart(w) \/ IngestFails(w) \/ DbFails(w) \/ Crash(w) \/ TimesOut(w)
      PROVE  WholeInv'
  BY <1>3, FlushPartWhole, QuietWhole
<1>4. CASE EndArchive
  BY <1>4, EndArchiveWhole
<1>5. CASE \/ \E s \in Slugs : BeginArchive(s)
           \/ \E j \in Jobs : IngestTimesOut(j)
           \/ Finished \/ UNCHANGED vars
  <2>1. UNCHANGED <<tree, items, links, pc, tx, job>>
    BY <1>5 DEF BeginArchive, IngestTimesOut, Finished, vars, bundleVars, dbVars, slotVars
  <2>2. \A j \in Jobs : stage'[j] = "done" => stage[j] = "done"
    BY <1>5 DEF BeginArchive, IngestTimesOut, Finished, vars, serverVars, MirrorInv, ShapeInv
  <2>3. FreshInv'
    BY <2>1 DEF WholeInv, FreshInv, Past, Newer, Texts, Bundle, Mirroring
  <2> QED
    BY <2>1, <2>2, <2>3, WholeStays
<1> QED
  BY <1>1, <1>2, <1>3, <1>4, <1>5, <1>6 DEF Next

LEMMA WholeInvariant ==
    ASSUME OneWorker, BundlesApart
    PROVE  Spec => []WholeInv
<1>1. Init => WholeInv
  BY WholeInvInit
<1>2. MirrorInv /\ SerialInv /\ WholeInv /\ [Next]_vars => WholeInv'
  BY WholeInvStep
<1> QED
  BY <1>1, <1>2, SerialInvariant, PTL DEF Spec

\* With one worker process, and bundles that name no slug of one another, the
\* edges between published items are those of the texts that are served
\* (_rebuild_links and the new version are of one transaction). Two bundles
\* that share a slug break it: an item has one text and the edges of the
\* bundle that was mirrored last.
THEOREM SerialEdges ==
    ASSUME OneWorker, BundlesApart
    PROVE  Spec => []EdgesOfServedText
<1>1. WholeInv => EdgesOfServedText
  BY DEF WholeInv
<1> QED
  BY <1>1, WholeInvariant, PTL

\* Under the same hypotheses the index equals the bundles once every upload is
\* done, whichever mirror committed last, and whatever attempts of ingests the
\* server gave up on went on beside it: but for the pages such an attempt wrote
\* after that and no mirror has read yet (retry.py: no heartbeat, so the
\* activity is not told).
THEOREM SerialSettlesCurrent ==
    ASSUME OneWorker, BundlesApart
    PROVE  Spec => []SettledIndexCurrent
<1>1. WholeInv => SettledIndexCurrent
  BY DEF WholeInv, BundlesCurrent, SettledIndexCurrent
<1> QED
  BY <1>1, WholeInvariant, PTL
=============================================================================

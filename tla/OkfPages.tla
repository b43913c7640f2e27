------------------------------ MODULE OkfPages ------------------------------
(***************************************************************************)
(* The pages of an OKF bundle, and the two deterministic computations an   *)
(* ingest makes about them: the link plan (okf_resolve.resolve) and the    *)
(* metadata merge (okf_ingest._merge_existing).  Everything here is pure;  *)
(* OkfIngest is the state machine that uses it.                            *)
(*                                                                         *)
(* A page is identified by its type (the directory it lives in) and its    *)
(* slug (the file name).  What a page contains is abstracted to what the   *)
(* properties tell apart: which jobs' facts its body holds, which job      *)
(* created it and which described it last, the jobs that gave it an alias, *)
(* the source slugs of its "sources" list and the slugs it links to.       *)
(***************************************************************************)
EXTENDS Integers, FiniteSets

CONSTANTS
    Slugs,      \* page names
    Jobs,       \* the documents being ingested
    Absent,     \* content of a file that does not exist
    Torn        \* content of a file that exists and does not parse

ASSUME MarkersAssumption == Absent # Torn

\* The directories a page can live in (PAGE_DIRS; no code writes "analysis").
PageTypes == {"source", "entity", "concept"}

Pages == PageTypes \X Slugs

TypeOf(p) == p[1]
SlugOf(p) == p[2]

\* A page as OkfFrontmatter and the body describe it.
Content == [created : Jobs, desc : Jobs, facts : SUBSET Jobs,
            aliases : SUBSET Jobs, sources : SUBSET Slugs,
            links : SUBSET Slugs]

ASSUME MarkersAreNoContent == Absent \notin Content /\ Torn \notin Content

File == Content \union {Absent, Torn}

Tree == [Pages -> File]

EmptyTree == [p \in Pages |-> Absent]

\* The pages a directory listing of the tree shows (list_pages, all_slugs):
\* it looks at file names only, so a torn file is listed.
Existing(files) == {p \in Pages : files[p] # Absent}

ExistingSlugs(files) == {SlugOf(p) : p \in Existing(files)}

\* The pages read_page returns.
Readable(files) == {p \in Pages : files[p] \notin {Absent, Torn}}

\* What the file of a page may hold while it is written, once it parses: the
\* frontmatter comes first, and the body and its links may be cut short.
CutShort(page) ==
    {[page EXCEPT !.facts = kept[1], !.links = kept[2]] :
        kept \in (SUBSET page.facts) \X (SUBSET page.links)} \ {page}

\* index.md as update_index builds it: a row per listed page with the
\* summary of that page.
Catalog(files) == {<<p, files[p].desc>> : p \in Readable(files)}

-----------------------------------------------------------------------------
(***************************************************************************)
(* The link plan.  An extraction names the source page, the entity and     *)
(* concept pages the text is about, those among them that it reached       *)
(* through an alias, and other slugs it refers to (references and the      *)
(* related pages of the relate step).  `source_slug' is its `source'.      *)
(***************************************************************************)
Extraction == [source : Slugs, derived : SUBSET ({"entity", "concept"} \X Slugs),
               viaAlias : SUBSET Slugs, refs : SUBSET Slugs]

\* Variant: resolve forks a page whose slug exists under another type.
TakenElsewhere_Forgotten(p, files) == FALSE

\* A page the plan must not fork: its slug is taken under another type only.
TakenElsewhere(p, files) ==
    p \notin Existing(files) /\ SlugOf(p) \in ExistingSlugs(files)

PlannedOfType(t, e, files) ==
    {p \in e.derived : /\ TypeOf(p) = t
                       /\ SlugOf(p) # e.source
                       /\ ~TakenElsewhere(p, files)}

\* Entities are planned first; a concept whose slug is already planned is
\* only linked to.
PlannedEntities(e, files) == PlannedOfType("entity", e, files)

PlannedConcepts(e, files) ==
    {p \in PlannedOfType("concept", e, files) :
        \A q \in PlannedEntities(e, files) : SlugOf(q) # SlugOf(p)}

SourcePage(e) == <<"source", e.source>>

\* The page operations of one ingest (resolve).
Plan(e, files) ==
    {SourcePage(e)} \union PlannedEntities(e, files) \union PlannedConcepts(e, files)

\* Variant: references and related pages are linked without looking them up.
Effective_UncheckedRefs(e, files) == e

\* The extraction the plan goes by: references count only when the page they
\* name exists.
Effective(e, files) == [e EXCEPT !.refs = @ \intersect ExistingSlugs(files)]

\* An extraction can use an alias only of a page that relate found in the
\* catalogue; relate is best effort, and finds none when building the catalogue
\* fails on a torn file.  A subject that no alias is found for is planned under
\* the slug of its name, which is another extraction.
Related(e, files) ==
    e.viaAlias \subseteq IF \E p \in Pages : files[p] = Torn THEN {} ELSE ExistingSlugs(files)

\* The links a planned page is guaranteed to carry (the Related section): the
\* source page links to every extracted page, planned or not, and to the
\* references; an entity or concept links back to the source.
PlanLinks(e, p) ==
    IF TypeOf(p) = "source"
    THEN {SlugOf(q) : q \in e.derived} \union e.refs
    ELSE {e.source}

\* Pages are composed and written source first, then entities, then concepts.
Rank == [source |-> 1, entity |-> 2, concept |-> 3]

IsNext(p, todo) ==
    p \in todo /\ \A q \in todo : Rank[TypeOf(p)] <= Rank[TypeOf(q)]

-----------------------------------------------------------------------------
(***************************************************************************)
(* The page one operation prepares, and its merge with the page it finds   *)
(* under the lock.                                                         *)
(***************************************************************************)
Prepared(j, p, e, facts) ==
    [created |-> j,
     desc    |-> j,
     facts   |-> facts,
     aliases |-> IF TypeOf(p) # "source" /\ SlugOf(p) \in e.viaAlias THEN {j} ELSE {},
     sources |-> IF TypeOf(p) = "source" THEN {} ELSE {e.source},
     links   |-> PlanLinks(e, p)]

\* Variant: an update overwrites the aliases of the page.
MergeExisting_DropsAliases(page, existing) ==
    [page EXCEPT !.created = existing.created]

\* _merge_existing: the creation stamp and the aliases of the existing page
\* are kept; everything else, the body included, is the new page's.
MergeExisting(page, existing) ==
    [page EXCEPT !.created = existing.created,
                 !.aliases = existing.aliases \union @]
=============================================================================

------------------------------ MODULE Retrieval -------------------------------
(***************************************************************************)
(* The requests that read the published items: the list, one item, search  *)
(* with its expansion along links, the graph, the facets, and archiving,   *)
(* which reads before it writes.  Each is a sequence of statements in one  *)
(* READ COMMITTED transaction, so each statement may see more than the one *)
(* before: who the caller is (Callers), which teams it is in (teams.py),   *)
(* its grants, the rows it may see (rbac.py), then what was asked for.     *)
(* Meanwhile members come and go (TeamSpaces), items are archived, and a   *)
(* mirror rebuilds the explicit links.                                     *)
(***************************************************************************)
EXTENDS TeamSpaces, Callers, Sequences, Integers

CONSTANTS
    Reads,          \* the requests that read
    Ask,            \* what each one asks for: its kind, what it presents, which space and item
    Items,          \* the items, see ItemAssumption
    InitLinks,      \* wiki_links at first
    MirrorLinks,    \* the explicit ones that a mirror replaces them by
    Keyword,        \* keyword_score of each item
    Vector,         \* its best cosine similarity, if the query is embedded; may be negative
    MinSimilarity,  \* search_min_vector_similarity
    Decay,          \* graph_expand_decay, in halves
    TopHits,        \* graph_expand_top_hits
    PerHit,         \* graph_expand_per_hit
    Limit,          \* the number of hits asked for
    Together,       \* bound: the sets of requests that are served in one behaviour
    MinScore        \* the floor of the graph's edges, in halves

ASSUME ReadAssumption ==
    /\ Reads \intersect Changes = {}
    /\ \A r \in Reads :
        /\ Ask[r].kind \in {"list", "item", "search", "graph", "facets", "archive"}
        /\ Ask[r].space \in DOMAIN SpaceOrg \union {Nobody}
        /\ Ask[r].kind \in {"item", "archive"} => Ask[r].item \in DOMAIN Items
    /\ Together \subseteq SUBSET Reads
    /\ {Decay, MinScore} \subseteq 0..2 /\ {TopHits, PerHit, Limit} \subseteq Nat \ {0}

\* The columns of an item that readers use; the groups a page may be restricted to
\* and the pages it is derived from. A link is [from, to, explicit, score], with
\* the score in halves; the mirror gives explicit ones the score 1.
ASSUME ItemAssumption ==
    /\ IsFiniteSet(DOMAIN Items) /\ Nobody \notin DOMAIN Items
    /\ \A i \in DOMAIN Items :
        /\ Items[i].space \in DOMAIN SpaceOrg /\ Items[i].org = SpaceOrg[Items[i].space]
        /\ Items[i].sources \subseteq DOMAIN Items
        /\ Items[i].type = "source" => Items[i].sources = {}
        /\ Keyword[i] \in Nat /\ Vector[i] \in Int
    /\ InitLinks \union MirrorLinks \subseteq
          [from : DOMAIN Items, to : DOMAIN Items, explicit : BOOLEAN, score : 0..2]
    /\ \A l \in InitLinks \union MirrorLinks : l.explicit => l.score = 2
    /\ \A l \in MirrorLinks : l.explicit

VARIABLES
    published,  \* the items with status published
    links,      \* wiki_links
    mirrored,   \* the mirror has run
    stage,      \* where each reading request stands
    sees        \* what it has read so far, and its answer

readVars == <<published, links, mirrored, stage, sees>>
vars == <<teamVars, readVars>>

-----------------------------------------------------------------------------
(* State *)

Kind(r) == Ask[r].kind

\* An app may read on behalf of a user, but not archive.
Base(r) ==
    IF Kind(r) = "archive" THEN GetPrincipal(Ask[r].with) ELSE EffectivePrincipal(Ask[r].with)

Caller(r) == Base(r).id

\* The groups, the grants and the items allowed, in the order they are read; the
\* hits of a search, first the direct ones in their order, with the parents whose
\* links have been followed; the edges of a graph and the link rows they were made
\* from. was is a history value: the caller was a member, or was not, from the
\* begin to the end of the request, or that changed.
Blank == [groups |-> {}, grants |-> {}, allowed |-> {}, items |-> {}, hits |-> <<>>,
          followed |-> 0, rows |-> {}, edges |-> {}, was |-> "changed"]

TypeOK ==
    /\ TeamTypeOK
    /\ published \subseteq DOMAIN Items
    /\ links \subseteq InitLinks \union MirrorLinks
    /\ stage \in [Reads -> {"new", "fetch", "grants", "rows", "embed", "match", "expand",
                            "list", "nodes", "edges", "write", "answered", "refused"}]
    /\ \A r \in Reads :
          /\ sees[r].allowed \union sees[r].items \subseteq DOMAIN Items
          /\ sees[r].followed \in 0..Len(sees[r].hits)
          /\ stage[r] = "answered" => sees[r].items \subseteq sees[r].allowed

Init ==
    /\ TeamInit
    /\ published = DOMAIN Items
    /\ links = InitLinks
    /\ mirrored = FALSE
    /\ stage = [r \in Reads |-> "new"]
    /\ sees = [r \in Reads |-> Blank]

-----------------------------------------------------------------------------
(* Helpers *)

Goto(r, to) == stage' = [stage EXCEPT ![r] = to]

Note(r, rec) == sees' = [sees EXCEPT ![r] = rec]

\* S in the order of a sort.
Sorted(S, Before(_, _)) ==
    {q \in [1..Cardinality(S) -> S] : \A m, n \in DOMAIN q : m < n => Before(q[m], q[n])}

PrincipalOf(r) == [Base(r) EXCEPT !.groups = @ \union sees[r].groups]

\* The space filter of r, which never provisions a space; none is asked for by Nobody.
InSpace(r, i) == Ask[r].space \in {Nobody, Items[i].space}

\* The rows a statement of r finds: published, in the space asked for.
Found(r) == {i \in sees[r].allowed \intersect published : InSpace(r, i)}

\* The answer, with nothing kept that was only read on the way.
Answer(r, rec) ==
    /\ Goto(r, "answered")
    /\ Note(r, [rec EXCEPT !.groups = {}, !.grants = {}])

UntouchedTables == UNCHANGED <<teamVars, published, links, mirrored>>

-----------------------------------------------------------------------------
(* Who asks *)

Begins(r) ==
    /\ stage[r] = "new"
    /\ \E T \in Together : {q \in Reads : stage[q] # "new"} \union {r} \subseteq T

\* The app may not speak for this user.
Overreaches(r) == Kind(r) # "archive" /\ Delegates(Ask[r].with) /\ ~ MayAssert(Ask[r].with)

\* The token is not valid any more, or the keys of its issuer are out of reach; an
\* app's request needs none, but a bad one ends it as well.
Refuse(r) ==
    /\ Begins(r)
    /\ HasToken(Ask[r].with) \/ Overreaches(r)
    /\ Goto(r, "refused")
    /\ UNCHANGED sees
    /\ UntouchedTables

\* The teams are read for every request anew.
Identify(r) ==
    /\ Begins(r)
    /\ ~ Overreaches(r)
    /\ Goto(r, IF Kind(r) \in {"item", "archive"} THEN "fetch" ELSE "grants")
    /\ Note(r, [Blank EXCEPT
                  !.groups = IF IsMember(Caller(r)) THEN {Team(TeamSlug)} ELSE {},
                  !.was = IF IsMember(Caller(r)) THEN "in" ELSE "out"])
    /\ UntouchedTables

\* One item is fetched first and looked for among the allowed ones next.
FetchItem(r) ==
    /\ stage[r] = "fetch"
    /\ Goto(r, IF Ask[r].item \in published THEN "grants" ELSE "refused")
    /\ UNCHANGED sees
    /\ UntouchedTables

ReadGrants(r) ==
    /\ stage[r] = "grants"
    /\ Note(r, [sees[r] EXCEPT !.grants = MatchingGrants(PrincipalOf(r), Grants)])
    /\ Goto(r, "rows")
    /\ UntouchedTables

After(r, allowed) ==
    CASE Kind(r) = "search" -> "embed"
      [] Kind(r) = "graph"  -> "nodes"
      [] Kind(r) \in {"list", "facets"} -> "list"
      [] Kind(r) = "item" -> IF Ask[r].item \in allowed THEN "list" ELSE "refused"
      [] Kind(r) = "archive" -> IF Ask[r].item \in allowed THEN "write" ELSE "refused"

ReadRows(r) ==
    LET allowed == AllowedItems(PrincipalOf(r), sees[r].grants, [i \in published |-> Items[i]])
    IN  /\ stage[r] = "rows"
        /\ Note(r, [sees[r] EXCEPT !.allowed = allowed])
        /\ Goto(r, After(r, allowed))
        /\ UntouchedTables

-----------------------------------------------------------------------------
(* Lists, one item, facets, archiving *)

\* The rows of a list or those that the facets count; the version of one item,
\* whose status is not looked at again.
AnswerList(r) ==
    /\ stage[r] = "list"
    /\ Answer(r, [sees[r] EXCEPT !.items = IF Kind(r) = "item" THEN {Ask[r].item} ELSE Found(r)])
    /\ UntouchedTables

\* The narrowest scope of an item.
Narrowest(item) ==
    IF item.project # Nobody THEN Scope("project", item.project) ELSE Scope("space", item.space)

\* The grants are read again, in a session of their own.
ArchiveItem(r) ==
    LET i == Ask[r].item
    IN  /\ stage[r] = "write"
        /\ IF CanWrite(PrincipalOf(r), Narrowest(Items[i]), Grants)
           THEN /\ published' = published \ {i}
                /\ links' = {l \in links : i \notin {l.from, l.to}}
                /\ Answer(r, [sees[r] EXCEPT !.items = {i}])
           ELSE /\ Goto(r, "refused")
                /\ UNCHANGED <<published, links, sees>>
        /\ UNCHANGED <<teamVars, mirrored>>

-----------------------------------------------------------------------------
(* Search *)

\* Without an embedding of the query nothing is similar.
VectorScore(i, embedded) == IF embedded THEN Vector[i] ELSE 0

\* Scores are counted in quarters. That of a keyword hit may be negative.
DirectScore(i, embedded) == 4 * (Keyword[i] + VectorScore(i, embedded))

Relevant(i, embedded) == Keyword[i] > 0 \/ VectorScore(i, embedded) >= MinSimilarity

\* The statement and the ranking; without an embedding only keywords count. Hits
\* of one score come in the order of the rows, which is any order.
Match(r) ==
    /\ stage[r] = "embed"
    /\ \E embedded \in BOOLEAN :
         LET hits == {i \in Found(r) : Relevant(i, embedded)}
             Before(i, j) == i # j /\ DirectScore(i, embedded) >= DirectScore(j, embedded)
         IN  \E q \in Sorted(hits, Before) :
               Note(r, [sees[r] EXCEPT !.hits =
                 [n \in DOMAIN q |-> [item |-> q[n], score |-> DirectScore(q[n], embedded), via |-> Nobody]]])
    /\ Goto(r, "match")
    /\ UntouchedTables

ItemsOf(hits) == {hits[n].item : n \in DOMAIN hits}
Direct(hits)  == {n \in DOMAIN hits : hits[n].via = Nobody}

\* The best links of an item, as many as may be followed.
BestLinks(i) ==
    LET own == {l \in links : l.from = i}
    IN  {q \in UNION {[1..n -> own] : n \in 0..PerHit} :
            /\ \A m, n \in DOMAIN q : m < n => q[m] # q[n] /\ q[m].score >= q[n].score
            /\ Len(q) = PerHit \/ {q[n] : n \in DOMAIN q} = own
            /\ \A l \in own \ {q[n] : n \in DOMAIN q} : \A n \in DOMAIN q : l.score <= q[n].score}

\* The decay brings a score nearer to 0: a negative one up.
Hit(l, parent) ==
    [item |-> l.to, score |-> (parent.score * l.score * Decay) \div 4, via |-> parent.item]

\* Variant: a neighbour that is a hit already is taken again.
NewHits_Repeated(hits, q, parent) == {[n \in DOMAIN q |-> Hit(q[n], parent)]}

\* The neighbours along these links that are no hits yet, in the one order they
\* have. Two links may lead to one item, an explicit one and one by similarity:
\* the better one counts.
NewHits(hits, q, parent) ==
    LET fresh == {n \in DOMAIN q : /\ q[n].to \notin ItemsOf(hits)
                                   /\ \A m \in 1..n - 1 : q[m].to # q[n].to}
    IN  {[n \in DOMAIN order |-> Hit(q[order[n]], parent)] : order \in Sorted(fresh, <)}

\* One statement for the links of each of the top hits.
FollowLinks(r) ==
    LET hits == sees[r].hits
        k == sees[r].followed + 1
    IN  /\ stage[r] = "match"
        /\ IF k <= TopHits /\ k \in Direct(hits)
           THEN /\ \E q \in BestLinks(hits[k].item) : \E new \in NewHits(hits, q, hits[k]) :
                     Note(r, [sees[r] EXCEPT !.hits = hits \o new, !.followed = k])
                /\ UNCHANGED stage
           ELSE Goto(r, "expand") /\ UNCHANGED sees
        /\ UntouchedTables

\* The hits of these places, the best first, as many as were asked for.
Best(hits, kept) ==
    LET Better(m, n) == hits[m].score > hits[n].score \/ (hits[m].score = hits[n].score /\ m < n)
        size == IF Cardinality(kept) < Limit THEN Cardinality(kept) ELSE Limit
    IN  {[n \in 1..size |-> hits[order[n]]] : order \in Sorted(kept, Better)}

\* The neighbours are loaded in one statement, with the conditions of the first
\* one, sorted in, and the list is cut.
Expand(r) ==
    LET hits == sees[r].hits
        kept == {n \in DOMAIN hits : n \in Direct(hits) \/ hits[n].item \in Found(r)}
    IN  /\ stage[r] = "expand"
        /\ \E best \in Best(hits, kept) :
              Answer(r, [sees[r] EXCEPT !.hits = best, !.followed = 0, !.items = ItemsOf(best)])
        /\ UntouchedTables

-----------------------------------------------------------------------------
(* The graph *)

ReadNodes(r) ==
    /\ stage[r] = "nodes"
    /\ Note(r, [sees[r] EXCEPT !.items = Found(r)])
    /\ Goto(r, "edges")
    /\ UntouchedTables

Edge(l) == [pair |-> {l.from, l.to}, explicit |-> l.explicit, score |-> l.score]

\* Variant: an explicit link does not take the place of one by similarity.
Collapsed_FirstStays(edges, l) ==
    IF \E e \in edges : e.pair = {l.from, l.to} THEN edges ELSE edges \union {Edge(l)}

\* One edge for the links of a pair; the first one's, made explicit by a later one.
Collapsed(edges, l) ==
    LET old == {e \in edges : e.pair = {l.from, l.to}}
    IN  IF old = {} THEN edges \union {Edge(l)}
        ELSE IF l.explicit
        THEN (edges \ old) \union {[e EXCEPT !.explicit = TRUE,
                                             !.score = IF @ > l.score THEN @ ELSE l.score] : e \in old}
        ELSE edges

\* The edges of these links, one after the other.
Edges(q) ==
    LET upTo[n \in 0..Len(q)] == IF n = 0 THEN {} ELSE Collapsed(upTo[n - 1], q[n])
    IN  upTo[Len(q)]

\* The links are read in one statement, in any order; those with an end that is
\* no node or with a score below the floor are left out.
AnswerGraph(r) ==
    LET nodes == sees[r].items
        rows == {l \in links : {l.from, l.to} \subseteq nodes /\ l.score >= MinScore}
    IN  /\ stage[r] = "edges"
        /\ \E q \in [1..Cardinality(rows) -> rows] :
              /\ \A m, n \in DOMAIN q : m # n => q[m] # q[n]
              /\ Answer(r, [sees[r] EXCEPT !.rows = rows, !.edges = Edges(q)])
        /\ UntouchedTables

-----------------------------------------------------------------------------
(* The system *)

\* A mirror commits: the explicit links are replaced, those of archived items too.
MirrorCommits ==
    /\ ~ mirrored
    /\ mirrored' = TRUE
    /\ links' = {l \in links : ~ l.explicit} \union MirrorLinks
    /\ UNCHANGED <<teamVars, published, stage, sees>>

\* History: the membership of a caller has changed while it waits.
Watch ==
    LET changed(r) == IsMember(Caller(r)) # (IsMember(Caller(r)))'
    IN  sees' = [r \in Reads |->
                   IF stage[r] \notin {"new", "answered", "refused"} /\ changed(r)
                   THEN [sees[r] EXCEPT !.was = "changed"] ELSE sees[r]]

Read(r) ==
    \/ Refuse(r) \/ Identify(r) \/ FetchItem(r) \/ ReadGrants(r) \/ ReadRows(r) \/ AnswerList(r)
    \/ ArchiveItem(r) \/ Match(r) \/ FollowLinks(r) \/ Expand(r)
    \/ ReadNodes(r) \/ AnswerGraph(r)

Finished ==
    /\ \A r \in Reads : stage[r] \in {"answered", "refused"} \/ (stage[r] = "new" /\ ~ Begins(r))
    /\ \A c \in Changes : step[c] \in Settled
    /\ mirrored
    /\ UNCHANGED vars

Next ==
    \/ TeamNext /\ Watch /\ UNCHANGED <<published, links, mirrored, stage>>
    \/ \E r \in Reads : Read(r)
    \/ MirrorCommits
    \/ Finished

Spec == Init /\ [][Next]_vars

-----------------------------------------------------------------------------
(* Properties *)

\* The pages of the team, and those that were derived from one of them.
TeamPages ==
    {i \in DOMAIN Items : \E j \in Items[i].sources \union {i} : Items[j].space = TeamSpace}

OutsideRights(u) == \E g \in SeededGrants : g.kind = "user" /\ g.who = u

\* The list of members decides, whatever else happens while a request is served:
\* who was none from its begin to its end gets no page of the team and none that
\* was derived from one, and a list shows who was one all that is published then.
MembershipDecides ==
    \A r \in Reads : stage[r] = "answered" /\ ~ OutsideRights(Caller(r)) =>
        /\ sees[r].was = "out" => sees[r].items \intersect TeamPages = {}
        /\ sees[r].was = "in" /\ Kind(r) \in {"list", "facets"} /\ Ask[r].space = Nobody =>
              \A i \in published :
                  Items[i].space = TeamSpace /\ Items[i].acl = {} /\ Items[i].type = "source"
                  => i \in sees[r].items

\* The answer of a search has no item twice and the best one first, although the
\* links of each hit are read for themselves and the list is cut. A neighbour with a
\* positive score is never there without the hit that led to it, before it, and no
\* neighbour comes before a hit that led to it and is not negative. A keyword hit
\* whose text is unlike the query may be negative: the decay puts its neighbours
\* before it, and the list may be cut between them.
HitsExplained ==
    \A r \in Reads : stage[r] = "answered" =>
        LET hits == sees[r].hits
        IN  \A n \in DOMAIN hits :
              /\ \A m \in 1..n - 1 : hits[m].item # hits[n].item /\ hits[m].score >= hits[n].score
              /\ hits[n].via # Nobody =>
                    /\ hits[n].score > 0 => \E m \in 1..n - 1 : hits[m].item = hits[n].via
                    /\ \A m \in DOMAIN hits : hits[m].item = hits[n].via /\ hits[m].score >= 0 => m < n

\* The edges of a graph do not depend on the order in which its links were read:
\* one for each linked pair, explicit if one of the links is, with the best score.
GraphOfAnyOrder ==
    \A r \in Reads : stage[r] = "answered" /\ Kind(r) = "graph" =>
        LET joining(pair) == {l \in sees[r].rows : {l.from, l.to} = pair}
        IN  /\ {e.pair : e \in sees[r].edges} = {{l.from, l.to} : l \in sees[r].rows}
            /\ \A e, f \in sees[r].edges : e.pair = f.pair => e = f
            /\ \A e \in sees[r].edges :
                  /\ e.explicit <=> \E l \in joining(e.pair) : l.explicit
                  /\ \E l \in joining(e.pair) : l.score = e.score
                  /\ \A l \in joining(e.pair) : l.score <= e.score
=============================================================================

---------------------------- MODULE RetrievalProofs ----------------------------
(***************************************************************************)
(* Proofs about Retrieval, for every set of requests, items, links, teams  *)
(* and grants.                                                             *)
(*                                                                         *)
(* A request holds on to what it has read before: its teams, its grants,   *)
(* the items allowed. The invariant says of each of these what the request *)
(* may still rely on, as long as its caller's membership is what it was.   *)
(***************************************************************************)
EXTENDS Retrieval, TeamSpacesProofs, SequenceTheorems, WellFoundedInduction

Links == InitLinks \union MirrorLinks

\* A hit, and an edge of a graph.
Scored == [item : DOMAIN Items, score : Int, via : DOMAIN Items \union {Nobody}]
EdgeRow == [pair : SUBSET DOMAIN Items, explicit : BOOLEAN, score : 0..2]

PossibleGrants ==
    SeededGrants \union {Grant("group", Team(TeamSlug), "editor", Scope("space", TeamSpace))}
    \union {Grant("user", u, "admin", Scope("space", TeamSpace)) : u \in People}

\* What a request may have read.
Seen == [groups : SUBSET {Team(TeamSlug)}, grants : SUBSET PossibleGrants,
         allowed : SUBSET DOMAIN Items, items : SUBSET DOMAIN Items,
         hits : Seq(Scored), followed : Nat,
         rows : SUBSET Links, edges : SUBSET EdgeRow, was : {"in", "out", "changed"}]

Stages == {"new", "fetch", "grants", "rows", "embed", "match", "expand",
           "list", "nodes", "edges", "write", "answered", "refused"}

\* The type of each variable.
ShapeInv ==
    /\ published \subseteq DOMAIN Items /\ links \subseteq Links
    /\ stage \in [Reads -> Stages]
    /\ sees \in [Reads -> Seen]

\* A request of kind k, for item i, that has read s and is at stage st, answers
\* with allowed items only.
AllowedOk(k, i, st, s) ==
    /\ s.followed \in 0..Len(s.hits)
    /\ st \in {"embed", "match", "expand"} => k = "search"
    /\ st = "list" => k \in {"list", "facets", "item"}
    /\ st \in {"nodes", "edges"} => k = "graph"
    /\ st = "fetch" => k \in {"item", "archive"}
    /\ st = "write" => k = "archive"
    /\ st = "write" \/ (st = "list" /\ k = "item") => i \in s.allowed
    /\ st \in {"edges", "answered"} => s.items \subseteq s.allowed
    /\ st \in {"match", "expand"} => \A n \in Direct(s.hits) : s.hits[n].item \in s.allowed

\* Hits are of items that differ; a neighbour comes after the direct hit that led
\* to it, which is no worse, unless it is negative and the neighbour is not positive.
\* Once they are sorted, they come by their scores.
HitsApart(hits) ==
    \A n \in DOMAIN hits : \A m \in 1..n - 1 : hits[m].item # hits[n].item

NoWorse(parent, score) == (score > 0 \/ parent >= 0) => parent >= score

LedBy(hits, m, n) == hits[m].item = hits[n].via /\ NoWorse(hits[m].score, hits[n].score)

HitsLed(hits) ==
    \A n \in DOMAIN hits : hits[n].via # Nobody =>
        \E m \in 1..n - 1 : m \in Direct(hits) /\ LedBy(hits, m, n)

HitsSorted(hits) ==
    \A n \in DOMAIN hits :
        /\ \A m \in 1..n - 1 : hits[m].score >= hits[n].score
        /\ hits[n].via # Nobody =>
              /\ hits[n].score > 0 => \E m \in 1..n - 1 : hits[m].item = hits[n].via
              /\ \A m \in DOMAIN hits : hits[m].item = hits[n].via /\ hits[m].score >= 0 => m < n

HitsOk(st, s) ==
    /\ HitsApart(s.hits)
    /\ st \in {"match", "expand"} => HitsLed(s.hits)
    /\ st \notin {"match", "expand", "answered"} => s.hits = <<>>
    /\ st = "answered" => HitsSorted(s.hits)

\* The edges are those of the links: one for each linked pair, explicit if one of
\* its links is, with the best score.
EdgesOf(edges, rows) ==
    /\ {e.pair : e \in edges} = {{l.from, l.to} : l \in rows}
    /\ \A e, f \in edges : e.pair = f.pair => e = f
    /\ \A e \in edges :
          /\ e.explicit <=> \E l \in rows : {l.from, l.to} = e.pair /\ l.explicit
          /\ \E l \in rows : {l.from, l.to} = e.pair /\ l.score = e.score
          /\ \A l \in rows : {l.from, l.to} = e.pair => l.score <= e.score

GraphOk(k, st, s) == st = "answered" /\ k = "graph" => EdgesOf(s.edges, s.rows)

\* A request that is being served.
Open(st) == st \notin {"new", "answered", "refused"}

TeamGrant == Grant("group", Team(TeamSlug), "editor", Scope("space", TeamSpace))

\* The items of the team that are for every member.
ForMembers(i) == Items[i].space = TeamSpace /\ Items[i].acl = {} /\ Items[i].type = "source"

\* What request r may rely on as long as its caller, one of those who are here in
\* the team or none, is what it was; there are the items published.
Here == {m.user : m \in members}

InOk(r, st, s, here, there) ==
    s.was = "in" =>
        /\ Open(st) => Caller(r) \in here /\ s.groups = {Team(TeamSlug)}
        /\ Open(st) /\ st \notin {"fetch", "grants"} => TeamGrant \in s.grants
        /\ st = "list" =>
              \A i \in there : ForMembers(i) => i \in s.allowed
        /\ st = "answered" /\ Kind(r) \in {"list", "facets"} /\ Ask[r].space = Nobody =>
              \A i \in there : ForMembers(i) => i \in s.items

OutOk(r, st, s, here) ==
    s.was = "out" /\ ~ OutsideRights(Caller(r)) =>
        /\ Open(st) => Caller(r) \notin here /\ s.groups = {}
        /\ Open(st) =>
              \A i \in DOMAIN Items : Items[i].space = TeamSpace => ~ Admitted(Items[i], s.grants)
        /\ s.allowed \intersect TeamPages = {}

ReadInv ==
    \A r \in Reads :
        /\ AllowedOk(Kind(r), Ask[r].item, stage[r], sees[r])
        /\ HitsOk(stage[r], sees[r])
        /\ InOk(r, stage[r], sees[r], Here, published)

ServedInv == TeamInv /\ ShapeInv /\ ReadInv

\* Similarity has no direction: two links by similarity of one pair have one score.
SimilaritySymmetric ==
    \A k, l \in Links :
        ~ k.explicit /\ ~ l.explicit /\ {k.from, k.to} = {l.from, l.to} => k.score = l.score

GraphInv == \A r \in Reads : GraphOk(Kind(r), stage[r], sees[r])

\* Grants decide, no request declares the team among its groups, and what was
\* granted before to the groups of others does not reach the team's space.
MembersOnly ==
    /\ AuthMode = "rbac"
    /\ \A r \in Reads : Team(TeamSlug) \notin Base(r).groups
    /\ \A g \in SeededGrants : g.kind = "group" /\ g.who # Team(TeamSlug) =>
          \A i \in DOMAIN Items : Items[i].space = TeamSpace => ~ Admitted(Items[i], {g})

OutInv == \A r \in Reads : OutOk(r, stage[r], sees[r], Here)

-----------------------------------------------------------------------------
(* Induction on numbers, by the least one of which something does not hold. *)

LEMMA LeastOf ==
    ASSUME NEW S \in SUBSET Nat, S # {}
    PROVE  \E n \in S : \A m \in 0..n - 1 : m \notin S
<1> DEFINE R == OpToRel(<, Nat)
<1>1. \A x, y \in Nat : x < y => <<x, y>> \in R
  BY DEF OpToRel
<1>2. IsWellFoundedOn(R, Nat)
  BY NatLessThanWellFounded
<1> HIDE DEF R
<1>3. PICK n \in S : \A m \in S : ~ (<<m, n>> \in R)
  BY <1>2, WFMin
<1>4. \A m \in S : ~ (m < n)
  BY <1>1, <1>3
<1> QED
  BY <1>4

LEMMA Induction ==
    ASSUME NEW S, 0 \in S, \A n \in Nat : n \in S => n + 1 \in S
    PROVE  Nat \subseteq S
<1> SUFFICES ASSUME Nat \ S # {} PROVE FALSE
  OBVIOUS
<1>1. PICK n \in Nat \ S : \A m \in 0..n - 1 : m \notin Nat \ S
  BY LeastOf
<1>2. n # 0
  BY <1>1
<1>3. n - 1 \in Nat /\ n - 1 \in 0..n - 1
  BY <1>1, <1>2
<1> QED
  BY <1>1, <1>3

-----------------------------------------------------------------------------
(* The edges of the links that were read, one after the other.               *)

\* The first n links of q, one after the other: the function that Edges defines.
IsCollapse(c, n, q) ==
    c = [k \in 0..n |-> IF k = 0 THEN {} ELSE Collapsed(c[k - 1], q[k])]

LEMMA CollapseExists ==
    ASSUME NEW q
    PROVE  \A n \in Nat : \E c : IsCollapse(c, n, q)
<1> DEFINE S == {n \in Nat : \E c : IsCollapse(c, n, q)}
<1>1. 0 \in S
  <2>1. IsCollapse([k \in 0..0 |-> {}], 0, q)
    BY DEF IsCollapse
  <2> QED
    BY <2>1
<1>2. ASSUME NEW n \in Nat, n \in S PROVE n + 1 \in S
  <2>1. PICK c : IsCollapse(c, n, q)
    BY <1>2
  <2> DEFINE d == [k \in 0..n + 1 |-> IF k = n + 1 THEN Collapsed(c[n], q[n + 1]) ELSE c[k]]
  <2>2. \A k \in 0..n : c[k] = IF k = 0 THEN {} ELSE Collapsed(c[k - 1], q[k])
    BY <2>1 DEF IsCollapse
  <2>3. \A k \in 0..n : d[k] = c[k]
    OBVIOUS
  <2>4. d[n + 1] = Collapsed(d[n], q[n + 1])
    BY <2>3
  <2>5. d = [k \in 0..n + 1 |-> d[k]]
    OBVIOUS
  <2> HIDE DEF d
  <2>6. \A k \in 0..n + 1 : d[k] = IF k = 0 THEN {} ELSE Collapsed(d[k - 1], q[k])
    <3> SUFFICES ASSUME NEW k \in 0..n + 1
                 PROVE  d[k] = IF k = 0 THEN {} ELSE Collapsed(d[k - 1], q[k])
      OBVIOUS
    <3>1. CASE k = n + 1
      BY <2>4, <3>1
    <3>2. CASE k = 0
      BY <2>2, <2>3, <3>2
    <3>3. CASE k \in 1..n
      <4>1. k \in 0..n /\ k - 1 \in 0..n /\ k # 0
        BY <3>3
      <4>2. d[k] = c[k] /\ d[k - 1] = c[k - 1]
        BY <2>3, <4>1
      <4> QED
        BY <2>2, <4>1, <4>2
    <3> QED
      BY <3>1, <3>2, <3>3
  <2>7. IsCollapse(d, n + 1, q)
    BY <2>5, <2>6 DEF IsCollapse
  <2> QED
    BY <2>7
<1> HIDE DEF S
<1>3. Nat \subseteq S
  BY <1>1, <1>2, Induction
<1> QED
  BY <1>3 DEF S

LEMMA EdgesAre ==
    ASSUME NEW q, Len(q) \in Nat
    PROVE  \E c : IsCollapse(c, Len(q), q) /\ Edges(q) = c[Len(q)]
<1> DEFINE d == CHOOSE c : c = [k \in 0..Len(q) |-> IF k = 0 THEN {} ELSE Collapsed(c[k - 1], q[k])]
<1>1. PICK c : IsCollapse(c, Len(q), q)
  BY CollapseExists
<1>2. d = [k \in 0..Len(q) |-> IF k = 0 THEN {} ELSE Collapsed(d[k - 1], q[k])]
  BY <1>1 DEF IsCollapse
<1>3. Edges(q) = d[Len(q)]
  BY DEF Edges
<1> HIDE DEF d
<1> QED
  BY <1>2, <1>3 DEF IsCollapse
-----------------------------------------------------------------------------
(* What a request has read, and a step of one request.                       *)

\* A step keeps what the theorems are about.
Keeps ==
    /\ ServedInv'
    /\ SimilaritySymmetric /\ GraphInv => GraphInv'
    /\ MembersOnly /\ OutInv => OutInv'

LEMMA Now ==
    ASSUME ServedInv, NEW r \in Reads, NEW st, st = stage[r], NEW s, s = sees[r]
    PROVE  /\ st \in Stages /\ s \in Seen
           /\ AllowedOk(Kind(r), Ask[r].item, st, s) /\ HitsOk(st, s)
           /\ InOk(r, st, s, Here, published)
           /\ GraphInv => GraphOk(Kind(r), st, s)
           /\ OutInv => OutOk(r, st, s, Here)
           /\ published \subseteq DOMAIN Items /\ links \subseteq Links
BY DEF ServedInv, ShapeInv, ReadInv, GraphInv, OutInv

\* Fewer published items keep what was said of all of them.
LEMMA FewerPublished ==
    ASSUME NEW r, NEW st, NEW s, NEW here, NEW there, NEW fewer \in SUBSET there,
           InOk(r, st, s, here, there)
    PROVE  InOk(r, st, s, here, fewer)
BY DEF InOk

\* A request that moves leaves the others as they are.
LEMMA ReadMoves ==
    ASSUME ServedInv, NEW r \in Reads, NEW to \in Stages, NEW rec \in Seen,
           Goto(r, to), Note(r, rec), UNCHANGED teamVars,
           published' \subseteq published, links' \subseteq Links,
           AllowedOk(Kind(r), Ask[r].item, to, rec), HitsOk(to, rec),
           InOk(r, to, rec, Here, published')
    PROVE  /\ ServedInv'
           /\ GraphInv /\ GraphOk(Kind(r), to, rec) => GraphInv'
           /\ OutInv /\ OutOk(r, to, rec, Here) => OutInv'
<1>1. PICK here : here = Here
  OBVIOUS
<1>2. Here' = here
  BY <1>1 DEF Here, teamVars
<1>3. TeamInv'
  BY TeamNextInv DEF ServedInv
<1>4. /\ stage'[r] = to /\ sees'[r] = rec
      /\ \A q \in Reads : q # r => stage'[q] = stage[q] /\ sees'[q] = sees[q]
  BY DEF ServedInv, ShapeInv, Goto, Note
<1>5. ShapeInv'
  BY DEF ServedInv, ShapeInv, Goto, Note
<1>6. ReadInv'
  <2> SUFFICES ASSUME NEW q \in Reads
               PROVE  /\ AllowedOk(Kind(q), Ask[q].item, stage'[q], sees'[q])
                      /\ HitsOk(stage'[q], sees'[q])
                      /\ InOk(q, stage'[q], sees'[q], here, published')
    BY <1>2 DEF ReadInv
  <2>1. CASE q = r
    BY <1>1, <1>4, <2>1
  <2>2. CASE q # r
    <3>1. InOk(q, stage[q], sees[q], here, published')
      BY <1>1, FewerPublished DEF ServedInv, ReadInv
    <3> QED
      BY <1>4, <2>2, <3>1 DEF ServedInv, ReadInv
  <2> QED
    BY <2>1, <2>2
<1>7. GraphInv /\ GraphOk(Kind(r), to, rec) => GraphInv'
  <2> SUFFICES ASSUME GraphInv, GraphOk(Kind(r), to, rec), NEW q \in Reads
               PROVE  GraphOk(Kind(q), stage'[q], sees'[q])
    BY DEF GraphInv
  <2> QED
    BY <1>4 DEF GraphInv
<1>8. OutInv /\ OutOk(r, to, rec, Here) => OutInv'
  <2> SUFFICES ASSUME OutInv, OutOk(r, to, rec, here), NEW q \in Reads
               PROVE  OutOk(q, stage'[q], sees'[q], here)
    BY <1>1, <1>2 DEF OutInv
  <2> QED
    BY <1>1, <1>4 DEF OutInv
<1> QED
  BY <1>3, <1>5, <1>6, <1>7, <1>8 DEF ServedInv

\* A request that waits for its next statement, and has read nothing.
LEMMA Waits ==
    ASSUME ServedInv, NEW r \in Reads, NEW to \in Stages, Goto(r, to), UNCHANGED sees,
           UntouchedTables,
           \/ to = "refused" /\ stage[r] \in {"new", "fetch", "rows", "write"}
           \/ to = "grants" /\ stage[r] = "fetch"
           \/ to = "expand" /\ stage[r] = "match"
    PROVE  Keeps
<1>1. PICK st : st = stage[r]
  OBVIOUS
<1>2. PICK s : s = sees[r]
  OBVIOUS
<1>3. /\ st \in Stages /\ s \in Seen
      /\ AllowedOk(Kind(r), Ask[r].item, st, s) /\ HitsOk(st, s)
      /\ InOk(r, st, s, Here, published)
      /\ GraphInv => GraphOk(Kind(r), st, s)
      /\ OutInv => OutOk(r, st, s, Here)
  BY <1>1, <1>2, Now
<1>4. Note(r, s) /\ UNCHANGED teamVars /\ published' = published /\ links' \subseteq Links
  BY <1>2, Now DEF Note, UntouchedTables, ServedInv, ShapeInv
<1>5. AllowedOk(Kind(r), Ask[r].item, to, s)
  BY <1>1, <1>3 DEF AllowedOk
<1>6. HitsOk(to, s)
  BY <1>1, <1>3 DEF HitsOk
<1>7. InOk(r, to, s, Here, published)
  BY <1>1, <1>3 DEF InOk, Open
<1>8. GraphOk(Kind(r), to, s)
  BY DEF GraphOk
<1>9. OutOk(r, st, s, Here) => OutOk(r, to, s, Here)
  BY <1>1 DEF OutOk, Open
<1> QED
  BY <1>3, <1>4, <1>5, <1>6, <1>7, <1>8, <1>9, ReadMoves DEF Keeps
-----------------------------------------------------------------------------
(* Who asks.                                                                 *)

\* Every reader is a user; its groups are those it declares and its teams.
LEMMA CallerIs ==
    ASSUME NEW r \in Reads
    PROVE  /\ PrincipalOf(r).kind = "user" /\ PrincipalOf(r).id = Caller(r)
           /\ PrincipalOf(r).groups = Base(r).groups \union sees[r].groups
<1>1. PICK g : g = sees[r].groups
  OBVIOUS
<1>2. PICK b : b = Base(r)
  OBVIOUS
<1>3. \E id, roles, groups : b = [kind |-> "user", id |-> id, roles |-> roles, groups |-> groups]
  BY <1>2 DEF Base, EffectivePrincipal, GetPrincipal, HeaderPrincipal, Principal, Anonymous
<1>4. PrincipalOf(r) = [b EXCEPT !.groups = @ \union g] /\ Caller(r) = b.id
  BY <1>1, <1>2 DEF PrincipalOf, Caller
<1> QED
  BY <1>1, <1>2, <1>3, <1>4

LEMMA RefuseKeeps ==
    ASSUME ServedInv, NEW r \in Reads, Refuse(r)
    PROVE  Keeps
BY Waits DEF Refuse, Begins, Stages

LEMMA FetchKeeps ==
    ASSUME ServedInv, NEW r \in Reads, FetchItem(r)
    PROVE  Keeps
BY Waits DEF FetchItem, Stages

LEMMA BlankSeen ==
    /\ Blank \in Seen
    /\ Blank.allowed = {} /\ Blank.items = {} /\ Blank.followed = 0 /\ Blank.hits = <<>>
    /\ Blank.grants = {}
<1>1. <<>> \in Seq(Scored)
  OBVIOUS
<1> QED
  BY <1>1 DEF Blank, Seen

LEMMA IdentifyKeeps ==
    ASSUME ServedInv, NEW r \in Reads, Identify(r)
    PROVE  Keeps
<1>1. PICK to : to = IF Kind(r) \in {"item", "archive"} THEN "fetch" ELSE "grants"
  OBVIOUS
<1>2. PICK groups : groups = IF IsMember(Caller(r)) THEN {Team(TeamSlug)} ELSE {}
  OBVIOUS
<1>3. PICK was : was = IF IsMember(Caller(r)) THEN "in" ELSE "out"
  OBVIOUS
<1>4. PICK rec : rec = [Blank EXCEPT !.groups = groups, !.was = was]
  OBVIOUS
<1>5. /\ Goto(r, to) /\ Note(r, rec)
      /\ UNCHANGED teamVars /\ published' = published /\ links' \subseteq Links
  BY <1>1, <1>2, <1>3, <1>4 DEF Identify, UntouchedTables, ServedInv, ShapeInv
<1>6. to \in {"fetch", "grants"} /\ (to = "fetch" => Kind(r) \in {"item", "archive"})
  BY <1>1
<1>7. /\ rec \in Seen /\ rec.groups = groups /\ rec.was = was
      /\ rec.allowed = {} /\ rec.items = {} /\ rec.followed = 0 /\ rec.hits = <<>> /\ rec.grants = {}
  BY <1>2, <1>3, <1>4, BlankSeen DEF Seen
<1>8. Len(rec.hits) = 0 /\ DOMAIN rec.hits = {}
  BY <1>7
<1>9. AllowedOk(Kind(r), Ask[r].item, to, rec)
  BY <1>6, <1>7, <1>8 DEF AllowedOk
<1>10. HitsOk(to, rec)
  BY <1>6, <1>7, <1>8 DEF HitsOk, HitsApart
<1>11. Caller(r) \in Here <=> IsMember(Caller(r))
  BY DEF Here, IsMember
<1>12. InOk(r, to, rec, Here, published)
  BY <1>2, <1>3, <1>6, <1>7, <1>11 DEF InOk, Open
<1>13. GraphOk(Kind(r), to, rec)
  BY <1>6 DEF GraphOk
<1>14. OutOk(r, to, rec, Here)
  BY <1>2, <1>3, <1>7, <1>11 DEF OutOk, Open, Admitted
<1>15. to \in Stages
  BY <1>6 DEF Stages
<1> QED
  BY <1>5, <1>7, <1>9, <1>10, <1>12, <1>13, <1>14, <1>15, ReadMoves DEF Keeps

-----------------------------------------------------------------------------
(* The grants and the items allowed.                                         *)

LEMMA GrantsPossible ==
    ASSUME ServedInv
    PROVE  Grants \subseteq PossibleGrants
BY DEF ServedInv, TeamInv, TeamTypeOK, Grants, PossibleGrants

\* A member has the grant of the team.
LEMMA MembersGranted ==
    ASSUME ServedInv, NEW r \in Reads, Caller(r) \in Here, sees[r].groups = {Team(TeamSlug)}
    PROVE  TeamGrant \in MatchingGrants(PrincipalOf(r), Grants)
<1>1. created
  BY DEF ServedInv, TeamInv, RowsInv, Here
<1>2. TeamGrant \in Grants
  BY <1>1 DEF Grants, TeamGrant
<1>3. TeamGrant.kind = "group" /\ TeamGrant.who = Team(TeamSlug)
  BY DEF TeamGrant, Grant
<1> QED
  BY <1>2, <1>3, CallerIs DEF MatchingGrants

\* Who is no member has no grant at the team's space.
LEMMA OthersNotGranted ==
    ASSUME ServedInv, MembersOnly, NEW r \in Reads, Caller(r) \notin Here,
           sees[r].groups = {}, ~ OutsideRights(Caller(r)),
           NEW i \in DOMAIN Items, Items[i].space = TeamSpace
    PROVE  ~ Admitted(Items[i], MatchingGrants(PrincipalOf(r), Grants))
<1> SUFFICES ASSUME NEW g \in MatchingGrants(PrincipalOf(r), Grants), Admitted(Items[i], {g})
             PROVE  FALSE
  BY DEF Admitted
<1>1. g \in Grants
  BY DEF MatchingGrants
<1>2. \/ g.kind = "user" /\ g.who = Caller(r)
      \/ g.kind = "group" /\ g.who \in Base(r).groups \union {Public}
  BY CallerIs DEF MatchingGrants
<1>3. Team(TeamSlug) \notin Base(r).groups \union {Public}
  BY DEF MembersOnly, Team, Public
<1>4. CASE g \in SeededGrants
  BY <1>2, <1>3, <1>4 DEF MembersOnly, OutsideRights
<1>5. CASE g = TeamGrant
  <2>1. g.kind = "group" /\ g.who = Team(TeamSlug)
    BY <1>5 DEF TeamGrant, Grant
  <2> QED
    BY <1>2, <1>3, <2>1
<1>6. CASE \E a \in admins : g = Grant("user", a.user, "admin", Scope("space", TeamSpace))
  <2>1. PICK a \in admins : g = Grant("user", a.user, "admin", Scope("space", TeamSpace))
    BY <1>6
  <2>2. g.kind = "user" /\ g.who = a.user
    BY <2>1 DEF Grant
  <2>3. a.user \in Here
    BY DEF ServedInv, TeamInv, AdminsInv, Here
  <2> QED
    BY <1>2, <2>2, <2>3
<1> QED
  BY <1>1, <1>4, <1>5, <1>6 DEF Grants, TeamGrant

LEMMA ReadGrantsKeeps ==
    ASSUME ServedInv, NEW r \in Reads, ReadGrants(r)
    PROVE  Keeps
<1>1. PICK st : st = stage[r]
  OBVIOUS
<1>2. PICK s : s = sees[r]
  OBVIOUS
<1>3. PICK grants : grants = MatchingGrants(PrincipalOf(r), Grants)
  OBVIOUS
<1>4. /\ s \in Seen /\ AllowedOk(Kind(r), Ask[r].item, st, s) /\ HitsOk(st, s)
      /\ InOk(r, st, s, Here, published)
      /\ OutInv => OutOk(r, st, s, Here)
  BY <1>1, <1>2, Now
<1>5. PICK rec : rec = [s EXCEPT !.grants = grants]
  OBVIOUS
<1>6. /\ st = "grants" /\ Goto(r, "rows") /\ Note(r, rec)
      /\ UNCHANGED teamVars /\ published' = published /\ links' \subseteq Links
  BY <1>1, <1>2, <1>3, <1>5 DEF ReadGrants, UntouchedTables, ServedInv, ShapeInv
<1>7. grants \subseteq PossibleGrants
  BY <1>3, GrantsPossible DEF MatchingGrants
<1>8. /\ rec \in Seen /\ rec.grants = grants /\ rec.groups = s.groups /\ rec.was = s.was
      /\ rec.allowed = s.allowed /\ rec.items = s.items /\ rec.followed = s.followed
      /\ rec.hits = s.hits
  BY <1>4, <1>5, <1>7 DEF Seen
<1>9. AllowedOk(Kind(r), Ask[r].item, "rows", rec)
  BY <1>4, <1>8 DEF AllowedOk
<1>10. HitsOk("rows", rec)
  BY <1>4, <1>6, <1>8 DEF HitsOk
<1>11. InOk(r, "rows", rec, Here, published)
  <2>1. s.was = "in" => Caller(r) \in Here /\ s.groups = {Team(TeamSlug)}
    BY <1>4, <1>6 DEF InOk, Open
  <2>2. s.was = "in" => TeamGrant \in grants
    BY <1>2, <1>3, <2>1, MembersGranted
  <2> QED
    BY <1>8, <2>1, <2>2 DEF InOk
<1>12. GraphOk(Kind(r), "rows", rec)
  BY DEF GraphOk
<1>13. MembersOnly /\ OutInv => OutOk(r, "rows", rec, Here)
  <2> SUFFICES ASSUME MembersOnly, OutInv, s.was = "out", ~ OutsideRights(Caller(r))
               PROVE  OutOk(r, "rows", rec, Here)
    BY <1>8 DEF OutOk
  <2>1. Caller(r) \notin Here /\ s.groups = {} /\ s.allowed \intersect TeamPages = {}
    BY <1>4, <1>6 DEF OutOk, Open
  <2>2. \A i \in DOMAIN Items : Items[i].space = TeamSpace => ~ Admitted(Items[i], grants)
    BY <1>2, <1>3, <2>1, OthersNotGranted
  <2> QED
    BY <1>8, <2>1, <2>2 DEF OutOk
<1>14. "rows" \in Stages
  BY DEF Stages
<1> QED
  BY <1>6, <1>8, <1>9, <1>10, <1>11, <1>12, <1>13, <1>14, ReadMoves DEF Keeps

\* What is visible is there, and of a derived page so are the sources.
LEMMA VisibleAre ==
    ASSUME NEW rows, NEW p, NEW i \in VisibleOf(rows, p)
    PROVE  /\ i \in DOMAIN rows
           /\ rows[i].type # "source" => rows[i].sources \subseteq DOMAIN rows
BY DEF VisibleOf

LEMMA AllowedArePublished ==
    ASSUME NEW p, NEW grants
    PROVE  AllowedItems(p, grants, [i \in published |-> Items[i]]) \subseteq published
<1> DEFINE rows == [i \in published |-> Items[i]]
<1>1. DOMAIN rows = published
  OBVIOUS
<1> HIDE DEF rows
<1>2. VisibleOf(rows, p) \subseteq published
  BY <1>1, VisibleAre
<1>3. RbacItems(p, grants, rows) \subseteq published
  <2> DEFINE covered == {i \in DOMAIN rows : Admitted(rows[i], grants) /\ PersonalOk(rows[i], p)}
  <2>1. PICK some : some = [i \in covered |-> rows[i]]
    OBVIOUS
  <2>2. DOMAIN some \subseteq published
    BY <1>1, <2>1
  <2>3. RbacItems(p, grants, rows) = VisibleOf(some, p)
    BY <2>1 DEF RbacItems
  <2> QED
    BY <2>2, <2>3, VisibleAre
<1>4. AllowedItems(p, grants, rows) \subseteq published
  BY <1>1, <1>2, <1>3, AuthAssumption DEF AllowedItems
<1> QED
  BY <1>4 DEF rows

\* Every mode of authorization allows a member the team's own sources.
LEMMA MembersAllowed ==
    ASSUME NEW p, NEW grants, TeamGrant \in grants,
           NEW i \in published, published \subseteq DOMAIN Items, ForMembers(i)
    PROVE  i \in AllowedItems(p, grants, [j \in published |-> Items[j]])
<1> DEFINE rows == [j \in published |-> Items[j]]
<1>1. DOMAIN rows = published /\ rows[i] = Items[i]
  OBVIOUS
<1> HIDE DEF rows
<1>2. Items[i].space = TeamSpace /\ Items[i].acl = {} /\ Items[i].type = "source"
  BY DEF ForMembers
<1>3. i \in VisibleOf(rows, p)
  BY <1>1, <1>2 DEF VisibleOf, SourceVisible
<1>4. i \in RbacItems(p, grants, rows)
  <2> DEFINE covered == {j \in DOMAIN rows : Admitted(rows[j], grants) /\ PersonalOk(rows[j], p)}
  <2>1. Admitted(Items[i], grants)
    <3>1. TeamGrant.role = "editor" /\ TeamGrant.scope = Scope("space", Items[i].space)
      BY <1>2 DEF TeamGrant, Grant
    <3>2. RoleAtLeast("editor", "viewer")
      BY DEF RoleAtLeast, RoleRank
    <3> QED
      BY <3>1, <3>2 DEF Admitted
  <2>2. PersonalOk(Items[i], p)
    BY <1>2, TeamAssumption DEF PersonalOk
  <2>3. i \in covered
    BY <1>1, <2>1, <2>2
  <2>4. PICK some : some = [j \in covered |-> rows[j]]
    OBVIOUS
  <2>5. i \in DOMAIN some /\ some[i] = Items[i]
    BY <1>1, <2>3, <2>4
  <2>6. i \in VisibleOf(some, p)
    BY <1>2, <2>5 DEF VisibleOf, SourceVisible
  <2> QED
    BY <2>4, <2>6 DEF RbacItems
<1>5. i \in AllowedItems(p, grants, rows)
  BY <1>1, <1>3, <1>4, AuthAssumption DEF AllowedItems
<1> QED
  BY <1>5 DEF rows

\* Without a grant at the team's space nothing of the team is allowed, nor what was
\* derived from it.
LEMMA OthersNotAllowed ==
    ASSUME AuthMode = "rbac", NEW p, NEW grants, published \subseteq DOMAIN Items,
           \A i \in DOMAIN Items : Items[i].space = TeamSpace => ~ Admitted(Items[i], grants)
    PROVE  AllowedItems(p, grants, [i \in published |-> Items[i]]) \intersect TeamPages = {}
<1> DEFINE rows == [i \in published |-> Items[i]]
<1>1. DOMAIN rows = published /\ \A i \in published : rows[i] = Items[i]
  OBVIOUS
<1> HIDE DEF rows
<1> DEFINE covered == {i \in DOMAIN rows : Admitted(rows[i], grants) /\ PersonalOk(rows[i], p)}
<1>2. \A i \in covered : i \in published /\ Items[i].space # TeamSpace
  BY <1>1
<1>3. PICK some : some = [i \in covered |-> rows[i]]
  OBVIOUS
<1>4. DOMAIN some = covered /\ \A i \in covered : some[i] = Items[i]
  BY <1>1, <1>3
<1>5. AllowedItems(p, grants, rows) = VisibleOf(some, p)
  BY <1>3 DEF AllowedItems, RbacItems
<1> HIDE DEF covered
<1>6. ASSUME NEW i \in VisibleOf(some, p), i \in TeamPages PROVE FALSE
  <2>1. PICK j \in Items[i].sources \union {i} : Items[j].space = TeamSpace
    BY <1>6 DEF TeamPages
  <2>2. i \in covered /\ some[i] = Items[i]
    BY <1>4, <1>6, VisibleAre
  <2>3. j # i
    BY <1>2, <2>1, <2>2
  <2>4. j \in Items[i].sources /\ Items[i].type # "source"
    BY <1>2, <2>1, <2>2, <2>3, ItemAssumption
  <2>5. j \in covered
    BY <1>4, <1>6, <2>2, <2>4, VisibleAre
  <2> QED
    BY <1>2, <2>1, <2>5
<1>7. AllowedItems(p, grants, rows) \intersect TeamPages = {}
  BY <1>5, <1>6
<1> QED
  BY <1>7 DEF rows

LEMMA ReadRowsKeeps ==
    ASSUME ServedInv, NEW r \in Reads, ReadRows(r)
    PROVE  Keeps
<1>1. PICK st : st = stage[r]
  OBVIOUS
<1>2. PICK s : s = sees[r]
  OBVIOUS
<1>3. PICK allowed :
        allowed = AllowedItems(PrincipalOf(r), s.grants, [i \in published |-> Items[i]])
  OBVIOUS
<1>4. /\ s \in Seen /\ AllowedOk(Kind(r), Ask[r].item, st, s) /\ HitsOk(st, s)
      /\ InOk(r, st, s, Here, published)
      /\ OutInv => OutOk(r, st, s, Here)
      /\ published \subseteq DOMAIN Items
  BY <1>1, <1>2, Now
<1>5. PICK rec : rec = [s EXCEPT !.allowed = allowed]
  OBVIOUS
<1>6. PICK to : to = After(r, allowed)
  OBVIOUS
<1>7. /\ st = "rows" /\ Goto(r, to) /\ Note(r, rec)
      /\ UNCHANGED teamVars /\ published' = published /\ links' \subseteq Links
  BY <1>1, <1>2, <1>3, <1>5, <1>6 DEF ReadRows, UntouchedTables, ServedInv, ShapeInv
<1>8. allowed \subseteq published
  BY <1>3, AllowedArePublished
<1>9. /\ rec \in Seen /\ rec.grants = s.grants /\ rec.groups = s.groups /\ rec.was = s.was
      /\ rec.allowed = allowed /\ rec.items = s.items /\ rec.followed = s.followed
      /\ rec.hits = s.hits
  BY <1>4, <1>5, <1>8 DEF Seen
<1>10. \/ to = "embed" /\ Kind(r) = "search"
       \/ to = "nodes" /\ Kind(r) = "graph"
       \/ to = "list" /\ Kind(r) \in {"list", "facets"}
       \/ to = "list" /\ Kind(r) = "item" /\ Ask[r].item \in allowed
       \/ to = "write" /\ Kind(r) = "archive" /\ Ask[r].item \in allowed
       \/ to = "refused"
  <2>1. Kind(r) \in {"list", "item", "search", "graph", "facets", "archive"}
    BY ReadAssumption DEF Kind
  <2> QED
    BY <1>6, <2>1 DEF After
<1>11. AllowedOk(Kind(r), Ask[r].item, to, rec)
  BY <1>4, <1>9, <1>10 DEF AllowedOk
<1>12. HitsOk(to, rec)
  BY <1>4, <1>7, <1>9, <1>10 DEF HitsOk
<1>13. InOk(r, to, rec, Here, published)
  <2> SUFFICES ASSUME s.was = "in" PROVE InOk(r, to, rec, Here, published)
    BY <1>9 DEF InOk
  <2>1. Caller(r) \in Here /\ s.groups = {Team(TeamSlug)} /\ TeamGrant \in s.grants
    BY <1>4, <1>7 DEF InOk, Open
  <2>2. \A i \in published : ForMembers(i) => i \in allowed
    BY <1>3, <1>4, <2>1, MembersAllowed
  <2> QED
    BY <1>9, <1>10, <2>1, <2>2 DEF InOk
<1>14. GraphOk(Kind(r), to, rec)
  BY <1>10 DEF GraphOk
<1>15. MembersOnly /\ OutInv => OutOk(r, to, rec, Here)
  <2> SUFFICES ASSUME MembersOnly, OutInv, s.was = "out", ~ OutsideRights(Caller(r))
               PROVE  OutOk(r, to, rec, Here)
    BY <1>9 DEF OutOk
  <2>1. /\ Caller(r) \notin Here /\ s.groups = {}
        /\ \A i \in DOMAIN Items : Items[i].space = TeamSpace => ~ Admitted(Items[i], s.grants)
    BY <1>4, <1>7 DEF OutOk, Open
  <2>2. AuthMode = "rbac"
    BY DEF MembersOnly
  <2>3. allowed \intersect TeamPages = {}
    BY <1>3, <1>4, <2>1, <2>2, OthersNotAllowed
  <2> QED
    BY <1>9, <2>1, <2>3 DEF OutOk
<1>16. to \in Stages
  BY <1>10 DEF Stages
<1> QED
  BY <1>7, <1>9, <1>11, <1>12, <1>13, <1>14, <1>15, <1>16, ReadMoves DEF Keeps

-----------------------------------------------------------------------------
(* Answers.                                                                  *)

\* What an answer keeps.
LEMMA AnswerKeeps ==
    ASSUME ServedInv, NEW r \in Reads, NEW rec \in Seen, Answer(r, rec), UNCHANGED teamVars,
           published' \subseteq published, links' \subseteq Links,
           rec.was = sees[r].was, rec.allowed = sees[r].allowed,
           rec.followed \in 0..Len(rec.hits), rec.items \subseteq rec.allowed,
           HitsApart(rec.hits), HitsSorted(rec.hits),
           rec.was = "in" /\ Kind(r) \in {"list", "facets"} /\ Ask[r].space = Nobody =>
               \A i \in published' : ForMembers(i) => i \in rec.items,
           SimilaritySymmetric => GraphOk(Kind(r), "answered", rec)
    PROVE  Keeps
<1>1. PICK ans : ans = [rec EXCEPT !.groups = {}, !.grants = {}]
  OBVIOUS
<1>2. /\ ans \in Seen /\ ans.was = rec.was /\ ans.allowed = rec.allowed /\ ans.items = rec.items
      /\ ans.followed = rec.followed /\ ans.hits = rec.hits /\ ans.rows = rec.rows
      /\ ans.edges = rec.edges
  BY <1>1 DEF Seen
<1>3. Goto(r, "answered") /\ Note(r, ans)
  BY <1>1 DEF Answer
<1>4. AllowedOk(Kind(r), Ask[r].item, "answered", ans)
  BY <1>2 DEF AllowedOk
<1>5. HitsOk("answered", ans)
  BY <1>2 DEF HitsOk
<1>6. InOk(r, "answered", ans, Here, published')
  BY <1>2 DEF InOk, Open
<1>7. SimilaritySymmetric => GraphOk(Kind(r), "answered", ans)
  BY <1>2 DEF GraphOk
<1>8. OutInv => OutOk(r, "answered", ans, Here)
  <2> SUFFICES ASSUME OutInv PROVE OutOk(r, "answered", ans, Here)
    OBVIOUS
  <2>1. OutOk(r, stage[r], sees[r], Here)
    BY DEF OutInv
  <2> QED
    BY <1>2, <2>1 DEF OutOk, Open
<1>9. "answered" \in Stages
  BY DEF Stages
<1> QED
  BY <1>2, <1>3, <1>4, <1>5, <1>6, <1>7, <1>8, <1>9, ReadMoves DEF Keeps

LEMMA NoHits ==
    HitsApart(<<>>) /\ HitsSorted(<<>>) /\ Len(<<>>) = 0
BY DEF HitsApart, HitsSorted

LEMMA AnswerListKeeps ==
    ASSUME ServedInv, NEW r \in Reads, AnswerList(r)
    PROVE  Keeps
<1>1. PICK s : s = sees[r]
  OBVIOUS
<1>2. PICK items : items = IF Kind(r) = "item" THEN {Ask[r].item} ELSE Found(r)
  OBVIOUS
<1>3. /\ stage[r] = "list" /\ s \in Seen /\ AllowedOk(Kind(r), Ask[r].item, "list", s)
      /\ HitsOk("list", s) /\ InOk(r, "list", s, Here, published)
      /\ published \subseteq DOMAIN Items
  BY <1>1, Now DEF AnswerList
<1>4. PICK rec : rec = [s EXCEPT !.items = items]
  OBVIOUS
<1>5. /\ Answer(r, rec) /\ UNCHANGED teamVars /\ published' = published /\ links' \subseteq Links
  BY <1>1, <1>2, <1>4 DEF AnswerList, UntouchedTables, ServedInv, ShapeInv
<1>6. items \subseteq s.allowed /\ s.allowed \subseteq DOMAIN Items
  <2>1. s.allowed \subseteq DOMAIN Items
    BY <1>3 DEF Seen
  <2>2. Kind(r) = "item" => Ask[r].item \in s.allowed
    BY <1>3 DEF AllowedOk
  <2>3. Found(r) \subseteq s.allowed
    BY <1>1 DEF Found
  <2> QED
    BY <1>2, <2>1, <2>2, <2>3
<1>7. /\ rec \in Seen /\ rec.was = s.was /\ rec.allowed = s.allowed /\ rec.items = items
      /\ rec.followed = s.followed /\ rec.hits = s.hits
  BY <1>3, <1>4, <1>6 DEF Seen
<1>8. s.hits = <<>> /\ s.followed \in 0..Len(s.hits)
  BY <1>3 DEF HitsOk, AllowedOk
<1>9. rec.was = "in" /\ Kind(r) \in {"list", "facets"} /\ Ask[r].space = Nobody =>
          \A i \in published' : ForMembers(i) => i \in rec.items
  BY <1>1, <1>2, <1>3, <1>5, <1>7 DEF InOk, Found, InSpace
<1>10. GraphOk(Kind(r), "answered", rec)
  BY <1>3 DEF GraphOk, AllowedOk
<1> QED
  BY <1>1, <1>5, <1>6, <1>7, <1>8, <1>9, <1>10, NoHits, AnswerKeeps

LEMMA ArchiveKeeps ==
    ASSUME ServedInv, NEW r \in Reads, ArchiveItem(r)
    PROVE  Keeps
<1>1. PICK s : s = sees[r]
  OBVIOUS
<1>2. PICK i : i = Ask[r].item
  OBVIOUS
<1>3. /\ stage[r] = "write" /\ s \in Seen /\ AllowedOk(Kind(r), i, "write", s)
      /\ HitsOk("write", s) /\ links \subseteq Links
  BY <1>1, <1>2, Now DEF ArchiveItem
<1>4. CASE CanWrite(PrincipalOf(r), Narrowest(Items[i]), Grants)
  <2>1. PICK rec : rec = [s EXCEPT !.items = {i}]
    OBVIOUS
  <2>2. /\ Answer(r, rec) /\ UNCHANGED teamVars /\ published' \subseteq published
        /\ links' \subseteq Links
    BY <1>1, <1>2, <1>3, <1>4, <2>1 DEF ArchiveItem
  <2>3. i \in s.allowed /\ s.allowed \subseteq DOMAIN Items /\ Kind(r) = "archive"
    BY <1>3 DEF AllowedOk, Seen
  <2>4. /\ rec \in Seen /\ rec.was = s.was /\ rec.allowed = s.allowed /\ rec.items = {i}
        /\ rec.followed = s.followed /\ rec.hits = s.hits
    BY <1>3, <2>1, <2>3 DEF Seen
  <2>5. s.hits = <<>> /\ s.followed \in 0..Len(s.hits)
    BY <1>3 DEF HitsOk, AllowedOk
  <2>6. GraphOk(Kind(r), "answered", rec)
    BY <2>3 DEF GraphOk
  <2> QED
    BY <1>1, <2>2, <2>3, <2>4, <2>5, <2>6, NoHits, AnswerKeeps
<1>5. CASE ~ CanWrite(PrincipalOf(r), Narrowest(Items[i]), Grants)
  <2>1. Goto(r, "refused") /\ UNCHANGED sees /\ UntouchedTables
    BY <1>2, <1>5 DEF ArchiveItem, UntouchedTables
  <2>2. "refused" \in Stages
    BY DEF Stages
  <2> QED
    BY <1>3, <2>1, <2>2, Waits
<1> QED
  BY <1>4, <1>5

-----------------------------------------------------------------------------
(* Search.                                                                   *)

LEMMA FunctionIsSeq ==
    ASSUME NEW S, NEW n \in Nat, NEW q \in [1..n -> S]
    PROVE  q \in Seq(S) /\ Len(q) = n /\ DOMAIN q = 1..n
BY SeqDef

\* As many different elements of a finite set as it has are all of them.
LEMMA AllThere ==
    ASSUME NEW S, IsFiniteSet(S), NEW q \in [1..Cardinality(S) -> S],
           \A m, n \in 1..Cardinality(S) : m < n => q[m] # q[n]
    PROVE  /\ Cardinality(S) \in Nat
           /\ \A x \in S : \E n \in 1..Cardinality(S) : q[n] = x
<1>1. Cardinality(S) \in Nat
  BY FS_CardinalityType
<1> DEFINE D == 1..Cardinality(S)
<1>2. IsFiniteSet(D) /\ Cardinality(D) = Cardinality(S)
  BY <1>1, FS_Interval
<1>3. \A m, n \in D : q[m] = q[n] => m = n
  BY <1>1
<1>4. q \in Injection(D, S)
  BY <1>3 DEF Injection, IsInjective
<1>5. q \in Surjection(D, S)
  BY <1>2, <1>4, FS_Injection
<1>6. \A x \in S : \E n \in D : q[n] = x
  BY <1>5 DEF Surjection
<1> QED
  BY <1>1, <1>6

LEMMA ScoreIsInt ==
    ASSUME NEW i \in DOMAIN Items, NEW embedded \in BOOLEAN
    PROVE  DirectScore(i, embedded) \in Int
<1>1. Keyword[i] \in Nat /\ Vector[i] \in Int
  BY ItemAssumption
<1>2. VectorScore(i, embedded) \in Int
  BY <1>1 DEF VectorScore
<1> QED
  BY <1>1, <1>2 DEF DirectScore

LEMMA MatchKeeps ==
    ASSUME ServedInv, NEW r \in Reads, Match(r)
    PROVE  Keeps
<1>1. PICK s : s = sees[r]
  OBVIOUS
<1>2. /\ stage[r] = "embed" /\ s \in Seen /\ AllowedOk(Kind(r), Ask[r].item, "embed", s)
      /\ HitsOk("embed", s) /\ InOk(r, "embed", s, Here, published)
      /\ OutInv => OutOk(r, "embed", s, Here)
  BY <1>1, Now DEF Match
<1>3. PICK embedded \in BOOLEAN, some \in SUBSET Found(r) :
        \E q \in [1..Cardinality(some) -> some] :
           /\ \A m, n \in DOMAIN q : m < n => q[m] # q[n]
           /\ Note(r, [s EXCEPT !.hits =
                [n \in DOMAIN q |-> [item |-> q[n], score |-> DirectScore(q[n], embedded), via |-> Nobody]]])
  <2>1. PICK embedded \in BOOLEAN :
         \E q \in Sorted({i \in Found(r) : Relevant(i, embedded)},
                         LAMBDA i, j : i # j /\ DirectScore(i, embedded) >= DirectScore(j, embedded)) :
            Note(r, [s EXCEPT !.hits =
              [n \in DOMAIN q |-> [item |-> q[n], score |-> DirectScore(q[n], embedded), via |-> Nobody]]])
    BY <1>1 DEF Match
  <2>2. PICK hits : hits = {i \in Found(r) : Relevant(i, embedded)}
    OBVIOUS
  <2>3. PICK q \in [1..Cardinality(hits) -> hits] :
          /\ \A m, n \in DOMAIN q : m < n => q[m] # q[n]
          /\ Note(r, [s EXCEPT !.hits =
               [n \in DOMAIN q |-> [item |-> q[n], score |-> DirectScore(q[n], embedded), via |-> Nobody]]])
    BY <2>1, <2>2 DEF Sorted
  <2>4. hits \in SUBSET Found(r)
    BY <2>2
  <2> QED
    BY <2>3, <2>4
<1>4. PICK q \in [1..Cardinality(some) -> some] :
        /\ \A m, n \in DOMAIN q : m < n => q[m] # q[n]
        /\ Note(r, [s EXCEPT !.hits =
             [n \in DOMAIN q |-> [item |-> q[n], score |-> DirectScore(q[n], embedded), via |-> Nobody]]])
  BY <1>3
<1>5. some \subseteq s.allowed /\ some \subseteq DOMAIN Items /\ IsFiniteSet(some)
  <2>1. some \subseteq s.allowed /\ s.allowed \subseteq DOMAIN Items
    BY <1>1, <1>2 DEF Found, Seen
  <2> QED
    BY <2>1, ItemAssumption, FS_Subset
<1>6. PICK size \in Nat : size = Cardinality(some)
  BY <1>5, FS_CardinalityType
<1>7. PICK hits : hits =
        [n \in DOMAIN q |-> [item |-> q[n], score |-> DirectScore(q[n], embedded), via |-> Nobody]]
  OBVIOUS
<1>8. DOMAIN q = 1..size /\ \A n \in 1..size : q[n] \in some
  BY <1>6
<1>9. \A n \in 1..size : /\ hits[n] \in Scored /\ hits[n].item = q[n] /\ hits[n].via = Nobody
  BY <1>5, <1>7, <1>8, ScoreIsInt DEF Scored
<1>10. hits \in Seq(Scored) /\ Len(hits) = size /\ DOMAIN hits = 1..size
  BY <1>7, <1>8, <1>9, FunctionIsSeq
<1>11. PICK rec : rec = [s EXCEPT !.hits = hits]
  OBVIOUS
<1>12. /\ Goto(r, "match") /\ Note(r, rec)
       /\ UNCHANGED teamVars /\ published' = published /\ links' \subseteq Links
  BY <1>4, <1>7, <1>11 DEF Match, UntouchedTables, ServedInv, ShapeInv
<1>13. /\ rec \in Seen /\ rec.grants = s.grants /\ rec.groups = s.groups /\ rec.was = s.was
       /\ rec.allowed = s.allowed /\ rec.items = s.items /\ rec.followed = s.followed
       /\ rec.hits = hits
  BY <1>2, <1>10, <1>11 DEF Seen
<1>14. s.followed = 0
  BY <1>2 DEF AllowedOk, HitsOk
<1>15. AllowedOk(Kind(r), Ask[r].item, "match", rec)
  <2>1. \A n \in Direct(hits) : hits[n].item \in s.allowed
    BY <1>5, <1>8, <1>9, <1>10 DEF Direct
  <2>2. Kind(r) = "search" /\ 0 \in 0..Len(hits)
    BY <1>2, <1>10 DEF AllowedOk
  <2> QED
    BY <1>13, <1>14, <2>1, <2>2 DEF AllowedOk
<1>16. HitsOk("match", rec)
  <2>1. HitsApart(hits)
    BY <1>4, <1>8, <1>9, <1>10 DEF HitsApart
  <2>2. HitsLed(hits)
    BY <1>9, <1>10 DEF HitsLed
  <2> QED
    BY <1>13, <2>1, <2>2 DEF HitsOk
<1>17. InOk(r, "match", rec, Here, published)
  BY <1>2, <1>13 DEF InOk, Open
<1>18. GraphOk(Kind(r), "match", rec)
  BY DEF GraphOk
<1>19. OutInv => OutOk(r, "match", rec, Here)
  BY <1>2, <1>13 DEF OutOk, Open
<1>20. "match" \in Stages
  BY DEF Stages
<1> QED
  BY <1>12, <1>13, <1>15, <1>16, <1>17, <1>18, <1>19, <1>20, ReadMoves DEF Keeps

\* A link leads to a hit that is no better than the one it comes from, if that is
\* not negative, and to none that is positive, if it is.
LEMMA HitIs ==
    ASSUME NEW l \in Links, NEW parent \in Scored
    PROVE  /\ Hit(l, parent) \in Scored /\ Hit(l, parent).item = l.to
           /\ Hit(l, parent).via = parent.item /\ NoWorse(parent.score, Hit(l, parent).score)
<1>1. l.to \in DOMAIN Items /\ l.score \in 0..2
  BY ItemAssumption DEF Links
<1>2. Decay \in 0..2
  BY ReadAssumption
<1>3. parent.item \in DOMAIN Items /\ parent.score \in Int
  BY DEF Scored
<1>4. l.score * Decay \in 0..4
  BY <1>1, <1>2
<1>5. PICK f \in 0..4 : f = l.score * Decay
  BY <1>4
<1>6. PICK p \in Int : p = parent.score
  BY <1>3
<1>7. p * l.score * Decay = p * f
  <2>1. CASE l.score = 0
    BY <1>2, <1>5, <2>1
  <2>2. CASE l.score = 1
    BY <1>2, <1>5, <2>2
  <2>3. CASE l.score = 2
    <3>1. CASE Decay = 0
      BY <1>5, <2>3, <3>1
    <3>2. CASE Decay = 1
      BY <1>5, <2>3, <3>2
    <3>3. CASE Decay = 2
      BY <1>5, <2>3, <3>3
    <3> QED
      BY <1>2, <3>1, <3>2, <3>3
  <2> QED
    BY <1>1, <2>1, <2>2, <2>3
<1>8. (p * f) \div 4 \in Int /\ NoWorse(p, (p * f) \div 4)
  <2>1. CASE f = 0
    BY <2>1 DEF NoWorse
  <2>2. CASE f = 1
    BY <2>2 DEF NoWorse
  <2>3. CASE f = 2
    BY <2>3 DEF NoWorse
  <2>4. CASE f = 3
    BY <2>4 DEF NoWorse
  <2>5. CASE f = 4
    BY <2>5 DEF NoWorse
  <2> QED
    BY <1>5, <2>1, <2>2, <2>3, <2>4, <2>5
<1>9. Hit(l, parent) = [item |-> l.to, score |-> (p * f) \div 4, via |-> parent.item]
  BY <1>6, <1>7 DEF Hit
<1> QED
  BY <1>1, <1>3, <1>6, <1>8, <1>9 DEF Scored

\* The new hits are of items that are no hits yet, all led by the parent.
LEMMA NewHitsAre ==
    ASSUME NEW hits \in Seq(Scored), NEW parent \in Scored,
           NEW q \in BestLinks(parent.item), links \subseteq Links,
           NEW new \in NewHits(hits, q, parent)
    PROVE  /\ new \in Seq(Scored) /\ HitsApart(new)
           /\ \A n \in 1..Len(new) : /\ new[n].item \notin ItemsOf(hits)
                                     /\ new[n].via = parent.item /\ NoWorse(parent.score, new[n].score)
<1>1. PICK size \in Nat : q \in [1..size -> Links]
  <2>1. PICK n \in 0..PerHit : q \in [1..n -> {l \in links : l.from = parent.item}]
    BY DEF BestLinks
  <2>2. n \in Nat /\ q \in [1..n -> Links]
    BY <2>1, ReadAssumption
  <2> QED
    BY <2>2
<1> DEFINE fresh == {n \in DOMAIN q : /\ q[n].to \notin ItemsOf(hits)
                                      /\ \A m \in 1..n - 1 : q[m].to # q[n].to}
<1>2. PICK order \in [1..Cardinality(fresh) -> fresh] :
        /\ \A m, n \in DOMAIN order : m < n => order[m] < order[n]
        /\ new = [n \in DOMAIN order |-> Hit(q[order[n]], parent)]
  BY DEF NewHits, Sorted
<1>3. fresh \subseteq 1..size
  BY <1>1
<1>4. IsFiniteSet(fresh) /\ Cardinality(fresh) \in Nat
  <2>1. IsFiniteSet(1..size)
    BY FS_Interval
  <2> QED
    BY <1>3, <2>1, FS_Subset, FS_CardinalityType
<1>5. PICK k \in Nat : k = Cardinality(fresh)
  BY <1>4
<1>6. DOMAIN order = 1..k /\ \A n \in 1..k : order[n] \in fresh
  BY <1>5
<1>7. \A n \in fresh : /\ n \in 1..size /\ q[n].to \notin ItemsOf(hits)
                       /\ \A m \in 1..n - 1 : q[m].to # q[n].to
  BY <1>3
<1> HIDE DEF fresh
<1>8. \A n \in 1..k : q[order[n]] \in Links
  BY <1>1, <1>6, <1>7
<1>9. \A n \in 1..k : /\ new[n] \in Scored /\ new[n].item = q[order[n]].to
                      /\ new[n].via = parent.item /\ NoWorse(parent.score, new[n].score)
  BY <1>2, <1>6, <1>8, HitIs
<1>10. new \in Seq(Scored) /\ Len(new) = k /\ DOMAIN new = 1..k
  BY <1>2, <1>6, <1>9, FunctionIsSeq
<1>11. HitsApart(new)
  <2> SUFFICES ASSUME NEW n \in 1..k, NEW m \in 1..n - 1
               PROVE  new[m].item # new[n].item
    BY <1>10 DEF HitsApart
  <2>1. m \in 1..k /\ m < n
    OBVIOUS
  <2>2. order[m] < order[n] /\ order[m] \in 1..size /\ order[n] \in fresh /\ order[n] \in 1..size
    BY <1>2, <1>6, <1>7, <2>1
  <2>3. order[m] \in 1..order[n] - 1
    BY <2>2
  <2> QED
    BY <1>7, <1>9, <2>1, <2>2, <2>3
<1> QED
  BY <1>6, <1>7, <1>9, <1>10, <1>11

\* Hits with more behind them.
LEMMA HitsAppended ==
    ASSUME NEW hits \in Seq(Scored), NEW new \in Seq(Scored), HitsApart(hits), HitsLed(hits),
           NEW k \in Direct(hits), k \in 1..Len(hits), HitsApart(new),
           \A n \in 1..Len(new) : /\ new[n].item \notin ItemsOf(hits)
                                  /\ new[n].via = hits[k].item
                                  /\ NoWorse(hits[k].score, new[n].score)
    PROVE  /\ hits \o new \in Seq(Scored) /\ Len(hits \o new) = Len(hits) + Len(new)
           /\ HitsApart(hits \o new) /\ HitsLed(hits \o new)
           /\ \A n \in Direct(hits \o new) : n \in Direct(hits) /\ (hits \o new)[n] = hits[n]
<1>1. PICK all : all = hits \o new
  OBVIOUS
<1>2. PICK len \in Nat : len = Len(hits)
  BY LenProperties
<1>3. PICK more \in Nat : more = Len(new)
  BY LenProperties
<1>4. /\ all \in Seq(Scored) /\ Len(all) = len + more /\ DOMAIN all = 1..len + more
      /\ DOMAIN hits = 1..len /\ DOMAIN new = 1..more
      /\ \A n \in 1..len : all[n] = hits[n] /\ hits[n] \in Scored
      /\ \A n \in 1..more : all[len + n] = new[n] /\ new[n] \in Scored
  BY <1>1, <1>2, <1>3, ConcatProperties, LenProperties, ElementOfSeq
<1>5. \A n \in len + 1..len + more : n - len \in 1..more /\ all[n] = new[n - len]
  <2> SUFFICES ASSUME NEW n \in len + 1..len + more
               PROVE  n - len \in 1..more /\ all[n] = new[n - len]
    OBVIOUS
  <2>1. n - len \in 1..more /\ len + (n - len) = n
    OBVIOUS
  <2> QED
    BY <1>4, <2>1
<1>6. HitsApart(all)
  <2> SUFFICES ASSUME NEW n \in 1..len + more, NEW m \in 1..n - 1
               PROVE  all[m].item # all[n].item
    BY <1>4 DEF HitsApart
  <2>1. CASE n \in 1..len
    <3>1. m \in 1..len
      BY <2>1
    <3> QED
      BY <1>4, <2>1, <3>1 DEF HitsApart
  <2>2. CASE n \notin 1..len
    <3>1. n \in len + 1..len + more
      BY <2>2
    <3>2. CASE m \in 1..len
      <4>1. all[m].item \in ItemsOf(hits)
        BY <1>4, <3>2 DEF ItemsOf
      <4>2. all[n].item \notin ItemsOf(hits)
        BY <1>3, <1>5, <3>1
      <4> QED
        BY <4>1, <4>2
    <3>3. CASE m \notin 1..len
      <4>1. m \in len + 1..len + more /\ m - len \in 1..(n - len) - 1
        BY <3>1, <3>3
      <4>2. n - len \in DOMAIN new /\ all[n] = new[n - len] /\ all[m] = new[m - len]
        BY <1>4, <1>5, <3>1, <4>1
      <4>3. new[m - len].item # new[n - len].item
        BY <4>1, <4>2 DEF HitsApart
      <4> QED
        BY <4>2, <4>3
    <3> QED
      BY <3>2, <3>3
  <2> QED
    BY <2>1, <2>2
<1>7. \A n \in Direct(all) : n \in Direct(hits) /\ all[n] = hits[n]
  <2> SUFFICES ASSUME NEW n \in Direct(all) PROVE n \in Direct(hits) /\ all[n] = hits[n]
    OBVIOUS
  <2>1. n \in 1..len + more /\ all[n].via = Nobody
    BY <1>4 DEF Direct
  <2>2. CASE n \in 1..len
    BY <1>4, <2>1, <2>2 DEF Direct
  <2>3. CASE n \notin 1..len
    <3>1. n \in len + 1..len + more
      BY <2>1, <2>3
    <3>2. all[n].via = hits[k].item
      BY <1>3, <1>5, <3>1
    <3>3. hits[k].item \in DOMAIN Items
      BY <1>2, <1>4 DEF Scored
    <3> QED
      BY <2>1, <3>2, <3>3, ItemAssumption
  <2> QED
    BY <2>2, <2>3
<1>8. \A n \in Direct(hits) : n \in Direct(all) /\ all[n] = hits[n]
  <2> SUFFICES ASSUME NEW n \in Direct(hits) PROVE n \in Direct(all) /\ all[n] = hits[n]
    OBVIOUS
  <2>1. n \in 1..len /\ hits[n].via = Nobody
    BY <1>4 DEF Direct
  <2>2. n \in 1..len + more
    BY <2>1
  <2> QED
    BY <1>4, <2>1, <2>2 DEF Direct
<1>9. HitsLed(all)
  <2> SUFFICES ASSUME NEW n \in 1..len + more, all[n].via # Nobody
               PROVE  \E m \in 1..n - 1 : m \in Direct(all) /\ LedBy(all, m, n)
    BY <1>4 DEF HitsLed
  <2>1. CASE n \in 1..len
    <3>1. PICK m \in 1..n - 1 : m \in Direct(hits) /\ LedBy(hits, m, n)
      BY <1>4, <2>1 DEF HitsLed
    <3>2. m \in Direct(all) /\ all[m] = hits[m]
      BY <1>8, <3>1
    <3>3. all[n] = hits[n]
      BY <1>4, <2>1
    <3> QED
      BY <3>1, <3>2, <3>3 DEF LedBy
  <2>2. CASE n \notin 1..len
    <3>1. n \in len + 1..len + more
      BY <2>2
    <3>2. k \in Direct(all) /\ all[k] = hits[k] /\ k \in 1..n - 1
      <4>1. k \in Direct(all) /\ all[k] = hits[k]
        BY <1>8
      <4>2. k \in 1..n - 1
        BY <1>2, <3>1
      <4> QED
        BY <4>1, <4>2
    <3>3. all[n].via = hits[k].item /\ NoWorse(hits[k].score, all[n].score)
      <4>1. PICK d \in 1..more : d = n - len
        BY <1>5, <3>1
      <4>2. all[n] = new[d]
        BY <1>5, <3>1, <4>1
      <4> QED
        BY <1>3, <1>4, <4>2
    <3> QED
      BY <3>2, <3>3 DEF LedBy
  <2> QED
    BY <2>1, <2>2
<1> QED
  BY <1>1, <1>2, <1>3, <1>4, <1>6, <1>7, <1>9

LEMMA FollowKeeps ==
    ASSUME ServedInv, NEW r \in Reads, FollowLinks(r)
    PROVE  Keeps
<1>1. PICK s : s = sees[r]
  OBVIOUS
<1>2. /\ stage[r] = "match" /\ s \in Seen /\ AllowedOk(Kind(r), Ask[r].item, "match", s)
      /\ HitsOk("match", s) /\ InOk(r, "match", s, Here, published)
      /\ OutInv => OutOk(r, "match", s, Here)
      /\ links \subseteq Links
  BY <1>1, Now DEF FollowLinks
<1>3. PICK hits \in Seq(Scored) : hits = s.hits
  BY <1>2 DEF Seen
<1>4. PICK k \in Nat : k = s.followed + 1
  BY <1>2 DEF Seen
<1>5. CASE ~ (k <= TopHits /\ k \in Direct(hits))
  <2>1. Goto(r, "expand") /\ UNCHANGED sees /\ UntouchedTables
    BY <1>1, <1>3, <1>4, <1>5 DEF FollowLinks
  <2>2. "expand" \in Stages
    BY DEF Stages
  <2> QED
    BY <1>2, <2>1, <2>2, Waits
<1>6. CASE k <= TopHits /\ k \in Direct(hits)
  <2>1. PICK q \in BestLinks(hits[k].item) : \E new \in NewHits(hits, q, hits[k]) :
          Note(r, [s EXCEPT !.hits = hits \o new, !.followed = k])
    BY <1>1, <1>3, <1>4, <1>6 DEF FollowLinks
  <2>2. PICK new \in NewHits(hits, q, hits[k]) :
          Note(r, [s EXCEPT !.hits = hits \o new, !.followed = k])
    BY <2>1
  <2>3. k \in 1..Len(hits) /\ hits[k] \in Scored
    <3>1. DOMAIN hits = 1..Len(hits)
      BY LenProperties
    <3>2. k \in 1..Len(hits)
      BY <1>6, <3>1 DEF Direct
    <3> QED
      BY <3>2, ElementOfSeq
  <2>4. /\ new \in Seq(Scored) /\ HitsApart(new)
        /\ \A n \in 1..Len(new) : /\ new[n].item \notin ItemsOf(hits)
                                  /\ new[n].via = hits[k].item
                                  /\ NoWorse(hits[k].score, new[n].score)
    BY <1>2, <2>1, <2>2, <2>3, NewHitsAre
  <2>5. PICK all : all = hits \o new
    OBVIOUS
  <2>6. /\ all \in Seq(Scored) /\ Len(all) = Len(hits) + Len(new)
        /\ HitsApart(all) /\ HitsLed(all)
        /\ \A n \in Direct(all) : n \in Direct(hits) /\ all[n] = hits[n]
    <3>1. HitsApart(hits) /\ HitsLed(hits)
      BY <1>2, <1>3 DEF HitsOk
    <3> QED
      BY <1>6, <2>3, <2>4, <2>5, <3>1, HitsAppended
  <2>7. PICK rec : rec = [s EXCEPT !.hits = all, !.followed = k]
    OBVIOUS
  <2>8. /\ Note(r, rec) /\ Goto(r, "match")
        /\ UNCHANGED teamVars /\ published' = published /\ links' \subseteq Links
    <3>1. UNCHANGED stage
      BY <1>1, <1>3, <1>4, <1>6 DEF FollowLinks
    <3>2. Goto(r, "match")
      BY <1>2, <3>1 DEF Goto, ServedInv, ShapeInv
    <3> QED
      BY <1>2, <2>2, <2>5, <2>7, <3>2 DEF FollowLinks, UntouchedTables
  <2>9. /\ rec \in Seen /\ rec.grants = s.grants /\ rec.groups = s.groups /\ rec.was = s.was
        /\ rec.allowed = s.allowed /\ rec.items = s.items /\ rec.followed = k
        /\ rec.hits = all
    BY <1>2, <2>6, <2>7 DEF Seen
  <2>10. AllowedOk(Kind(r), Ask[r].item, "match", rec)
    <3>1. k \in 0..Len(all)
      BY <2>3, <2>4, <2>6, LenProperties
    <3>2. \A n \in Direct(all) : all[n].item \in s.allowed
      BY <1>2, <1>3, <2>6 DEF AllowedOk
    <3> QED
      BY <1>2, <2>9, <3>1, <3>2 DEF AllowedOk
  <2>11. HitsOk("match", rec)
    BY <2>6, <2>9 DEF HitsOk
  <2>12. InOk(r, "match", rec, Here, published)
    BY <1>2, <2>9 DEF InOk
  <2>13. GraphOk(Kind(r), "match", rec)
    BY DEF GraphOk
  <2>14. OutInv => OutOk(r, "match", rec, Here)
    BY <1>2, <2>9 DEF OutOk
  <2>15. "match" \in Stages
    BY DEF Stages
  <2> QED
    BY <2>8, <2>9, <2>10, <2>11, <2>12, <2>13, <2>14, <2>15, ReadMoves DEF Keeps
<1> QED
  BY <1>5, <1>6

\* The best hits of those kept: sorted, and the neighbours after their parents.
LEMMA BestAre ==
    ASSUME NEW hits \in Seq(Scored), HitsApart(hits), HitsLed(hits),
           NEW kept \in SUBSET DOMAIN hits, Direct(hits) \subseteq kept,
           NEW best \in Best(hits, kept)
    PROVE  /\ best \in Seq(Scored) /\ HitsApart(best) /\ HitsSorted(best)
           /\ \A n \in DOMAIN best : \E k \in kept : best[n] = hits[k]
<1> DEFINE Better(m, n) == hits[m].score > hits[n].score \/ (hits[m].score = hits[n].score /\ m < n)
<1>1. PICK len \in Nat : len = Len(hits) /\ DOMAIN hits = 1..len
  BY LenProperties
<1>2. \A n \in 1..len : hits[n] \in Scored /\ hits[n].score \in Int
  <2>1. \A n \in 1..Len(hits) : hits[n] \in Scored
    BY ElementOfSeq
  <2> QED
    BY <1>1, <2>1 DEF Scored
<1>3. PICK order \in [1..Cardinality(kept) -> kept] :
        /\ \A m, n \in DOMAIN order : m < n => Better(order[m], order[n])
        /\ best = [n \in 1..(IF Cardinality(kept) < Limit THEN Cardinality(kept) ELSE Limit)
                     |-> hits[order[n]]]
  BY DEF Best, Sorted
<1>4. IsFiniteSet(kept)
  <2>1. IsFiniteSet(1..len) /\ kept \in SUBSET (1..len)
    BY <1>1, FS_Interval
  <2> QED
    BY <2>1, FS_Subset
<1>5. PICK all \in Nat : all = Cardinality(kept)
  BY <1>4, FS_CardinalityType
<1>6. PICK size \in 0..all : size = IF Cardinality(kept) < Limit THEN Cardinality(kept) ELSE Limit
  BY <1>5, ReadAssumption
<1>7. \A n \in 1..all : order[n] \in kept /\ order[n] \in 1..len
  BY <1>1, <1>5
<1>8. \A m, n \in 1..all : m < n => /\ order[m] # order[n]
                                    /\ hits[order[m]].score >= hits[order[n]].score
  <2> SUFFICES ASSUME NEW m \in 1..all, NEW n \in 1..all, m < n
               PROVE  /\ order[m] # order[n]
                      /\ hits[order[m]].score >= hits[order[n]].score
    OBVIOUS
  <2>1. Better(order[m], order[n])
    BY <1>3, <1>5
  <2>2. order[m] \in 1..len /\ order[n] \in 1..len
    BY <1>7
  <2>3. hits[order[m]].score \in Int /\ hits[order[n]].score \in Int
    BY <1>2, <2>2
  <2>4. order[m] # order[n]
    BY <2>1, <2>2, <2>3
  <2>5. hits[order[m]].score >= hits[order[n]].score
    BY <2>1, <2>3
  <2> QED
    BY <2>4, <2>5
<1>9. \A k \in kept : \E n \in 1..all : order[n] = k
  BY <1>4, <1>5, <1>8, AllThere
<1>10. /\ DOMAIN best = 1..size /\ \A n \in 1..size : best[n] = hits[order[n]] /\ n \in 1..all
  BY <1>3, <1>6
<1>11. best \in Seq(Scored)
  <2>1. best = [n \in 1..size |-> hits[order[n]]]
    BY <1>3, <1>6
  <2>2. \A n \in 1..size : hits[order[n]] \in Scored
    BY <1>2, <1>7, <1>10
  <2>3. best \in [1..size -> Scored]
    BY <2>1, <2>2
  <2> QED
    BY <2>3, FunctionIsSeq
<1>12. \A m, n \in 1..len : m # n => hits[m].item # hits[n].item
  <2> SUFFICES ASSUME NEW m \in 1..len, NEW n \in 1..len, m < n
               PROVE  hits[m].item # hits[n].item
    OBVIOUS
  <2>1. m \in 1..n - 1
    OBVIOUS
  <2> QED
    BY <1>1, <2>1 DEF HitsApart
<1>13. HitsApart(best)
  <2> SUFFICES ASSUME NEW n \in 1..size, NEW m \in 1..n - 1
               PROVE  best[m].item # best[n].item
    BY <1>10 DEF HitsApart
  <2>1. m \in 1..size /\ m < n
    OBVIOUS
  <2>2. best[m] = hits[order[m]] /\ best[n] = hits[order[n]] /\ m \in 1..all /\ n \in 1..all
    BY <1>10, <2>1
  <2>3. order[m] \in 1..len /\ order[n] \in 1..len /\ order[m] # order[n]
    BY <1>7, <1>8, <2>1, <2>2
  <2> QED
    BY <1>12, <2>2, <2>3
<1>14. HitsSorted(best)
  <2> SUFFICES ASSUME NEW n \in 1..size
               PROVE  /\ \A m \in 1..n - 1 : best[m].score >= best[n].score
                      /\ best[n].via # Nobody =>
                            /\ best[n].score > 0 => \E m \in 1..n - 1 : best[m].item = best[n].via
                            /\ \A m \in 1..size :
                                  best[m].item = best[n].via /\ best[m].score >= 0 => m < n
    BY <1>10 DEF HitsSorted
  <2>1. ASSUME NEW m \in 1..n - 1 PROVE best[m].score >= best[n].score
    <3>1. m \in 1..size /\ m < n
      OBVIOUS
    <3> QED
      BY <1>8, <1>10, <3>1
  <2>2. ASSUME best[n].via # Nobody
        PROVE  /\ best[n].score > 0 => \E m \in 1..n - 1 : best[m].item = best[n].via
               /\ \A m \in 1..size :
                     best[m].item = best[n].via /\ best[m].score >= 0 => m < n
    <3>1. PICK p : p = order[n]
      OBVIOUS
    <3>2. p \in 1..len /\ best[n] = hits[p] /\ n \in 1..all
      BY <1>7, <1>10, <3>1
    <3>3. PICK k \in 1..p - 1 : k \in Direct(hits) /\ LedBy(hits, k, p)
      BY <1>1, <2>2, <3>2 DEF HitsLed
    <3>4. PICK place \in 1..all : order[place] = k
      BY <1>9, <3>3
    <3>5. /\ k < p /\ k \in 1..len /\ hits[k].item = hits[p].via
          /\ NoWorse(hits[k].score, hits[p].score)
      BY <3>2, <3>3 DEF LedBy
    <3>6. ASSUME hits[k].score >= hits[p].score PROVE place < n
      <4>1. place # n
        BY <3>1, <3>4, <3>5
      <4>2. ASSUME n < place PROVE FALSE
        <5>1. Better(p, k)
          BY <1>3, <1>5, <3>1, <3>2, <3>4, <4>2
        <5> QED
          BY <1>2, <3>2, <3>5, <3>6, <5>1
      <4> QED
        BY <4>1, <4>2
    <3>7. ASSUME best[n].score > 0 PROVE \E m \in 1..n - 1 : best[m].item = best[n].via
      <4>1. place < n
        BY <3>2, <3>5, <3>6, <3>7 DEF NoWorse
      <4>2. place \in 1..n - 1 /\ place \in 1..size
        BY <4>1
      <4> QED
        BY <1>10, <3>2, <3>4, <3>5, <4>2
    <3>8. ASSUME NEW m \in 1..size, best[m].item = best[n].via, best[m].score >= 0
          PROVE  m < n
      <4>1. m \in 1..all /\ order[m] \in 1..len /\ best[m] = hits[order[m]]
        BY <1>7, <1>10
      <4>2. order[m] = k
        BY <1>12, <3>2, <3>5, <3>8, <4>1
      <4>3. m = place
        <5>1. CASE m < place
          BY <1>8, <3>4, <4>1, <4>2, <5>1
        <5>2. CASE place < m
          BY <1>8, <3>4, <4>1, <4>2, <5>2
        <5> QED
          BY <4>1, <5>1, <5>2
      <4> QED
        BY <3>5, <3>6, <3>8, <4>1, <4>2, <4>3 DEF NoWorse
    <3> QED
      BY <3>7, <3>8
  <2> QED
    BY <2>1, <2>2
<1> QED
  BY <1>7, <1>10, <1>11, <1>13, <1>14

LEMMA ExpandKeeps ==
    ASSUME ServedInv, NEW r \in Reads, Expand(r)
    PROVE  Keeps
<1>1. PICK s : s = sees[r]
  OBVIOUS
<1>2. /\ stage[r] = "expand" /\ s \in Seen /\ AllowedOk(Kind(r), Ask[r].item, "expand", s)
      /\ HitsOk("expand", s)
  BY <1>1, Now DEF Expand
<1>3. PICK hits \in Seq(Scored) : hits = s.hits
  BY <1>2 DEF Seen
<1>4. PICK kept \in SUBSET DOMAIN hits :
        kept = {n \in DOMAIN hits : n \in Direct(hits) \/ hits[n].item \in Found(r)}
  OBVIOUS
<1>5. PICK best \in Best(hits, kept) :
        Answer(r, [s EXCEPT !.hits = best, !.followed = 0, !.items = ItemsOf(best)])
  BY <1>1, <1>3, <1>4 DEF Expand
<1>6. /\ best \in Seq(Scored) /\ HitsApart(best) /\ HitsSorted(best)
      /\ \A n \in DOMAIN best : \E k \in kept : best[n] = hits[k]
  <2>1. HitsApart(hits) /\ HitsLed(hits)
    BY <1>2, <1>3 DEF HitsOk
  <2>2. Direct(hits) \subseteq kept
    BY <1>4 DEF Direct
  <2> QED
    BY <1>5, <2>1, <2>2, BestAre
<1>7. ItemsOf(best) \subseteq s.allowed /\ s.allowed \subseteq DOMAIN Items
  <2>1. \A k \in kept : hits[k].item \in s.allowed
    BY <1>1, <1>2, <1>3, <1>4 DEF AllowedOk, Found
  <2>2. s.allowed \subseteq DOMAIN Items
    BY <1>2 DEF Seen
  <2> QED
    BY <1>6, <2>1, <2>2 DEF ItemsOf
<1>8. PICK rec : rec = [s EXCEPT !.hits = best, !.followed = 0, !.items = ItemsOf(best)]
  OBVIOUS
<1>9. /\ rec \in Seen /\ rec.was = s.was /\ rec.allowed = s.allowed /\ rec.items = ItemsOf(best)
      /\ rec.followed = 0 /\ rec.hits = best
  BY <1>2, <1>6, <1>7, <1>8 DEF Seen
<1>10. Answer(r, rec) /\ UNCHANGED teamVars /\ published' = published /\ links' \subseteq Links
  BY <1>5, <1>8 DEF Expand, UntouchedTables, ServedInv, ShapeInv
<1>11. Kind(r) = "search"
  BY <1>2 DEF AllowedOk
<1>12. 0 \in 0..Len(best)
  BY <1>6, LenProperties
<1>13. GraphOk(Kind(r), "answered", rec)
  BY <1>11 DEF GraphOk
<1> QED
  BY <1>1, <1>6, <1>7, <1>9, <1>10, <1>11, <1>12, <1>13, AnswerKeeps

-----------------------------------------------------------------------------
(* The graph.                                                                *)

\* There are finitely many links.
LEMMA LinksFinite ==
    IsFiniteSet(Links)
<1> DEFINE D == DOMAIN Items
<1> DEFINE T == [from : D, to : D, explicit : BOOLEAN, score : 0..2]
<1> DEFINE S == (D \X D) \X (BOOLEAN \X (0..2))
<1>1. IsFiniteSet(D)
  BY ItemAssumption
<1>2. IsFiniteSet(D \X D)
  BY <1>1, FS_Product
<1>3. IsFiniteSet(0..2)
  <2>1. PICK n \in Nat : n = 2
    OBVIOUS
  <2>2. IsFiniteSet(0..n)
    BY FS_Interval
  <2> QED
    BY <2>1, <2>2
<1>4. IsFiniteSet(BOOLEAN)
  <2>1. IsFiniteSet({TRUE}) /\ IsFiniteSet({FALSE})
    BY FS_Singleton
  <2>2. IsFiniteSet({TRUE} \union {FALSE})
    BY <2>1, FS_Union
  <2>3. BOOLEAN = {TRUE} \union {FALSE}
    OBVIOUS
  <2> QED
    BY <2>2, <2>3
<1>5. IsFiniteSet(BOOLEAN \X (0..2))
  BY <1>3, <1>4, FS_Product
<1>6. IsFiniteSet(S)
  BY <1>2, <1>5, FS_Product
<1> DEFINE f == [x \in S |-> [from |-> x[1][1], to |-> x[1][2], explicit |-> x[2][1], score |-> x[2][2]]]
<1>7. f \in [S -> T]
  OBVIOUS
<1>8. ASSUME NEW l \in T PROVE \E x \in S : f[x] = l
  <2>1. <<<<l.from, l.to>>, <<l.explicit, l.score>>>> \in S
    OBVIOUS
  <2>2. f[<<<<l.from, l.to>>, <<l.explicit, l.score>>>>]
          = [from |-> l.from, to |-> l.to, explicit |-> l.explicit, score |-> l.score]
    BY <2>1
  <2>3. l = [from |-> l.from, to |-> l.to, explicit |-> l.explicit, score |-> l.score]
    OBVIOUS
  <2> QED
    BY <2>1, <2>2, <2>3
<1>9. f \in Surjection(S, T)
  BY <1>7, <1>8 DEF Surjection
<1>10. IsFiniteSet(T)
  BY <1>6, <1>9, FS_Surjection
<1>11. Links \in SUBSET T
  BY ItemAssumption DEF Links
<1> QED
  BY <1>10, <1>11, FS_Subset

LEMMA LinkIs ==
    ASSUME NEW l \in Links
    PROVE  /\ l.from \in DOMAIN Items /\ l.to \in DOMAIN Items
           /\ l.explicit \in BOOLEAN /\ l.score \in 0..2
           /\ l.explicit => l.score = 2
           /\ Edge(l) \in EdgeRow /\ Edge(l).pair = {l.from, l.to}
           /\ Edge(l).explicit = l.explicit /\ Edge(l).score = l.score
<1>1. /\ l.from \in DOMAIN Items /\ l.to \in DOMAIN Items
      /\ l.explicit \in BOOLEAN /\ l.score \in 0..2
      /\ l.explicit => l.score = 2
  BY ItemAssumption DEF Links
<1> QED
  BY <1>1 DEF Edge, EdgeRow

\* The edge that an explicit link makes of an old one.
MadeExplicit(e, l) ==
    [e EXCEPT !.explicit = TRUE, !.score = IF @ > l.score THEN @ ELSE l.score]

LEMMA MadeExplicitIs ==
    ASSUME NEW e \in EdgeRow, NEW l \in Links, l.explicit = TRUE
    PROVE  /\ MadeExplicit(e, l) \in EdgeRow /\ MadeExplicit(e, l).pair = e.pair
           /\ MadeExplicit(e, l).explicit = TRUE /\ MadeExplicit(e, l).score = 2
<1>1. l.score = 2 /\ e.score \in 0..2
  BY LinkIs DEF EdgeRow
<1>2. PICK best : best = IF e.score > l.score THEN e.score ELSE l.score
  OBVIOUS
<1>3. best \in 0..2 /\ best = 2
  BY <1>1, <1>2
<1>4. PICK f : f = MadeExplicit(e, l)
  OBVIOUS
<1>5. f = [e EXCEPT !.explicit = TRUE, !.score = best]
  BY <1>2, <1>4 DEF MadeExplicit
<1>6. f \in EdgeRow
  <2>1. e.pair \in SUBSET DOMAIN Items
    BY DEF EdgeRow
  <2>2. e = [pair |-> e.pair, explicit |-> e.explicit, score |-> e.score]
    BY DEF EdgeRow
  <2>3. f = [pair |-> e.pair, explicit |-> TRUE, score |-> best]
    BY <1>5, <2>2
  <2> QED
    BY <1>3, <2>1, <2>3 DEF EdgeRow
<1>7. f.pair = e.pair /\ f.explicit = TRUE /\ f.score = best
  BY <1>5 DEF EdgeRow
<1> QED
  BY <1>3, <1>4, <1>6, <1>7

\* Edges stay edges.
LEMMA CollapsedEdges ==
    ASSUME NEW E \in SUBSET EdgeRow, NEW l \in Links
    PROVE  Collapsed(E, l) \in SUBSET EdgeRow
<1>1. CASE {e \in E : e.pair = {l.from, l.to}} = {}
  BY <1>1, LinkIs DEF Collapsed
<1>2. CASE {e \in E : e.pair = {l.from, l.to}} # {} /\ l.explicit
  <2>1. ASSUME NEW d \in Collapsed(E, l) PROVE d \in EdgeRow
    <3>1. CASE d \in E
      BY <3>1
    <3>2. CASE d \notin E
      <4>1. PICK e \in E : d = MadeExplicit(e, l)
        BY <1>2, <2>1, <3>2 DEF Collapsed, MadeExplicit
      <4>2. l.explicit = TRUE
        BY <1>2, LinkIs
      <4> QED
        BY <4>1, <4>2, MadeExplicitIs
    <3> QED
      BY <3>1, <3>2
  <2> QED
    BY <2>1
<1>3. CASE {e \in E : e.pair = {l.from, l.to}} # {} /\ ~ l.explicit
  BY <1>3 DEF Collapsed
<1> QED
  BY <1>1, <1>2, <1>3

\* What EdgesOf says of one edge.
BestOf(e, rows) ==
    /\ e.explicit <=> \E l \in rows : {l.from, l.to} = e.pair /\ l.explicit
    /\ \E l \in rows : {l.from, l.to} = e.pair /\ l.score = e.score
    /\ \A l \in rows : {l.from, l.to} = e.pair => l.score <= e.score

\* The edges with one link more: f takes the place of the edge of its pair.
LEMMA OneEdgeChanged ==
    ASSUME NEW E \in SUBSET EdgeRow, NEW L \in SUBSET Links, EdgesOf(E, L),
           NEW l \in Links, NEW f \in EdgeRow, f.pair = {l.from, l.to}, BestOf(f, L \union {l}),
           NEW D, D = {e \in E : e.pair # {l.from, l.to}} \union {f}
    PROVE  EdgesOf(D, L \union {l})
<1>1. \A e, g \in E : e.pair = g.pair => e = g
  BY DEF EdgesOf
<1>2. \A e \in E : BestOf(e, L)
  BY DEF EdgesOf, BestOf
<1>3. {e.pair : e \in E} = {{m.from, m.to} : m \in L}
  BY DEF EdgesOf
<1>4. {e.pair : e \in D} = {{m.from, m.to} : m \in L \union {l}}
  <2>1. ASSUME NEW e \in D PROVE \E m \in L \union {l} : e.pair = {m.from, m.to}
    BY <1>3, <2>1
  <2>2. ASSUME NEW m \in L \union {l} PROVE \E e \in D : e.pair = {m.from, m.to}
    <3>1. CASE {m.from, m.to} = {l.from, l.to}
      BY <3>1
    <3>2. CASE {m.from, m.to} # {l.from, l.to}
      <4>1. m \in L
        BY <3>2
      <4>2. {m.from, m.to} \in {e.pair : e \in E}
        BY <1>3, <4>1
      <4>3. PICK e \in E : e.pair = {m.from, m.to}
        BY <4>2
      <4> QED
        BY <3>2, <4>3
    <3> QED
      BY <3>1, <3>2
  <2>3. {e.pair : e \in D} \subseteq {{m.from, m.to} : m \in L \union {l}}
    BY <2>1
  <2>4. {{m.from, m.to} : m \in L \union {l}} \subseteq {e.pair : e \in D}
    BY <2>2
  <2> QED
    BY <2>3, <2>4
<1>5. \A e, g \in D : e.pair = g.pair => e = g
  BY <1>1
<1>6. ASSUME NEW e \in D PROVE BestOf(e, L \union {l})
  <2>1. CASE e = f
    BY <2>1
  <2>2. CASE e # f
    <3>1. e \in E /\ e.pair # {l.from, l.to}
      BY <1>6, <2>2
    <3>2. BestOf(e, L)
      BY <1>2, <3>1
    <3> QED
      BY <3>1, <3>2 DEF BestOf
  <2> QED
    BY <2>1, <2>2
<1> QED
  BY <1>4, <1>5, <1>6 DEF EdgesOf, BestOf

\* One link more, whichever it is: the edges are those of all links so far.
LEMMA OneLinkMore ==
    ASSUME SimilaritySymmetric, NEW E \in SUBSET EdgeRow, NEW L \in SUBSET Links, EdgesOf(E, L),
           NEW l \in Links
    PROVE  EdgesOf(Collapsed(E, l), L \union {l})
<1> DEFINE pair == {l.from, l.to}
<1>1. CASE {e \in E : e.pair = pair} = {}
  <2>1. PICK f : f = Edge(l)
    OBVIOUS
  <2>2. /\ f \in EdgeRow /\ f.pair = pair /\ f.explicit = l.explicit /\ f.score = l.score
        /\ l.score \in 0..2
    BY <2>1, LinkIs
  <2>3. ASSUME NEW m \in L, {m.from, m.to} = pair PROVE FALSE
    <3>1. {m.from, m.to} \in {e.pair : e \in E}
      BY DEF EdgesOf
    <3> QED
      BY <1>1, <2>3, <3>1
  <2>4. BestOf(f, L \union {l})
    BY <2>2, <2>3 DEF BestOf
  <2>5. Collapsed(E, l) = {e \in E : e.pair # pair} \union {f}
    BY <1>1, <2>1 DEF Collapsed
  <2> QED
    BY <2>2, <2>4, <2>5, OneEdgeChanged
<1>2. ASSUME NEW e \in E, e.pair = pair PROVE EdgesOf(Collapsed(E, l), L \union {l})
  <2>1. {d \in E : d.pair = pair} = {e}
    <3>1. \A d \in E : d.pair = e.pair => d = e
      BY DEF EdgesOf
    <3> QED
      BY <1>2, <3>1
  <2>2. e \in EdgeRow /\ BestOf(e, L)
    BY DEF EdgesOf, BestOf
  <2>3. \A m \in L : m.score \in 0..2 /\ m.explicit \in BOOLEAN /\ (m.explicit => m.score = 2)
    BY LinkIs
  <2>4. l.score \in 0..2 /\ l.explicit \in BOOLEAN /\ (l.explicit => l.score = 2)
    BY LinkIs
  <2>5. CASE l.explicit
    <3>1. PICK f : f = MadeExplicit(e, l)
      OBVIOUS
    <3>2. f \in EdgeRow /\ f.pair = pair /\ f.explicit = TRUE /\ f.score = 2
      BY <1>2, <2>2, <2>4, <2>5, <3>1, MadeExplicitIs
    <3>3. \A m \in L \union {l} : m.score <= 2
      BY <2>3, <2>4
    <3>4. BestOf(f, L \union {l})
      BY <2>4, <2>5, <3>2, <3>3 DEF BestOf
    <3>5. Collapsed(E, l) = (E \ {e}) \union {f}
      BY <2>1, <2>5, <3>1 DEF Collapsed, MadeExplicit
    <3>6. E \ {e} = {d \in E : d.pair # pair}
      BY <2>1
    <3> QED
      BY <3>2, <3>4, <3>5, <3>6, OneEdgeChanged
  <2>6. CASE ~ l.explicit
    <3>1. l.score <= e.score
      <4>1. PICK m \in L : {m.from, m.to} = pair /\ m.score = e.score /\ (e.explicit => m.score = 2)
        <5>1. CASE e.explicit
          <6>1. PICK m \in L : {m.from, m.to} = pair /\ m.explicit
            BY <1>2, <2>2, <5>1 DEF BestOf
          <6>2. m.score = 2 /\ m.score <= e.score /\ e.score \in 0..2
            BY <1>2, <2>2, <2>3, <6>1 DEF BestOf, EdgeRow
          <6> QED
            BY <6>1, <6>2
        <5>2. CASE ~ e.explicit
          BY <1>2, <2>2, <5>2 DEF BestOf
        <5> QED
          BY <5>1, <5>2
      <4>2. CASE e.explicit
        BY <2>4, <4>1, <4>2
      <4>3. CASE ~ e.explicit
        <5>1. ~ m.explicit
          BY <1>2, <2>2, <4>1, <4>3 DEF BestOf
        <5>2. m.score = l.score
          BY <2>6, <4>1, <5>1 DEF SimilaritySymmetric
        <5> QED
          BY <2>4, <4>1, <5>2
      <4> QED
        BY <4>2, <4>3
    <3>2. BestOf(e, L \union {l})
      BY <1>2, <2>2, <2>6, <3>1 DEF BestOf
    <3>3. Collapsed(E, l) = E
      BY <2>1, <2>6 DEF Collapsed
    <3>4. E = {d \in E : d.pair # pair} \union {e}
      BY <2>1
    <3> QED
      BY <1>2, <2>2, <3>2, <3>3, <3>4, OneEdgeChanged
  <2> QED
    BY <2>4, <2>5, <2>6
<1> QED
  BY <1>1, <1>2

\* All links, one after the other.
LEMMA CollapseIs ==
    ASSUME NEW n \in Nat, NEW q, \A k \in 1..n : q[k] \in Links,
           NEW c, IsCollapse(c, n, q)
    PROVE  \A k \in 0..n : /\ c[k] \in SUBSET EdgeRow
                           /\ SimilaritySymmetric => EdgesOf(c[k], {q[m] : m \in 1..k})
<1> DEFINE Good(k) == /\ c[k] \in SUBSET EdgeRow
                      /\ SimilaritySymmetric => EdgesOf(c[k], {q[m] : m \in 1..k})
<1> DEFINE S == {k \in Nat : k <= n => Good(k)}
<1>1. \A k \in 0..n : c[k] = IF k = 0 THEN {} ELSE Collapsed(c[k - 1], q[k])
  BY DEF IsCollapse
<1>2. 0 \in S
  <2>1. c[0] = {}
    BY <1>1
  <2>2. {q[m] : m \in 1..0} = {}
    OBVIOUS
  <2>3. EdgesOf({}, {})
    BY DEF EdgesOf
  <2>4. Good(0)
    BY <2>1, <2>2, <2>3
  <2> QED
    BY <2>4
<1>3. ASSUME NEW k \in Nat, k \in S PROVE k + 1 \in S
  <2> SUFFICES ASSUME k + 1 <= n PROVE Good(k + 1)
    OBVIOUS
  <2>1. Good(k)
    BY <1>3
  <2>2. k + 1 \in 0..n /\ k + 1 \in 1..n /\ k + 1 # 0 /\ (k + 1) - 1 = k
    OBVIOUS
  <2>3. c[k + 1] = Collapsed(c[k], q[k + 1])
    BY <1>1, <2>2
  <2>4. q[k + 1] \in Links
    BY <2>2
  <2>5. {q[m] : m \in 1..k} \in SUBSET Links
    <3>1. \A m \in 1..k : m \in 1..n
      BY <2>2
    <3> QED
      BY <3>1
  <2>6. {q[m] : m \in 1..k + 1} = {q[m] : m \in 1..k} \union {q[k + 1]}
    <3>1. 1..k + 1 = 1..k \union {k + 1}
      OBVIOUS
    <3> QED
      BY <3>1
  <2>7. c[k] \in SUBSET EdgeRow
    BY <2>1
  <2>8. Collapsed(c[k], q[k + 1]) \in SUBSET EdgeRow
    BY <2>4, <2>7, CollapsedEdges
  <2>9. ASSUME SimilaritySymmetric
        PROVE  EdgesOf(Collapsed(c[k], q[k + 1]), {q[m] : m \in 1..k} \union {q[k + 1]})
    <3>1. EdgesOf(c[k], {q[m] : m \in 1..k})
      BY <2>1, <2>9
    <3> QED
      BY <2>4, <2>5, <2>7, <2>9, <3>1, OneLinkMore
  <2> QED
    BY <2>3, <2>6, <2>8, <2>9
<1> HIDE DEF S
<1>4. Nat \subseteq S
  BY <1>2, <1>3, Induction
<1>5. ASSUME NEW k \in 0..n PROVE Good(k)
  <2>1. k \in S /\ k <= n
    BY <1>4
  <2> QED
    BY <2>1 DEF S
<1> QED
  BY <1>5

\* The edges of all rows, in whatever order they were read.
LEMMA EdgesOfRows ==
    ASSUME NEW rows \in SUBSET Links, NEW q \in [1..Cardinality(rows) -> rows],
           \A m, n \in DOMAIN q : m # n => q[m] # q[n]
    PROVE  /\ Edges(q) \in SUBSET EdgeRow
           /\ SimilaritySymmetric => EdgesOf(Edges(q), rows)
<1>1. IsFiniteSet(rows)
  BY LinksFinite, FS_Subset
<1>2. PICK n \in Nat : n = Cardinality(rows)
  BY <1>1, FS_CardinalityType
<1>3. DOMAIN q = 1..n /\ Len(q) = n /\ \A k \in 1..n : q[k] \in rows
  BY <1>2, FunctionIsSeq
<1>4. \A x \in rows : \E k \in 1..n : q[k] = x
  <2>1. \A j, k \in 1..Cardinality(rows) : j < k => q[j] # q[k]
    BY <1>2
  <2> QED
    BY <1>1, <1>2, <2>1, AllThere
<1>5. rows = {q[m] : m \in 1..n}
  BY <1>3, <1>4
<1>6. PICK c : IsCollapse(c, n, q) /\ Edges(q) = c[n]
  BY <1>3, EdgesAre
<1>7. \A k \in 1..n : q[k] \in Links
  BY <1>3
<1>8. n \in 0..n
  OBVIOUS
<1>9. \A k \in 0..n : /\ c[k] \in SUBSET EdgeRow
                      /\ SimilaritySymmetric => EdgesOf(c[k], {q[m] : m \in 1..k})
  BY <1>6, <1>7, CollapseIs
<1> QED
  BY <1>5, <1>6, <1>8, <1>9

LEMMA ReadNodesKeeps ==
    ASSUME ServedInv, NEW r \in Reads, ReadNodes(r)
    PROVE  Keeps
<1>1. PICK s : s = sees[r]
  OBVIOUS
<1>2. /\ stage[r] = "nodes" /\ s \in Seen /\ AllowedOk(Kind(r), Ask[r].item, "nodes", s)
      /\ HitsOk("nodes", s) /\ InOk(r, "nodes", s, Here, published)
      /\ OutInv => OutOk(r, "nodes", s, Here)
  BY <1>1, Now DEF ReadNodes
<1>3. PICK nodes : nodes = Found(r)
  OBVIOUS
<1>4. nodes \subseteq s.allowed /\ s.allowed \subseteq DOMAIN Items
  BY <1>1, <1>2, <1>3 DEF Found, Seen
<1>5. PICK rec : rec = [s EXCEPT !.items = nodes]
  OBVIOUS
<1>6. /\ Goto(r, "edges") /\ Note(r, rec)
      /\ UNCHANGED teamVars /\ published' = published /\ links' \subseteq Links
  BY <1>1, <1>3, <1>5 DEF ReadNodes, UntouchedTables, ServedInv, ShapeInv
<1>7. /\ rec \in Seen /\ rec.grants = s.grants /\ rec.groups = s.groups /\ rec.was = s.was
      /\ rec.allowed = s.allowed /\ rec.items = nodes /\ rec.followed = s.followed
      /\ rec.hits = s.hits
  BY <1>2, <1>4, <1>5 DEF Seen
<1>8. AllowedOk(Kind(r), Ask[r].item, "edges", rec)
  BY <1>2, <1>4, <1>7 DEF AllowedOk
<1>9. HitsOk("edges", rec)
  BY <1>2, <1>7 DEF HitsOk
<1>10. InOk(r, "edges", rec, Here, published)
  BY <1>2, <1>7 DEF InOk, Open
<1>11. GraphOk(Kind(r), "edges", rec)
  BY DEF GraphOk
<1>12. OutInv => OutOk(r, "edges", rec, Here)
  BY <1>2, <1>7 DEF OutOk, Open
<1>13. "edges" \in Stages
  BY DEF Stages
<1> QED
  BY <1>6, <1>7, <1>8, <1>9, <1>10, <1>11, <1>12, <1>13, ReadMoves DEF Keeps

LEMMA AnswerGraphKeeps ==
    ASSUME ServedInv, NEW r \in Reads, AnswerGraph(r)
    PROVE  Keeps
<1>1. PICK s : s = sees[r]
  OBVIOUS
<1>2. /\ stage[r] = "edges" /\ s \in Seen /\ AllowedOk(Kind(r), Ask[r].item, "edges", s)
      /\ HitsOk("edges", s) /\ links \subseteq Links
  BY <1>1, Now DEF AnswerGraph
<1>3. PICK rows : rows = {l \in links : {l.from, l.to} \subseteq s.items /\ l.score >= MinScore}
  OBVIOUS
<1>4. rows \in SUBSET Links
  BY <1>2, <1>3
<1>5. PICK q \in [1..Cardinality(rows) -> rows] :
        /\ \A m, n \in DOMAIN q : m # n => q[m] # q[n]
        /\ Answer(r, [s EXCEPT !.rows = rows, !.edges = Edges(q)])
  BY <1>1, <1>3 DEF AnswerGraph
<1>6. PICK edges : edges = Edges(q)
  OBVIOUS
<1>7. edges \in SUBSET EdgeRow /\ (SimilaritySymmetric => EdgesOf(edges, rows))
  BY <1>4, <1>5, <1>6, EdgesOfRows
<1>8. PICK rec : rec = [s EXCEPT !.rows = rows, !.edges = edges]
  OBVIOUS
<1>9. /\ Answer(r, rec) /\ UNCHANGED teamVars /\ published' = published /\ links' \subseteq Links
  BY <1>2, <1>5, <1>6, <1>8 DEF AnswerGraph, UntouchedTables
<1>10. /\ rec \in Seen /\ rec.was = s.was /\ rec.allowed = s.allowed /\ rec.items = s.items
       /\ rec.followed = s.followed /\ rec.hits = s.hits /\ rec.rows = rows /\ rec.edges = edges
  BY <1>2, <1>4, <1>7, <1>8 DEF Seen
<1>11. /\ s.hits = <<>> /\ s.followed \in 0..Len(s.hits) /\ s.items \subseteq s.allowed
       /\ Kind(r) = "graph"
  BY <1>2 DEF HitsOk, AllowedOk
<1>12. SimilaritySymmetric => GraphOk(Kind(r), "answered", rec)
  BY <1>7, <1>10 DEF GraphOk
<1> QED
  BY <1>1, <1>9, <1>10, <1>11, <1>12, NoHits, AnswerKeeps

-----------------------------------------------------------------------------
(* What happens meanwhile.                                                   *)

LEMMA MirrorKeeps ==
    ASSUME ServedInv, MirrorCommits
    PROVE  Keeps
<1>1. TeamInv'
  BY TeamNextInv DEF MirrorCommits, ServedInv
<1>2. PICK here : here = Here
  OBVIOUS
<1>3. Here' = here
  BY <1>2 DEF Here, MirrorCommits, teamVars
<1>4. stage' = stage /\ sees' = sees /\ published' = published
  BY DEF MirrorCommits
<1>5. links' \subseteq Links
  BY DEF MirrorCommits, ServedInv, ShapeInv, Links
<1>6. ShapeInv'
  BY <1>4, <1>5 DEF ServedInv, ShapeInv
<1>7. ReadInv'
  BY <1>2, <1>3, <1>4 DEF ServedInv, ReadInv
<1>8. GraphInv => GraphInv'
  BY <1>4 DEF GraphInv
<1>9. OutInv => OutInv'
  BY <1>2, <1>3, <1>4 DEF OutInv
<1> QED
  BY <1>1, <1>6, <1>7, <1>8, <1>9 DEF Keeps, ServedInv

LEMMA StutterKeeps ==
    ASSUME ServedInv, UNCHANGED vars
    PROVE  Keeps
<1>1. TeamInv'
  BY TeamNextInv DEF vars, ServedInv
<1>2. PICK here : here = Here
  OBVIOUS
<1>3. Here' = here
  BY <1>2 DEF Here, vars, teamVars
<1>4. stage' = stage /\ sees' = sees /\ published' = published /\ links' = links
  BY DEF vars, readVars
<1>5. ShapeInv'
  BY <1>4 DEF ServedInv, ShapeInv
<1>6. ReadInv'
  BY <1>2, <1>3, <1>4 DEF ServedInv, ReadInv
<1>7. GraphInv => GraphInv'
  BY <1>4 DEF GraphInv
<1>8. OutInv => OutInv'
  BY <1>2, <1>3, <1>4 DEF OutInv
<1> QED
  BY <1>1, <1>5, <1>6, <1>7, <1>8 DEF Keeps, ServedInv

\* What a request relies on outlives a change of others.
LEMMA OthersChange ==
    ASSUME NEW r, NEW st, NEW s, NEW here, NEW then, NEW there,
           Open(st) => (Caller(r) \in here <=> Caller(r) \in then)
    PROVE  /\ InOk(r, st, s, here, there) => InOk(r, st, s, then, there)
           /\ OutOk(r, st, s, here) => OutOk(r, st, s, then)
BY DEF InOk, OutOk

LEMMA TeamKeeps ==
    ASSUME ServedInv, TeamNext, Watch, UNCHANGED <<published, links, mirrored, stage>>
    PROVE  Keeps
<1>1. TeamInv'
  BY TeamNextInv DEF ServedInv
<1>2. PICK here : here = Here
  OBVIOUS
<1>3. PICK then : then = Here'
  OBVIOUS
<1>4. \A r \in Reads : /\ IsMember(Caller(r)) <=> Caller(r) \in here
                       /\ (IsMember(Caller(r)))' <=> Caller(r) \in then
  BY <1>2, <1>3 DEF Here, IsMember
<1>5. ASSUME NEW r \in Reads
      PROVE  \/ /\ Open(stage[r])
                /\ sees'[r] = [sees[r] EXCEPT !.was = "changed"]
             \/ /\ Open(stage[r]) => (Caller(r) \in here <=> Caller(r) \in then)
                /\ sees'[r] = sees[r]
  BY <1>4 DEF Watch, Open
<1>6. DOMAIN sees' = Reads /\ sees' = [r \in Reads |-> sees'[r]]
  BY DEF Watch
<1>7. ASSUME NEW r \in Reads
      PROVE  /\ sees'[r] \in Seen
             /\ AllowedOk(Kind(r), Ask[r].item, stage[r], sees'[r]) /\ HitsOk(stage[r], sees'[r])
             /\ InOk(r, stage[r], sees'[r], then, published)
             /\ GraphInv => GraphOk(Kind(r), stage[r], sees'[r])
             /\ OutInv => OutOk(r, stage[r], sees'[r], then)
  <2>1. PICK st : st = stage[r]
    OBVIOUS
  <2>2. PICK s : s = sees[r]
    OBVIOUS
  <2>3. /\ s \in Seen
        /\ AllowedOk(Kind(r), Ask[r].item, st, s) /\ HitsOk(st, s)
        /\ InOk(r, st, s, here, published)
        /\ GraphInv => GraphOk(Kind(r), st, s)
        /\ OutInv => OutOk(r, st, s, here)
    BY <1>2, <2>1, <2>2, Now
  <2>4. CASE Open(st) /\ sees'[r] = [s EXCEPT !.was = "changed"]
    <3>1. PICK rec : rec = [s EXCEPT !.was = "changed"]
      OBVIOUS
    <3>2. /\ rec \in Seen /\ rec.was = "changed" /\ rec.grants = s.grants /\ rec.groups = s.groups
          /\ rec.allowed = s.allowed /\ rec.items = s.items /\ rec.followed = s.followed
          /\ rec.hits = s.hits
      BY <2>3, <3>1 DEF Seen
    <3>3. AllowedOk(Kind(r), Ask[r].item, st, rec)
      BY <2>3, <3>2 DEF AllowedOk
    <3>4. HitsOk(st, rec)
      BY <2>3, <3>2 DEF HitsOk
    <3>5. InOk(r, st, rec, then, published) /\ OutOk(r, st, rec, then)
      BY <3>2 DEF InOk, OutOk
    <3>6. GraphOk(Kind(r), st, rec)
      BY <2>4 DEF GraphOk, Open
    <3> QED
      BY <2>1, <2>4, <3>1, <3>2, <3>3, <3>4, <3>5, <3>6
  <2>5. CASE /\ Open(st) => (Caller(r) \in here <=> Caller(r) \in then)
             /\ sees'[r] = s
    <3>1. /\ InOk(r, st, s, then, published)
          /\ OutInv => OutOk(r, st, s, then)
      BY <2>3, <2>5, OthersChange
    <3> QED
      BY <2>1, <2>3, <2>5, <3>1
  <2> QED
    BY <1>5, <2>1, <2>2, <2>4, <2>5
<1>8. ShapeInv'
  <2>1. sees' \in [Reads -> Seen]
    BY <1>6, <1>7
  <2> QED
    BY <2>1 DEF ServedInv, ShapeInv
<1>9. ReadInv'
  BY <1>3, <1>7 DEF ReadInv
<1>10. GraphInv => GraphInv'
  BY <1>7 DEF GraphInv
<1>11. OutInv => OutInv'
  BY <1>3, <1>7 DEF OutInv
<1> QED
  BY <1>1, <1>8, <1>9, <1>10, <1>11 DEF Keeps, ServedInv

-----------------------------------------------------------------------------
(* The invariants.                                                           *)

LEMMA ReadingInit ==
    ASSUME Init
    PROVE  ServedInv /\ GraphInv /\ OutInv
<1>1. TeamInv
  BY InitInv DEF Init
<1>2. ShapeInv
  BY BlankSeen DEF Init, ShapeInv, Links, Stages
<1>3. \A r \in Reads : stage[r] = "new" /\ sees[r] = Blank
  BY DEF Init
<1>4. Blank.was = "changed" /\ Len(Blank.hits) = 0 /\ DOMAIN Blank.hits = {}
  BY BlankSeen DEF Blank
<1>5. ASSUME NEW k, NEW i PROVE AllowedOk(k, i, "new", Blank)
  BY <1>4, BlankSeen DEF AllowedOk
<1>6. HitsOk("new", Blank)
  BY <1>4, BlankSeen DEF HitsOk, HitsApart
<1>7. ReadInv
  <2>1. ASSUME NEW r \in Reads PROVE InOk(r, "new", Blank, Here, published)
    BY <1>4 DEF InOk
  <2> QED
    BY <1>3, <1>5, <1>6, <2>1 DEF ReadInv
<1>8. GraphInv
  BY <1>3 DEF GraphInv, GraphOk
<1>9. OutInv
  BY <1>3, <1>4 DEF OutInv, OutOk
<1> QED
  BY <1>1, <1>2, <1>7, <1>8, <1>9 DEF ServedInv

LEMMA ReadingNext ==
    ASSUME ServedInv, [Next]_vars
    PROVE  Keeps
<1>1. ASSUME NEW r \in Reads, Read(r) PROVE Keeps
  BY <1>1, RefuseKeeps, IdentifyKeeps, FetchKeeps, ReadGrantsKeeps, ReadRowsKeeps,
     AnswerListKeeps, ArchiveKeeps, MatchKeeps, FollowKeeps, ExpandKeeps,
     ReadNodesKeeps, AnswerGraphKeeps DEF Read
<1>2. CASE MirrorCommits
  BY <1>2, MirrorKeeps
<1>3. CASE TeamNext /\ Watch /\ UNCHANGED <<published, links, mirrored, stage>>
  BY <1>3, TeamKeeps
<1>4. CASE Finished \/ UNCHANGED vars
  BY <1>4, StutterKeeps DEF Finished
<1> QED
  BY <1>1, <1>2, <1>3, <1>4 DEF Next

\* What a request has read so far is what it may rely on, however the statements of
\* the requests, of the changes of the team and of the mirror follow one another
\* (the parts of ServedInv: items_query, HybridSearchProvider.query, get_graph).
THEOREM ReadingInvariant == Spec => []ServedInv
<1>1. Init => ServedInv
  BY ReadingInit
<1>2. ServedInv /\ [Next]_vars => ServedInv'
  BY ReadingNext DEF Keeps
<1> QED
  BY <1>1, <1>2, PTL DEF Spec

-----------------------------------------------------------------------------
(* The properties.                                                           *)

\* The types of the tables and of what a request has read; and the answer of every
\* request, whatever it asks for, consists of items that were allowed to it by
\* rbac.py's allowed_item_ids when it read them.
THEOREM ReadingTypes == Spec => []TypeOK
<1>1. ServedInv => TypeOK
  <2> SUFFICES ASSUME ServedInv PROVE TypeOK
    OBVIOUS
  <2>1. TeamTypeOK
    BY DEF ServedInv, TeamInv
  <2>2. ASSUME NEW r \in Reads
        PROVE  /\ sees[r].allowed \union sees[r].items \subseteq DOMAIN Items
               /\ sees[r].followed \in 0..Len(sees[r].hits)
               /\ stage[r] = "answered" => sees[r].items \subseteq sees[r].allowed
    BY Now DEF AllowedOk, Seen
  <2>3. published \subseteq DOMAIN Items /\ links \subseteq InitLinks \union MirrorLinks
    BY DEF ServedInv, ShapeInv, Links
  <2>4. stage \in [Reads -> {"new", "fetch", "grants", "rows", "embed", "match", "expand",
                            "list", "nodes", "edges", "write", "answered", "refused"}]
    BY DEF ServedInv, ShapeInv, Stages
  <2> QED
    BY <2>1, <2>2, <2>3, <2>4 DEF TypeOK
<1> QED
  BY <1>1, ReadingInvariant, PTL

\* A search names no item twice and gives the best first; a neighbour with a positive
\* score comes after the hit that explains it, and no neighbour before such a hit that
\* is not negative (search.py, _expand and the sort after it): for every number of top
\* hits, of links for each and of hits asked for, every decay and all scores, those of
\* keyword hits with a negative similarity included.
THEOREM SearchExplains == Spec => []HitsExplained
<1>1. ServedInv => HitsExplained
  <2> SUFFICES ASSUME ServedInv, NEW r \in Reads, stage[r] = "answered",
                      NEW hits, hits = sees[r].hits, NEW n \in DOMAIN hits
               PROVE  /\ \A m \in 1..n - 1 : /\ hits[m].item # hits[n].item
                                             /\ hits[m].score >= hits[n].score
                      /\ hits[n].via # Nobody =>
                            /\ hits[n].score > 0 => \E m \in 1..n - 1 : hits[m].item = hits[n].via
                            /\ \A m \in DOMAIN hits :
                                  hits[m].item = hits[n].via /\ hits[m].score >= 0 => m < n
    BY DEF HitsExplained
  <2>1. HitsApart(hits) /\ HitsSorted(hits)
    BY DEF ServedInv, ReadInv, HitsOk
  <2> QED
    BY <2>1 DEF HitsApart, HitsSorted
<1> QED
  BY <1>1, ReadingInvariant, PTL

\* No order in which the database returns the links changes the graph: when similarity
\* has no direction, as the comment of routers/graph.py's get_graph says, the edges are
\* one for each linked pair, explicit if one of its links is, with the best score.
THEOREM GraphIsOfItsLinks ==
    ASSUME SimilaritySymmetric
    PROVE  Spec => []GraphOfAnyOrder
<1>1. Init => ServedInv /\ GraphInv
  BY ReadingInit
<1>2. ServedInv /\ GraphInv /\ [Next]_vars => (ServedInv /\ GraphInv)'
  BY ReadingNext DEF Keeps
<1>3. GraphInv => GraphOfAnyOrder
  <2> SUFFICES ASSUME GraphInv, NEW r \in Reads, stage[r] = "answered", Kind(r) = "graph"
               PROVE  LET joining(pair) == {l \in sees[r].rows : {l.from, l.to} = pair}
                      IN  /\ {e.pair : e \in sees[r].edges} = {{l.from, l.to} : l \in sees[r].rows}
                          /\ \A e, f \in sees[r].edges : e.pair = f.pair => e = f
                          /\ \A e \in sees[r].edges :
                                /\ e.explicit <=> \E l \in joining(e.pair) : l.explicit
                                /\ \E l \in joining(e.pair) : l.score = e.score
                                /\ \A l \in joining(e.pair) : l.score <= e.score
    BY DEF GraphOfAnyOrder
  <2>1. PICK rows : rows = sees[r].rows
    OBVIOUS
  <2>2. PICK edges : edges = sees[r].edges
    OBVIOUS
  <2>3. EdgesOf(edges, rows)
    BY <2>1, <2>2 DEF GraphInv, GraphOk
  <2> QED
    BY <2>1, <2>2, <2>3 DEF EdgesOf
<1> QED
  BY <1>1, <1>2, <1>3, PTL DEF Spec

\* The list of members decides (teams.py's user_team_groups, rbac.py's allowed_item_ids):
\* when grants decide and no others reach the team's space, who is no member while a
\* request is served gets none of its pages and none that was derived from them, and who
\* is one gets all its sources in a list, although the request reads its teams, its
\* grants and the items in statements of their own.
THEOREM MembersAndNoOthers ==
    ASSUME MembersOnly
    PROVE  Spec => []MembershipDecides
<1>1. Init => ServedInv /\ OutInv
  BY ReadingInit
<1>2. ServedInv /\ OutInv /\ [Next]_vars => (ServedInv /\ OutInv)'
  BY ReadingNext DEF Keeps
<1>3. ServedInv /\ OutInv => MembershipDecides
  <2> SUFFICES ASSUME ServedInv, OutInv, NEW r \in Reads, stage[r] = "answered",
                      ~ OutsideRights(Caller(r))
               PROVE  /\ sees[r].was = "out" => sees[r].items \intersect TeamPages = {}
                      /\ sees[r].was = "in" /\ Kind(r) \in {"list", "facets"} /\ Ask[r].space = Nobody =>
                            \A i \in published :
                                Items[i].space = TeamSpace /\ Items[i].acl = {} /\ Items[i].type = "source"
                                => i \in sees[r].items
    BY DEF MembershipDecides
  <2>1. PICK s : s = sees[r]
    OBVIOUS
  <2>2. /\ AllowedOk(Kind(r), Ask[r].item, "answered", s) /\ InOk(r, "answered", s, Here, published)
        /\ OutOk(r, "answered", s, Here)
    BY <2>1, Now
  <2>3. s.was = "out" => s.items \intersect TeamPages = {}
    BY <2>2 DEF AllowedOk, OutOk
  <2>4. s.was = "in" /\ Kind(r) \in {"list", "facets"} /\ Ask[r].space = Nobody =>
           \A i \in published : ForMembers(i) => i \in s.items
    BY <2>2 DEF InOk
  <2> QED
    BY <2>1, <2>3, <2>4 DEF ForMembers
<1> QED
  BY <1>1, <1>2, <1>3, PTL DEF Spec
===============================================================================

------------------------------ MODULE MCRetrieval ------------------------------
(* Instances of Retrieval for TLC.                                           *)
EXTENDS Retrieval, TLC

CONSTANTS org, team, commons, ann, eve,
          create, add, remove, again, facets, item, search, graph, archive, forAnn,
          bot, plan, note, guide, faq

OneOrg == [s \in {team, commons} |-> org]
NoProjects == [p \in {} |-> Nobody]
NoOwners == [s \in {team, commons} |-> Nobody]

\* Everybody may read the common space.
CommonsForAll == {Grant("group", Public, "viewer", Scope("space", commons))}

Asked(kind, with, i) == [kind |-> kind, with |-> with, space |-> Nobody, item |-> i]
AskedIn(ask, s) == [ask EXCEPT !.space = s]

\* A bot may speak for eve, but not for ann; eve herself has a token.
OneBot == bot :> [org |-> org, delegates |-> TRUE, domain |-> {eve}]
Token == Presented(eve, Nobody, Nobody)
ByBot(user) == Presented(Nobody, bot, user)
Chg(kind, by, for, role) == [kind |-> kind, by |-> by, for |-> for, role |-> role]

\* ann makes the team, adds eve as an admin, twice at a time, and removes her.
TeamChanges ==
    create :> Chg("create", ann, ann, "owner")
    @@ add :> Chg("add", ann, eve, "admin") @@ remove :> Chg("remove", ann, eve, "member")
    @@ again :> Chg("add", ann, eve, "admin")

EveReads ==
    facets :> Asked("facets", Token, guide) @@ item :> Asked("item", Token, note)
    @@ search :> Asked("search", ByBot(eve), guide)
    @@ graph :> AskedIn(Asked("graph", Token, guide), commons) @@ archive :> Asked("archive", Token, plan)
    @@ forAnn :> Asked("list", ByBot(ann), guide)

\* Archiving is the only request that changes what another one reads.
WithArchive == {{r, archive} : r \in DOMAIN EveReads}

Page(type, space, sources) ==
    [type |-> type, org |-> org, space |-> space, project |-> Nobody, acl |-> {}, sources |-> sources]

\* A plan of the team, a note derived from it, a guide and answers for all.
SomeItems ==
    plan :> Page("source", team, {}) @@ note :> Page("concept", commons, {plan})
    @@ guide :> Page("source", commons, {}) @@ faq :> Page("source", commons, {})

Link(i, j, explicit, score) == [from |-> i, to |-> j, explicit |-> explicit, score |-> score]

LinksAtFirst == {Link(guide, note, FALSE, 1), Link(guide, plan, FALSE, 2), Link(plan, note, FALSE, 1),
                 Link(guide, faq, FALSE, 1)}
LinksOfMirror == {Link(note, guide, TRUE, 2), Link(guide, plan, TRUE, 2)}

Keywords == plan :> 1 @@ note :> 0 @@ guide :> 1 @@ faq :> 0
\* The guide has the keyword, but is about something else.
Vectors == plan :> 0 @@ note :> 1 @@ guide :> -2 @@ faq :> 0
===============================================================================

------------------------------ MODULE AccessRules ------------------------------
(***************************************************************************)
(* Who may read, write and administer what: the grant walk of rbac.py, and *)
(* the two older services of auth.py, as functions of the rows that each   *)
(* one reads. Which rows those are, and when a request reads them, is the  *)
(* matter of the modules that use these operators.                         *)
(***************************************************************************)
EXTENDS Naturals

CONSTANTS
    AuthMode,       \* "rbac", "groups" or "open"
    SpaceOrg,       \* the organisation of each space
    ProjectSpace,   \* the space of each project
    OwnerOf,        \* the owner of each space, Nobody but for a personal one
    Dev,            \* env is "dev"
    DevUser,        \* the user "dev"
    Nobody          \* no user, no space, no project; and the user "anonymous"

ASSUME AuthAssumption ==
    /\ AuthMode \in {"rbac", "groups", "open"} /\ Dev \in BOOLEAN
    /\ DOMAIN OwnerOf = DOMAIN SpaceOrg
    /\ Nobody \notin DOMAIN SpaceOrg
    /\ \A p \in DOMAIN ProjectSpace : ProjectSpace[p] \in DOMAIN SpaceOrg

-----------------------------------------------------------------------------
(* Principals and grants *)

Public  == [kind |-> "public", id |-> Nobody]
Self(u) == [kind |-> "user", id |-> u]
Team(t) == [kind |-> "team", id |-> t]

\* A caller: a user or an app, with the roles and groups that its request declares,
\* and later those of its teams.
Principal(kind, id, groups) == [kind |-> kind, id |-> id, roles |-> {}, groups |-> groups]

Anonymous == Principal("user", Nobody, {})

\* In a development environment one user may do everything.
DevBackdoor(p) == Dev /\ p.kind = "user" /\ p.id = DevUser

\* A role of a user, a group or an app at an organisation, a space or a project.
Grant(kind, who, role, scope) == [kind |-> kind, who |-> who, role |-> role, scope |-> scope]

Scope(kind, id) == [kind |-> kind, id |-> id]

RoleRank == [viewer |-> 0, editor |-> 1, reviewer |-> 2, admin |-> 3]

RoleAtLeast(role, minimum) ==
    role \in DOMAIN RoleRank /\ RoleRank[role] >= RoleRank[minimum]

\* The groups that count for allowed_groups.
EffectiveGroups(p) ==
    p.groups \union {Public} \union (IF p.kind = "user" THEN {Self(p.id)} ELSE {})

\* The grants that are a caller's: the groups of users do count, but not the
\* group of oneself; an app has its own only.
MatchingGrants(p, grants) ==
    {g \in grants :
        \/ p.kind = "app" /\ g.kind = "app" /\ g.who = p.id
        \/ p.kind = "user" /\ g.kind = "user" /\ g.who = p.id
        \/ p.kind # "app" /\ g.kind = "group" /\ g.who \in p.groups \union {Public}}

-----------------------------------------------------------------------------
(* Writing *)

\* The grant is given at the scope or above it.
CoversScope(g, scope) ==
    \/ g.scope = scope
    \/ scope.kind = "space" /\ g.scope = Scope("org", SpaceOrg[scope.id])
    \/ /\ scope.kind = "project"
       /\ LET s == ProjectSpace[scope.id]
          IN  g.scope \in {Scope("space", s), Scope("org", SpaceOrg[s])}

HasGrantAtLeast(p, minimum, scope, grants) ==
    \E g \in MatchingGrants(p, grants) : RoleAtLeast(g.role, minimum) /\ CoversScope(g, scope)

\* The service of the group mode looks at roles only.
GroupCanWrite(p) == "reviewer" \in p.roles \/ DevBackdoor(p)

RbacCanWrite(p, scope, grants) ==
    \/ p.roles \intersect {"editor", "reviewer", "admin"} # {}
    \/ DevBackdoor(p)
    \/ HasGrantAtLeast(p, "editor", scope, grants)

CanWrite(p, scope, grants) ==
    CASE AuthMode = "rbac"   -> RbacCanWrite(p, scope, grants)
      [] AuthMode = "groups" -> GroupCanWrite(p)
      [] AuthMode = "open"   -> TRUE

CanAdmin(p, scope, grants) ==
    \/ "admin" \in p.roles \/ DevBackdoor(p)
    \/ AuthMode = "rbac" /\ HasGrantAtLeast(p, "admin", scope, grants)

-----------------------------------------------------------------------------
(* Reading *)

\* An item as the readers see it: [type, org, space, project, acl, sources].
Admitted(item, grants) ==
    \E g \in grants :
        /\ RoleAtLeast(g.role, "viewer")
        /\ g.scope \in {Scope("org", item.org), Scope("space", item.space),
                        Scope("project", item.project)}

PersonalOk(item, p) ==
    item.space \in DOMAIN OwnerOf => OwnerOf[item.space] \in {Nobody, p.id}

SourceVisible(item, p) == item.acl = {} \/ item.acl \intersect EffectiveGroups(p) # {}

\* Variant: a source that is not among the rows does not count.
VisibleOf_IgnoresMissing(rows, p) ==
    LET sources == {i \in DOMAIN rows : rows[i].type = "source" /\ SourceVisible(rows[i], p)}
    IN  sources \union {i \in DOMAIN rows :
            rows[i].type # "source" /\ rows[i].sources \intersect DOMAIN rows \subseteq sources}

\* A source is visible by its own groups; a derived page when all of its sources
\* are, and are among the rows.
VisibleOf(rows, p) ==
    LET sources == {i \in DOMAIN rows : rows[i].type = "source" /\ SourceVisible(rows[i], p)}
    IN  sources \union {i \in DOMAIN rows : rows[i].type # "source" /\ rows[i].sources \subseteq sources}

\* The grants admit first; a source that they do not cover hides what was derived
\* from it.
RbacItems(p, grants, rows) ==
    LET covered == {i \in DOMAIN rows : Admitted(rows[i], grants) /\ PersonalOk(rows[i], p)}
    IN  VisibleOf([i \in covered |-> rows[i]], p)

\* allowed_item_ids of the service that get_authz chooses, from the grants read
\* first and the published rows read next.
AllowedItems(p, grants, rows) ==
    CASE AuthMode = "rbac"   -> RbacItems(p, grants, rows)
      [] AuthMode = "groups" -> VisibleOf(rows, p)
      [] AuthMode = "open"   -> DOMAIN rows
=============================================================================

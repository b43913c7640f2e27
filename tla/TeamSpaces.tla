------------------------------ MODULE TeamSpaces ------------------------------
(***************************************************************************)
(* A team, its members and the grants at its space: routers/teams.py and   *)
(* teams.py. Each request runs in a thread of its own with one READ        *)
(* COMMITTED transaction; can_admin reads the grants in another session,   *)
(* before. What a transaction deletes it keeps locked until it ends, and   *)
(* an insert with the same unique key waits for that.                      *)
(***************************************************************************)
EXTENDS AccessRules, FiniteSets

CONSTANTS
    Changes,        \* the requests that change the team
    Change,         \* what each one asks for: its kind, by whom, for whom, the role
    TeamSlug,       \* the team
    TeamSpace,      \* its space
    SeededGrants    \* the grants that are there before

ASSUME TeamAssumption ==
    /\ IsFiniteSet(Changes)
    /\ TeamSpace \in DOMAIN SpaceOrg /\ OwnerOf[TeamSpace] = Nobody
    /\ \A c \in Changes :
        /\ Change[c].kind \in {"create", "add", "remove"}
        /\ Change[c].kind # "create" => Change[c].by # Change[c].for \/ Change[c].kind = "remove"
        /\ Change[c].role \in {"owner", "admin", "member", "viewer"}

VARIABLES
    created,    \* the team is there, with its space and its group's grant
    members,    \* memberships of the team: the row's number, the user, the role
    inserts,    \* the number of memberships inserted so far
    admins,     \* the users' admin grants at the space, by the row they came with
    step,       \* where each request stands
    found       \* what each removal has found to delete

teamVars == <<created, members, inserts, admins, step, found>>

-----------------------------------------------------------------------------
(* State *)

Membership(n, user, role) == [row |-> n, user |-> user, role |-> role]
AdminGrant(n, user) == [row |-> n, user |-> user]

\* role_grants.
Grants ==
    SeededGrants
    \union (IF created THEN {Grant("group", Team(TeamSlug), "editor", Scope("space", TeamSpace))} ELSE {})
    \union {Grant("user", a.user, "admin", Scope("space", TeamSpace)) : a \in admins}

By(c)     == Change[c].by
For(c)    == Change[c].for
People    == UNION {{By(c), For(c)} : c \in Changes}
NoRow     == 0
Settled   == {"done", "refused", "failed"}

IsMember(u) == \E m \in members : m.user = u

RowsOf(u) == {m \in members : m.user = u}

TeamTypeOK ==
    /\ created \in BOOLEAN
    /\ inserts \in 0..Cardinality(Changes)
    /\ members \subseteq [row : 1..inserts, user : People, role : {"owner", "admin", "member", "viewer"}]
    /\ \A m, n \in members : m.user = n.user => m = n
    /\ admins \subseteq [row : 1..inserts, user : People]
    /\ \A a, b \in admins : a.user = b.user => a = b
    /\ step \in [Changes -> {"new", "member", "insert", "find", "drop", "commit"} \union Settled]
    /\ found \in [Changes -> [member : 0..inserts, admin : 0..inserts]]

TeamInit ==
    /\ created = FALSE
    /\ members = {}
    /\ inserts = 0
    /\ admins = {}
    /\ step = [c \in Changes |-> "new"]
    /\ found = [c \in Changes |-> [member |-> NoRow, admin |-> NoRow]]

Go(c, to) == step' = [step EXCEPT ![c] = to]

\* Another transaction has deleted this user's membership and not ended yet.
Deleting(c, u) ==
    \E d \in Changes \ {c} : step[d] = "commit" /\ \E m \in members : m.row = found[d].member /\ m.user = u

-----------------------------------------------------------------------------
(* Creating the team *)

\* One transaction; who loses the race for the slug gets a 409.
CreateTeam(c) ==
    /\ step[c] = "new" /\ Change[c].kind = "create"
    /\ IF created
       THEN /\ Go(c, "refused")
            /\ UNCHANGED <<created, members, inserts, admins>>
       ELSE /\ Go(c, "done")
            /\ created' = TRUE
            /\ inserts' = inserts + 1
            /\ members' = {Membership(inserts + 1, By(c), "owner")}
            /\ admins' = {AdminGrant(inserts + 1, By(c))}
    /\ UNCHANGED found

-----------------------------------------------------------------------------
(* Adding and removing a member *)

\* A team there is not is a 404, a caller who may not administer it a 403.
CheckAdmin(c) ==
    /\ step[c] = "new" /\ Change[c].kind \in {"add", "remove"}
    /\ Go(c, IF ~ created \/ ~ CanAdmin(Principal("user", By(c), {}), Scope("space", TeamSpace), Grants)
             THEN "refused"
             ELSE IF Change[c].kind = "add" THEN "member" ELSE "find")
    /\ UNCHANGED <<created, members, inserts, admins, found>>

CheckMember(c) ==
    /\ step[c] = "member"
    /\ Go(c, IF IsMember(For(c)) THEN "refused" ELSE "insert")
    /\ UNCHANGED <<created, members, inserts, admins, found>>

\* Variant: an add that fails is not undone.
InsertMember_NotUndone(c) ==
    /\ step[c] = "insert"
    /\ ~ Deleting(c, For(c))
    /\ inserts' = inserts + 1
    /\ admins' = IF Change[c].role = "admin"
                 THEN admins \union {AdminGrant(inserts + 1, For(c))} ELSE admins
    /\ IF IsMember(For(c))
       THEN /\ Go(c, "failed")
            /\ UNCHANGED members
       ELSE /\ Go(c, "done")
            /\ members' = members \union {Membership(inserts + 1, For(c), Change[c].role)}
    /\ UNCHANGED <<created, found>>

\* The commit of the membership, with the grant of an admin. When the user has
\* become a member meanwhile, the unique key makes it fail, with a 500.
InsertMember(c) ==
    /\ step[c] = "insert"
    /\ ~ Deleting(c, For(c))
    /\ IF IsMember(For(c))
       THEN /\ Go(c, "failed")
            /\ UNCHANGED <<members, inserts, admins>>
       ELSE /\ Go(c, "done")
            /\ inserts' = inserts + 1
            /\ members' = members \union {Membership(inserts + 1, For(c), Change[c].role)}
            /\ admins' = IF Change[c].role = "admin"
                         THEN admins \union {AdminGrant(inserts + 1, For(c))} ELSE admins
    /\ UNCHANGED <<created, found>>

FindMember(c) ==
    /\ step[c] = "find"
    /\ IF IsMember(For(c))
       THEN /\ Go(c, "drop")
            /\ found' = [found EXCEPT ![c].member = (CHOOSE m \in RowsOf(For(c)) : TRUE).row]
       ELSE /\ Go(c, "refused")
            /\ UNCHANGED found
    /\ UNCHANGED <<created, members, inserts, admins>>

\* The delete is flushed when the grant is looked up: it waits for another one's
\* delete of the row, and goes on without it when the row is gone.
DropMember(c) ==
    /\ step[c] = "drop"
    /\ \A d \in Changes \ {c} : step[d] = "commit" => found[d].member # found[c].member
    /\ Go(c, "commit")
    /\ IF \E a \in admins : a.user = For(c)
       THEN found' = [found EXCEPT ![c].admin = (CHOOSE a \in admins : a.user = For(c)).row]
       ELSE UNCHANGED found
    /\ UNCHANGED <<created, members, inserts, admins>>

\* Variant: the grant of an admin outlives the membership.
CommitRemoval_KeepsGrant(c) ==
    /\ step[c] = "commit"
    /\ members' = {m \in members : m.row # found[c].member}
    /\ Go(c, "done")
    /\ UNCHANGED <<created, inserts, admins, found>>

\* The membership and the grant that were found go, if they are still there.
CommitRemoval(c) ==
    /\ step[c] = "commit"
    /\ members' = {m \in members : m.row # found[c].member}
    /\ admins' = {a \in admins : a.row # found[c].admin}
    /\ Go(c, "done")
    /\ UNCHANGED <<created, inserts, found>>

ChangeTeam(c) ==
    \/ CreateTeam(c) \/ CheckAdmin(c) \/ CheckMember(c) \/ InsertMember(c)
    \/ FindMember(c) \/ DropMember(c) \/ CommitRemoval(c)

TeamNext == \E c \in Changes : ChangeTeam(c)

TeamSpec == TeamInit /\ [][TeamNext]_teamVars

-----------------------------------------------------------------------------
(* Property *)

\* However adding and removing overlap, who has an admin's grant at the space is a
\* member: a removal leaves no right behind that the list of members does not show.
AdminsAreMembers == \A a \in admins : IsMember(a.user)
=============================================================================

--------------------------- MODULE TeamSpacesProofs ---------------------------
(***************************************************************************)
(* Proofs about TeamSpaces, for every set of requests and every seeding of *)
(* grants.                                                                 *)
(*                                                                         *)
(* AdminsAreMembers is not inductive: a removal deletes what it has found  *)
(* two statements before.  TeamInv ties what was found to what is there:   *)
(* an admin's grant came with a membership that is there, and as long as   *)
(* the membership a removal has found is, the grant it has found is the    *)
(* grant of that user.                                                     *)
(***************************************************************************)
EXTENDS TeamSpaces, FiniteSetTheorems, TLAPS

Steps == {"new", "member", "insert", "find", "drop", "commit"} \union Settled

\* The requests that have inserted a membership.
Inserted == {c \in Changes : step[c] = "done" /\ Change[c].kind # "remove"}

\* Every step is one of the request's kind; members are added to a team there is.
KindInv ==
    \A c \in Changes :
        /\ step[c] \in {"member", "insert"} => Change[c].kind = "add" /\ created
        /\ step[c] \in {"find", "drop", "commit"} => Change[c].kind = "remove"

\* Rows are numbered, and there are none without the team.
RowsInv ==
    /\ inserts = Cardinality(Inserted)
    /\ ~ created => members = {} /\ admins = {}
    /\ \A m, n \in members : m.row = n.row => m = n

\* An admin's grant came with a membership that is there.
AdminsInv == \A a \in admins : \E m \in members : m.row = a.row /\ m.user = a.user

\* What a removal has found.
FoundInv ==
    \A c \in Changes : step[c] \in {"drop", "commit"} =>
        /\ found[c].member \in 1..inserts
        /\ \A m \in members : m.row = found[c].member =>
              /\ m.user = For(c)
              /\ step[c] = "commit" => \A a \in admins : a.user = For(c) => a.row = found[c].admin

TeamInv == TeamTypeOK /\ KindInv /\ RowsInv /\ AdminsInv /\ FoundInv

-----------------------------------------------------------------------------
(* The counting of memberships.                                            *)

LEMMA SomeChanges ==
    ASSUME NEW S \in SUBSET Changes
    PROVE  /\ IsFiniteSet(S)
           /\ Cardinality(Changes) \in Nat
           /\ Cardinality(S) \in 0..Cardinality(Changes)
<1>1. IsFiniteSet(Changes)
  BY TeamAssumption
<1>2. IsFiniteSet(S) /\ Cardinality(S) <= Cardinality(Changes)
  BY <1>1, FS_Subset
<1>3. Cardinality(Changes) \in Nat /\ Cardinality(S) \in Nat
  BY <1>1, <1>2, FS_CardinalityType
<1> QED
  BY <1>2, <1>3

\* A request that inserts a membership is counted, once.
LEMMA OneMoreInserted ==
    ASSUME NEW c \in Changes, step \in [Changes -> Steps], step[c] # "done",
           Change[c].kind # "remove", Go(c, "done")
    PROVE  Cardinality(Inserted') = Cardinality(Inserted) + 1
<1>1. Inserted' = Inserted \union {c}
  BY DEF Inserted, Go
<1>2. c \notin Inserted
  BY DEF Inserted
<1> QED
  BY <1>1, <1>2, SomeChanges, FS_AddElement DEF Inserted

\* Any other step of a request counts nothing.
LEMMA NoneInserted ==
    ASSUME NEW c \in Changes, NEW to, step \in [Changes -> Steps], step[c] # "done",
           to # "done" \/ Change[c].kind = "remove", Go(c, to)
    PROVE  Inserted' = Inserted
BY DEF Inserted, Go

LEMMA StepString ==
    ASSUME TeamTypeOK
    PROVE  step \in [Changes -> Steps] /\ inserts \in Nat
<1>1. Cardinality(Changes) \in Nat
  BY SomeChanges
<1>2. inserts \in Nat
  BY <1>1 DEF TeamTypeOK
<1>3. step \in [Changes -> Steps]
  BY DEF TeamTypeOK, Steps
<1> QED
  BY <1>2, <1>3

-----------------------------------------------------------------------------
(* The invariant.                                                          *)

LEMMA InitInv == TeamInit => TeamInv
<1> SUFFICES ASSUME TeamInit PROVE TeamInv
  OBVIOUS
<1>1. Inserted = {}
  BY DEF TeamInit, Inserted
<1>2. inserts = Cardinality(Inserted)
  BY <1>1, FS_EmptySet DEF TeamInit
<1>3. 0 \in 0..Cardinality(Changes)
  BY SomeChanges
<1>4. step \in [Changes -> Steps]
  BY DEF TeamInit, Steps
<1>5. found \in [Changes -> [member : 0..inserts, admin : 0..inserts]]
  BY DEF TeamInit, NoRow
<1>6. TeamTypeOK
  BY <1>3, <1>4, <1>5 DEF TeamInit, TeamTypeOK, Steps
<1> QED
  BY <1>2, <1>6 DEF TeamInit, TeamInv, KindInv, RowsInv, AdminsInv, FoundInv

\* One request gets a membership, and an admin the grant: the shape that the
\* creation of the team and an add have in common.
LEMMA InsertKeepsInv ==
    ASSUME TeamInv, NEW c \in Changes, NEW u \in People,
           NEW role \in {"owner", "admin", "member", "viewer"},
           ~ IsMember(u), step[c] \in {"new", "insert"},
           Change[c].kind # "remove",
           created' \in BOOLEAN, created',
           inserts' = inserts + 1,
           members' = members \union {Membership(inserts + 1, u, role)},
           admins' \in {admins, admins \union {AdminGrant(inserts + 1, u)}},
           Go(c, "done"), UNCHANGED found
    PROVE  TeamInv'
<1> DEFINE new == Membership(inserts + 1, u, role)
<1>1. step \in [Changes -> Steps] /\ inserts \in Nat /\ step[c] # "done"
  BY StepString DEF TeamInv
<1>2. inserts' = Cardinality(Inserted')
  BY <1>1, OneMoreInserted DEF TeamInv, RowsInv
<1>3. inserts' \in 0..Cardinality(Changes)
  <2>1. Cardinality(Inserted') \in 0..Cardinality(Changes)
    BY SomeChanges DEF Inserted
  <2> QED
    BY <2>1, <1>2
<1>4. \A m \in members : m.row \in 1..inserts /\ m.user # u
  BY DEF TeamInv, TeamTypeOK, IsMember
<1>5. \A a \in admins : a.row \in 1..inserts /\ a.user # u
  BY <1>4 DEF TeamInv, TeamTypeOK, AdminsInv
<1>6. new.row = inserts + 1 /\ new.user = u /\ new.role = role
  BY DEF Membership
<1>7. TeamTypeOK'
  <2>1. members' \subseteq [row : 1..inserts', user : People, role : {"owner", "admin", "member", "viewer"}]
    BY <1>1 DEF TeamInv, TeamTypeOK, Membership
  <2>2. admins' \subseteq [row : 1..inserts', user : People]
    BY <1>1 DEF TeamInv, TeamTypeOK, AdminGrant
  <2>3. \A m, n \in members' : m.user = n.user => m = n
    BY <1>4, <1>6 DEF TeamInv, TeamTypeOK
  <2>4. \A a, b \in admins' : a.user = b.user => a = b
    BY <1>5 DEF TeamInv, TeamTypeOK, AdminGrant
  <2>5. step' \in [Changes -> Steps]
    BY <1>1 DEF Go, Steps, Settled
  <2>6. found' \in [Changes -> [member : 0..inserts', admin : 0..inserts']]
    BY <1>1 DEF TeamInv, TeamTypeOK
  <2> QED
    BY <1>3, <2>1, <2>2, <2>3, <2>4, <2>5, <2>6 DEF TeamTypeOK, Steps
<1>8. KindInv'
  BY DEF TeamInv, TeamTypeOK, KindInv, Go
<1>9. RowsInv'
  <2>1. \A m, n \in members' : m.row = n.row => m = n
    BY <1>1, <1>4, <1>6 DEF TeamInv, RowsInv
  <2> QED
    BY <1>2, <2>1 DEF RowsInv
<1>10. AdminsInv'
  BY <1>6 DEF TeamInv, AdminsInv, AdminGrant
<1>11. FoundInv'
  <2> SUFFICES ASSUME NEW d \in Changes, step'[d] \in {"drop", "commit"}
               PROVE  /\ found[d].member \in 1..inserts'
                      /\ \A m \in members' : m.row = found[d].member =>
                            /\ m.user = For(d)
                            /\ step'[d] = "commit" => \A a \in admins' : a.user = For(d) => a.row = found[d].admin
    BY DEF FoundInv, For
  <2>1. d # c /\ step'[d] = step[d]
    BY DEF TeamInv, TeamTypeOK, Go
  <2>2. found[d].member \in 1..inserts
    BY <2>1 DEF TeamInv, FoundInv
  <2>3. \A m \in members' : m.row = found[d].member => m \in members
    BY <1>1, <1>6, <2>2
  <2>4. \A m \in members : m.row = found[d].member => For(d) # u
    BY <1>4, <2>1 DEF TeamInv, FoundInv
  <2>5. \A a \in admins' : a.user # u => a \in admins
    BY DEF AdminGrant
  <2> QED
    BY <1>1, <2>1, <2>2, <2>3, <2>4, <2>5 DEF TeamInv, FoundInv
<1> QED
  BY <1>7, <1>8, <1>9, <1>10, <1>11 DEF TeamInv

\* A step that changes nothing but where a request stands, and does not bring it to
\* a deletion.
LEMMA WaitKeepsInv ==
    ASSUME TeamInv, NEW c \in Changes,
           NEW to \in {"member", "insert", "find", "refused", "failed"},
           step[c] \in {"new", "member", "insert", "find"},
           to \in {"member", "insert"} => Change[c].kind = "add" /\ created,
           to = "find" => Change[c].kind = "remove",
           Go(c, to), UNCHANGED <<created, members, inserts, admins, found>>
    PROVE  TeamInv'
<1>1. Inserted' = Inserted
  BY StepString, NoneInserted DEF TeamInv
<1>2. TeamTypeOK'
  BY DEF TeamInv, TeamTypeOK, Go, Settled
<1>3. KindInv'
  BY DEF TeamInv, TeamTypeOK, KindInv, Go
<1>4. RowsInv' /\ AdminsInv'
  BY <1>1 DEF TeamInv, RowsInv, AdminsInv
<1>5. FoundInv'
  BY DEF TeamInv, TeamTypeOK, FoundInv, For, Go
<1> QED
  BY <1>2, <1>3, <1>4, <1>5 DEF TeamInv

LEMMA CreateTeamInv ==
    ASSUME TeamInv, NEW c \in Changes, CreateTeam(c)
    PROVE  TeamInv'
<1>1. CASE created
  BY <1>1, WaitKeepsInv DEF CreateTeam
<1>2. CASE ~ created
  <2>1. members = {} /\ admins = {}
    BY <1>2 DEF TeamInv, RowsInv
  <2>2. ~ IsMember(By(c)) /\ By(c) \in People
    BY <2>1 DEF IsMember, People
  <2> QED
    BY <1>2, <2>1, <2>2, InsertKeepsInv DEF CreateTeam
<1> QED
  BY <1>1, <1>2

LEMMA InsertMemberInv ==
    ASSUME TeamInv, NEW c \in Changes, InsertMember(c)
    PROVE  TeamInv'
<1>1. step[c] = "insert" /\ Change[c].kind = "add"
  BY DEF InsertMember, TeamInv, KindInv
<1>2. CASE IsMember(For(c))
  BY <1>1, <1>2, WaitKeepsInv DEF InsertMember
<1>3. CASE ~ IsMember(For(c))
  <2>1. For(c) \in People /\ Change[c].role \in {"owner", "admin", "member", "viewer"}
    BY TeamAssumption DEF People
  <2>2. created
    BY <1>1 DEF TeamInv, KindInv
  <2> QED
    BY <1>1, <1>3, <2>1, <2>2, InsertKeepsInv DEF InsertMember
<1> QED
  BY <1>2, <1>3

LEMMA CheckAdminInv ==
    ASSUME TeamInv, NEW c \in Changes, CheckAdmin(c)
    PROVE  TeamInv'
<1>1. CASE ~ created \/ ~ CanAdmin(Principal("user", By(c), {}), Scope("space", TeamSpace), Grants)
  BY <1>1, WaitKeepsInv DEF CheckAdmin
<1>2. CASE ~ (~ created \/ ~ CanAdmin(Principal("user", By(c), {}), Scope("space", TeamSpace), Grants))
  <2>1. CASE Change[c].kind = "add"
    BY <1>2, <2>1, WaitKeepsInv DEF CheckAdmin
  <2>2. CASE Change[c].kind = "remove"
    BY <1>2, <2>2, WaitKeepsInv DEF CheckAdmin
  <2> QED
    BY <2>1, <2>2 DEF CheckAdmin
<1> QED
  BY <1>1, <1>2

LEMMA CheckMemberInv ==
    ASSUME TeamInv, NEW c \in Changes, CheckMember(c)
    PROVE  TeamInv'
<1>1. Change[c].kind = "add" /\ created
  BY DEF CheckMember, TeamInv, KindInv
<1>2. CASE IsMember(For(c))
  BY <1>1, <1>2, WaitKeepsInv DEF CheckMember
<1>3. CASE ~ IsMember(For(c))
  BY <1>1, <1>3, WaitKeepsInv DEF CheckMember
<1> QED
  BY <1>2, <1>3

\* A removal finds the one membership of its user.
LEMMA FindMemberInv ==
    ASSUME TeamInv, NEW c \in Changes, FindMember(c)
    PROVE  TeamInv'
<1>1. step[c] = "find" /\ Change[c].kind = "remove"
  BY DEF FindMember, TeamInv, KindInv
<1>2. CASE ~ IsMember(For(c))
  BY <1>1, <1>2, WaitKeepsInv DEF FindMember
<1>3. CASE IsMember(For(c))
  <2> DEFINE m0 == CHOOSE m \in RowsOf(For(c)) : TRUE
  <2>1. m0 \in members /\ m0.user = For(c)
    BY <1>3 DEF IsMember, RowsOf
  <2>2. m0.row \in 1..inserts
    BY <2>1 DEF TeamInv, TeamTypeOK
  <2>3. found' = [found EXCEPT ![c].member = m0.row] /\ Go(c, "drop")
    BY <1>3 DEF FindMember
  <2> HIDE DEF m0
  <2>4. inserts \in Nat
    BY StepString DEF TeamInv
  <2>5. found'[c].member = m0.row /\ \A d \in Changes \ {c} : found'[d] = found[d]
    BY <2>3 DEF TeamInv, TeamTypeOK
  <2>6. TeamTypeOK'
    BY <2>2, <2>3, <2>4 DEF TeamInv, TeamTypeOK, Go, FindMember
  <2>7. KindInv'
    BY <1>1, <2>3 DEF TeamInv, TeamTypeOK, KindInv, Go, FindMember
  <2>8. RowsInv' /\ AdminsInv'
    <3>1. Inserted' = Inserted
      BY <1>1, <2>3, StepString, NoneInserted DEF TeamInv
    <3> QED
      BY <3>1 DEF TeamInv, RowsInv, AdminsInv, FindMember
  <2>9. FoundInv'
    <3>1. \A m \in members : m.row = m0.row => m.user = For(c)
      BY <2>1 DEF TeamInv, RowsInv
    <3>2. step'[c] = "drop" /\ \A d \in Changes \ {c} : step'[d] = step[d]
      BY <2>3 DEF TeamInv, TeamTypeOK, Go
    <3> QED
      BY <2>2, <2>5, <3>1, <3>2 DEF TeamInv, FoundInv, For, FindMember
  <2> QED
    BY <2>6, <2>7, <2>8, <2>9 DEF TeamInv
<1> QED
  BY <1>2, <1>3

\* With its delete a removal finds the admin's grant of its user, if there is one.
LEMMA DropMemberInv ==
    ASSUME TeamInv, NEW c \in Changes, DropMember(c)
    PROVE  TeamInv'
<1>1. step[c] = "drop" /\ Change[c].kind = "remove" /\ Go(c, "commit")
  BY DEF DropMember, TeamInv, KindInv
<1>2. inserts \in Nat
  BY StepString DEF TeamInv
<1>3. /\ found' \in [Changes -> [member : 0..inserts, admin : 0..inserts]]
      /\ \A d \in Changes \ {c} : found'[d] = found[d]
      /\ found'[c].member = found[c].member
      /\ \A a \in admins : a.user = For(c) => a.row = found'[c].admin
  <2>1. CASE \E a \in admins : a.user = For(c)
    <3> DEFINE a0 == CHOOSE a \in admins : a.user = For(c)
    <3>1. a0 \in admins /\ a0.user = For(c)
      BY <2>1
    <3>2. a0.row \in 1..inserts /\ \A a \in admins : a.user = For(c) => a = a0
      BY <3>1 DEF TeamInv, TeamTypeOK
    <3>3. found' = [found EXCEPT ![c].admin = a0.row]
      BY <2>1 DEF DropMember
    <3> HIDE DEF a0
    <3> QED
      BY <1>2, <3>2, <3>3 DEF TeamInv, TeamTypeOK
  <2>2. CASE ~ \E a \in admins : a.user = For(c)
    BY <2>2 DEF DropMember, TeamInv, TeamTypeOK
  <2> QED
    BY <2>1, <2>2
<1>4. TeamTypeOK'
  BY <1>1, <1>3 DEF TeamInv, TeamTypeOK, Go, DropMember
<1>5. KindInv'
  BY <1>1 DEF TeamInv, TeamTypeOK, KindInv, Go, DropMember
<1>6. RowsInv' /\ AdminsInv'
  <2>1. Inserted' = Inserted
    BY <1>1, StepString, NoneInserted DEF TeamInv
  <2> QED
    BY <2>1 DEF TeamInv, RowsInv, AdminsInv, DropMember
<1>7. FoundInv'
  <2>1. step'[c] = "commit" /\ \A d \in Changes \ {c} : step'[d] = step[d]
    BY <1>1 DEF TeamInv, TeamTypeOK, Go
  <2>2. UNCHANGED <<members, admins, inserts>>
    BY DEF DropMember
  <2> QED
    BY <1>1, <1>3, <2>1, <2>2 DEF TeamInv, FoundInv, For
<1> QED
  BY <1>4, <1>5, <1>6, <1>7 DEF TeamInv

\* The grant that came with the membership which goes, goes with it.
LEMMA CommitRemovalInv ==
    ASSUME TeamInv, NEW c \in Changes, CommitRemoval(c)
    PROVE  TeamInv'
<1>1. step[c] = "commit" /\ Change[c].kind = "remove" /\ Go(c, "done")
  BY DEF CommitRemoval, TeamInv, KindInv
<1>2. members' \subseteq members /\ admins' \subseteq admins
  BY DEF CommitRemoval
<1>3. TeamTypeOK'
  BY <1>1, <1>2 DEF TeamInv, TeamTypeOK, Go, Settled, CommitRemoval
<1>4. KindInv'
  BY <1>1 DEF TeamInv, TeamTypeOK, KindInv, Go, CommitRemoval
<1>5. RowsInv'
  <2>1. Inserted' = Inserted
    BY <1>1, StepString, NoneInserted DEF TeamInv
  <2> QED
    BY <1>2, <2>1 DEF TeamInv, RowsInv, CommitRemoval
<1>6. AdminsInv'
  <2> SUFFICES ASSUME NEW a \in admins'
               PROVE  \E m \in members' : m.row = a.row /\ m.user = a.user
    BY DEF AdminsInv
  <2>1. PICK m \in members : m.row = a.row /\ m.user = a.user
    BY <1>2 DEF TeamInv, AdminsInv
  <2>2. a \in admins /\ a.row # found[c].admin
    BY DEF CommitRemoval
  <2>3. m.row # found[c].member
    BY <1>1, <2>1, <2>2 DEF TeamInv, FoundInv
  <2> QED
    BY <2>1, <2>3 DEF CommitRemoval
<1>7. FoundInv'
  <2>1. \A d \in Changes : step'[d] \in {"drop", "commit"} => step'[d] = step[d]
    BY <1>1 DEF TeamInv, TeamTypeOK, Go
  <2> QED
    BY <1>2, <2>1 DEF TeamInv, FoundInv, For, CommitRemoval
<1> QED
  BY <1>3, <1>4, <1>5, <1>6, <1>7 DEF TeamInv

LEMMA StutterInv == TeamInv /\ UNCHANGED teamVars => TeamInv'
<1> SUFFICES ASSUME TeamInv, UNCHANGED teamVars PROVE TeamInv'
  OBVIOUS
<1>1. Inserted' = Inserted
  BY DEF Inserted, teamVars
<1> QED
  BY <1>1 DEF TeamInv, TeamTypeOK, KindInv, RowsInv, AdminsInv, FoundInv, For, teamVars

LEMMA TeamNextInv == TeamInv /\ [TeamNext]_teamVars => TeamInv'
<1> SUFFICES ASSUME TeamInv, [TeamNext]_teamVars PROVE TeamInv'
  OBVIOUS
<1>1. ASSUME NEW c \in Changes, ChangeTeam(c) PROVE TeamInv'
  BY <1>1, CreateTeamInv, CheckAdminInv, CheckMemberInv, InsertMemberInv,
     FindMemberInv, DropMemberInv, CommitRemovalInv DEF ChangeTeam
<1> QED
  BY <1>1, StutterInv DEF TeamNext

\* The rows that requests of routers/teams.py have found, inserted or deleted and
\* not yet committed agree with the tables (the parts of TeamInv).
THEOREM TeamInvariant == TeamSpec => []TeamInv
BY InitInv, TeamNextInv, PTL DEF TeamSpec

-----------------------------------------------------------------------------
(* The properties.                                                         *)

\* However requests that create the team, add and remove members overlap, the
\* tables keep their types and unique keys (routers/teams.py, teams.py).
THEOREM TeamTypes == TeamSpec => []TeamTypeOK
<1>1. TeamInv => TeamTypeOK
  BY DEF TeamInv
<1> QED
  BY <1>1, TeamInvariant, PTL

\* No removal, in whatever order its statements meet those of other requests,
\* leaves an admin's grant without the membership it came with (remove_member).
THEOREM AdminsStayMembers == TeamSpec => []AdminsAreMembers
<1>1. TeamInv => AdminsAreMembers
  BY DEF TeamInv, AdminsInv, AdminsAreMembers, IsMember
<1> QED
  BY <1>1, TeamInvariant, PTL
===============================================================================

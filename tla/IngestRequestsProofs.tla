------------------------- MODULE IngestRequestsProofs -------------------------
(***************************************************************************)
(* The inductive invariant of IngestRequests, for every set of requests,   *)
(* users and API processes and every bound, and that each of its steps     *)
(* preserves it.  IngestPipelineProofs uses it for the whole pipeline.     *)
(*                                                                         *)
(* What a request has read is stale when it writes: the invariant relates  *)
(* what it has read to the tables as they are now (Local), the spaces that *)
(* two of them have inserted and not committed (Apart), and the rows to    *)
(* what was there when their requests were sent (RowsInv).                 *)
(***************************************************************************)
EXTENDS IngestRequests, FiniteSetTheorems, SequenceTheorems, TLAPS

Steps == {"new", "dedup"} \union Busy \union Awaiting \union Answered

\* Before the row of the current document is there.
BeforeCommit == {"new", "dedup", "reading"} \union Busy

\* A space may be inserted and not committed in these steps.
Holding == {"cap", "read", "reading", "validate", "source", "dedup", "commit"}

Mine == [k : Nat, space : Space \union {NoOne}, new : BOOLEAN, src : BOOLEAN, seen : Nat, row : Nat]

Types ==
    /\ raw \in Seq(Row)
    /\ spaces \subseteq Space
    /\ sources \in [Names -> Nat]
    /\ pc \in [Requests -> Steps]
    /\ mine \in [Requests -> Mine]
    /\ aged \in 0..Len(raw)

\* The rows the cap counts that were there when the request was sent.
Counted(s, u, n) == {d \in InWindow(s, u) : d <= n}

\* The latest row of this document, if it has this content, is newer than n.
FreshAfter(n, doc) ==
    \A d \in DOMAIN raw :
        /\ raw[d].doc = doc
        /\ \A c \in d + 1..Len(raw) : raw[c].doc.id # doc.id
        => n < d

\* What request r, in step p, has found and written.
Local(r, p, m) ==
    /\ m.k \in DOMAIN Req[r].docs /\ m.row <= Len(raw) /\ m.seen <= Len(raw)
    /\ p \in {"read", "reading", "validate", "source", "stamp"} => IsUpload(r)
    /\ p = "dedup" => ~ IsUpload(r)
    /\ p = "new" => m.space = NoOne
    /\ p = "insert" => m.space \in Space /\ m.space.owner = User(r)
    /\ m.new => /\ p \in Holding /\ m.space \in Space /\ m.space.owner = User(r)
                /\ \A s \in spaces : ~ Conflict(s, m.space)
    /\ m.space # NoOne /\ p # "insert" => m.new \/ m.space \in OwnSpaces(User(r))
    /\ m.space # NoOne /\ p \notin {"insert", "cap"} =>
          Cardinality(Counted(m.space, User(r), m.seen)) < Cap
    /\ p = "commit" /\ ~ IsUpload(r) => FreshAfter(m.seen, Req[r].docs[m.k])

LocalInv == \A r \in Requests : Local(r, pc[r], mine[r])

\* No two requests have inserted spaces that exclude each other.
Apart ==
    \A r, q \in Requests :
        r # q /\ mine[r].new /\ mine[q].new => ~ Conflict(mine[r].space, mine[q].space)

RowsInv ==
    /\ \A d \in DOMAIN raw :
        /\ raw[d].seen < d
        /\ raw[d].space # NoOne =>
              /\ raw[d].space \in OwnSpaces(raw[d].by)
              /\ Cardinality(Counted(raw[d].space, raw[d].by, raw[d].seen)) < Cap
    /\ \A s, t \in spaces : Conflict(s, t) => s = t
    /\ DuplicatesOverlap

\* The documents that are stored, or were not worth it.
Passed ==
    {p \in DocSlots :
        \/ p[2] < mine[p[1]].k
        \/ p[2] = mine[p[1]].k /\ pc[p[1]] \notin BeforeCommit}

CountInv == Len(raw) <= Cardinality(Passed)

RequestInv == Types /\ LocalInv /\ Apart /\ RowsInv /\ CountInv

-----------------------------------------------------------------------------
(* Sets and rows.                                                          *)

LEMMA WindowFinite ==
    ASSUME Types, NEW s, NEW u, NEW n \in Nat
    PROVE  /\ IsFiniteSet(InWindow(s, u)) /\ IsFiniteSet(Counted(s, u, n))
           /\ Cardinality(InWindow(s, u)) \in Nat /\ Cardinality(Counted(s, u, n)) \in Nat
           /\ Cardinality(Counted(s, u, n)) <= Cardinality(InWindow(s, u))
<1>1. Len(raw) \in Nat /\ DOMAIN raw = 1..Len(raw)
  BY LenProperties DEF Types
<1>2. IsFiniteSet(DOMAIN raw)
  BY <1>1, FS_Interval
<1>3. IsFiniteSet(InWindow(s, u))
  BY <1>2, FS_Subset DEF InWindow
<1>4. Counted(s, u, n) \in SUBSET InWindow(s, u)
  BY DEF Counted
<1> QED
  BY <1>3, <1>4, FS_Subset, FS_CardinalityType

LEMMA RowTypes ==
    ASSUME Types, NEW d \in DOMAIN raw
    PROVE  raw[d] \in Row /\ d \in 1..Len(raw) /\ Len(raw) \in Nat
BY LenProperties, ElementOfSeq DEF Types

\* What the rows say about other requests does not change.
SameRows ==
    /\ Len(raw') = Len(raw)
    /\ \A d \in 1..Len(raw) :
          /\ raw'[d].doc = raw[d].doc /\ raw'[d].kind = raw[d].kind
          /\ raw'[d].space = raw[d].space /\ raw'[d].by = raw[d].by
          /\ raw'[d].seen = raw[d].seen

LEMMA SameWindow ==
    ASSUME Types, Types', SameRows, UNCHANGED aged, NEW s, NEW u, NEW n
    PROVE  /\ DOMAIN raw' = DOMAIN raw /\ DOMAIN raw = 1..Len(raw)
           /\ InWindow(s, u)' = InWindow(s, u)
           /\ Counted(s, u, n)' = Counted(s, u, n)
<1>1. DOMAIN raw' = DOMAIN raw /\ DOMAIN raw = 1..Len(raw)
  BY LenProperties DEF Types, SameRows
<1>2. InWindow(s, u)' = InWindow(s, u)
  BY <1>1 DEF InWindow, SameRows
<1> QED
  BY <1>1, <1>2 DEF Counted

LEMMA SameFresh ==
    ASSUME Types, Types', SameRows, NEW n, NEW doc
    PROVE  FreshAfter(n, doc)' <=> FreshAfter(n, doc)
<1>1. DOMAIN raw' = DOMAIN raw /\ DOMAIN raw = 1..Len(raw) /\ Len(raw) \in Nat
  BY LenProperties DEF Types, SameRows
<1>2. Len(raw') = Len(raw) /\ \A d \in 1..Len(raw) : raw'[d].doc = raw[d].doc
  BY DEF SameRows
<1>3. ASSUME NEW d \in 1..Len(raw)
      PROVE  d + 1..Len(raw) \subseteq 1..Len(raw)
  BY <1>1
<1>4. ASSUME NEW d \in 1..Len(raw)
      PROVE  (\A c \in d + 1..Len(raw) : raw'[c].doc.id # doc.id)
             <=> (\A c \in d + 1..Len(raw) : raw[c].doc.id # doc.id)
  BY <1>2, <1>3
<1> QED
  BY <1>1, <1>2, <1>4 DEF FreshAfter

\* As long as the tables are the same for others, so is what requests know.
LEMMA LocalStays ==
    ASSUME Types, Types', SameRows, UNCHANGED <<spaces, aged>>,
           NEW r \in Requests, NEW p, NEW m \in Mine, Local(r, p, m)
    PROVE  Local(r, p, m)'
<1>1. Counted(m.space, User(r), m.seen)' = Counted(m.space, User(r), m.seen)
  BY SameWindow
<1>2. p = "commit" /\ ~ IsUpload(r) =>
         (FreshAfter(m.seen, Req[r].docs[m.k])' <=> FreshAfter(m.seen, Req[r].docs[m.k]))
  BY SameFresh
<1>3. Len(raw') = Len(raw)
  BY DEF SameRows
<1> QED
  BY <1>1, <1>2, <1>3 DEF Local, OwnSpaces, Conflict, User, IsUpload

LEMMA RowsStay ==
    ASSUME Types, Types', SameRows, UNCHANGED <<spaces, aged>>, RowsInv
    PROVE  RowsInv'
<1>1. DOMAIN raw' = DOMAIN raw /\ DOMAIN raw = 1..Len(raw)
  BY LenProperties DEF Types, SameRows
<1>2. \A d \in DOMAIN raw :
         Counted(raw[d].space, raw[d].by, raw[d].seen)' = Counted(raw[d].space, raw[d].by, raw[d].seen)
  <2> SUFFICES ASSUME NEW d \in DOMAIN raw
               PROVE  Counted(raw[d].space, raw[d].by, raw[d].seen)'
                        = Counted(raw[d].space, raw[d].by, raw[d].seen)
    OBVIOUS
  <2>1. raw'[d].space = raw[d].space /\ raw'[d].by = raw[d].by /\ raw'[d].seen = raw[d].seen
    BY <1>1 DEF SameRows
  <2> QED
    BY <1>1, <2>1 DEF Counted, InWindow, SameRows
<1>3. DuplicatesOverlap'
  <2> SUFFICES ASSUME NEW d \in DOMAIN raw, NEW e \in DOMAIN raw,
                      d < e, raw[e].kind # "upload", raw[d].doc = raw[e].doc,
                      \A c \in d + 1..e - 1 : raw'[c].doc.id # raw[d].doc.id
               PROVE  raw[e].seen < d
    BY <1>1 DEF DuplicatesOverlap, SameRows
  <2>1. \A c \in d + 1..e - 1 : c \in 1..Len(raw)
    BY <1>1, RowTypes
  <2>2. \A c \in d + 1..e - 1 : raw[c].doc.id # raw[d].doc.id
    BY <2>1 DEF SameRows
  <2> QED
    BY <2>2 DEF RowsInv, DuplicatesOverlap
<1>4. \A d \in DOMAIN raw' :
        /\ raw'[d].seen < d
        /\ raw'[d].space # NoOne =>
              /\ raw'[d].space \in OwnSpaces(raw[d].by)'
              /\ Cardinality(Counted(raw[d].space, raw[d].by, raw[d].seen))' < Cap
  BY <1>1, <1>2 DEF RowsInv, SameRows, OwnSpaces
<1>5. \A s, t \in spaces' : Conflict(s, t) => s = t
  BY DEF RowsInv
<1> QED
  BY <1>1, <1>3, <1>4, <1>5 DEF RowsInv, Conflict, OwnSpaces

LEMMA CountStays ==
    ASSUME CountInv, Types, Types', Len(raw') = Len(raw), Passed \subseteq Passed'
    PROVE  CountInv'
<1>1. Passed' \in SUBSET DocSlots /\ IsFiniteSet(DocSlots)
  BY ReqAssumption DEF Passed
<1>2. IsFiniteSet(Passed') /\ Passed \in SUBSET Passed'
  BY <1>1, FS_Subset
<1>3. Cardinality(Passed) <= Cardinality(Passed') /\ IsFiniteSet(Passed)
  BY <1>2, FS_Subset
<1>4. Cardinality(Passed) \in Nat /\ Cardinality(Passed') \in Nat /\ Len(raw) \in Nat
  BY <1>2, <1>3, FS_CardinalityType, LenProperties DEF Types
<1> QED
  BY <1>3, <1>4 DEF CountInv

-----------------------------------------------------------------------------
(* The steps of one request that leave the tables as they are for others.  *)

\* It does not go back before a document that is stored.
Advances(r, p, m) ==
    \/ mine[r].k < m.k
    \/ mine[r].k = m.k /\ (pc[r] \notin BeforeCommit => p \notin BeforeCommit)

LEMMA OneMoves ==
    ASSUME RequestInv, NEW r \in Requests, NEW p \in Steps, NEW m \in Mine,
           pc' = [pc EXCEPT ![r] = p], mine' = [mine EXCEPT ![r] = m],
           raw' \in Seq(Row), SameRows, UNCHANGED <<spaces, sources, aged>>,
           Local(r, p, m), Advances(r, p, m),
           \A q \in Requests \ {r} : m.new /\ mine[q].new => ~ Conflict(m.space, mine[q].space)
    PROVE  RequestInv'
<1>1. Types'
  BY DEF RequestInv, Types, SameRows
<1>2. LocalInv'
  <2> SUFFICES ASSUME NEW q \in Requests PROVE Local(q, pc[q], mine[q])'
    BY DEF LocalInv
  <2>1. CASE q = r
    <3>1. pc'[q] = p /\ mine'[q] = m
      BY <2>1 DEF RequestInv, Types
    <3>2. Local(r, p, m)'
      BY <1>1, LocalStays DEF RequestInv
    <3> QED
      BY <2>1, <3>1, <3>2 DEF Local, OwnSpaces, Counted, InWindow, FreshAfter
  <2>2. CASE q # r
    <3>1. pc'[q] = pc[q] /\ mine'[q] = mine[q] /\ mine[q] \in Mine
      BY <2>2 DEF RequestInv, Types
    <3>2. (Local(q, pc[q], mine[q]))
      BY DEF RequestInv, LocalInv
    <3> QED
      BY <1>1, <3>1, <3>2, LocalStays DEF RequestInv
  <2> QED
    BY <2>1, <2>2
<1>3. Apart'
  BY DEF RequestInv, Types, Apart, Conflict
<1>4. RowsInv'
  BY <1>1, RowsStay DEF RequestInv
<1>5. Passed \subseteq Passed'
  <2> SUFFICES ASSUME NEW x \in Passed PROVE x \in Passed'
    OBVIOUS
  <2>1. x \in DocSlots /\ x[1] \in Requests /\ x[2] \in Nat
    BY ReqAssumption DEF Passed, DocSlots
  <2>2. mine[x[1]].k \in Nat /\ m.k \in Nat
    BY <2>1 DEF RequestInv, Types, Mine
  <2>3. CASE x[1] = r
    BY <2>1, <2>2, <2>3 DEF Passed, Advances, RequestInv, Types
  <2>4. CASE x[1] # r
    BY <2>1, <2>4 DEF Passed, RequestInv, Types
  <2> QED
    BY <2>3, <2>4
<1>6. CountInv'
  BY <1>1, <1>5, CountStays DEF RequestInv, SameRows
<1> QED
  BY <1>1, <1>2, <1>3, <1>4, <1>6 DEF RequestInv

LEMMA Now ==
    ASSUME RequestInv, NEW r \in Requests
    PROVE  /\ pc[r] \in Steps /\ mine[r] \in Mine /\ raw \in Seq(Row) /\ Len(raw) \in Nat
           /\ Local(r, pc[r], mine[r])
           /\ UNCHANGED raw => SameRows
           /\ \A q \in Requests \ {r} : mine[r].new /\ mine[q].new =>
                 ~ Conflict(mine[r].space, mine[q].space)
<1>1. Len(raw) \in Nat
  BY LenProperties DEF RequestInv, Types
<1> QED
  BY <1>1 DEF RequestInv, Types, LocalInv, Apart, SameRows

LEMMA ClosedLocal ==
    ASSUME RequestInv, NEW r \in Requests, NEW p \in Answered
    PROVE  /\ Closed(mine[r]) \in Mine
           /\ Local(r, p, Closed(mine[r]))
           /\ ~ Closed(mine[r]).new
           /\ Closed(mine[r]).k = mine[r].k
<1>1. mine[r] \in Mine /\ Local(r, pc[r], mine[r]) /\ Len(raw) \in Nat
  BY Now
<1>2. /\ Closed(mine[r]) \in Mine /\ Closed(mine[r]).space = NoOne /\ ~ Closed(mine[r]).new
      /\ Closed(mine[r]).seen = 0 /\ Closed(mine[r]).k = mine[r].k /\ Closed(mine[r]).row = mine[r].row
  BY <1>1 DEF Closed, Mine
<1> QED
  BY <1>1, <1>2 DEF Local, Answered

\* An answer ends the session.
LEMMA AnswerInv ==
    ASSUME RequestInv, NEW r \in Requests, NEW p \in Answered, Answer(r, p),
           raw' \in Seq(Row), SameRows, UNCHANGED <<spaces, sources, aged>>
    PROVE  RequestInv'
<1>1. p \in Steps /\ p \notin BeforeCommit
  BY DEF Steps, BeforeCommit, Busy, Answered
<1>2. mine' = [mine EXCEPT ![r] = Closed(mine[r])] /\ pc' = [pc EXCEPT ![r] = p]
  BY DEF Answer, Go
<1> QED
  BY <1>1, <1>2, ClosedLocal, OneMoves DEF Advances

LEMMA BeginInv ==
    ASSUME RequestInv, NEW r \in Requests, Begin(r)
    PROVE  RequestInv'
<1> DEFINE m == [mine[r] EXCEPT !.seen = Len(raw)]
           p == IF Req[r].personal THEN "lookup" ELSE IF IsUpload(r) THEN "read" ELSE "dedup"
<1>1. pc[r] = "new" /\ mine' = [mine EXCEPT ![r] = m] /\ pc' = [pc EXCEPT ![r] = p]
      /\ UNCHANGED <<raw, spaces, sources, aged>>
  BY DEF Begin, At, Go
<1>2. /\ m \in Mine /\ m.k = mine[r].k /\ m.space = mine[r].space /\ m.new = mine[r].new
      /\ m.seen = Len(raw) /\ m.row = mine[r].row
  BY Now DEF Mine
<1>3. ~ m.new /\ m.space = NoOne
  BY <1>1, <1>2, Now DEF Local, Holding
<1>4. Local(r, p, m)
  BY <1>2, <1>3, Now DEF Local
<1>5. p \in Steps /\ Advances(r, p, m)
  BY <1>1, <1>2 DEF Steps, Busy, Advances, BeforeCommit
<1> HIDE DEF m, p
<1> QED
  BY <1>1, <1>2, <1>3, <1>4, <1>5, Now, OneMoves

LEMMA LookupInv ==
    ASSUME RequestInv, NEW r \in Requests, Lookup(r)
    PROVE  RequestInv'
<1>1. pc[r] = "lookup" /\ UNCHANGED <<raw, spaces, sources, aged>>
  BY DEF Lookup, At
<1>2. ~ mine[r].new
  BY <1>1, Now DEF Local, Holding
<1>3. CASE OwnSpaces(User(r)) = {}
  <2>1. mine' = [mine EXCEPT ![r] = mine[r]] /\ pc' = [pc EXCEPT ![r] = "slug"]
    BY <1>3 DEF Lookup, Go, RequestInv, Types
  <2>2. Local(r, "slug", mine[r])
    BY <1>1, <1>2, Now DEF Local
  <2>3. "slug" \in Steps /\ Advances(r, "slug", mine[r])
    BY <1>1 DEF Steps, Busy, Advances, BeforeCommit
  <2> QED
    BY <1>1, <1>2, <2>1, <2>2, <2>3, Now, OneMoves
<1>4. CASE OwnSpaces(User(r)) # {}
  <2> DEFINE s == CHOOSE s \in OwnSpaces(User(r)) : TRUE
             m == [mine[r] EXCEPT !.space = s]
  <2>1. mine' = [mine EXCEPT ![r] = m] /\ pc' = [pc EXCEPT ![r] = "cap"]
    BY <1>4 DEF Lookup, Go
  <2>2. s \in OwnSpaces(User(r)) /\ s \in Space
    BY <1>4 DEF OwnSpaces, RequestInv, Types
  <2> HIDE DEF s
  <2>3. /\ m \in Mine /\ m.k = mine[r].k /\ m.space = s /\ m.new = mine[r].new
        /\ m.seen = mine[r].seen /\ m.row = mine[r].row
    BY <2>2, Now DEF Mine
  <2> HIDE DEF m
  <2>4. Local(r, "cap", m)
    BY <1>2, <2>2, <2>3, Now DEF Local
  <2>5. "cap" \in Steps /\ Advances(r, "cap", m)
    BY <1>1, <2>3 DEF Steps, Busy, Advances, BeforeCommit
  <2> QED
    BY <1>1, <1>2, <2>1, <2>3, <2>4, <2>5, Now, OneMoves
<1> QED
  BY <1>3, <1>4

LEMMA ChooseSlugInv ==
    ASSUME RequestInv, NEW r \in Requests, ChooseSlug(r)
    PROVE  RequestInv'
<1>1. pc[r] = "slug" /\ UNCHANGED <<raw, spaces, sources, aged>>
  BY DEF ChooseSlug, At
<1> DEFINE base == Slug[User(r)]
           taken == \E t \in spaces : t.slug = base
           s == [owner |-> User(r), slug |-> IF taken THEN <<base, User(r)>> ELSE base]
<1>2. /\ s \in Space /\ s.owner = User(r)
      /\ mine' = [mine EXCEPT ![r].space = s]
      /\ pc' = [pc EXCEPT ![r] = "insert"]
  <2>1. User(r) \in Users
    BY ReqAssumption DEF User
  <2>2. s \in Space
    BY <2>1 DEF Space
  <2> QED
    BY <2>2 DEF ChooseSlug, Go
<1> HIDE DEF s
<1> DEFINE m == [mine[r] EXCEPT !.space = s]
<1>3. ~ mine[r].new
  BY <1>1, Now DEF Local, Holding
<1>4. /\ m \in Mine /\ m.k = mine[r].k /\ m.space = s /\ m.new = mine[r].new
      /\ m.seen = mine[r].seen /\ m.row = mine[r].row
  BY <1>2, Now DEF Mine
<1>5. mine' = [mine EXCEPT ![r] = m]
  BY <1>2
<1> HIDE DEF m
<1>6. Local(r, "insert", m)
  BY <1>2, <1>3, <1>4, Now DEF Local
<1>7. "insert" \in Steps /\ Advances(r, "insert", m)
  BY <1>1, <1>4 DEF Steps, Busy, Advances, BeforeCommit
<1> QED
  BY <1>1, <1>2, <1>3, <1>4, <1>5, <1>6, <1>7, Now, OneMoves

LEMMA InsertSpaceInv ==
    ASSUME RequestInv, NEW r \in Requests, InsertSpace(r)
    PROVE  RequestInv'
<1>1. pc[r] = "insert" /\ Holders(r) = {} /\ UNCHANGED <<raw, spaces, sources, aged>>
  BY DEF InsertSpace, At
<1>2. ~ mine[r].new /\ mine[r].space \in Space /\ mine[r].space.owner = User(r)
  BY <1>1, Now DEF Local, Holding
<1>3. CASE \E s \in spaces : Conflict(s, mine[r].space)
  <2> DEFINE m == [mine[r] EXCEPT !.space = NoOne]
  <2>1. mine' = [mine EXCEPT ![r] = m] /\ pc' = [pc EXCEPT ![r] = "reread"]
    BY <1>3 DEF InsertSpace, Go
  <2>2. /\ m \in Mine /\ m.k = mine[r].k /\ m.space = NoOne /\ m.new = mine[r].new
        /\ m.seen = mine[r].seen /\ m.row = mine[r].row
    BY Now DEF Mine
  <2> HIDE DEF m
  <2>3. Local(r, "reread", m)
    BY <1>2, <2>2, Now DEF Local
  <2>4. "reread" \in Steps /\ Advances(r, "reread", m)
    BY <1>1, <2>2 DEF Steps, Busy, Advances, BeforeCommit
  <2> QED
    BY <1>1, <1>2, <2>1, <2>2, <2>3, <2>4, Now, OneMoves
<1>4. CASE ~ \E s \in spaces : Conflict(s, mine[r].space)
  <2> DEFINE m == [mine[r] EXCEPT !.new = TRUE]
  <2>1. mine' = [mine EXCEPT ![r] = m] /\ pc' = [pc EXCEPT ![r] = "cap"]
    BY <1>4 DEF InsertSpace, Go
  <2>2. /\ m \in Mine /\ m.k = mine[r].k /\ m.space = mine[r].space /\ m.new
        /\ m.seen = mine[r].seen /\ m.row = mine[r].row
    BY Now DEF Mine
  <2> HIDE DEF m
  <2>3. Local(r, "cap", m)
    BY <1>2, <1>4, <2>2, Now DEF Local, Holding
  <2>4. "cap" \in Steps /\ Advances(r, "cap", m)
    BY <1>1, <2>2 DEF Steps, Busy, Advances, BeforeCommit
  <2>5. \A q \in Requests \ {r} : mine[q].new => ~ Conflict(m.space, mine[q].space)
    BY <1>1, <2>2 DEF Holders, Conflict
  <2> QED
    BY <1>1, <2>1, <2>2, <2>3, <2>4, <2>5, Now, OneMoves
<1> QED
  BY <1>3, <1>4

LEMMA RereadInv ==
    ASSUME RequestInv, NEW r \in Requests, Reread(r)
    PROVE  RequestInv'
<1>1. pc[r] = "reread" /\ UNCHANGED <<raw, spaces, sources, aged>>
  BY DEF Reread, At
<1>2. ~ mine[r].new
  BY <1>1, Now DEF Local, Holding
<1>3. CASE OwnSpaces(User(r)) = {}
  BY <1>1, <1>3, Now, AnswerInv DEF Reread, Answered
<1>4. CASE OwnSpaces(User(r)) # {}
  <2> DEFINE s == CHOOSE s \in OwnSpaces(User(r)) : TRUE
             m == [mine[r] EXCEPT !.space = s]
  <2>1. mine' = [mine EXCEPT ![r] = m] /\ pc' = [pc EXCEPT ![r] = "cap"]
    BY <1>4 DEF Reread, Go
  <2>2. s \in OwnSpaces(User(r)) /\ s \in Space
    BY <1>4 DEF OwnSpaces, RequestInv, Types
  <2> HIDE DEF s
  <2>3. /\ m \in Mine /\ m.k = mine[r].k /\ m.space = s /\ m.new = mine[r].new
        /\ m.seen = mine[r].seen /\ m.row = mine[r].row
    BY <2>2, Now DEF Mine
  <2> HIDE DEF m
  <2>4. Local(r, "cap", m)
    BY <1>2, <2>2, <2>3, Now DEF Local
  <2>5. "cap" \in Steps /\ Advances(r, "cap", m)
    BY <1>1, <2>3 DEF Steps, Busy, Advances, BeforeCommit
  <2> QED
    BY <1>1, <1>2, <2>1, <2>3, <2>4, <2>5, Now, OneMoves
<1> QED
  BY <1>3, <1>4

\* The request has not found more rows in its window than the cap allows, and those
\* that were there when it was sent are some of them.
LEMMA CheckCapInv ==
    ASSUME RequestInv, NEW r \in Requests, CheckCap(r)
    PROVE  RequestInv'
<1> DEFINE p == IF IsUpload(r) THEN "read" ELSE "dedup"
           window == InWindow(mine[r].space, User(r))
<1>1. pc[r] = "cap" /\ UNCHANGED <<raw, spaces, sources, aged>>
  BY DEF CheckCap, At
<1>2. CASE Cardinality(window) >= Cap
  BY <1>1, <1>2, Now, AnswerInv DEF CheckCap, Answered
<1>3. CASE ~ (Cardinality(window) >= Cap)
  <2>1. mine' = [mine EXCEPT ![r] = mine[r]] /\ pc' = [pc EXCEPT ![r] = p]
    BY <1>3 DEF CheckCap, Go, RequestInv, Types
  <2>2. Cardinality(Counted(mine[r].space, User(r), mine[r].seen)) < Cap
    <3>1. mine[r].seen \in Nat
      BY Now DEF Mine
    <3>2. /\ Cardinality(Counted(mine[r].space, User(r), mine[r].seen)) <= Cardinality(window)
          /\ Cardinality(Counted(mine[r].space, User(r), mine[r].seen)) \in Nat
          /\ Cardinality(window) \in Nat
      BY <3>1, WindowFinite DEF RequestInv
    <3>3. Cap \in Nat
      BY BoundsAssumption
    <3> QED
      BY <1>3, <3>2, <3>3
  <2>3. Local(r, p, mine[r])
    BY <1>1, <2>2, Now DEF Local, Holding
  <2>4. p \in Steps /\ Advances(r, p, mine[r])
    BY <1>1 DEF Steps, Busy, Advances, BeforeCommit
  <2> HIDE DEF p
  <2> QED
    BY <1>1, <2>1, <2>3, <2>4, Now, OneMoves
<1> QED
  BY <1>2, <1>3

LEMMA ReadFileInv ==
    ASSUME RequestInv, NEW r \in Requests, ReadFile(r)
    PROVE  RequestInv'
<1>1. PICK p \in {"reading", "validate"} : pc' = [pc EXCEPT ![r] = p]
  BY DEF ReadFile, Go
<1>2. pc[r] \in {"read", "reading"} /\ mine' = [mine EXCEPT ![r] = mine[r]]
      /\ UNCHANGED <<raw, spaces, sources, aged>>
  BY DEF ReadFile, At, RequestInv, Types
<1>3. Local(r, p, mine[r])
  BY <1>2, Now DEF Local, Holding
<1>4. p \in Steps /\ Advances(r, p, mine[r])
  BY <1>2 DEF Steps, Busy, Awaiting, Advances, BeforeCommit
<1> QED
  BY <1>1, <1>2, <1>3, <1>4, Now, OneMoves

LEMMA ValidateInv ==
    ASSUME RequestInv, NEW r \in Requests, Validate(r)
    PROVE  RequestInv'
<1>1. pc[r] = "validate" /\ UNCHANGED <<raw, spaces, sources, aged>>
  BY DEF Validate, At
<1>2. CASE Answer(r, "error")
  BY <1>1, <1>2, Now, AnswerInv DEF Answered
<1>3. CASE Go(r, "source") /\ UNCHANGED mine
  <2>1. pc' = [pc EXCEPT ![r] = "source"] /\ mine' = [mine EXCEPT ![r] = mine[r]]
    BY <1>3 DEF Go, RequestInv, Types
  <2>2. Local(r, "source", mine[r])
    BY <1>1, Now DEF Local, Holding
  <2>3. "source" \in Steps /\ Advances(r, "source", mine[r])
    BY <1>1 DEF Steps, Busy, Advances, BeforeCommit
  <2> QED
    BY <1>1, <2>1, <2>2, <2>3, Now, OneMoves
<1> QED
  BY <1>2, <1>3 DEF Validate

LEMMA FindSourceInv ==
    ASSUME RequestInv, NEW r \in Requests, FindSource(r)
    PROVE  RequestInv'
<1>1. pc[r] = "source" /\ UNCHANGED <<raw, spaces, sources, aged>>
  BY DEF FindSource, At
<1>2. CASE sources[Req[r].source] > 1
  BY <1>1, <1>2, Now, AnswerInv DEF FindSource, Answered
<1>3. CASE ~ (sources[Req[r].source] > 1)
  <2> DEFINE m == [mine[r] EXCEPT !.src = (sources[Req[r].source] = 0)]
  <2>1. mine' = [mine EXCEPT ![r] = m] /\ pc' = [pc EXCEPT ![r] = "commit"]
    BY <1>3 DEF FindSource, Go
  <2>2. /\ m \in Mine /\ m.k = mine[r].k /\ m.space = mine[r].space /\ m.new = mine[r].new
        /\ m.seen = mine[r].seen /\ m.row = mine[r].row
    BY Now DEF Mine
  <2> HIDE DEF m
  <2>3. Local(r, "commit", m)
    BY <1>1, <2>2, Now DEF Local, Holding
  <2>4. "commit" \in Steps /\ Advances(r, "commit", m)
    BY <1>1, <2>2 DEF Steps, Busy, Advances, BeforeCommit
  <2> QED
    BY <1>1, <2>1, <2>2, <2>3, <2>4, Now, OneMoves
<1> QED
  BY <1>2, <1>3

\* On to the next document of a connector run, or to the answer.
LEMMA NextDocInv ==
    ASSUME RequestInv, NEW r \in Requests, pc[r] \in {"dedup", "record"},
           NEW m \in Mine, m.k = mine[r].k, m.space = mine[r].space, m.new = mine[r].new,
           m.seen = mine[r].seen, m.row <= Len(raw), NextDoc(r, m),
           raw' \in Seq(Row), SameRows, UNCHANGED <<spaces, sources, aged>>
    PROVE  RequestInv'
<1>1. /\ mine[r] \in Mine /\ Local(r, pc[r], mine[r]) /\ Len(raw) \in Nat
      /\ m.k \in Nat /\ m.k \in 1..Len(Req[r].docs) /\ Len(Req[r].docs) \in Nat
  BY Now, ReqAssumption DEF Local, Mine
<1>2. CASE m.k < Len(Req[r].docs)
  <2> DEFINE n == [m EXCEPT !.k = m.k + 1]
  <2>1. mine' = [mine EXCEPT ![r] = n] /\ pc' = [pc EXCEPT ![r] = "dedup"]
    BY <1>2 DEF NextDoc, Go
  <2>2. /\ n \in Mine /\ n.k = m.k + 1 /\ n.space = m.space /\ n.new = m.new
        /\ n.seen = m.seen /\ n.row = m.row
    BY <1>1 DEF Mine
  <2> HIDE DEF n
  <2>3. n.k \in DOMAIN Req[r].docs
    BY <1>1, <1>2, <2>2, ReqAssumption
  <2>4. ~ IsUpload(r)
    <3>1. \A l \in Nat : \A k \in 1..l : k < l => l # 1
      OBVIOUS
    <3>2. Req[r].kind = "sync"
      BY <1>1, <1>2, <3>1, ReqAssumption
    <3> QED
      BY <3>2 DEF IsUpload
  <2>5. Local(r, "dedup", n)
    BY <1>1, <2>2, <2>3, <2>4 DEF Local, Holding
  <2>6. "dedup" \in Steps /\ Advances(r, "dedup", n)
    BY <1>1, <2>2 DEF Steps, Advances
  <2> QED
    BY <2>1, <2>2, <2>5, <2>6, Now, OneMoves
<1>3. CASE ~ (m.k < Len(Req[r].docs))
  <2>1. mine' = [mine EXCEPT ![r] = Closed(m)] /\ pc' = [pc EXCEPT ![r] = "ok"]
    BY <1>3 DEF NextDoc, Go
  <2>2. /\ Closed(m) \in Mine /\ Closed(m).space = NoOne /\ ~ Closed(m).new
        /\ Closed(m).seen = 0 /\ Closed(m).k = m.k /\ Closed(m).row = m.row
    BY DEF Closed, Mine
  <2>3. Local(r, "ok", Closed(m))
    BY <1>1, <2>2 DEF Local
  <2>4. "ok" \in Steps /\ Advances(r, "ok", Closed(m))
    BY <2>2 DEF Steps, Answered, Advances, BeforeCommit, Busy
  <2> QED
    BY <2>1, <2>2, <2>3, <2>4, OneMoves
<1> QED
  BY <1>2, <1>3

\* A latest row with the content of the document is not missed.
LEMMA DeduplicateInv ==
    ASSUME RequestInv, NEW r \in Requests, Deduplicate(r)
    PROVE  RequestInv'
<1>1. pc[r] = "dedup" /\ UNCHANGED <<raw, spaces, sources, aged>>
  BY DEF Deduplicate, At
<1>2. mine[r] \in Mine /\ Local(r, pc[r], mine[r]) /\ SameRows /\ raw' \in Seq(Row)
  BY <1>1, Now
<1>3. CASE \E d \in Earlier(r) : raw[d].doc.hash = Doc(r).hash
  <2> DEFINE e == CHOOSE d \in Earlier(r) : TRUE
             m == [mine[r] EXCEPT !.row = e]
  <2>1. e \in 1..Len(raw)
    BY <1>3, RowTypes DEF Earlier, RequestInv
  <2>2. NextDoc(r, m)
    BY <1>3 DEF Deduplicate
  <2> HIDE DEF e
  <2>3. /\ m \in Mine /\ m.k = mine[r].k /\ m.space = mine[r].space /\ m.new = mine[r].new
        /\ m.seen = mine[r].seen /\ m.row = e
    BY <1>2, <2>1 DEF Mine
  <2> HIDE DEF m
  <2>4. m.row <= Len(raw)
    BY <2>1, <2>3, Now
  <2> QED
    BY <1>1, <1>2, <2>2, <2>3, <2>4, NextDocInv
<1>4. CASE ~ \E d \in Earlier(r) : raw[d].doc.hash = Doc(r).hash
  <2>1. pc' = [pc EXCEPT ![r] = "commit"] /\ mine' = [mine EXCEPT ![r] = mine[r]]
    BY <1>4 DEF Deduplicate, Go, RequestInv, Types
  <2>2. FreshAfter(mine[r].seen, Req[r].docs[mine[r].k])
    BY <1>4 DEF FreshAfter, Earlier, Doc
  <2>3. Local(r, "commit", mine[r])
    BY <1>1, <1>2, <2>2 DEF Local, Holding
  <2>4. "commit" \in Steps /\ Advances(r, "commit", mine[r])
    BY <1>1 DEF Steps, Busy, Advances, BeforeCommit
  <2> QED
    BY <1>1, <1>2, <2>1, <2>3, <2>4, Now, OneMoves
<1> QED
  BY <1>3, <1>4

LEMMA StartWorkflowInv ==
    ASSUME RequestInv, NEW r \in Requests, StartWorkflow(r)
    PROVE  RequestInv'
<1>1. pc[r] = "start" /\ UNCHANGED <<raw, spaces, sources, aged>>
      /\ pc' = [pc EXCEPT ![r] = "record"] /\ mine' = [mine EXCEPT ![r] = mine[r]]
  BY DEF StartWorkflow, At, Go, RequestInv, Types
<1>2. Local(r, "record", mine[r])
  BY <1>1, Now DEF Local, Holding
<1>3. "record" \in Steps /\ Advances(r, "record", mine[r])
  BY DEF Steps, Awaiting, Advances, BeforeCommit, Busy
<1> QED
  BY <1>1, <1>2, <1>3, Now, OneMoves

LEMMA StartFailsInv ==
    ASSUME RequestInv, NEW r \in Requests, StartFails(r)
    PROVE  RequestInv'
<1>1. pc[r] = "start" /\ UNCHANGED <<raw, spaces, sources, aged>>
  BY DEF StartFails, At
<1>2. CASE ~ IsUpload(r)
  BY <1>1, <1>2, Now, AnswerInv DEF StartFails, Answered
<1>3. CASE IsUpload(r)
  <2>1. pc' = [pc EXCEPT ![r] = "stamp"] /\ mine' = [mine EXCEPT ![r] = mine[r]]
    BY <1>3 DEF StartFails, Go, RequestInv, Types
  <2>2. Local(r, "stamp", mine[r])
    BY <1>1, <1>3, Now DEF Local, Holding
  <2>3. "stamp" \in Steps /\ Advances(r, "stamp", mine[r])
    BY DEF Steps, Awaiting, Advances, BeforeCommit, Busy
  <2> QED
    BY <1>1, <2>1, <2>2, <2>3, Now, OneMoves
<1> QED
  BY <1>2, <1>3

\* A flag of one row is nothing that other requests read.
LEMMA FlagSameRows ==
    ASSUME Types, NEW d \in Nat, NEW row, row \in Row,
           d \in 1..Len(raw) => /\ row.doc = raw[d].doc /\ row.kind = raw[d].kind
                                /\ row.space = raw[d].space /\ row.by = raw[d].by
                                /\ row.seen = raw[d].seen,
           raw' = [raw EXCEPT ![d] = row]
    PROVE  raw' \in Seq(Row) /\ SameRows
<1>1. Len(raw) \in Nat /\ raw \in [1..Len(raw) -> Row] /\ DOMAIN raw = 1..Len(raw)
  BY LenProperties DEF Types
<1>2. CASE d \in 1..Len(raw)
  BY <1>1, <1>2, ExceptSeq DEF Types, SameRows
<1>3. CASE d \notin 1..Len(raw)
  <2>1. raw' = raw
    BY <1>1, <1>3
  <2> QED
    BY <2>1 DEF Types, SameRows
<1> QED
  BY <1>2, <1>3

LEMMA StampFailedInv ==
    ASSUME RequestInv, NEW r \in Requests, StampFailed(r)
    PROVE  RequestInv'
<1> DEFINE d == mine[r].row
<1>1. d \in Nat /\ Len(raw) \in Nat
  BY Now DEF Mine
<1>2. raw' \in Seq(Row) /\ SameRows
  <2>1. CASE d \in 1..Len(raw)
    <3> DEFINE row == [raw[d] EXCEPT !.failed = TRUE]
    <3>1. raw[d] \in Row
      BY <2>1, ElementOfSeq DEF RequestInv, Types
    <3>2. /\ row \in Row /\ row.doc = raw[d].doc /\ row.kind = raw[d].kind
          /\ row.space = raw[d].space /\ row.by = raw[d].by /\ row.seen = raw[d].seen
      BY <3>1 DEF Row
    <3>3. raw' = [raw EXCEPT ![d] = row]
      BY DEF StampFailed
    <3> HIDE DEF row
    <3> QED
      BY <1>1, <3>2, <3>3, FlagSameRows DEF RequestInv
  <2>2. CASE d \notin 1..Len(raw)
    <3>1. raw' = raw
      BY <2>2, LenProperties DEF StampFailed, RequestInv, Types
    <3> QED
      BY <3>1 DEF RequestInv, Types, SameRows
  <2> QED
    BY <2>1, <2>2
<1> QED
  BY <1>2, AnswerInv DEF StampFailed, Answered

LEMMA RecordWorkflowIdInv ==
    ASSUME RequestInv, NEW r \in Requests, RecordWorkflowId(r)
    PROVE  RequestInv'
<1> DEFINE d == mine[r].row
<1>1. d \in Nat /\ Len(raw) \in Nat /\ mine[r] \in Mine /\ d <= Len(raw)
  BY Now DEF Mine, Local
<1>2. raw' \in Seq(Row) /\ SameRows
  <2>1. CASE d \in 1..Len(raw)
    <3> DEFINE row == [raw[d] EXCEPT !.wf = TRUE]
    <3>1. raw[d] \in Row
      BY <2>1, ElementOfSeq DEF RequestInv, Types
    <3>2. /\ row \in Row /\ row.doc = raw[d].doc /\ row.kind = raw[d].kind
          /\ row.space = raw[d].space /\ row.by = raw[d].by /\ row.seen = raw[d].seen
      BY <3>1 DEF Row
    <3>3. raw' = [raw EXCEPT ![d] = row]
      BY DEF RecordWorkflowId
    <3> HIDE DEF row
    <3> QED
      BY <1>1, <3>2, <3>3, FlagSameRows DEF RequestInv
  <2>2. CASE d \notin 1..Len(raw)
    <3>1. raw' = raw
      BY <2>2, LenProperties DEF RecordWorkflowId, RequestInv, Types
    <3> QED
      BY <3>1 DEF RequestInv, Types, SameRows
  <2> QED
    BY <2>1, <2>2
<1>3. pc[r] = "record" /\ NextDoc(r, mine[r]) /\ UNCHANGED <<spaces, sources, aged>>
  BY DEF RecordWorkflowId, At
<1> QED
  BY <1>1, <1>2, <1>3, NextDocInv

-----------------------------------------------------------------------------
(* The commit of a row, a crash and a new day.                             *)

\* What was counted stays counted, and no older row becomes the latest again.
LEMMA RowAppended ==
    ASSUME Types, NEW row \in Row, raw' = Append(raw, row), UNCHANGED aged
    PROVE  /\ raw' \in Seq(Row) /\ Len(raw) \in Nat /\ Len(raw') = Len(raw) + 1
           /\ DOMAIN raw = 1..Len(raw) /\ DOMAIN raw' = 1..Len(raw) + 1
           /\ \A d \in 1..Len(raw) : raw'[d] = raw[d]
           /\ raw'[Len(raw) + 1] = row
           /\ \A s, u : \A n \in Nat : n <= Len(raw) => Counted(s, u, n)' = Counted(s, u, n)
           /\ \A n, doc : n <= Len(raw) /\ n \in Nat /\ FreshAfter(n, doc) => FreshAfter(n, doc)'
<1>1. /\ raw' \in Seq(Row) /\ Len(raw) \in Nat /\ Len(raw') = Len(raw) + 1
      /\ DOMAIN raw = 1..Len(raw) /\ DOMAIN raw' = 1..Len(raw) + 1
      /\ \A d \in 1..Len(raw) : raw'[d] = raw[d]
      /\ raw'[Len(raw) + 1] = row
  <2>1. Append(raw, row) \in Seq(Row)
    BY AppendProperties DEF Types
  <2> QED
    BY <2>1, AppendProperties, LenProperties DEF Types
<1>2. ASSUME NEW s, NEW u, NEW n \in Nat, n <= Len(raw)
      PROVE  Counted(s, u, n)' = Counted(s, u, n)
  BY <1>1, <1>2 DEF Counted, InWindow
<1>3. ASSUME NEW n \in Nat, NEW doc, n <= Len(raw), FreshAfter(n, doc)
      PROVE  FreshAfter(n, doc)'
  <2> SUFFICES ASSUME NEW d \in DOMAIN raw', raw'[d].doc = doc,
                      \A c \in d + 1..Len(raw') : raw'[c].doc.id # doc.id
               PROVE  n < d
    BY DEF FreshAfter
  <2>1. CASE d = Len(raw) + 1
    BY <1>1, <1>3, <2>1
  <2>2. CASE d \in DOMAIN raw
    <3>1. \A c \in d + 1..Len(raw) : raw[c] = raw'[c] /\ c \in d + 1..Len(raw')
      BY <1>1, <2>2
    <3>2. raw[d].doc = doc /\ \A c \in d + 1..Len(raw) : raw[c].doc.id # doc.id
      BY <1>1, <2>2, <3>1
    <3> QED
      BY <1>3, <2>2, <3>2 DEF FreshAfter
  <2> QED
    BY <1>1, <2>1, <2>2
<1> QED
  BY <1>1, <1>2, <1>3

\* The row of a document, when it is committed.
LEMMA CommittedRow ==
    ASSUME RequestInv, NEW r \in Requests, CommitRow(r)
    PROVE  \E row \in Row : raw' = Append(raw, row)
<1> DEFINE row == [doc |-> Doc(r), kind |-> Req[r].kind, space |-> mine[r].space,
                   by |-> User(r), failed |-> FALSE, wf |-> FALSE, seen |-> mine[r].seen]
<1>1. mine[r] \in Mine /\ mine[r].k \in DOMAIN Req[r].docs
  BY Now DEF Local
<1>2. Doc(r) \in Docs
  BY <1>1 DEF Doc, Docs
<1>3. User(r) \in Users /\ Req[r].kind \in {"upload", "conversation", "push", "sync"}
  BY ReqAssumption DEF User
<1>4. row \in Row
  BY <1>1, <1>2, <1>3 DEF Row, Mine
<1>5. raw' = Append(raw, row)
  BY DEF CommitRow, NewRow
<1> QED
  BY <1>4, <1>5

\* What another request knows of the tables stays true.
LEMMA LocalGrows ==
    ASSUME Types, NEW row \in Row, raw' = Append(raw, row), UNCHANGED aged,
           spaces \subseteq spaces',
           NEW q \in Requests, NEW p, NEW o \in Mine, Local(q, p, o),
           o.new => \A s \in spaces' : ~ Conflict(s, o.space)
    PROVE  Local(q, p, o)'
<1>1. o.seen \in Nat /\ o.row \in Nat /\ o.k \in Nat /\ o.seen <= Len(raw) /\ o.row <= Len(raw)
  BY DEF Mine, Local
<1>2. Counted(o.space, User(q), o.seen)' = Counted(o.space, User(q), o.seen)
  BY <1>1, RowAppended
<1>3. p = "commit" /\ ~ IsUpload(q) => FreshAfter(o.seen, Req[q].docs[o.k])'
  BY <1>1, RowAppended DEF Local
<1>4. o.row <= Len(raw') /\ o.seen <= Len(raw')
  BY <1>1, RowAppended
<1>5. OwnSpaces(User(q)) \subseteq OwnSpaces(User(q))'
  BY DEF OwnSpaces
<1>6. ~ IsUpload(q)' <=> ~ IsUpload(q)
  BY DEF IsUpload
<1> QED
  BY <1>2, <1>3, <1>4, <1>5, <1>6 DEF Local, User, Conflict, IsUpload

LEMMA CommitRowInv ==
    ASSUME RequestInv, NEW r \in Requests, CommitRow(r)
    PROVE  RequestInv'
<1> DEFINE row == [doc |-> Doc(r), kind |-> Req[r].kind, space |-> mine[r].space,
                   by |-> User(r), failed |-> FALSE, wf |-> FALSE, seen |-> mine[r].seen]
           n == Len(raw) + 1
           m == [mine[r] EXCEPT !.new = FALSE, !.src = FALSE, !.row = n]
<1>1. /\ pc[r] = "commit" /\ raw' = Append(raw, row) /\ UNCHANGED aged
      /\ pc' = [pc EXCEPT ![r] = "start"] /\ mine' = [mine EXCEPT ![r] = m]
      /\ spaces' = IF mine[r].new THEN spaces \union {mine[r].space} ELSE spaces
      /\ sources' = IF mine[r].src THEN [sources EXCEPT ![Req[r].source] = @ + 1] ELSE sources
  BY DEF CommitRow, NewRow, At, Go
<1>2. /\ mine[r] \in Mine /\ Local(r, "commit", mine[r]) /\ Len(raw) \in Nat
      /\ mine[r].seen \in Nat /\ mine[r].seen <= Len(raw)
  BY <1>1, Now DEF Local, Mine
<1>3. row \in Row
  <2>1. mine[r].k \in DOMAIN Req[r].docs
    BY <1>2 DEF Local
  <2>2. Doc(r) \in Docs
    BY <2>1 DEF Doc, Docs
  <2>3. User(r) \in Users /\ Req[r].kind \in {"upload", "conversation", "push", "sync"}
    BY ReqAssumption DEF User
  <2> QED
    BY <1>2, <2>2, <2>3 DEF Row, Mine
<1>4. /\ row.doc = Doc(r) /\ row.kind = Req[r].kind /\ row.space = mine[r].space
      /\ row.by = User(r) /\ row.seen = mine[r].seen
  OBVIOUS
<1>5. /\ m \in Mine /\ m.k = mine[r].k /\ m.space = mine[r].space /\ ~ m.new
      /\ m.seen = mine[r].seen /\ m.row = n
  <2>1. n \in Nat
    BY <1>2
  <2> HIDE DEF n
  <2> QED
    BY <1>2, <2>1 DEF Mine
<1>6. spaces \subseteq spaces' /\ spaces' \subseteq Space
  BY <1>1, <1>2 DEF Local, RequestInv, Types
<1> HIDE DEF row, m
<1>7. /\ raw' \in Seq(Row) /\ Len(raw') = n /\ DOMAIN raw = 1..Len(raw) /\ DOMAIN raw' = 1..n
      /\ \A d \in 1..Len(raw) : raw'[d] = raw[d]
      /\ raw'[n] = row
      /\ \A s, u : \A i \in Nat : i <= Len(raw) => Counted(s, u, i)' = Counted(s, u, i)
      /\ \A i, doc : i <= Len(raw) /\ i \in Nat /\ FreshAfter(i, doc) => FreshAfter(i, doc)'
  BY <1>1, <1>3, RowAppended DEF RequestInv
<1>8. Types'
  <2>1. sources' \in [Names -> Nat]
    BY <1>1 DEF RequestInv, Types, Names
  <2>2. pc' \in [Requests -> Steps] /\ mine' \in [Requests -> Mine]
    BY <1>1, <1>5 DEF RequestInv, Types, Steps, Awaiting
  <2>3. aged' \in 0..Len(raw')
    BY <1>1, <1>2, <1>7 DEF RequestInv, Types
  <2> QED
    BY <1>6, <1>7, <2>1, <2>2, <2>3 DEF Types
<1>9. ASSUME NEW q \in Requests, q # r
      PROVE  pc'[q] = pc[q] /\ mine'[q] = mine[q] /\ mine[q] \in Mine /\ Local(q, pc[q], mine[q])
  BY <1>1, <1>9, Now DEF RequestInv, Types
<1>10. pc'[r] = "start" /\ mine'[r] = m
  BY <1>1 DEF RequestInv, Types
<1>11. LocalInv'
  <2> SUFFICES ASSUME NEW q \in Requests PROVE Local(q, pc[q], mine[q])'
    BY DEF LocalInv
  <2>1. CASE q = r
    <3>1. PICK o \in Mine : o = m
      BY <1>5
    <3>2. mine[r].space = o.space /\ mine[r].seen = o.seen /\ o.seen \in Nat /\ o.seen <= Len(raw)
      BY <1>2, <1>5, <3>1
    <3>3. o.space # NoOne => o.space \in OwnSpaces(User(r))'
      BY <1>1, <1>2, <1>6, <3>2 DEF Local, OwnSpaces
    <3>4. Counted(o.space, User(r), o.seen)' = Counted(o.space, User(r), o.seen)
      BY <1>7, <3>2
    <3>5. o.space # NoOne => Cardinality(Counted(o.space, User(r), o.seen))' < Cap
      BY <1>2, <3>2, <3>4 DEF Local
    <3>6. o.k \in DOMAIN Req[r].docs /\ o.row <= Len(raw') /\ o.seen <= Len(raw')
      BY <1>2, <1>5, <1>7, <3>1 DEF Local
    <3>7. Local(r, "start", o)'
      BY <1>5, <3>1, <3>3, <3>5, <3>6 DEF Local
    <3> QED
      BY <1>10, <2>1, <3>1, <3>7 DEF Local, OwnSpaces, Counted, InWindow, FreshAfter
  <2>2. CASE q # r
    <3>1. PICK p : p = pc[q]
      OBVIOUS
    <3>2. PICK o \in Mine : o = mine[q]
      BY <1>9, <2>2
    <3>3. pc'[q] = p /\ mine'[q] = o /\ Local(q, p, o)
      BY <1>9, <2>2, <3>1, <3>2
    <3>4. o.new => \A s \in spaces' : ~ Conflict(s, o.space)
      BY <1>1, <2>2, <3>2, <3>3 DEF Local, RequestInv, Apart, Conflict
    <3>5. Local(q, p, o)'
      BY <1>1, <1>3, <1>6, <3>3, <3>4, LocalGrows DEF RequestInv
    <3> QED
      BY <3>3, <3>5 DEF Local, OwnSpaces, Counted, InWindow, FreshAfter
  <2> QED
    BY <2>1, <2>2
<1>12. Apart'
  BY <1>5, <1>9, <1>10 DEF RequestInv, Apart, Conflict
<1>13. \A s, t \in spaces' : Conflict(s, t) => s = t
  BY <1>1, <1>2 DEF Local, RequestInv, RowsInv, Conflict
<1>14. ASSUME NEW d \in DOMAIN raw'
       PROVE  /\ raw'[d].seen < d
              /\ raw'[d].space # NoOne =>
                    /\ raw'[d].space \in OwnSpaces(raw[d].by)'
                    /\ Cardinality(Counted(raw[d].space, raw[d].by, raw[d].seen)') < Cap
  <2>1. CASE d = n
    <3>1. raw'[d] = row
      BY <1>7, <2>1
    <3>2. mine[r].space # NoOne => mine[r].space \in OwnSpaces(User(r))'
      BY <1>1, <1>2, <1>6 DEF Local, OwnSpaces
    <3>3. mine[r].space # NoOne =>
             Cardinality(Counted(mine[r].space, User(r), mine[r].seen)) < Cap
      BY <1>2 DEF Local
    <3>4. Counted(raw[d].space, raw[d].by, raw[d].seen)' = Counted(mine[r].space, User(r), mine[r].seen)
      BY <1>1, <1>2, <1>4, <1>7, <3>1 DEF Counted, InWindow
    <3>5. OwnSpaces(raw[d].by)' = {s \in spaces' : s.owner = User(r)}
      BY <1>4, <3>1 DEF OwnSpaces
    <3> QED
      BY <1>2, <1>4, <2>1, <3>1, <3>2, <3>3, <3>4, <3>5 DEF OwnSpaces, User
  <2>2. CASE d \in 1..Len(raw)
    <3>1. raw'[d] = raw[d] /\ d \in DOMAIN raw /\ raw[d] \in Row
      BY <1>7, <2>2, ElementOfSeq DEF RequestInv, Types
    <3>2. raw[d].seen \in Nat /\ raw[d].seen < d
      BY <3>1 DEF RequestInv, RowsInv, Row
    <3>3. Counted(raw[d].space, raw[d].by, raw[d].seen)' = Counted(raw[d].space, raw[d].by, raw[d].seen)
      BY <1>1, <1>2, <1>7, <2>2, <3>1, <3>2 DEF Counted, InWindow
    <3>4. OwnSpaces(raw[d].by) \subseteq OwnSpaces(raw[d].by)'
      BY <1>6, <3>1 DEF OwnSpaces
    <3> QED
      BY <3>1, <3>2, <3>3, <3>4 DEF RequestInv, RowsInv
  <2> QED
    BY <1>2, <1>7, <2>1, <2>2
<1>15. DuplicatesOverlap'
  <2> SUFFICES ASSUME NEW d \in DOMAIN raw', NEW e \in DOMAIN raw', d < e,
                      raw'[e].kind # "upload", raw'[d].doc = raw'[e].doc,
                      \A c \in d + 1..e - 1 : raw'[c].doc.id # raw'[d].doc.id
               PROVE  raw'[e].seen < d
    BY DEF DuplicatesOverlap
  <2>1. d \in 1..Len(raw) /\ raw'[d] = raw[d] /\ d \in DOMAIN raw
    BY <1>2, <1>7
  <2>2. \A c \in d + 1..e - 1 : raw[c] = raw'[c]
    BY <1>2, <1>7, <2>1
  <2>3. CASE e = n
    <3>1. raw'[e] = row /\ ~ IsUpload(r) /\ raw[d].doc = Req[r].docs[mine[r].k]
      BY <1>4, <1>7, <2>1, <2>3 DEF IsUpload, Doc
    <3>2. \A c \in d + 1..Len(raw) : raw[c].doc.id # raw[d].doc.id
      BY <1>2, <2>1, <2>2, <2>3
    <3>3. FreshAfter(mine[r].seen, Req[r].docs[mine[r].k])
      BY <1>2, <3>1 DEF Local
    <3> QED
      BY <1>4, <2>1, <3>1, <3>2, <3>3 DEF FreshAfter
  <2>4. CASE e \in 1..Len(raw)
    <3>1. raw'[e] = raw[e] /\ e \in DOMAIN raw
      BY <1>7, <2>4
    <3>2. \A c \in d + 1..e - 1 : raw[c].doc.id # raw[d].doc.id
      BY <2>1, <2>2
    <3> QED
      BY <2>1, <3>1, <3>2 DEF RequestInv, RowsInv, DuplicatesOverlap
  <2> QED
    BY <1>2, <1>7, <2>3, <2>4
<1>16. RowsInv'
  BY <1>13, <1>14, <1>15 DEF RowsInv, OwnSpaces, Counted, InWindow, Conflict
<1>17. CountInv'
  <2> DEFINE new == <<r, mine[r].k>>
  <2>1. new \in DocSlots /\ new[1] = r /\ new[2] = mine[r].k /\ mine[r].k \in Nat
    BY <1>2 DEF Local, DocSlots, Mine
  <2>2. new \notin Passed
    BY <1>1, <2>1 DEF Passed, BeforeCommit, Busy
  <2>3. Passed \union {new} \subseteq Passed'
    <3>1. new \in Passed'
      BY <1>5, <1>10, <2>1 DEF Passed, BeforeCommit, Busy
    <3>2. ASSUME NEW x \in Passed PROVE x \in Passed'
      <4>1. x \in DocSlots /\ x[1] \in Requests
        BY DEF Passed, DocSlots
      <4>2. CASE x[1] = r
        BY <1>1, <1>5, <1>10, <4>1, <4>2 DEF Passed, BeforeCommit, Busy
      <4>3. CASE x[1] # r
        BY <1>9, <4>1, <4>3 DEF Passed
      <4> QED
        BY <4>2, <4>3
    <3> QED
      BY <3>1, <3>2
  <2>4. IsFiniteSet(DocSlots) /\ Passed \in SUBSET DocSlots /\ Passed' \in SUBSET DocSlots
    BY ReqAssumption DEF Passed
  <2>5. IsFiniteSet(Passed) /\ IsFiniteSet(Passed')
    BY <2>4, FS_Subset
  <2> HIDE DEF new
  <2>6. Cardinality(Passed \union {new}) = Cardinality(Passed) + 1
    BY <2>2, <2>5, FS_AddElement
  <2>7. Cardinality(Passed \union {new}) <= Cardinality(Passed')
    BY <2>3, <2>5, FS_Subset
  <2>8. Cardinality(Passed) \in Nat /\ Cardinality(Passed') \in Nat
    BY <2>5, FS_CardinalityType
  <2> QED
    BY <1>2, <1>7, <2>6, <2>7, <2>8 DEF RequestInv, CountInv
<1> QED
  BY <1>8, <1>11, <1>12, <1>16, <1>17 DEF RequestInv

\* The requests of a process that dies end without an answer.
LEMMA ApiCrashesInv ==
    ASSUME RequestInv, NEW api, ApiCrashes(api)
    PROVE  RequestInv'
<1> DEFINE dying == {r \in Requests : Req[r].api = api /\ InService(r)}
<1>1. /\ pc' = [r \in Requests |-> IF r \in dying THEN "lost" ELSE pc[r]]
      /\ mine' = [r \in Requests |-> IF r \in dying THEN Closed(mine[r]) ELSE mine[r]]
      /\ UNCHANGED <<raw, spaces, sources, aged>>
  BY DEF ApiCrashes
<1>2. "lost" \in Answered /\ "lost" \in Steps /\ "lost" \notin BeforeCommit
  BY DEF Answered, Steps, BeforeCommit, Busy
<1>3. ASSUME NEW r \in Requests
      PROVE  /\ pc'[r] \in Steps /\ mine'[r] \in Mine
             /\ Local(r, pc'[r], mine'[r])
             /\ mine'[r].k = mine[r].k
             /\ mine'[r].new => mine'[r] = mine[r]
             /\ pc[r] \notin BeforeCommit => pc'[r] \notin BeforeCommit
  <2>1. CASE r \in dying
    <3>1. pc'[r] = "lost" /\ mine'[r] = Closed(mine[r])
      BY <1>1, <2>1
    <3> QED
      BY <1>2, <3>1, ClosedLocal
  <2>2. CASE r \notin dying
    <3>1. pc'[r] = pc[r] /\ mine'[r] = mine[r]
      BY <1>1, <2>2
    <3> QED
      BY <3>1, Now
  <2> QED
    BY <2>1, <2>2
<1>4. Types'
  BY <1>1, <1>3 DEF RequestInv, Types
<1>5. SameRows
  BY <1>1 DEF SameRows
<1>6. LocalInv'
  <2> SUFFICES ASSUME NEW r \in Requests PROVE Local(r, pc[r], mine[r])'
    BY DEF LocalInv
  <2>1. PICK p : p = pc'[r]
    OBVIOUS
  <2>2. PICK m \in Mine : m = mine'[r]
    BY <1>3
  <2>3. Local(r, p, m)
    BY <1>3, <2>1, <2>2
  <2>4. Local(r, p, m)'
    BY <1>1, <1>4, <1>5, <2>3, LocalStays DEF RequestInv
  <2> QED
    BY <2>1, <2>2, <2>4 DEF Local, OwnSpaces, Counted, InWindow, FreshAfter
<1>7. Apart'
  BY <1>3 DEF RequestInv, Apart, Conflict
<1>8. RowsInv'
  BY <1>1, <1>4, <1>5, RowsStay DEF RequestInv
<1>9. Passed \subseteq Passed'
  <2> SUFFICES ASSUME NEW x \in Passed PROVE x \in Passed'
    OBVIOUS
  <2>1. x \in DocSlots /\ x[1] \in Requests
    BY DEF Passed, DocSlots
  <2> QED
    BY <1>3, <2>1 DEF Passed
<1>10. CountInv'
  BY <1>1, <1>4, <1>9, CountStays DEF RequestInv
<1> QED
  BY <1>4, <1>6, <1>7, <1>8, <1>10 DEF RequestInv

\* A day that passes leaves fewer rows to be counted.
LEMMA DayPassesInv ==
    ASSUME RequestInv, DayPasses
    PROVE  RequestInv'
<1>1. aged' = Len(raw) /\ UNCHANGED <<raw, spaces, sources, pc, mine>>
  BY DEF DayPasses
<1>2. Types' /\ Len(raw) \in Nat /\ DOMAIN raw = 1..Len(raw)
  BY <1>1, LenProperties DEF RequestInv, Types
<1>3. ASSUME NEW s, NEW u, NEW n
      PROVE  Counted(s, u, n)' = {}
  BY <1>1, <1>2 DEF Counted, InWindow
<1>4. Cardinality({}) < Cap
  <2>1. Cap \in Nat \ {0}
    BY BoundsAssumption
  <2> QED
    BY <2>1, FS_EmptySet
<1>5. LocalInv'
  <2> SUFFICES ASSUME NEW r \in Requests PROVE Local(r, pc[r], mine[r])'
    BY DEF LocalInv
  <2>1. PICK m \in Mine : m = mine[r]
    BY Now
  <2>2. Cardinality(Counted(m.space, User(r), m.seen))' < Cap
    BY <1>3, <1>4
  <2>3. Local(r, pc[r], m)
    BY <2>1, Now
  <2> QED
    BY <1>1, <2>1, <2>2, <2>3 DEF Local, OwnSpaces, FreshAfter, Counted, InWindow
<1>6. Apart' /\ CountInv'
  BY <1>1 DEF RequestInv, Apart, CountInv, Passed
<1>7. RowsInv'
  <2>1. ASSUME NEW d \in DOMAIN raw
        PROVE  Counted(raw[d].space, raw[d].by, raw[d].seen)' = {}
    BY <1>1, <1>2 DEF Counted, InWindow
  <2>2. ASSUME NEW d \in DOMAIN raw
        PROVE  Cardinality(Counted(raw[d].space, raw[d].by, raw[d].seen)') < Cap
    BY <1>4, <2>1
  <2>3. DuplicatesOverlap'
    BY <1>1 DEF RequestInv, RowsInv, DuplicatesOverlap
  <2>4. ASSUME NEW d \in DOMAIN raw
        PROVE  /\ raw[d].seen < d
               /\ raw[d].space # NoOne => raw[d].space \in OwnSpaces(raw[d].by)'
    BY <1>1 DEF RequestInv, RowsInv, OwnSpaces
  <2>5. ASSUME NEW d \in DOMAIN raw
        PROVE  Counted(raw[d].space, raw[d].by, raw[d].seen)'
                 = {e \in InWindow(raw[d].space, raw[d].by)' : e <= raw[d].seen}
    BY <1>1 DEF Counted, InWindow
  <2>6. \A s, t \in spaces' : Conflict(s, t) => s = t
    BY <1>1 DEF RequestInv, RowsInv
  <2>7. ASSUME NEW d \in DOMAIN raw'
        PROVE  /\ raw'[d].seen < d
               /\ raw'[d].space # NoOne =>
                     /\ raw'[d].space \in OwnSpaces(raw[d].by)'
                     /\ Cardinality(Counted(raw[d].space, raw[d].by, raw[d].seen)') < Cap
    BY <1>1, <2>2, <2>4
  <2> QED
    BY <2>3, <2>6, <2>7 DEF RowsInv, OwnSpaces, Counted, InWindow, Conflict
<1> QED
  BY <1>2, <1>5, <1>6, <1>7 DEF RequestInv

\* A client that learns the outcome of its upload, and the steps of the worker.
LEMMA LearnsInv ==
    ASSUME RequestInv, NEW r \in Requests, pc[r] = "ok", NEW p \in {"done", "failed"}, Go(r, p),
           UNCHANGED <<raw, spaces, sources, mine, aged>>
    PROVE  RequestInv'
<1>1. mine' = [mine EXCEPT ![r] = mine[r]] /\ pc' = [pc EXCEPT ![r] = p]
  BY DEF Go, RequestInv, Types
<1>2. Local(r, p, mine[r])
  BY Now DEF Local, Holding
<1>3. p \in Steps /\ Advances(r, p, mine[r])
  BY DEF Steps, Answered, Advances, BeforeCommit, Busy
<1> QED
  BY <1>1, <1>2, <1>3, Now, OneMoves

LEMMA RequestStutterInv ==
    ASSUME RequestInv, UNCHANGED <<raw, spaces, sources, pc, mine, aged>>
    PROVE  RequestInv'
<1>1. Types'
  BY DEF RequestInv, Types
<1>2. LocalInv'
  <2>1. SameRows
    BY DEF SameRows
  <2>2. ASSUME NEW r \in Requests
        PROVE  Local(r, pc[r], mine[r])'
    <3>1. mine[r] \in Mine /\ Local(r, pc[r], mine[r])
      BY DEF RequestInv, Types, LocalInv
    <3> QED
      BY <1>1, <2>1, <3>1, LocalStays DEF RequestInv
  <2> QED
    BY <2>2 DEF LocalInv
<1>3. Apart' /\ CountInv'
  BY DEF RequestInv, Apart, CountInv, Passed
<1>4. RowsInv'
  BY <1>1, RowsStay DEF RequestInv, SameRows
<1> QED
  BY <1>1, <1>2, <1>3, <1>4 DEF RequestInv

LEMMA RequestInitInv == RequestInit => RequestInv
<1> SUFFICES ASSUME RequestInit PROVE RequestInv
  OBVIOUS
<1>1. raw \in Seq(Row) /\ Len(raw) = 0 /\ DOMAIN raw = {}
  BY EmptySeq DEF RequestInit
<1>2. ASSUME NEW r \in Requests
      PROVE  mine[r] \in Mine /\ mine[r].k = 1 /\ mine[r].space = NoOne /\ ~ mine[r].new
             /\ mine[r].seen = 0 /\ mine[r].row = 0 /\ pc[r] = "new"
  BY DEF RequestInit, Mine
<1>3. Types
  BY <1>1, <1>2 DEF RequestInit, Types, Steps, Mine
<1>4. LocalInv
  <2> SUFFICES ASSUME NEW r \in Requests PROVE Local(r, pc[r], mine[r])
    BY DEF LocalInv
  <2>1. Len(Req[r].docs) \in Nat \ {0} /\ DOMAIN Req[r].docs = 1..Len(Req[r].docs)
    BY ReqAssumption
  <2>2. \A l \in Nat \ {0} : 1 \in 1..l
    OBVIOUS
  <2>3. 1 \in DOMAIN Req[r].docs
    BY <2>1, <2>2
  <2> QED
    BY <1>1, <1>2, <2>3 DEF Local
<1>5. Apart
  BY <1>2 DEF Apart
<1>6. RowsInv
  BY <1>1 DEF RowsInv, DuplicatesOverlap, RequestInit
<1>7. CountInv
  <2>1. IsFiniteSet(Passed)
    BY ReqAssumption, FS_Subset DEF Passed
  <2> QED
    BY <1>1, <2>1, FS_CardinalityType DEF CountInv
<1> QED
  BY <1>3, <1>4, <1>5, <1>6, <1>7 DEF RequestInv

\* Every step of a request preserves the invariant.
LEMMA RequestNextInv == RequestInv /\ RequestNext => RequestInv'
<1> SUFFICES ASSUME RequestInv, RequestNext PROVE RequestInv'
  OBVIOUS
<1>1. ASSUME NEW r \in Requests, Serve(r) PROVE RequestInv'
  BY <1>1, LookupInv, ChooseSlugInv, InsertSpaceInv, RereadInv, CheckCapInv, ReadFileInv,
     ValidateInv, FindSourceInv, DeduplicateInv, CommitRowInv, StartWorkflowInv,
     StampFailedInv, RecordWorkflowIdInv DEF Serve
<1> QED
  BY <1>1, BeginInv, StartFailsInv, ApiCrashesInv, DayPassesInv DEF RequestNext
===============================================================================

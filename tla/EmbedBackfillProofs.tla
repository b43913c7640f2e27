-------------------------- MODULE EmbedBackfillProofs --------------------------
(****************************************************************************)
(* Proofs about EmbedBackfill, for every number of pages, chunks, ingests   *)
(* and batches and every bound on attempts and faults.                      *)
(*                                                                          *)
(* The inductive invariant says what an open transaction stands for. For    *)
(* each item it is done with it holds one new set of chunks, and a deletion *)
(* of every chunk there is, unless another mirror has committed the item    *)
(* since; what it deletes are whole sets, since the DELETE works on what    *)
(* was committed when it began; and no two sets are made at one time. It is *)
(* the lock on the item's row that confines such meetings to the pages that *)
(* are chunked again without it.                                            *)
(****************************************************************************)
EXTENDS EmbedBackfill, WellFoundedInduction, TLAPS

\* Functions from some of the items: texts collected, revisions written.
Partial == UNION {[S -> Nat] : S \in SUBSET Items}

Transaction == [item : Items \union {None}, revs : Partial, re : SUBSET Items,
                old : SUBSET Chunk, del : SUBSET Chunk, new : SUBSET Chunk,
                done : SUBSET Chunk, met : SUBSET Items]

\* The type of each variable.
ShapeInv ==
    /\ text \in [Items -> Nat] /\ current \in [Items -> Nat] /\ clock \in Nat /\ clock >= 1
    /\ chunks \subseteq Chunk /\ embedded \subseteq chunks
    /\ made \in [Items -> {"not", "alone", "met"}]
    /\ pc \in [Tasks -> {"ingest", "mirror", "snapshot", "visit", "insert", "lock", "store",
                         "delete", "kick", "idle", "embed", "write", "end"}]
    /\ tries \in [Tasks -> 0..MaxTries]
    /\ todo \in [Tasks -> Partial]
    /\ seen \in [Tasks -> SUBSET Items]
    /\ tx \in [Tasks -> Transaction]
    /\ batch \in [Tasks -> SUBSET Chunk]
    /\ faults \in 0..MaxFaults

Storing(t) == pc[t] \in {"store", "delete"}

\* What a transaction has done by each step of its activity: a mirror takes up the
\* next page it has to visit, by a write of its item or without, none twice, and
\* a backfill only updates.
Phase(t) ==
    /\ tx[t].item \in {None} \union (IF Storing(t) THEN {AtHand(t)} ELSE {})
    /\ tx[t].re \intersect DOMAIN todo[t] \subseteq (IF Storing(t) THEN {AtHand(t)} ELSE {})
    /\ Storing(t) => (AtHand(t) \in tx[t].re <=> tx[t].item = None)
    /\ Storing(t) \/ pc[t] \in {"insert", "lock"} => DOMAIN todo[t] # {}
    /\ (DOMAIN todo[t] \union tx[t].re) \intersect DOMAIN tx[t].revs = {}
    /\ pc[t] # "delete" => tx[t].old = {}
    /\ pc[t] # "write" => tx[t].done = {}
    /\ pc[t] = "write" => /\ tx[t].revs = NoTodo /\ tx[t].re = {}
                          /\ tx[t].del = {} /\ tx[t].new = {}
    /\ pc[t] \notin {"visit", "insert", "lock", "store", "delete", "write"} => tx[t] = NoTx

PhaseInv == \A t \in Tasks : Phase(t)

\* No row is locked by two transactions, and none is deleted that is locked.
LocksInv ==
    /\ \A t \in Tasks : Locked(t) \subseteq chunks
    /\ \A t, u \in Tasks : t # u =>
          Locked(t) \intersect Locked(u) = {} /\ Written(t) \intersect Written(u) = {}

SameCut(c, d) == c.item = d.item /\ c.rev = d.rev /\ c.born = d.born

\* The items a transaction is done with.
Completed(t) == Touched(t) \ DOMAIN todo[t]

\* The chunks of an item that no other mirror has committed since t took it up.
Replaced(t, i) ==
    /\ \E rev \in Nat, born \in 1..clock :
          /\ Of(i, tx[t].new) = Cut(i, rev, born)
          /\ i \in DOMAIN tx[t].revs => rev = tx[t].revs[i]
          /\ i \notin DOMAIN tx[t].revs /\ i \notin tx[t].met => rev = current[i]
    /\ i \notin tx[t].met => Of(i, chunks) \subseteq tx[t].del

\* Of each item it is done with a transaction holds one new set of chunks; it
\* deletes whole sets, of items it works on, and all there are of an item that
\* no other mirror has committed since.
Replaces(t) ==
    /\ \A c \in tx[t].del : c.item \in Touched(t)
    /\ \A c \in tx[t].old : c.item = AtHand(t)
    /\ \A c \in tx[t].new : c.item \in Completed(t)
    /\ \A i \in Completed(t) : Replaced(t, i)
    /\ pc[t] = "delete" /\ AtHand(t) \notin tx[t].met => Of(AtHand(t), chunks) \subseteq tx[t].old
    /\ Storing(t) /\ AtHand(t) \in tx[t].re \ tx[t].met => todo[t][AtHand(t)] = current[AtHand(t)]
    /\ \A c \in tx[t].del, d \in chunks : SameCut(c, d) => d \in tx[t].del \union tx[t].old
    /\ \A c \in tx[t].old \intersect chunks, d \in chunks : SameCut(c, d) => d \in tx[t].old

TxInv == \A t \in Tasks : Replaces(t)

\* A set that is not committed yet is made at another time than all others.
Apart(S, T) == \A c \in S, d \in T : c.born # d.born

FreshInv ==
    /\ \A c \in chunks : c.born < clock
    /\ \A t \in Tasks : /\ \A c \in tx[t].new \union tx[t].old : c.born < clock
                        /\ Apart(tx[t].new, chunks)
    /\ \A t, u \in Tasks : /\ Apart(tx[t].new, tx[u].old)
                           /\ t # u => Apart(tx[t].new, tx[u].new)

Inv == ShapeInv /\ PhaseInv /\ LocksInv /\ TxInv /\ FreshInv /\ ChunksOfCurrent

-----------------------------------------------------------------------------
(* Lemmas about the operators.                                             *)

\* A set of numbers that is not empty has a least one, which First takes.
LEMMA FirstIsMember ==
    ASSUME NEW S \in SUBSET Nat, S # {}
    PROVE  First(S) \in S
<1> DEFINE R == OpToRel(<, Nat)
<1>1. IsWellFoundedOn(R, Nat)
  BY NatLessThanWellFounded
<1>2. \A x, y \in Nat : y < x => <<y, x>> \in R
  BY DEF OpToRel
<1> HIDE DEF R
<1>3. PICK x \in S : \A y \in S : ~ (<<y, x>> \in R)
  BY <1>1, WFMin
<1>4. \A y \in S : ~ (y < x)
  BY <1>2, <1>3
<1>5. \A y \in S : x <= y
  BY <1>4
<1> QED
  BY <1>5 DEF First

LEMMA PartialIs ==
    ASSUME NEW f \in Partial
    PROVE  f \in [DOMAIN f -> Nat] /\ DOMAIN f \subseteq Items
BY DEF Partial

LEMMA MinusType ==
    ASSUME NEW f \in Partial, NEW i
    PROVE  Minus(f, i) \in Partial /\ DOMAIN Minus(f, i) = DOMAIN f \ {i}
<1>1. f \in [DOMAIN f -> Nat] /\ DOMAIN f \subseteq Items
  BY PartialIs
<1>2. Minus(f, i) \in [DOMAIN f \ {i} -> Nat]
  BY <1>1 DEF Minus
<1> QED
  BY <1>1, <1>2 DEF Partial, Minus

LEMMA PlusType ==
    ASSUME NEW f \in Partial, NEW i \in Items, NEW n \in Nat
    PROVE  /\ Plus(f, i, n) \in Partial /\ DOMAIN Plus(f, i, n) = DOMAIN f \union {i}
           /\ Plus(f, i, n)[i] = n
           /\ \A j \in DOMAIN f \ {i} : Plus(f, i, n)[j] = f[j]
<1>1. f \in [DOMAIN f -> Nat] /\ DOMAIN f \subseteq Items
  BY PartialIs
<1>2. Plus(f, i, n) \in [DOMAIN f \union {i} -> Nat]
  BY <1>1 DEF Plus
<1>3. DOMAIN f \union {i} \in SUBSET Items
  BY <1>1
<1> QED
  BY <1>1, <1>2, <1>3 DEF Partial, Plus

LEMMA CutType ==
    ASSUME NEW i \in Items, NEW r \in Nat, NEW born \in Nat
    PROVE  /\ Cut(i, r, born) \subseteq Chunk
           /\ \A c \in Cut(i, r, born) : c.item = i /\ c.rev = r /\ c.born = born
           /\ ChunksOf[i] > 0 => Cut(i, r, born) # {}
<1>1. ChunksOf[i] \in Nat
  BY BackfillAssumption
<1>2. /\ Cut(i, r, born) \subseteq Chunk
      /\ \A c \in Cut(i, r, born) : c.item = i /\ c.rev = r /\ c.born = born
  BY <1>1 DEF Cut, Chunk
<1>3. ASSUME ChunksOf[i] > 0 PROVE Cut(i, r, born) # {}
  <2>1. 1 \in 1..ChunksOf[i]
    BY <1>1, <1>3
  <2>2. [item |-> i, rev |-> r, n |-> 1, born |-> born] \in Cut(i, r, born)
    BY <2>1 DEF Cut
  <2> QED
    BY <2>2
<1> QED
  BY <1>2, <1>3

LEMMA NoTxType ==
    /\ NoTx \in Transaction /\ NoTodo \in Partial
    /\ NoTx.item = None /\ DOMAIN NoTx.revs = {} /\ NoTx.re = {} /\ NoTx.old = {}
    /\ NoTx.del = {} /\ NoTx.new = {} /\ NoTx.done = {} /\ NoTx.met = {}
    /\ DOMAIN NoTodo = {} /\ NoTx.revs = NoTodo
<1>1. NoTodo \in [{} -> Nat] /\ NoTx.revs = NoTodo
  BY DEF NoTodo, NoTx
<1>2. NoTodo \in Partial
  BY <1>1 DEF Partial
<1> QED
  BY <1>1, <1>2 DEF NoTx, Transaction, NoTodo

LEMMA TypeFromInv ==
    ASSUME Inv PROVE TypeOK
<1>1. \A t \in Tasks : /\ todo[t] \in Partial /\ tx[t] \in Transaction /\ batch[t] \subseteq Chunk
                      /\ seen[t] \subseteq Items
  BY DEF Inv, ShapeInv
<1>2. \A t \in Tasks : DOMAIN todo[t] \subseteq Items /\ tx[t].new \subseteq Chunk
  BY <1>1, PartialIs DEF Transaction
<1> QED
  BY <1>1, <1>2 DEF Inv, ShapeInv, PhaseInv, Phase, LocksInv, TypeOK

\* Two transactions meet on what both work on: not both have locked its row.
LEMMA SharedIs ==
    ASSUME Inv, NEW w \in Tasks, NEW u \in Tasks \ {w}
    PROVE  Shared(w, u) = Touched(w) \intersect Touched(u)
<1>1. Written(w) \intersect Written(u) = {}
  BY DEF Inv, LocksInv
<1> QED
  BY <1>1 DEF Shared, Touched

\* A transaction that has nothing written stands for nothing.
LEMMA NoTxStands ==
    ASSUME NEW t, tx[t] = NoTx, ~ Storing(t)
    PROVE  Locked(t) = {} /\ Written(t) = {} /\ Touched(t) = {} /\ Replaces(t)
<1>1. Locked(t) = {} /\ Written(t) = {} /\ Touched(t) = {} /\ Completed(t) = {}
  BY NoTxType DEF Locked, Written, Touched, Completed
<1> QED
  BY <1>1, NoTxType DEF Replaces, Storing

-----------------------------------------------------------------------------
(* Steps.                                                                  *)

\* What stands for an item stays, if more of its chunks are deleted.
LEMMA ReplacedStays ==
    ASSUME NEW u, NEW i, Replaced(u, i), UNCHANGED <<current, chunks>>,
           clock \in Nat, clock' \in Nat, clock' >= clock,
           tx'[u].new = tx[u].new, tx'[u].revs = tx[u].revs, tx'[u].met = tx[u].met,
           tx[u].del \subseteq tx'[u].del
    PROVE  Replaced(u, i)'
<1>1. PICK rev \in Nat, born \in 1..clock :
          /\ Of(i, tx[u].new) = Cut(i, rev, born)
          /\ i \in DOMAIN tx[u].revs => rev = tx[u].revs[i]
          /\ i \notin DOMAIN tx[u].revs /\ i \notin tx[u].met => rev = current[i]
  BY DEF Replaced
<1>2. born \in 1..clock'
  OBVIOUS
<1>3. Of(i, tx'[u].new) = Cut(i, rev, born) /\ Of(i, chunks)' = Of(i, chunks)
  BY <1>1 DEF Of
<1>4. \E r \in Nat, b \in 1..clock' :
          /\ Of(i, tx'[u].new) = Cut(i, r, b)
          /\ i \in DOMAIN tx'[u].revs => r = tx'[u].revs[i]
          /\ i \notin DOMAIN tx'[u].revs /\ i \notin tx'[u].met => r = current'[i]
  BY <1>1, <1>2, <1>3
<1>5. i \notin tx'[u].met => Of(i, chunks') \subseteq tx'[u].del
  BY <1>3 DEF Replaced, Of
<1> QED
  BY <1>4, <1>5 DEF Replaced, Of, Cut

\* What a transaction stands for does not change with what it does not read.
LEMMA Undisturbed ==
    ASSUME Inv, NEW u \in Tasks, tx'[u] = tx[u], todo'[u] = todo[u], pc'[u] = pc[u],
           UNCHANGED <<current, chunks>>, clock' \in Nat, clock' >= clock
    PROVE  Phase(u)' /\ Replaces(u)' /\ Locked(u)' = Locked(u) /\ Written(u)' = Written(u)
<1>1. /\ AtHand(u)' = AtHand(u) /\ Storing(u)' = Storing(u) /\ Locked(u)' = Locked(u)
      /\ Written(u)' = Written(u)
  BY DEF AtHand, Storing, Locked, Written
<1>2. Touched(u)' = Touched(u) /\ Completed(u)' = Completed(u)
  BY <1>1 DEF Touched, Completed
<1>3. Phase(u)'
  BY <1>1 DEF Inv, PhaseInv, Phase
<1>4. Replaces(u)
  BY DEF Inv, TxInv
<1>5. \A i \in Completed(u) : Replaced(u, i)'
  <2>1. clock \in Nat
    BY DEF Inv, ShapeInv
  <2>2. \A i \in Completed(u) : Replaced(u, i)
    BY <1>4 DEF Replaces
  <2> QED
    BY <2>1, <2>2, ReplacedStays
<1>6. Replaces(u)'
  BY <1>1, <1>2, <1>4, <1>5 DEF Replaces, Of
<1> QED
  BY <1>1, <1>3, <1>6

\* Steps of t that touch neither a transaction nor what is committed.
LEMMA MoveKeepsInv ==
    ASSUME Inv, ShapeInv', NEW t \in Tasks, Phase(t)', Replaces(t)',
           UNCHANGED <<current, chunks, clock, made, tx>>,
           \A u \in Tasks \ {t} : pc'[u] = pc[u] /\ todo'[u] = todo[u]
    PROVE  Inv'
<1>1. clock \in Nat
  BY DEF Inv, ShapeInv
<1>2. \A u \in Tasks \ {t} : Phase(u)' /\ Replaces(u)'
  BY <1>1, Undisturbed
<1>3. LocksInv'
  BY DEF Inv, LocksInv, Locked, Written
<1>4. FreshInv'
  BY DEF Inv, FreshInv
<1>5. ChunksOfCurrent'
  BY DEF Inv, ChunksOfCurrent, Of, Cut
<1> QED
  BY <1>2, <1>3, <1>4, <1>5 DEF Inv, PhaseInv, TxInv

\* The transaction of t is over and has changed no chunk.
LEMMA EndKeepsInv ==
    ASSUME Inv, NEW t \in Tasks, Close(t), NEW s \in {"mirror", "kick", "idle", "end"}, Go(t, s),
           tries' \in [Tasks -> 0..MaxTries], faults' \in 0..MaxFaults,
           UNCHANGED <<text, current, chunks, clock, made>>, embedded' \subseteq chunks
    PROVE  Inv'
<1>1. ShapeInv'
  BY NoTxType DEF Inv, ShapeInv, Close, Go
<1>2. /\ pc'[t] = s /\ tx'[t] = NoTx /\ todo'[t] = NoTodo
      /\ \A u \in Tasks \ {t} : pc'[u] = pc[u] /\ tx'[u] = tx[u] /\ todo'[u] = todo[u]
  BY DEF Inv, ShapeInv, Close, Go
<1>3. clock \in Nat
  BY DEF Inv, ShapeInv
<1>4. \A u \in Tasks \ {t} : /\ Phase(u)' /\ Replaces(u)'
                             /\ Locked(u)' = Locked(u) /\ Written(u)' = Written(u)
  BY <1>2, <1>3, Undisturbed
<1>5. Locked(t)' = {} /\ Written(t)' = {}
  BY <1>2, NoTxType DEF Locked, Written
<1>6. Phase(t)'
  BY <1>2, NoTxType DEF Phase, Storing
<1>7. Replaces(t)'
  <2>1. Touched(t)' = {} /\ Completed(t)' = {}
    BY <1>2, <1>5, NoTxType DEF Touched, Completed
  <2> QED
    BY <1>2, <2>1, NoTxType DEF Replaces, Storing
<1>8. LocksInv'
  BY <1>4, <1>5 DEF Inv, LocksInv
<1>9. FreshInv'
  BY <1>2, NoTxType DEF Inv, FreshInv, Apart
<1>10. ChunksOfCurrent'
  BY DEF Inv, ChunksOfCurrent, Of, Cut
<1> QED
  BY <1>1, <1>4, <1>6, <1>7, <1>8, <1>9, <1>10 DEF Inv, PhaseInv, TxInv

LEMMA RaiseKeepsInv ==
    ASSUME Inv, NEW t \in Tasks, Raise(t), faults' \in 0..MaxFaults
    PROVE  Inv'
<1>1. tries[t] \in Nat /\ MaxTries \in Nat \ {0}
  BY BackfillAssumption DEF Inv, ShapeInv
<1>2. tries' \in [Tasks -> 0..MaxTries]
  BY <1>1 DEF Raise, Done, Inv, ShapeInv
<1>3. \E s \in {"mirror", "kick", "idle", "end"} : Close(t) /\ Go(t, s)
  BY DEF Raise, Done, Rest
<1> QED
  BY <1>2, <1>3, EndKeepsInv DEF Raise, table, Inv, ShapeInv

LEMMA DoneKeepsInv ==
    ASSUME Inv, NEW t \in Tasks, NEW s \in {"kick", "idle", "end"}, Done(t, s),
           faults' \in 0..MaxFaults,
           UNCHANGED <<text, current, chunks, clock, made>>, embedded' \subseteq chunks
    PROVE  Inv'
<1>1. tries' \in [Tasks -> 0..MaxTries]
  BY BackfillAssumption DEF Done, Inv, ShapeInv
<1> QED
  BY <1>1, EndKeepsInv DEF Done

LEMMA FaultType ==
    ASSUME Inv, NEW k, Fault(k) PROVE faults' \in 0..MaxFaults
BY BackfillAssumption DEF Inv, ShapeInv, Fault

\* Only t's transaction changes, and not which chunks there are.
LEMMA TxKeepsInv ==
    ASSUME Inv, NEW t \in Tasks, ShapeInv', Phase(t)', Replaces(t)', FreshInv',
           UNCHANGED <<current, chunks, made>>, clock' >= clock,
           \A u \in Tasks \ {t} : pc'[u] = pc[u] /\ todo'[u] = todo[u] /\ tx'[u] = tx[u],
           Locked(t)' \subseteq chunks,
           \A u \in Tasks \ {t} : /\ Locked(t)' \intersect Locked(u) = {}
                                  /\ Written(t)' \intersect Written(u) = {}
    PROVE  Inv'
<1>1. clock \in Nat /\ clock' \in Nat /\ 1..clock \subseteq 1..clock'
  BY DEF Inv, ShapeInv
<1>2. \A u \in Tasks \ {t} : /\ Phase(u)' /\ Replaces(u)'
                             /\ Locked(u)' = Locked(u) /\ Written(u)' = Written(u)
  BY <1>1, Undisturbed
<1>3. LocksInv'
  BY <1>2 DEF Inv, LocksInv
<1>4. ChunksOfCurrent'
  BY <1>1 DEF Inv, ChunksOfCurrent, Of, Cut
<1> QED
  BY <1>2, <1>3, <1>4 DEF Inv, PhaseInv, TxInv

\* Reading chunks makes none.
LEMMA StaysFresh ==
    ASSUME Inv, NEW t \in Tasks, UNCHANGED <<chunks, clock>>,
           \A u \in Tasks \ {t} : tx'[u] = tx[u],
           tx'[t].new = tx[t].new, tx'[t].old \subseteq tx[t].old \union chunks
    PROVE  FreshInv'
BY DEF Inv, FreshInv, Apart

\* The item a mirror is about to take up, or is working on.
LEMMA ItemAtHand ==
    ASSUME Inv, NEW t \in Tasks, DOMAIN todo[t] # {}
    PROVE  /\ AtHand(t) \in DOMAIN todo[t] /\ AtHand(t) \in Items /\ AtHand(t) # None
           /\ todo[t][AtHand(t)] \in Nat
           /\ AtHand(t) \notin DOMAIN tx[t].revs
<1>1. todo[t] \in Partial /\ Phase(t)
  BY DEF Inv, ShapeInv, PhaseInv
<1>2. todo[t] \in [DOMAIN todo[t] -> Nat] /\ DOMAIN todo[t] \subseteq Items
  BY <1>1, PartialIs
<1>3. AtHand(t) \in DOMAIN todo[t]
  BY <1>2, FirstIsMember, BackfillAssumption DEF AtHand
<1> QED
  BY <1>1, <1>2, <1>3, BackfillAssumption DEF Phase

\* The mirror writes the item at hand, which no other mirror has written.
LEMMA WritesKeepsInv ==
    ASSUME Inv, NEW w \in Tasks, pc[w] \in {"insert", "lock"}, Unwaited(w), Writes(w)
    PROVE  Inv'
<1> DEFINE i == AtHand(w)
<1>1. /\ pc' = [pc EXCEPT ![w] = "store"]
      /\ tx' = [tx EXCEPT ![w].item = i]
      /\ \A u \in Tasks \ {w} : i \notin Written(u)
      /\ UNCHANGED <<text, current, chunks, embedded, clock, made, tries, todo, seen, batch, faults>>
  BY DEF Writes, Unwaited, Go, table
<1>2. tx[w] \in Transaction /\ Phase(w) /\ Replaces(w) /\ DOMAIN todo[w] # {}
  BY DEF Inv, ShapeInv, PhaseInv, TxInv, Phase
<1>3. i \in DOMAIN todo[w] /\ i \in Items /\ i # None /\ i \notin DOMAIN tx[w].revs
  BY <1>2, ItemAtHand
<1>4. AtHand(w)' = i
  BY <1>1 DEF AtHand
<1> HIDE DEF i
<1>5. /\ tx'[w] = [tx[w] EXCEPT !.item = i] /\ tx'[w] \in Transaction /\ pc'[w] = "store"
      /\ \A u \in Tasks \ {w} : pc'[u] = pc[u] /\ tx'[u] = tx[u]
  BY <1>1, <1>2, <1>3 DEF Inv, ShapeInv, Transaction
<1>6. /\ tx'[w].item = i /\ tx'[w].revs = tx[w].revs /\ tx'[w].re = tx[w].re
      /\ tx'[w].old = tx[w].old /\ tx'[w].del = tx[w].del /\ tx'[w].new = tx[w].new
      /\ tx'[w].done = tx[w].done /\ tx'[w].met = tx[w].met
  BY <1>2, <1>5 DEF Transaction
<1>7. ShapeInv'
  BY <1>1, <1>5 DEF Inv, ShapeInv
<1>8. /\ tx[w].item = None /\ tx[w].re \intersect DOMAIN todo[w] = {} /\ i \notin tx[w].re
      /\ tx[w].old = {} /\ tx[w].done = {} /\ pc[w] # "delete"
  BY <1>2, <1>3 DEF Phase, Storing
<1>9. Phase(w)'
  BY <1>1, <1>2, <1>3, <1>4, <1>5, <1>6, <1>8 DEF Phase, Storing
<1>10. /\ Written(w)' = Written(w) \union {i} /\ Locked(w)' = Locked(w)
       /\ Touched(w)' = Touched(w) \union {i} /\ Completed(w)' = Completed(w)
  BY <1>1, <1>3, <1>6, <1>8 DEF Written, Locked, Touched, Completed
<1>11. \A j \in Completed(w) : Replaced(w, j)'
  BY <1>1, <1>2, <1>6, ReplacedStays DEF Replaces, Inv, ShapeInv
<1>12. Replaces(w)'
  BY <1>1, <1>2, <1>4, <1>5, <1>6, <1>8, <1>10, <1>11 DEF Replaces, Of
<1>13. FreshInv'
  BY <1>1, <1>5, <1>6, StaysFresh
<1>14. clock' >= clock
  BY <1>1 DEF Inv, ShapeInv
<1> QED
  BY <1>1, <1>5, <1>7, <1>9, <1>10, <1>12, <1>13, <1>14, TxKeepsInv DEF Inv, LocksInv

\* A page that is skipped, chunked again or changed.
LEMMA VisitKeepsInv ==
    ASSUME Inv, NEW w \in Tasks, Visit(w)
    PROVE  Inv'
<1> DEFINE i == AtHand(w)
<1>1. /\ pc[w] = "visit" /\ DOMAIN todo[w] # {}
      /\ UNCHANGED <<text, current, chunks, embedded, clock, made, tries, seen, batch, faults>>
  BY DEF Visit, table
<1>2. tx[w] \in Transaction /\ Phase(w) /\ Replaces(w) /\ todo[w] \in Partial
  BY DEF Inv, ShapeInv, PhaseInv, TxInv
<1>3. i \in DOMAIN todo[w] /\ i \in Items /\ i # None /\ i \notin DOMAIN tx[w].revs
  BY <1>1, ItemAtHand
<1>4. /\ tx[w].item = None /\ tx[w].re \intersect DOMAIN todo[w] = {} /\ i \notin tx[w].re
      /\ tx[w].old = {} /\ tx[w].done = {}
  BY <1>1, <1>2, <1>3 DEF Phase, Storing
<1>5. clock' >= clock /\ clock \in Nat
  BY <1>1 DEF Inv, ShapeInv
<1>6. CASE todo' = [todo EXCEPT ![w] = Minus(@, i)] /\ UNCHANGED <<pc, tx>>
  <2>1. Minus(todo[w], i) \in Partial /\ DOMAIN Minus(todo[w], i) = DOMAIN todo[w] \ {i}
    BY <1>2, MinusType
  <2> HIDE DEF i
  <2>2. ShapeInv' /\ DOMAIN todo'[w] = DOMAIN todo[w] \ {i}
        /\ \A u \in Tasks \ {w} : todo'[u] = todo[u]
    BY <1>1, <1>6, <2>1 DEF Inv, ShapeInv
  <2>3. Phase(w)'
    BY <1>1, <1>2, <1>6, <2>2 DEF Phase, Storing
  <2>4. Touched(w)' = Touched(w) /\ i \notin Touched(w)
    BY <1>3, <1>4, <1>6 DEF Touched, Written
  <2>5. Completed(w)' = Completed(w)
    BY <2>2, <2>4 DEF Completed
  <2>6. \A j \in Completed(w) : Replaced(w, j)'
    BY <1>1, <1>2, <1>6, ReplacedStays DEF Replaces, Inv, ShapeInv
  <2>7. Replaces(w)'
    BY <1>1, <1>2, <1>4, <1>6, <2>4, <2>5, <2>6 DEF Replaces, Storing
  <2> QED
    BY <1>1, <1>6, <2>2, <2>3, <2>7, MoveKeepsInv
<1>7. CASE /\ current[i] = todo[w][i] /\ pc' = [pc EXCEPT ![w] = "store"]
           /\ tx' = [tx EXCEPT ![w].re = @ \union {i}] /\ UNCHANGED todo
  <2>1. AtHand(w)' = i
    BY <1>7 DEF AtHand
  <2> HIDE DEF i
  <2>2. /\ tx'[w] = [tx[w] EXCEPT !.re = tx[w].re \union {i}] /\ tx'[w] \in Transaction
        /\ pc'[w] = "store" /\ \A u \in Tasks \ {w} : pc'[u] = pc[u] /\ tx'[u] = tx[u]
    BY <1>2, <1>3, <1>7 DEF Inv, ShapeInv, Transaction
  <2>3. /\ tx'[w].item = tx[w].item /\ tx'[w].revs = tx[w].revs /\ tx'[w].re = tx[w].re \union {i}
        /\ tx'[w].old = tx[w].old /\ tx'[w].del = tx[w].del /\ tx'[w].new = tx[w].new
        /\ tx'[w].done = tx[w].done /\ tx'[w].met = tx[w].met
    BY <1>2, <2>2 DEF Transaction
  <2>4. ShapeInv'
    BY <1>1, <1>7, <2>2 DEF Inv, ShapeInv
  <2>5. Phase(w)'
    BY <1>1, <1>2, <1>3, <1>4, <1>7, <2>1, <2>2, <2>3 DEF Phase, Storing
  <2>6. /\ Written(w)' = Written(w) /\ Locked(w)' = Locked(w)
        /\ Touched(w)' = Touched(w) \union {i} /\ Completed(w)' = Completed(w)
    BY <1>3, <1>7, <2>3 DEF Written, Locked, Touched, Completed
  <2>7. \A j \in Completed(w) : Replaced(w, j)'
    BY <1>1, <1>2, <2>3, ReplacedStays DEF Replaces, Inv, ShapeInv
  <2>8. todo'[w][i] = current'[i]
    BY <1>1, <1>7
  <2>9. Replaces(w)'
    BY <1>1, <1>2, <1>4, <2>1, <2>2, <2>3, <2>6, <2>7, <2>8 DEF Replaces
  <2>10. FreshInv'
    BY <1>1, <2>2, <2>3, StaysFresh
  <2> QED
    BY <1>1, <1>5, <1>7, <2>2, <2>4, <2>5, <2>6, <2>9, <2>10, TxKeepsInv DEF Inv, LocksInv
<1>8. CASE /\ pc' = [pc EXCEPT ![w] = IF current[i] = 0 THEN "insert" ELSE "lock"]
           /\ UNCHANGED <<todo, tx>>
  <2>1. ShapeInv' /\ pc'[w] \in {"insert", "lock"} /\ \A u \in Tasks \ {w} : pc'[u] = pc[u]
    BY <1>1, <1>8 DEF Inv, ShapeInv
  <2>2. Phase(w)'
    BY <1>1, <1>2, <1>4, <1>8, <2>1 DEF Phase, Storing
  <2>3. Touched(w)' = Touched(w) /\ Completed(w)' = Completed(w)
    BY <1>8 DEF Touched, Written, Completed
  <2>4. \A j \in Completed(w) : Replaced(w, j)'
    BY <1>1, <1>2, <1>8, ReplacedStays DEF Replaces, Inv, ShapeInv
  <2>5. Replaces(w)'
    BY <1>1, <1>2, <1>4, <1>8, <2>1, <2>3, <2>4 DEF Replaces, Storing
  <2> QED
    BY <1>1, <1>8, <2>1, <2>2, <2>5, MoveKeepsInv
<1> QED
  BY <1>6, <1>7, <1>8 DEF Visit, Go

LEMMA FindChunksKeepsInv ==
    ASSUME Inv, NEW w \in Tasks, FindChunks(w)
    PROVE  Inv'
<1> DEFINE i == AtHand(w)
<1>1. /\ pc[w] = "store" /\ pc' = [pc EXCEPT ![w] = "delete"]
      /\ tx' = [tx EXCEPT ![w].old = Of(i, chunks)]
      /\ UNCHANGED <<text, current, chunks, embedded, clock, made, tries, todo, seen, batch, faults>>
  BY DEF FindChunks, Go, table
<1>2. tx[w] \in Transaction /\ Phase(w) /\ Replaces(w) /\ Of(i, chunks) \subseteq Chunk
  BY DEF Inv, ShapeInv, PhaseInv, TxInv, Of
<1>3. AtHand(w)' = i
  BY <1>1 DEF AtHand
<1> HIDE DEF i
<1>4. /\ tx'[w] = [tx[w] EXCEPT !.old = Of(i, chunks)] /\ tx'[w] \in Transaction
      /\ pc'[w] = "delete" /\ \A u \in Tasks \ {w} : pc'[u] = pc[u] /\ tx'[u] = tx[u]
  BY <1>1, <1>2 DEF Inv, ShapeInv, Transaction
<1>5. /\ tx'[w].item = tx[w].item /\ tx'[w].revs = tx[w].revs /\ tx'[w].re = tx[w].re
      /\ tx'[w].old = Of(i, chunks) /\ tx'[w].del = tx[w].del /\ tx'[w].new = tx[w].new
      /\ tx'[w].done = tx[w].done /\ tx'[w].met = tx[w].met
  BY <1>2, <1>4 DEF Transaction
<1>6. ShapeInv'
  BY <1>1, <1>4 DEF Inv, ShapeInv
<1>7. AtHand(w) = i /\ Storing(w) /\ Storing(w)' /\ tx[w].old = {}
  BY <1>1, <1>2, <1>4 DEF Phase, Storing, i
<1>8. Phase(w)'
  BY <1>1, <1>2, <1>3, <1>4, <1>5, <1>7 DEF Phase
<1>9. /\ Written(w)' = Written(w) /\ Locked(w)' = Locked(w)
      /\ Touched(w)' = Touched(w) /\ Completed(w)' = Completed(w)
  BY <1>1, <1>5 DEF Written, Locked, Touched, Completed
<1>10. \A j \in Completed(w) : Replaced(w, j)'
  BY <1>1, <1>2, <1>5, ReplacedStays DEF Replaces, Inv, ShapeInv
<1>11. /\ \A c \in Of(i, chunks) : c.item = i
       /\ \A c \in Of(i, chunks), d \in chunks : SameCut(c, d) => d \in Of(i, chunks)
       /\ Of(i, chunks') = Of(i, chunks)
  <2>1. \A d : d \in Of(i, chunks) <=> d \in chunks /\ d.item = i
    BY DEF Of
  <2>2. \A c \in Of(i, chunks), d \in chunks : SameCut(c, d) => d \in Of(i, chunks)
    BY <2>1 DEF SameCut
  <2> QED
    BY <1>1, <2>1, <2>2
<1>12. Replaces(w)'
  BY <1>1, <1>2, <1>3, <1>4, <1>5, <1>7, <1>9, <1>10, <1>11 DEF Replaces
<1>13. FreshInv'
  BY <1>1, <1>4, <1>5, StaysFresh DEF Of
<1>14. clock' >= clock
  BY <1>1 DEF Inv, ShapeInv
<1> QED
  BY <1>1, <1>4, <1>6, <1>8, <1>9, <1>12, <1>13, <1>14, TxKeepsInv DEF Inv, LocksInv

LEMMA DeleteChunkKeepsInv ==
    ASSUME Inv, NEW w \in Tasks, DeleteChunk(w)
    PROVE  Inv'
<1>1. PICK c \in Old(w) : /\ \A u \in Tasks \ {w} : c \notin Locked(u)
                          /\ tx' = [tx EXCEPT ![w].del = @ \union {c}]
  BY DEF DeleteChunk
<1>2. /\ pc[w] = "delete"
      /\ UNCHANGED <<pc, text, current, chunks, embedded, clock, made, tries, todo, seen, batch, faults>>
  BY DEF DeleteChunk, table
<1>3. tx[w] \in Transaction /\ Phase(w) /\ Replaces(w)
  BY DEF Inv, ShapeInv, PhaseInv, TxInv
<1>4. c \in chunks /\ c \in Chunk /\ c \in tx[w].old /\ c.item = AtHand(w) /\ AtHand(w)' = AtHand(w)
  BY <1>1, <1>2, <1>3 DEF Old, Inv, ShapeInv, Replaces, AtHand
<1>5. /\ tx'[w] \in Transaction /\ tx'[w].item = tx[w].item /\ tx'[w].revs = tx[w].revs
      /\ tx'[w].re = tx[w].re /\ tx'[w].old = tx[w].old /\ tx'[w].met = tx[w].met
      /\ tx'[w].del = tx[w].del \union {c} /\ tx'[w].new = tx[w].new
      /\ tx'[w].done = tx[w].done
      /\ \A u \in Tasks \ {w} : tx'[u] = tx[u]
  BY <1>1, <1>3, <1>4 DEF Inv, ShapeInv, Transaction
<1>6. ShapeInv'
  BY <1>2, <1>1, <1>5 DEF Inv, ShapeInv
<1>7. Phase(w)'
  BY <1>2, <1>3, <1>4, <1>5 DEF Phase, Storing
<1>8. /\ Written(w)' = Written(w) /\ Locked(w)' = Locked(w) \union {c}
      /\ Touched(w)' = Touched(w) /\ Completed(w)' = Completed(w)
  BY <1>2, <1>5 DEF Written, Locked, Touched, Completed
<1>9. AtHand(w) \in Touched(w)
  <2>1. AtHand(w) # None
    BY <1>2, <1>3, ItemAtHand DEF Phase, Storing
  <2> QED
    BY <1>2, <1>3, <2>1 DEF Phase, Storing, Touched, Written
<1>10. \A j \in Completed(w) : Replaced(w, j)'
  BY <1>2, <1>3, <1>5, ReplacedStays DEF Replaces, Inv, ShapeInv
<1>11. Replaces(w)'
  BY <1>2, <1>3, <1>4, <1>5, <1>8, <1>9, <1>10 DEF Replaces, Storing, Of
<1>12. FreshInv'
  BY <1>2, <1>5, StaysFresh
<1>13. clock' >= clock
  BY <1>2 DEF Inv, ShapeInv
<1> QED
  BY <1>1, <1>2, <1>4, <1>5, <1>6, <1>7, <1>8, <1>11, <1>12, <1>13, TxKeepsInv DEF Inv, LocksInv

LEMMA WriteVectorKeepsInv ==
    ASSUME Inv, NEW t \in Tasks, WriteVector(t)
    PROVE  Inv'
<1>1. PICK c \in Unwritten(t) : /\ \A u \in Tasks \ {t} : c \notin Locked(u)
                                /\ tx' = [tx EXCEPT ![t].done = @ \union {c}]
  BY DEF WriteVector
<1>2. /\ pc[t] = "write"
      /\ UNCHANGED <<pc, text, current, chunks, embedded, clock, made, tries, todo, seen, batch,
                     faults>>
  BY DEF WriteVector, table
<1>3. c \in chunks /\ c \in Chunk
  BY <1>1 DEF Unwritten, Inv, ShapeInv
<1>4. tx[t] \in Transaction /\ Phase(t) /\ Replaces(t)
  BY DEF Inv, ShapeInv, PhaseInv, TxInv
<1>5. /\ tx'[t] \in Transaction /\ tx'[t].item = tx[t].item /\ tx'[t].revs = tx[t].revs
      /\ tx'[t].re = tx[t].re /\ tx'[t].old = tx[t].old /\ tx'[t].met = tx[t].met
      /\ tx'[t].del = tx[t].del /\ tx'[t].new = tx[t].new
      /\ tx'[t].done = tx[t].done \union {c}
      /\ \A u \in Tasks \ {t} : tx'[u] = tx[u]
  BY <1>1, <1>3, <1>4 DEF Inv, ShapeInv, Transaction
<1>6. ShapeInv'
  BY <1>2, <1>1, <1>5 DEF Inv, ShapeInv
<1>7. Phase(t)'
  BY <1>2, <1>4, <1>5 DEF Phase, Storing, AtHand
<1>8. /\ Written(t)' = Written(t) /\ Locked(t)' = Locked(t) \union {c}
      /\ Touched(t)' = Touched(t) /\ Completed(t)' = Completed(t)
  BY <1>2, <1>5 DEF Written, Locked, Touched, Completed
<1>11. \A j \in Completed(t) : Replaced(t, j)'
  BY <1>2, <1>4, <1>5, ReplacedStays DEF Replaces, Inv, ShapeInv
<1>9. Replaces(t)'
  BY <1>2, <1>4, <1>5, <1>8, <1>11 DEF Replaces, Storing, AtHand, Phase
<1>12. FreshInv'
  BY <1>2, <1>5, StaysFresh
<1>10. clock' >= clock
  BY <1>2 DEF Inv, ShapeInv
<1> QED
  BY <1>1, <1>2, <1>3, <1>5, <1>6, <1>7, <1>8, <1>9, <1>10,
     <1>12, TxKeepsInv DEF Inv, LocksInv

\* The times at which chunks were made.
LEMMA ChunkBorn ==
    ASSUME Inv PROVE \A c \in chunks : c.born \in Nat
BY DEF Inv, ShapeInv, Chunk

LEMMA TxBorn ==
    ASSUME Inv PROVE \A t \in Tasks : \A c \in tx[t].new \union tx[t].old : c.born \in Nat
BY DEF Inv, ShapeInv, Transaction, Chunk

\* When the new chunks are inserted, what the DELETE found is deleted.
LEMMA InsertChunksKeepsInv ==
    ASSUME Inv, NEW w \in Tasks, InsertChunks(w)
    PROVE  Inv'
<1>0. PICK i, rev : i = AtHand(w) /\ rev = todo[w][i]
  OBVIOUS
<1> DEFINE revs == IF tx[w].item = i THEN Plus(tx[w].revs, i, rev) ELSE tx[w].revs
<1>1. /\ pc[w] = "delete" /\ (tx[w].old \intersect chunks) \ tx[w].del = {} /\ clock' = clock + 1
      /\ tx' = [tx EXCEPT ![w].item = None, ![w].old = {}, ![w].revs = revs,
                          ![w].new = @ \union Cut(i, rev, clock)]
      /\ todo' = [todo EXCEPT ![w] = Minus(@, i)]
      /\ pc' = [pc EXCEPT ![w] = "visit"]
      /\ UNCHANGED <<text, current, chunks, embedded, made, tries, seen, batch, faults>>
  BY <1>0 DEF InsertChunks, Go, Old
<1>2. tx[w] \in Transaction /\ Phase(w) /\ Replaces(w) /\ todo[w] \in Partial /\ Storing(w)
  BY <1>1 DEF Inv, ShapeInv, PhaseInv, TxInv, Storing
<1>3. i \in DOMAIN todo[w] /\ i \in Items /\ i # None /\ rev \in Nat /\ i \notin DOMAIN tx[w].revs
  BY <1>0, <1>2, ItemAtHand DEF Phase
<1>4. /\ tx[w].item \in {None, i} /\ (i \in tx[w].re <=> tx[w].item = None)
      /\ tx[w].re \intersect DOMAIN todo[w] \subseteq {i} /\ tx[w].done = {}
  BY <1>0, <1>1, <1>2 DEF Phase
<1>5. clock \in Nat /\ clock >= 1
  BY DEF Inv, ShapeInv
<1>6. /\ Cut(i, rev, clock) \subseteq Chunk
      /\ \A c \in Cut(i, rev, clock) : c.item = i /\ c.rev = rev /\ c.born = clock
  BY <1>3, <1>5, CutType
<1>7. i \notin tx[w].met =>
         Of(i, chunks) \subseteq tx[w].old /\ (i \in tx[w].re => rev = current[i])
  BY <1>0, <1>1, <1>2 DEF Replaces
<1>8. /\ revs \in Partial
      /\ DOMAIN revs = IF tx[w].item = i THEN DOMAIN tx[w].revs \union {i} ELSE DOMAIN tx[w].revs
      /\ tx[w].item = i => revs[i] = rev
      /\ \A j \in DOMAIN tx[w].revs : revs[j] = tx[w].revs[j]
  <2>1. ASSUME NEW f \in Partial
        PROVE  /\ Plus(f, i, rev) \in Partial /\ DOMAIN Plus(f, i, rev) = DOMAIN f \union {i}
               /\ Plus(f, i, rev)[i] = rev
               /\ \A j \in DOMAIN f \ {i} : Plus(f, i, rev)[j] = f[j]
    BY <1>3, PlusType
  <2>2. tx[w].revs \in Partial
    BY <1>2 DEF Transaction
  <2> QED
    BY <1>3, <2>1, <2>2
<1> HIDE DEF revs
<1>9. Minus(todo[w], i) \in Partial /\ DOMAIN Minus(todo[w], i) = DOMAIN todo[w] \ {i}
  BY <1>2, MinusType
<1>10. /\ tx'[w].item = None /\ tx'[w].revs = revs /\ tx'[w].re = tx[w].re /\ tx'[w].old = {}
       /\ tx'[w].del = tx[w].del /\ tx'[w].new = tx[w].new \union Cut(i, rev, clock)
       /\ tx'[w].done = tx[w].done /\ tx'[w].met = tx[w].met
       /\ \A u \in Tasks \ {w} : tx'[u] = tx[u]
  BY <1>1, <1>2 DEF Inv, ShapeInv, Transaction
<1>11. tx' \in [Tasks -> Transaction]
  <2>1. tx[w].new \subseteq Chunk
    BY <1>2 DEF Transaction
  <2>2. [tx[w] EXCEPT !.item = None, !.old = {}, !.revs = revs,
                      !.new = tx[w].new \union Cut(i, rev, clock)] \in Transaction
    BY <1>2, <1>6, <1>8, <2>1 DEF Transaction
  <2> QED
    BY <1>1, <2>2 DEF Inv, ShapeInv
<1>12. ShapeInv'
  BY <1>1, <1>5, <1>9, <1>11 DEF Inv, ShapeInv
<1>13. /\ pc'[w] = "visit" /\ todo'[w] = Minus(todo[w], i) /\ ~ Storing(w)'
       /\ \A u \in Tasks \ {w} : pc'[u] = pc[u] /\ todo'[u] = todo[u]
  BY <1>1 DEF Inv, ShapeInv, Storing
<1>14. Phase(w)'
  <2>1. (DOMAIN todo'[w] \union tx'[w].re) \intersect DOMAIN tx'[w].revs = {}
    <3>1. (DOMAIN todo[w] \union tx[w].re) \intersect DOMAIN tx[w].revs = {}
      BY <1>2 DEF Phase
    <3>2. tx[w].item = i => i \notin tx[w].re
      BY <1>3, <1>4
    <3> QED
      BY <1>8, <1>9, <1>10, <1>13, <3>1, <3>2
  <2>2. tx'[w].re \intersect DOMAIN todo'[w] = {}
    BY <1>4, <1>9, <1>10, <1>13
  <2> QED
    BY <1>4, <1>10, <1>13, <2>1, <2>2 DEF Phase
<1>15. None \notin DOMAIN tx[w].revs
  <2>1. tx[w].revs \in Partial
    BY <1>2 DEF Transaction
  <2> QED
    BY <2>1, PartialIs, BackfillAssumption
<1>16. Written(w)' = Written(w) /\ Locked(w)' = Locked(w) /\ Touched(w)' = Touched(w)
       /\ i \in Touched(w) /\ Completed(w)' = Completed(w) \union {i}
  <2>1. CASE tx[w].item = i
    <3>1. Written(w)' = Written(w)
      BY <1>3, <1>8, <1>10, <1>15, <2>1 DEF Written
    <3>2. i \in Written(w)
      BY <1>3, <2>1 DEF Written
    <3> QED
      BY <1>3, <1>9, <1>10, <1>13, <3>1, <3>2 DEF Locked, Touched, Completed
  <2>2. CASE tx[w].item = None
    <3>1. Written(w)' = Written(w) /\ i \in tx[w].re
      BY <1>3, <1>4, <1>8, <1>10, <2>2 DEF Written
    <3> QED
      BY <1>3, <1>9, <1>10, <1>13, <3>1 DEF Locked, Touched, Completed
  <2> QED
    BY <1>4, <2>1, <2>2
<1>17. i \notin Completed(w)
  BY <1>3 DEF Completed
<1>18. ASSUME NEW j \in Completed(w) PROVE Replaced(w, j)'
  <2>1. j # i /\ Replaced(w, j)
    BY <1>2, <1>17 DEF Replaces
  <2>2. Of(j, tx'[w].new) = Of(j, tx[w].new) /\ Of(j, chunks)' = Of(j, chunks)
    BY <1>1, <1>6, <1>10, <2>1 DEF Of
  <2>3. j \in DOMAIN tx'[w].revs <=> j \in DOMAIN tx[w].revs
    BY <1>8, <1>10, <2>1
  <2>4. PICK r \in Nat, born \in 1..clock :
           /\ Of(j, tx[w].new) = Cut(j, r, born)
           /\ j \in DOMAIN tx[w].revs => r = tx[w].revs[j]
           /\ j \notin DOMAIN tx[w].revs /\ j \notin tx[w].met => r = current[j]
    BY <2>1 DEF Replaced
  <2>5. /\ born \in 1..clock'
        /\ Of(j, tx'[w].new) = Cut(j, r, born)
        /\ j \in DOMAIN tx'[w].revs => r = tx'[w].revs[j]
        /\ j \notin DOMAIN tx'[w].revs /\ j \notin tx'[w].met => r = current'[j]
    BY <1>1, <1>5, <1>8, <1>10, <2>2, <2>3, <2>4
  <2>6. j \notin tx'[w].met => Of(j, chunks)' \subseteq tx'[w].del
    BY <1>10, <2>1, <2>2 DEF Replaced
  <2> QED
    BY <2>5, <2>6 DEF Replaced, Of, Cut
<1>19. Replaced(w, i)'
  <2>1. Of(i, tx'[w].new) = Cut(i, rev, clock)
    <3>1. \A c \in tx[w].new : c.item # i
      BY <1>2, <1>17 DEF Replaces
    <3> QED
      BY <1>6, <1>10, <3>1 DEF Of
  <2>2. /\ i \in DOMAIN tx'[w].revs => rev = tx'[w].revs[i]
        /\ i \notin DOMAIN tx'[w].revs /\ i \notin tx'[w].met => rev = current'[i]
    BY <1>1, <1>3, <1>4, <1>7, <1>8, <1>10
  <2>3. i \notin tx'[w].met => Of(i, chunks') \subseteq tx'[w].del
    BY <1>1, <1>7, <1>10 DEF Of
  <2>4. clock \in 1..clock' /\ rev \in Nat
    BY <1>1, <1>3, <1>5
  <2>5. \E r \in Nat, born \in 1..clock' :
           /\ Of(i, tx'[w].new) = Cut(i, r, born)
           /\ i \in DOMAIN tx'[w].revs => r = tx'[w].revs[i]
           /\ i \notin DOMAIN tx'[w].revs /\ i \notin tx'[w].met => r = current'[i]
    BY <2>1, <2>2, <2>4
  <2> QED
    BY <2>3, <2>5 DEF Replaced, Of, Cut
<1>20. Replaces(w)'
  <2>1. \A c \in tx'[w].new : c.item \in Completed(w)'
    BY <1>2, <1>6, <1>10, <1>16 DEF Replaces
  <2>2. ASSUME NEW c \in tx'[w].del, NEW d \in chunks', SameCut(c, d)
        PROVE  d \in tx'[w].del
    BY <1>1, <1>2, <1>10, <2>2 DEF Replaces
  <2>3. \A j \in Completed(w)' : Replaced(w, j)'
    BY <1>16, <1>18, <1>19
  <2> QED
    BY <1>2, <1>10, <1>13, <1>16, <2>1, <2>2, <2>3 DEF Replaces, SameCut
<1>21. FreshInv'
  <2>1. FreshInv
    BY DEF Inv
  <2>2. \A c \in chunks' : c.born < clock'
    BY <1>1, <1>5, <2>1, ChunkBorn DEF FreshInv, Inv, ShapeInv
  <2>3. \A c \in Cut(i, rev, clock), t \in Tasks :
           \A d \in chunks \union tx[t].old \union tx[t].new : c.born # d.born
    BY <1>5, <1>6, <2>1, ChunkBorn, TxBorn DEF FreshInv
  <2>4. \A t \in Tasks : /\ tx'[t].old \subseteq tx[t].old
                        /\ tx'[t].new \subseteq tx[t].new \union (IF t = w THEN Cut(i, rev, clock) ELSE {})
    BY <1>10
  <2>5. \A t \in Tasks : \A c \in tx'[t].new \union tx'[t].old : c.born < clock'
    <3>1. \A c \in Cut(i, rev, clock) : c.born < clock'
      BY <1>1, <1>5, <1>6
    <3>2. \A t \in Tasks : \A c \in tx[t].new \union tx[t].old : c.born < clock'
      BY <1>1, <1>5, <2>1, TxBorn DEF FreshInv
    <3> QED
      BY <2>4, <3>1, <3>2
  <2>6. \A t \in Tasks : Apart(tx'[t].new, chunks')
    <3> SUFFICES ASSUME NEW t \in Tasks, NEW c \in tx'[t].new, NEW d \in chunks
                 PROVE  c.born # d.born
      BY <1>1 DEF Apart
    <3>1. CASE c \in tx[t].new
      BY <2>1, <3>1 DEF FreshInv, Apart
    <3>2. CASE c \in Cut(i, rev, clock)
      BY <2>3, <3>2
    <3> QED
      BY <2>4, <3>1, <3>2
  <2>7. \A t, u \in Tasks : Apart(tx'[t].new, tx'[u].old)
    BY <2>1, <2>3, <2>4 DEF FreshInv, Apart
  <2>8. \A t, u \in Tasks : t # u => Apart(tx'[t].new, tx'[u].new)
    BY <2>1, <2>3, <2>4 DEF FreshInv, Apart
  <2> QED
    BY <2>2, <2>5, <2>6, <2>7, <2>8 DEF FreshInv, Apart
<1>22. UNCHANGED <<current, chunks, made>> /\ clock' >= clock
  BY <1>1, <1>5
<1>23. Locked(w)' \subseteq chunks
       /\ \A u \in Tasks \ {w} : /\ Locked(w)' \intersect Locked(u) = {}
                                /\ Written(w)' \intersect Written(u) = {}
  BY <1>16 DEF Inv, LocksInv
<1> QED
  BY <1>10, <1>12, <1>13, <1>14, <1>20, <1>21, <1>22, <1>23, TxKeepsInv

\* A commit puts one new set of chunks in the place of what it has deleted, leaves
\* alone what other transactions have written, and counts for the others that work
\* on the same items as a meeting.
LEMMA CommitMirrorKeepsInv ==
    ASSUME Inv, NEW w \in Tasks, CommitMirror(w)
    PROVE  Inv'
<1> DEFINE revs == tx[w].revs
<1>1. /\ pc[w] = "visit" /\ DOMAIN todo[w] = {}
      /\ current' = [i \in Items |-> IF i \in DOMAIN revs THEN revs[i] ELSE current[i]]
      /\ chunks' = (chunks \ tx[w].del) \union tx[w].new
      /\ embedded' = embedded \ tx[w].del
      /\ made' = [i \in Items |-> IF i \notin Touched(w) THEN made[i]
                                  ELSE IF i \in tx[w].met THEN "met" ELSE "alone"]
      /\ tx' = [u \in Tasks |-> IF u = w THEN NoTx
                                ELSE [tx[u] EXCEPT !.met = @ \union Shared(w, u)]]
      /\ todo' = [todo EXCEPT ![w] = NoTodo] /\ seen' = [seen EXCEPT ![w] = {}]
      /\ tries' = [tries EXCEPT ![w] = 0] /\ pc' = [pc EXCEPT ![w] = "kick"]
      /\ UNCHANGED <<text, clock, batch, faults>>
  BY DEF CommitMirror, Go
<1>2. tx[w] \in Transaction /\ Phase(w) /\ Replaces(w)
  BY DEF Inv, ShapeInv, PhaseInv, TxInv
<1>3. revs \in [DOMAIN revs -> Nat] /\ DOMAIN revs \subseteq Items /\ None \notin DOMAIN revs
      /\ tx[w].item = None /\ tx[w].old = {}
  BY <1>1, <1>2, PartialIs, BackfillAssumption DEF Transaction, Phase, Storing
<1>4. /\ Written(w) = DOMAIN revs /\ DOMAIN revs \subseteq Touched(w) /\ Completed(w) = Touched(w)
      /\ tx[w].del \subseteq Locked(w)
  BY <1>1, <1>3 DEF Written, Locked, Touched, Completed
<1> HIDE DEF revs
<1>5. \A u \in Tasks : tx[u] \in Transaction /\ Shared(w, u) \subseteq Items
  BY DEF Inv, ShapeInv, Shared, Transaction
<1>6. /\ pc'[w] = "kick" /\ tx'[w] = NoTx /\ todo'[w] = NoTodo
      /\ \A u \in Tasks \ {w} :
            /\ pc'[u] = pc[u] /\ todo'[u] = todo[u]
            /\ tx'[u] = [tx[u] EXCEPT !.met = tx[u].met \union Shared(w, u)]
            /\ tx'[u].item = tx[u].item /\ tx'[u].revs = tx[u].revs /\ tx'[u].re = tx[u].re
            /\ tx'[u].old = tx[u].old /\ tx'[u].del = tx[u].del /\ tx'[u].new = tx[u].new
            /\ tx'[u].done = tx[u].done /\ tx'[u].met = tx[u].met \union Shared(w, u)
  BY <1>1, <1>5 DEF Inv, ShapeInv, Transaction
<1>7. ShapeInv'
  <2>1. current' \in [Items -> Nat]
    BY <1>1, <1>3 DEF Inv, ShapeInv
  <2>2. chunks' \subseteq Chunk /\ embedded' \subseteq chunks'
    BY <1>1, <1>2 DEF Inv, ShapeInv, Transaction
  <2>3. tries' \in [Tasks -> 0..MaxTries]
    BY <1>1, BackfillAssumption DEF Inv, ShapeInv
  <2>4. tx' \in [Tasks -> Transaction]
    <3>1. \A u \in Tasks : [tx[u] EXCEPT !.met = @ \union Shared(w, u)] \in Transaction
      BY <1>5 DEF Transaction
    <3> QED
      BY <1>1, <3>1, NoTxType
  <2>5. made' \in [Items -> {"not", "alone", "met"}]
    BY <1>1 DEF Inv, ShapeInv
  <2> QED
    BY <1>1, <2>1, <2>2, <2>3, <2>4, <2>5, NoTxType DEF Inv, ShapeInv
<1>8. \A u \in Tasks \ {w} :
         /\ Written(u)' = Written(u) /\ Locked(u)' = Locked(u) /\ Touched(u)' = Touched(u)
         /\ Completed(u)' = Completed(u) /\ AtHand(u)' = AtHand(u) /\ Storing(u)' = Storing(u)
         /\ Shared(w, u) = Touched(w) \intersect Touched(u)
  BY <1>6, SharedIs DEF Written, Locked, Touched, Completed, AtHand, Storing
<1>9. PhaseInv'
  <2>1. Phase(w)'
    BY <1>6, NoTxType DEF Phase, Storing
  <2>2. ASSUME NEW u \in Tasks \ {w} PROVE Phase(u)'
    <3>1. Phase(u)
      BY DEF Inv, PhaseInv
    <3>2. ASSUME pc[u] \notin {"visit", "insert", "lock", "store", "delete", "write"}
          PROVE  tx'[u] = NoTx
      <4>1. tx[u] = NoTx /\ Touched(u) = {}
        BY <3>1, <3>2, NoTxStands DEF Phase, Storing
      <4>2. Shared(w, u) = {}
        BY <1>8, <4>1
      <4> QED
        BY <1>6, <4>1, <4>2, NoTxType DEF NoTx
    <3> QED
      BY <1>6, <1>8, <3>1, <3>2 DEF Phase
  <2> QED
    BY <2>1, <2>2 DEF PhaseInv
<1>10. Locked(w)' = {} /\ Written(w)' = {} /\ Touched(w)' = {} /\ Completed(w)' = {}
  BY <1>6, NoTxType DEF Locked, Written, Touched, Completed
<1>11. LocksInv'
  <2>1. \A u \in Tasks \ {w} : Locked(u) \subseteq chunks'
    BY <1>1, <1>4 DEF Inv, LocksInv
  <2> QED
    BY <1>8, <1>10, <2>1 DEF Inv, LocksInv
<1>12. ASSUME NEW i \in Items, i \notin Touched(w)
       PROVE  Of(i, chunks') = Of(i, chunks) /\ current'[i] = current[i] /\ made'[i] = made[i]
  <2>1. \A c \in tx[w].del \union tx[w].new : c.item # i
    BY <1>2, <1>4, <1>12 DEF Replaces
  <2> QED
    BY <1>1, <1>4, <1>12, <2>1 DEF Of
<1>13. FreshInv /\ FreshInv'
  <2>1. FreshInv
    BY DEF Inv
  <2>2. \A t \in Tasks : tx'[t].new = (IF t = w THEN {} ELSE tx[t].new) /\ tx'[t].old = (IF t = w THEN {} ELSE tx[t].old)
    BY <1>6, NoTxType
  <2>3. \A c \in chunks' : c.born < clock'
    BY <1>1, <2>1 DEF FreshInv
  <2>4. \A t \in Tasks : \A c \in tx'[t].new \union tx'[t].old : c.born < clock'
    BY <1>1, <2>1, <2>2 DEF FreshInv
  <2>5. \A t \in Tasks : Apart(tx'[t].new, chunks')
    BY <1>1, <2>1, <2>2 DEF FreshInv, Apart
  <2>6. \A t, u \in Tasks : Apart(tx'[t].new, tx'[u].old)
    BY <2>1, <2>2 DEF FreshInv, Apart
  <2>7. \A t, u \in Tasks : t # u => Apart(tx'[t].new, tx'[u].new)
    BY <2>1, <2>2 DEF FreshInv, Apart
  <2> QED
    <3>1. FreshInv'
      BY <2>3, <2>4, <2>5, <2>6, <2>7 DEF FreshInv, Apart
    <3> QED
      BY <2>1, <3>1
<1>14. TxInv'
  <2>1. Replaces(w)'
    BY <1>6, <1>10, NoTxType DEF Replaces, Storing
  <2>2. ASSUME NEW u \in Tasks \ {w} PROVE Replaces(u)'
    <3>1. Replaces(u) /\ Phase(u) /\ tx[u] \in Transaction
      BY <1>5 DEF Inv, TxInv, PhaseInv
    <3>2. Touched(u) \subseteq Items
      <4>1. tx[u].revs \in Partial /\ tx[u].re \subseteq Items /\ tx[u].item \in Items \union {None}
        BY <3>1 DEF Transaction
      <4> QED
        BY <4>1, PartialIs DEF Touched, Written
    <3>3. \A i \in Touched(u) : i \notin tx'[u].met => i \notin Touched(w) /\ i \notin tx[u].met
      BY <1>6, <1>8
    <3>4. ASSUME NEW i \in Completed(u) PROVE Replaced(u, i)'
      <4>1. Replaced(u, i) /\ i \in Touched(u) /\ i \in Items
        BY <3>1, <3>2, <3>4 DEF Replaces, Completed
      <4>2. PICK rev \in Nat, born \in 1..clock :
               /\ Of(i, tx[u].new) = Cut(i, rev, born)
               /\ i \in DOMAIN tx[u].revs => rev = tx[u].revs[i]
               /\ i \notin DOMAIN tx[u].revs /\ i \notin tx[u].met => rev = current[i]
        BY <4>1 DEF Replaced
      <4>3. i \notin tx'[u].met => /\ Of(i, chunks') = Of(i, chunks) /\ current'[i] = current[i]
                                   /\ i \notin tx[u].met
        BY <1>12, <3>3, <4>1
      <4>4. /\ born \in 1..clock'
            /\ Of(i, tx'[u].new) = Cut(i, rev, born)
            /\ i \in DOMAIN tx'[u].revs => rev = tx'[u].revs[i]
            /\ i \notin DOMAIN tx'[u].revs /\ i \notin tx'[u].met => rev = current'[i]
        BY <1>1, <1>6, <4>2, <4>3
      <4>5. i \notin tx'[u].met => Of(i, chunks') \subseteq tx'[u].del
        BY <1>6, <4>1, <4>3 DEF Replaced
      <4> QED
        BY <4>4, <4>5 DEF Replaced, Of, Cut
    <3>5. ASSUME Storing(u) PROVE AtHand(u) \in Touched(u) /\ AtHand(u) \in Items
      <4>1. AtHand(u) # None /\ AtHand(u) \in Items
        BY <3>1, <3>5, ItemAtHand DEF Phase
      <4> QED
        BY <3>1, <3>5, <4>1 DEF Phase, Touched, Written
    <3>6. ASSUME pc[u] = "delete", AtHand(u) \notin tx'[u].met
          PROVE  Of(AtHand(u), chunks') \subseteq tx'[u].old
      BY <1>6, <1>12, <3>1, <3>3, <3>5, <3>6 DEF Replaces, Storing
    <3>7. ASSUME Storing(u), AtHand(u) \in tx'[u].re \ tx'[u].met
          PROVE  todo'[u][AtHand(u)] = current'[AtHand(u)]
      BY <1>6, <1>12, <3>1, <3>3, <3>5, <3>7 DEF Replaces
    <3>8. ASSUME NEW c \in tx[u].del, NEW d \in chunks', SameCut(c, d)
          PROVE  d \in tx[u].del \union tx[u].old
      <4>1. c \in chunks
        BY DEF Inv, LocksInv, Locked
      <4>2. d \notin tx[w].new
        BY <1>13, <3>8, <4>1 DEF FreshInv, Apart, SameCut
      <4> QED
        BY <1>1, <3>1, <3>8, <4>2 DEF Replaces
    <3>9. ASSUME NEW c \in tx[u].old \intersect chunks', NEW d \in chunks', SameCut(c, d)
          PROVE  d \in tx[u].old
      <4>1. c \notin tx[w].new /\ d \notin tx[w].new
        BY <1>13, <3>9 DEF FreshInv, Apart, SameCut
      <4> QED
        BY <1>1, <3>1, <3>9, <4>1 DEF Replaces
    <3>10. /\ \A c \in tx'[u].del : c.item \in Touched(u)'
           /\ \A c \in tx'[u].old : c.item = AtHand(u)'
           /\ \A c \in tx'[u].new : c.item \in Completed(u)'
      <4>1. /\ \A c \in tx[u].del : c.item \in Touched(u)
            /\ \A c \in tx[u].old : c.item = AtHand(u)
            /\ \A c \in tx[u].new : c.item \in Completed(u)
        BY <3>1 DEF Replaces
      <4> QED
        BY <1>6, <1>8, <4>1
    <3>13. \A i \in Completed(u)' : Replaced(u, i)'
      <4>1. Completed(u)' = Completed(u)
        BY <1>8
      <4>2. \A i \in Completed(u) : Replaced(u, i)'
        BY <3>4
      <4> QED
        BY <4>1, <4>2
    <3>11. /\ pc'[u] = "delete" /\ AtHand(u)' \notin tx'[u].met => Of(AtHand(u)', chunks') \subseteq tx'[u].old
           /\ Storing(u)' /\ AtHand(u)' \in tx'[u].re \ tx'[u].met =>
                 todo'[u][AtHand(u)'] = current'[AtHand(u)']
      BY <1>6, <1>8, <3>6, <3>7
    <3>12. /\ \A c \in tx'[u].del, d \in chunks' : SameCut(c, d) => d \in tx'[u].del \union tx'[u].old
           /\ \A c \in tx'[u].old \intersect chunks', d \in chunks' : SameCut(c, d) => d \in tx'[u].old
      BY <1>6, <3>8, <3>9
    <3> QED
      BY <3>10, <3>11, <3>12, <3>13 DEF Replaces, Of, SameCut
  <2> QED
    BY <2>1, <2>2 DEF TxInv
<1>15. ChunksOfCurrent'
  <2> SUFFICES ASSUME NEW i \in Items
               PROVE  /\ \A c \in Of(i, chunks') : Cut(i, c.rev, c.born) \subseteq Of(i, chunks')
                      /\ made'[i] = "not" => Of(i, chunks') = {}
                      /\ made'[i] = "alone" =>
                            \E born \in 1..clock : Of(i, chunks') = Cut(i, current'[i], born)
                      /\ made'[i] = "met" /\ ChunksOf[i] > 0 => Of(i, chunks') # {}
    BY <1>1 DEF ChunksOfCurrent, Of, Cut
  <2>1. /\ \A c \in Of(i, chunks) : Cut(i, c.rev, c.born) \subseteq Of(i, chunks)
        /\ made[i] = "not" => Of(i, chunks) = {}
        /\ made[i] = "alone" =>
              \E born \in 1..clock : Of(i, chunks) = Cut(i, current[i], born)
        /\ made[i] = "met" /\ ChunksOf[i] > 0 => Of(i, chunks) # {}
    BY DEF Inv, ChunksOfCurrent
  <2>2. CASE i \notin Touched(w)
    BY <1>12, <2>1, <2>2
  <2>3. CASE i \in Touched(w)
    <3>1. Replaced(w, i)
      BY <1>2, <1>4, <2>3 DEF Replaces
    <3>2. PICK rev \in Nat, born \in 1..clock :
             /\ Of(i, tx[w].new) = Cut(i, rev, born)
             /\ i \in DOMAIN revs => rev = revs[i]
             /\ i \notin DOMAIN revs /\ i \notin tx[w].met => rev = current[i]
      BY <3>1 DEF Replaced, revs
    <3>3. born \in Nat /\ clock \in Nat
      BY <3>2 DEF Inv, ShapeInv
    <3>4. /\ \A c \in Cut(i, rev, born) : c.rev = rev /\ c.born = born
          /\ ChunksOf[i] > 0 => Cut(i, rev, born) # {}
      BY <3>3, CutType
    <3>5. Of(i, chunks') = (Of(i, chunks) \ tx[w].del) \union Cut(i, rev, born)
      BY <1>1, <3>2 DEF Of
    <3>6. ASSUME NEW c \in Of(i, chunks')
          PROVE  Cut(i, c.rev, c.born) \subseteq Of(i, chunks')
      <4>1. CASE c \in Cut(i, rev, born)
        BY <3>4, <3>5, <4>1
      <4>2. CASE c \in Of(i, chunks) \ tx[w].del
        <5>1. Cut(i, c.rev, c.born) \subseteq Of(i, chunks) /\ c \in chunks /\ c.item = i /\ c \in Chunk
          BY <2>1, <4>2 DEF Of, Inv, ShapeInv
        <5>2. c.rev \in Nat /\ c.born \in Nat
          BY <5>1 DEF Chunk
        <5>3. \A e \in Cut(i, c.rev, c.born) : SameCut(e, c)
          BY <5>1, <5>2, CutType DEF SameCut
        <5>4. \A e \in Cut(i, c.rev, c.born) : e \notin tx[w].del
          BY <1>2, <1>3, <4>2, <5>1, <5>3 DEF Replaces
        <5> QED
          BY <3>5, <5>1, <5>4
      <4> QED
        BY <3>5, <3>6, <4>1, <4>2
    <3>7. CASE i \in tx[w].met
      <4>1. made'[i] = "met"
        BY <1>1, <2>3, <3>7
      <4> QED
        BY <3>4, <3>5, <3>6, <4>1
    <3>8. CASE i \notin tx[w].met
      <4>1. made'[i] = "alone"
        BY <1>1, <2>3, <3>8
      <4>2. Of(i, chunks) \subseteq tx[w].del
        BY <3>1, <3>8 DEF Replaced
      <4>3. rev = current'[i]
        BY <1>1, <3>2, <3>8
      <4>4. Of(i, chunks') = Cut(i, current'[i], born)
        BY <3>5, <4>2, <4>3
      <4> QED
        BY <3>2, <3>6, <4>1, <4>4
    <3> QED
      BY <3>7, <3>8
  <2> QED
    BY <2>2, <2>3
<1> QED
  BY <1>7, <1>9, <1>11, <1>13, <1>14, <1>15 DEF Inv

\* A step of t outside of a transaction.
LEMMA OutsideKeepsInv ==
    ASSUME Inv, ShapeInv', NEW t \in Tasks, tx[t] = NoTx,
           pc'[t] \in {"mirror", "snapshot", "visit", "embed", "write"},
           UNCHANGED <<current, chunks, clock, made, tx>>,
           \A u \in Tasks \ {t} : pc'[u] = pc[u] /\ todo'[u] = todo[u]
    PROVE  Inv'
<1>1. tx'[t] = NoTx
  OBVIOUS
<1>2. Touched(t)' = {} /\ Completed(t)' = {}
  BY <1>1, NoTxType DEF Written, Touched, Completed
<1>3. Replaces(t)'
  BY <1>1, <1>2, NoTxType DEF Replaces, Storing
<1>4. Phase(t)'
  BY <1>1, NoTxType DEF Phase, Storing
<1> QED
  BY <1>3, <1>4, MoveKeepsInv

\* The steps of t that touch neither a transaction nor a table.
LEMMA QuietStepsKeepInv ==
    ASSUME Inv, NEW t \in Tasks,
           \/ Ingest(t)
           \/ Collect(t)
           \/ Snapshot(t)
           \/ Embed(t)
           \/ LoadBatch(t) /\ Pending # {}
    PROVE  Inv'
<1>1. Phase(t) /\ text \in [Items -> Nat]
  BY DEF Inv, ShapeInv, PhaseInv
<1>2. CASE Ingest(t)
  <2>1. text' \in [Items -> Nat] /\ pc[t] = "ingest" /\ Go(t, "mirror")
        /\ UNCHANGED <<current, chunks, embedded, clock, made, tries, todo, seen, tx, batch, faults>>
    BY <1>1, <1>2 DEF Ingest
  <2>2. ShapeInv' /\ pc'[t] = "mirror" /\ \A u \in Tasks \ {t} : pc'[u] = pc[u]
    BY <2>1 DEF Inv, ShapeInv, Go
  <2>3. tx[t] = NoTx
    BY <1>1, <2>1 DEF Phase
  <2> QED
    BY <2>1, <2>2, <2>3, OutsideKeepsInv
<1>3. CASE Collect(t)
  <2> DEFINE f == [i \in {j \in Items : text[j] # 0} |-> text[i]]
  <2>1. pc[t] = "mirror" /\ Go(t, "snapshot") /\ todo' = [todo EXCEPT ![t] = f]
        /\ UNCHANGED <<text, current, chunks, embedded, clock, made, tries, seen, tx, batch, faults>>
    BY <1>3 DEF Collect, table
  <2>2. f \in Partial
    <3>1. f \in [{j \in Items : text[j] # 0} -> Nat]
      BY <1>1
    <3> QED
      BY <3>1 DEF Partial
  <2> HIDE DEF f
  <2>3. ShapeInv' /\ pc'[t] = "snapshot"
        /\ \A u \in Tasks \ {t} : pc'[u] = pc[u] /\ todo'[u] = todo[u]
    BY <2>1, <2>2 DEF Inv, ShapeInv, Go
  <2>4. tx[t] = NoTx
    BY <1>1, <2>1 DEF Phase
  <2> QED
    BY <2>1, <2>3, <2>4, OutsideKeepsInv
<1>4. CASE Snapshot(t)
  <2>1. pc[t] = "snapshot" /\ Go(t, "visit") /\ seen' = [seen EXCEPT ![t] = {c.item : c \in chunks}]
        /\ UNCHANGED <<text, current, chunks, embedded, clock, made, tries, todo, tx, batch, faults>>
    BY <1>4 DEF Snapshot, table
  <2>2. {c.item : c \in chunks} \subseteq Items
    BY DEF Inv, ShapeInv, Chunk
  <2>3. ShapeInv' /\ pc'[t] = "visit" /\ \A u \in Tasks \ {t} : pc'[u] = pc[u]
    BY <2>1, <2>2 DEF Inv, ShapeInv, Go
  <2>4. tx[t] = NoTx
    BY <1>1, <2>1 DEF Phase
  <2> QED
    BY <2>1, <2>3, <2>4, OutsideKeepsInv
<1>5. CASE Embed(t)
  <2>1. pc[t] = "embed" /\ Go(t, "write")
        /\ UNCHANGED <<text, current, chunks, embedded, clock, made, tries, todo, seen, tx, batch, faults>>
    BY <1>5 DEF Embed, table
  <2>2. ShapeInv' /\ pc'[t] = "write" /\ \A u \in Tasks \ {t} : pc'[u] = pc[u]
    BY <2>1 DEF Inv, ShapeInv, Go
  <2>3. tx[t] = NoTx
    BY <1>1, <2>1 DEF Phase
  <2> QED
    BY <2>1, <2>2, <2>3, OutsideKeepsInv
<1>6. CASE LoadBatch(t) /\ Pending # {}
  <2>1. pc[t] \in {"kick", "idle"} /\ Go(t, "embed")
        /\ batch' = [batch EXCEPT ![t] = OldestPending]
        /\ UNCHANGED <<text, current, chunks, embedded, clock, made, tries, todo, seen, tx, faults>>
    BY <1>6 DEF LoadBatch, table
  <2>2. OldestPending \subseteq Chunk
    BY DEF OldestPending, Pending, Inv, ShapeInv
  <2>3. ShapeInv' /\ pc'[t] = "embed" /\ \A u \in Tasks \ {t} : pc'[u] = pc[u]
    BY <2>1, <2>2 DEF Inv, ShapeInv, Go
  <2>4. tx[t] = NoTx
    BY <1>1, <2>1 DEF Phase
  <2> QED
    BY <2>1, <2>3, <2>4, OutsideKeepsInv
<1> QED
  BY <1>2, <1>3, <1>4, <1>5, <1>6

\* The steps that end an activity of t without a change of the chunks.
LEMMA EndsKeepInv ==
    ASSUME Inv, NEW t \in Tasks,
           \/ EmbedFails(t)
           \/ CommitVectors(t)
           \/ AttemptLost(t)
           \/ DeadlockAborts(t)
           \/ LoadBatch(t) /\ Pending = {}
    PROVE  Inv'
<1>1. Rest(t) \in {"kick", "idle", "end"}
  BY DEF Rest
<1>2. faults \in 0..MaxFaults /\ embedded \subseteq chunks
  BY DEF Inv, ShapeInv
<1>3. CASE EmbedFails(t)
  <2>1. faults' \in 0..MaxFaults
    BY <1>2, <1>3, FaultType DEF EmbedFails
  <2> QED
    BY <1>1, <1>2, <1>3, <2>1, DoneKeepsInv DEF EmbedFails, table
<1>4. CASE CommitVectors(t)
  <2>1. faults' \in 0..MaxFaults
    BY <1>2, <1>4 DEF CommitVectors
  <2>2. CASE Raise(t)
    BY <2>1, <2>2, RaiseKeepsInv
  <2>3. CASE /\ embedded' = embedded \union tx[t].done /\ Done(t, Rest(t))
             /\ UNCHANGED <<text, current, chunks, clock, made>>
    <3>1. tx[t].done \subseteq chunks
      BY DEF Inv, LocksInv, Locked
    <3>2. embedded' \subseteq chunks
      BY <1>2, <2>3, <3>1
    <3> QED
      BY <1>1, <2>1, <2>3, <3>2, DoneKeepsInv
  <2> QED
    BY <1>4, <2>2, <2>3 DEF CommitVectors
<1>5. CASE AttemptLost(t)
  BY <1>5, FaultType, RaiseKeepsInv DEF AttemptLost
<1>6. CASE DeadlockAborts(t)
  BY <1>2, <1>6, RaiseKeepsInv DEF DeadlockAborts
<1>7. CASE LoadBatch(t) /\ Pending = {}
  BY <1>1, <1>2, <1>7, DoneKeepsInv DEF LoadBatch, table
<1> QED
  BY <1>3, <1>4, <1>5, <1>6, <1>7

LEMMA ItemWriteKeepsInv ==
    ASSUME Inv, NEW w \in Tasks, InsertItem(w) \/ LockItem(w)
    PROVE  Inv'
<1>1. CASE LockItem(w)
  BY <1>1, WritesKeepsInv DEF LockItem
<1>2. CASE InsertItem(w) /\ Writes(w)
  BY <1>2, WritesKeepsInv DEF InsertItem
<1>3. CASE Raise(w) /\ UNCHANGED faults
  BY <1>3, RaiseKeepsInv DEF Inv, ShapeInv
<1> QED
  BY <1>1, <1>2, <1>3 DEF InsertItem

-----------------------------------------------------------------------------
(* The theorems.                                                           *)

LEMMA InitEstablishesInv == Init => Inv
<1> SUFFICES ASSUME Init PROVE Inv
  OBVIOUS
<1>1. \A i \in Items : Cut(i, 1, 1) \subseteq Chunk
      /\ \A c \in Cut(i, 1, 1) : c.item = i /\ c.rev = 1 /\ c.born = 1
  BY CutType
<1>2. \A t \in Tasks : tx[t] = NoTx /\ todo[t] = NoTodo
      /\ pc[t] = (IF t = Sched THEN "idle" ELSE "ingest")
  BY DEF Init
<1>3. ShapeInv
  <2>1. chunks \subseteq Chunk
    BY <1>1 DEF Init
  <2> QED
    BY <2>1, NoTxType, BackfillAssumption DEF Init, ShapeInv
<1>4. PhaseInv
  BY <1>2, NoTxType DEF PhaseInv, Phase, Storing
<1>5. LocksInv
  BY <1>2, NoTxType DEF LocksInv, Locked, Written
<1>6. TxInv
  BY <1>2, NoTxStands DEF TxInv, Storing
<1>7. FreshInv
  <2>1. \A c \in chunks : c.born < clock
    BY <1>1 DEF Init
  <2> QED
    BY <1>2, <2>1, NoTxType DEF FreshInv, Apart
<1>8. ChunksOfCurrent
  <2> SUFFICES ASSUME NEW i \in Items
               PROVE  /\ \A c \in Of(i, chunks) : Cut(i, c.rev, c.born) \subseteq Of(i, chunks)
                      /\ made[i] = "not" => Of(i, chunks) = {}
                      /\ made[i] = "alone" =>
                            \E born \in 1..clock : Of(i, chunks) = Cut(i, current[i], born)
                      /\ made[i] # "met"
    BY DEF ChunksOfCurrent
  <2>1. made[i] = (IF i \in Fresh \union Bare THEN "not" ELSE "alone") /\ 1 \in 1..clock
    BY DEF Init
  <2>2. CASE i \in Fresh \union Bare
    <3>1. Of(i, chunks) = {}
      BY <1>1, <2>2 DEF Init, Of
    <3> QED
      BY <2>1, <2>2, <3>1
  <2>3. CASE i \notin Fresh \union Bare
    <3>1. Of(i, chunks) = Cut(i, 1, 1) /\ current[i] = 1
      BY <1>1, <2>3 DEF Init, Of
    <3> QED
      BY <1>1, <2>1, <2>3, <3>1
  <2> QED
    BY <2>2, <2>3
<1> QED
  BY <1>3, <1>4, <1>5, <1>6, <1>7, <1>8 DEF Inv

LEMMA NextKeepsInv == Inv /\ [Next]_vars => Inv'
<1> SUFFICES ASSUME Inv, [Next]_vars PROVE Inv'
  OBVIOUS
<1>1. CASE UNCHANGED vars
  <2>1. UNCHANGED <<text, current, chunks, embedded, clock, made, pc, tries, todo, seen, tx, batch,
                    faults>>
    BY <1>1 DEF vars, table
  <2>2. Sched \in Tasks /\ ShapeInv'
    BY <2>1 DEF Tasks, Inv, ShapeInv
  <2>3. clock \in Nat
    BY DEF Inv, ShapeInv
  <2>4. Phase(Sched)' /\ Replaces(Sched)'
    BY <2>1, <2>2, <2>3, Undisturbed
  <2> QED
    BY <2>1, <2>2, <2>4, MoveKeepsInv
<1>2. ASSUME NEW t \in Tasks, Mirror(t) PROVE Inv'
  <2>1. CASE Ingest(t) \/ Collect(t) \/ Snapshot(t)
    BY <2>1, QuietStepsKeepInv
  <2>2. CASE Visit(t)
    BY <2>2, VisitKeepsInv
  <2>3. CASE InsertItem(t) \/ LockItem(t)
    BY <2>3, ItemWriteKeepsInv
  <2>4. CASE FindChunks(t)
    BY <2>4, FindChunksKeepsInv
  <2>5. CASE DeleteChunk(t)
    BY <2>5, DeleteChunkKeepsInv
  <2>6. CASE InsertChunks(t)
    BY <2>6, InsertChunksKeepsInv
  <2>7. CASE CommitMirror(t)
    BY <2>7, CommitMirrorKeepsInv
  <2> QED
    BY <1>2, <2>1, <2>2, <2>3, <2>4, <2>5, <2>6, <2>7 DEF Mirror
<1>3. ASSUME NEW t \in Tasks, Backfill(t) PROVE Inv'
  <2>1. CASE LoadBatch(t) /\ Pending = {}
    BY <2>1, EndsKeepInv
  <2>2. CASE LoadBatch(t) /\ Pending # {}
    BY <2>2, QuietStepsKeepInv
  <2>3. CASE Embed(t)
    BY <2>3, QuietStepsKeepInv
  <2> QED
    BY <1>3, <2>1, <2>2, <2>3, WriteVectorKeepsInv, EndsKeepInv DEF Backfill
<1>4. ASSUME NEW t \in Tasks, EmbedFails(t) PROVE Inv'
  BY <1>4, EndsKeepInv
<1>5. ASSUME NEW t \in Tasks, DeadlockAborts(t) PROVE Inv'
  BY <1>5, EndsKeepInv
<1>6. ASSUME NEW t \in Tasks, AttemptLost(t) PROVE Inv'
  BY <1>6, EndsKeepInv
<1>7. CASE Finished
  BY <1>1, <1>7 DEF Finished
<1> QED
  BY <1>1, <1>2, <1>3, <1>4, <1>5, <1>6, <1>7 DEF Next, Step

LEMMA BackfillInvariant == Spec => []Inv
<1>1. Spec => Init /\ [][Next]_vars
  BY DEF Spec
<1> QED
  BY <1>1, InitEstablishesInv, NextKeepsInv, PTL

\* The types hold, no row of wiki_chunks is locked by two transactions, and no
\* item is being written by two mirrors, however mirrors, backfills, lost
\* attempts and aborted deadlocks meet.
THEOREM BackfillTypes == Spec => []TypeOK
<1>1. Inv => TypeOK
  BY TypeFromInv
<1> QED
  BY <1>1, BackfillInvariant, PTL

\* What a reader of wiki_chunks finds, for any number of pages, ingests and
\* faults: whole sets of chunks, and of an item exactly the set of its current
\* version, unless its chunks were last made by a mirror that met another on it
\* while the page was chunked again without the lock on its row; then there may
\* be more than one set, or an older one, but there is one. The order of
\* mirror_bundle carries this, which writes the item's row before _store_chunks
\* deletes and inserts, all in one transaction.
THEOREM ChunksBelongToVersion == Spec => []ChunksOfCurrent
<1>1. Inv => ChunksOfCurrent
  BY DEF Inv
<1> QED
  BY <1>1, BackfillInvariant, PTL
=============================================================================

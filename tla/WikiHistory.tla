----------------------------- MODULE WikiHistory -----------------------------
(***************************************************************************)
(* What the version history of an OKF bundle promises, without saying who  *)
(* writes it or how: a sequence of commits, each with an index that lists  *)
(* exactly its pages, in which pages are added and revised but never taken *)
(* away, and a revision keeps the page's creation stamp and its aliases    *)
(* (OkfIngest implements it).                                              *)
(***************************************************************************)
EXTENDS OkfPages

VARIABLE head       \* the pages and the index of the last commit

\* A revision of a page keeps what later readers rely on.
Revises(new, old) ==
    /\ new \in Content
    /\ new.created = old.created
    /\ old.aliases \subseteq new.aliases

WellFormed(commit) ==
    /\ \A p \in Pages : commit.files[p] # Torn
    /\ commit.index = Catalog(commit.files)

Init == head = [files |-> EmptyTree, index |-> {}]

Publish ==
    /\ WellFormed(head')
    /\ \A p \in Existing(head.files) : Revises(head'.files[p], head.files[p])

Next == Publish

Spec == Init /\ [][Next]_head
=============================================================================

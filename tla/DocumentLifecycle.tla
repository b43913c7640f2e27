--------------------------- MODULE DocumentLifecycle ---------------------------
(***************************************************************************)
(* What the ingest pipeline promises about the documents it accepts.  A    *)
(* document is stored before anything is done with it, it is worked on by  *)
(* one workflow, its pages become searchable after they were compiled and  *)
(* stay so, and a workflow succeeds only with searchable pages.  What its  *)
(* last attempts still compile, a workflow that ended does not know.       *)
(***************************************************************************)
CONSTANT DocIds

VARIABLES
    stored,         \* documents in raw_documents
    compiled,       \* documents with pages in a bundle
    searchable,     \* documents with pages in the index
    workflow        \* "none", "running", "succeeded", "failed" or "cancelled"

vars == <<stored, compiled, searchable, workflow>>

Init ==
    /\ stored = {} /\ compiled = {} /\ searchable = {}
    /\ workflow = [d \in DocIds |-> "none"]

Store(d) ==
    /\ d \notin stored
    /\ stored' = stored \union {d}
    /\ UNCHANGED <<compiled, searchable, workflow>>

Launch(d) ==
    /\ d \in stored
    /\ workflow[d] = "none"
    /\ workflow' = [workflow EXCEPT ![d] = "running"]
    /\ UNCHANGED <<stored, compiled, searchable>>

\* An attempt that was given up may commit its pages after the workflow's end.
Compile(d) ==
    /\ workflow[d] # "none"
    /\ compiled' = compiled \union {d}
    /\ UNCHANGED <<stored, searchable, workflow>>

\* A mirror publishes the pages of a whole bundle.
MorePublished ==
    /\ searchable \subseteq searchable'
    /\ searchable' \subseteq searchable \union compiled

Publish ==
    /\ MorePublished
    /\ UNCHANGED <<stored, compiled, workflow>>

Succeed(d) ==
    /\ workflow[d] = "running"
    /\ d \in searchable
    /\ workflow' = [workflow EXCEPT ![d] = "succeeded"]
    /\ UNCHANGED <<stored, compiled, searchable>>

\* A workflow that gives up may have published.
GiveUp(d) ==
    /\ workflow[d] = "running"
    /\ workflow' \in {[workflow EXCEPT ![d] = end] : end \in {"failed", "cancelled"}}
    /\ MorePublished
    /\ UNCHANGED <<stored, compiled>>

Next ==
    \/ \E d \in DocIds : Store(d) \/ Launch(d) \/ Compile(d) \/ Succeed(d) \/ GiveUp(d)
    \/ Publish

Spec == Init /\ [][Next]_vars
===============================================================================

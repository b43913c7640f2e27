----------------------------- MODULE MCOkfIngest -----------------------------
(* Instances of OkfIngest for TLC.                                          *)
EXTENDS OkfIngest, TLC

CONSTANTS
    j1, j2,         \* documents
    w1, w2,         \* slots
    p1, p2,         \* worker processes
    s1, s2, e       \* slugs: a source page of each document, a shared subject

Ext(src, derived, aliased, refs) ==
    [source |-> src, derived |-> derived, viaAlias |-> aliased, refs |-> refs]

\* Both slots in the one worker process of docker-compose.
OneProcess == [w \in Workers |-> CHOOSE p \in Processes : TRUE]

\* A second worker process (a rolling restart, a replica).
ProcessEach == w1 :> p1 @@ w2 :> p2

\* The two processes, with their slots, are interchangeable.
SwapProcesses ==
    {f \in Permutations({w1, w2, p1, p2}) :
        \A w \in {w1, w2} : f[w] \in {w1, w2} /\ f[ProcessEach[w]] = ProcessEach[f[w]]}

\* Both documents are about e; the second one knows it by another name.
SharedEntity ==
    j1 :> {Ext(s1, {<<"entity", e>>}, {}, {})}
    @@ j2 :> {Ext(s2, {<<"entity", e>>}, {}, {s1}), Ext(s2, {<<"entity", e>>}, {e}, {s1})}

\* The same, with nothing referred to besides.
NoReferences ==
    j1 :> {Ext(s1, {<<"entity", e>>}, {}, {})}
    @@ j2 :> {Ext(s2, {<<"entity", e>>}, {}, {}), Ext(s2, {<<"entity", e>>}, {e}, {})}

\* The model may take the shared subject for an entity or a concept.
UndecidedType ==
    j1 :> {Ext(s1, {<<"entity", e>>}, {}, {})}
    @@ j2 :> {Ext(s2, {<<"concept", e>>}, {}, {s1}), Ext(s2, {<<"entity", e>>}, {e}, {})}
==============================================================================

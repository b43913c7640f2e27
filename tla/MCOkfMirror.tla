----------------------------- MODULE MCOkfMirror -----------------------------
(* Instances of OkfMirror for TLC.                                          *)
EXTENDS OkfMirror, TLC

CONSTANTS
    j1, j2,         \* documents
    b1, b2,         \* bundles
    w1, w2,         \* worker processes
    s1, s2, e       \* slugs: a source page of each document, a shared subject

OneBundle == j1 :> b1 @@ j2 :> b1

\* Both documents are about e, which links back to the last of them.
SharedEntity ==
    j1 :> (<<"source", s1>> :> {e} @@ <<"entity", e>> :> {s1})
    @@ j2 :> (<<"source", s2>> :> {e, s1} @@ <<"entity", e>> :> {s2})

\* Overlapping ingests have taken e for a concept and for an entity.
ForkedType ==
    j1 :> (<<"source", s1>> :> {e} @@ <<"concept", e>> :> {s1})
    @@ j2 :> (<<"source", s2>> :> {e, s1} @@ <<"entity", e>> :> {s2})
==============================================================================

---------------------------- MODULE MCEmbedBackfill ----------------------------
(* Instances of EmbedBackfill for TLC.                                      *)
EXTENDS EmbedBackfill, TLC

CONSTANTS w1, w2

\* Two ingests that both change the last of three pages, and each one more.
OneShared == w1 :> {1, 3} @@ w2 :> {2, 3}

\* Pages without a text have no chunks.
TwoOfFirst == 1 :> 2 @@ 2 :> 0 @@ 3 :> 0
===============================================================================

---------------------------- MODULE MCEnrichment ----------------------------
(* Small instances of Enrichment for TLC. *)
EXTENDS Enrichment, TLC

CONSTANTS t1, t2, t3

OneTrack == {t1}
ThreeTracks == {t1, t2, t3}

=============================================================================

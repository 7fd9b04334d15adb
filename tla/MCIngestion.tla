---------------------------- MODULE MCIngestion ----------------------------
(* Instances of Ingestion for TLC: see the MCIngestion*.cfg files.         *)
EXTENDS Ingestion, TLC

CONSTANTS w1, w2

OneWorker == {w1}
TwoWorkers == {w1, w2}
NoCameras == {}
FirstCamera == {0}
WorkerSymmetry == Permutations(Workers)
=============================================================================

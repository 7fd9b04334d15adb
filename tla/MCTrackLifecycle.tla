-------------------------- MODULE MCTrackLifecycle --------------------------
(* Small instances of TrackLifecycle for TLC. *)
EXTENDS TrackLifecycle, TLC

CONSTANTS c1, c2, n1, n2

OneCamera == {c1}
TwoCameras == {c1, c2}
TwoNatives == {n1, n2}

TrackSymmetry == Permutations(Cameras) \cup Permutations(Natives)

=============================================================================

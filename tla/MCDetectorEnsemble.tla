------------------------ MODULE MCDetectorEnsemble ------------------------
(* A small instance of DetectorEnsemble: two texts in two modes are more   *)
(* than the cache holds.                                                   *)
EXTENDS DetectorEnsemble, TLC

Symmetry == Permutations(Requests) \cup Permutations(Texts)
=============================================================================

--------------------------- MODULE MCFeatureFlags ---------------------------
(* Instances of FeatureFlags for TLC.                                        *)
EXTENDS FeatureFlags, TLC

Symmetry == Permutations(Threads)
=============================================================================

---------------------------- MODULE MCRateLimit ----------------------------
(***************************************************************************)
(* Instances of RateLimit for TLC.                                         *)
(***************************************************************************)
EXTENDS RateLimit, TLC

Two == [t \in Tenants |-> 2]

\* Threads are interchangeable; the runs check safety only.
ThreadSymmetry == Permutations(Threads)
=============================================================================

------------------------ MODULE MCMemoryGovernance ------------------------
(***************************************************************************)
(* Instances of MemoryGovernance for TLC.                                  *)
(***************************************************************************)
EXTENDS MemoryGovernance

CONSTANTS s1, s2, m1

\* One memory of one application.
OneKey == {<<s1, m1>>}

\* One entity id used by two applications.
SharedId == {<<s1, m1>>, <<s2, m1>>}
=============================================================================

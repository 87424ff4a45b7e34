-------------------------- MODULE MCRuntimeSettings --------------------------
(* Instances of RuntimeSettings for TLC.                                     *)
EXTENDS RuntimeSettings, TLC

CONSTANTS v1, v2

\* The first key comes with the activation; with two requests, that meets a
\* rotation of the key, its deletion, a change of the host, or another one.
EachRoute ==
    { Upsert("mem0_api_key", v1, TRUE), Upsert("mem0_api_key", v2, FALSE),
      Upsert("mem0_host", v2, FALSE), Delete("mem0_api_key") }

Symmetry == Permutations(Admins) \cup Permutations(Readers)
=============================================================================

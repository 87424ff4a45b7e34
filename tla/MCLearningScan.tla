--------------------------- MODULE MCLearningScan ---------------------------
(* Instances of LearningScan for TLC.                                        *)
EXTENDS LearningScan, TLC

\* A file in each of two directories.
MCLocation == <<<<"work", "a">>, <<"work", "b">>>>

\* The host's directory is mounted, and a part of it under another name.
MCMappings == {<<<<"host">>, <<"work">>>>, <<<<"host", "lib">>, <<"work", "b">>>>}
MCRequests == {<<"work">>, <<"host", "lib">>}

Version(n) == [name |-> "login", hash |-> n]
MCContents == {<<Version(1)>>, <<Version(1), Version(2)>>}

Symmetry == Permutations(Handlers)
=============================================================================

------------------------ MODULE MCSkillGovernance ------------------------
(***************************************************************************)
(* Instances of SkillGovernance for TLC.                                   *)
(***************************************************************************)
EXTENDS SkillGovernance, TLC

\* The first skill is a draft until its second version, the other one active.
Files == [s \in 1 .. NSkills |->
             [v \in Versions |-> IF s = 1 /\ v = 1 THEN "draft" ELSE "active"]]

\* The second version of the first skill may be deployed, and taken back.
DeployedFiles == {[s \in 1 .. NSkills |-> 1], [s \in 1 .. NSkills |-> IF s = 1 THEN 2 ELSE 1]}

\* The first skill is promoted and deprecated, the other one deprecated.
Asked == {<<1, "active">>, <<1, "deprecated">>, <<2, "deprecated">>}

\* Requests are interchangeable; the runs check safety only.
HandlerSymmetry == Permutations(Handlers)
=============================================================================

----------------------- MODULE MCGenerationPipeline -----------------------
(***************************************************************************)
(* Instances of GenerationPipeline for TLC.                                *)
(***************************************************************************)
EXTENDS GenerationPipeline

CONSTANTS local, openai, typo

\* A name that is not registered, alone or before one that is, and two that are.
Chains == {<<typo>>, <<typo, local>>, <<local, openai>>}

\* Every combination of settings.  Without a worker, every request is as one that
\* is not for Playwright.
AllFlags ==
    [input : BOOLEAN, output : BOOLEAN, llm : {None, local}, worker : {TRUE},
     db : BOOLEAN]

\* Neither guardrail nor LLM reformulator, which is the default.
DefaultFlags ==
    {[input |-> FALSE, output |-> FALSE, llm |-> None, worker |-> FALSE, db |-> TRUE]}

\* Every request: a jira_key makes it one for test cases, and what
\* validation has no part in is asked for together with validation.
AllInputs ==
    {i \in [testgen : BOOLEAN, jira : BOOLEAN, clean : BOOLEAN, chain : Chains,
            playwright : BOOLEAN, validate : BOOLEAN, repair : BOOLEAN] :
        /\ i.jira => i.testgen
        /\ i.playwright => i.validate /\ ~ i.testgen
        /\ i.testgen \/ i.repair => i.validate}

\* Code generation that may be repaired.
Repairable ==
    {[testgen |-> FALSE, jira |-> FALSE, clean |-> TRUE, chain |-> <<local>>,
      playwright |-> FALSE, validate |-> TRUE, repair |-> TRUE]}
=============================================================================

------------------------ MODULE GenerationPipeline ------------------------
(***************************************************************************)
(* POST /v1/generations: GenerationOrchestrator.generate in a thread of    *)
(* the pool, the two fetches it runs in threads of its own, and the        *)
(* background tasks after the answer.  The process may die at any time.    *)
(*                                                                         *)
(* Rate limiting is RateLimit, the selection of skills SkillGovernance and *)
(* of memories MemoryGovernance: here a plan holds what was fetched.  What *)
(* a provider answers is one of a few kinds of text:                       *)
(*    "empty"     nothing: how the providers report a failed call          *)
(*    "prose"     not JSON                                                 *)
(*    "nothing"   an empty list of artifacts                               *)
(*    "partial"   artifacts, and an item that is not one                   *)
(*    "artifacts" nothing but artifacts                                    *)
(*    "unsafe"    the same, with content the output guardrail rejects      *)
(*    "pack"      a test case pack                                         *)
(*    "fenced"    the same, in a markdown fence                            *)
(* A request is a record: testgen (it has a jira_key or test_types), jira  *)
(* (it has a jira_key), clean (the input guardrail passes it), chain (the  *)
(* provider it names, and its fallbacks), playwright (it is for Playwright *)
(* in TypeScript), validate and repair (its options).                      *)
(***************************************************************************)
EXTENDS Naturals, Sequences

CONSTANTS
    Requests,   \* handlers of one request each
    Inputs,     \* the requests they may receive
    Flags,      \* records [input, output, llm, worker, db]: the guardrails
                \* enabled, the provider of the LLM reformulator or None,
                \* the Playwright worker configured, Postgres connected
    Providers,  \* names of providers
    Registered, \* those of the gateway
    None

ASSUME RegisteredAreNames == Registered \subseteq Providers

Fetches == {"jira", "rag"}
Texts == {"empty", "prose", "nothing", "partial", "artifacts", "unsafe",
          "pack", "fenced"}
Languages == {"python", "typescript", "java"}
Severities == {"warning", "failed"}

\* The skill that validation selects, which may ask for a structure.
Skills == {"no skill", "plain", "structured"}

VARIABLES
    flags,       \* settings, read at startup
    pc, request,
    worker,      \* worker[r][f]: the thread of a fetch
    story,       \* story[r]: fetches that answered before they were given up
    context,     \* context[r]: what the plan holds, None without a plan
    calls,       \* history: calls[r], the LLM calls made, in order
    text,        \* text[r]: the text the result is made from
    result,      \* result[r]: what generate has so far
    skill,       \* skill[r]: the skill it was validated with, until it is repaired
    first,       \* history: the result a repair was asked to improve, or None
    outcome, event, kept,   \* answers, audit_events, context_snapshots
    metrics      \* GenerationMetrics of this life of the process

handling == <<request, worker, story, context, calls, text, result, skill, first>>
lasting == <<outcome, event, kept, metrics>>
vars == <<flags, pc, handling, lasting>>

Verdicts == {"not_run", "passed", "warning", "failed"}
Statuses == {"completed", "failed"}
\* judged is history: a validator found a "failure", or else a part of the artifacts
\* is "unseen": Java, which has no validator, or what the worker did not answer for.
Results == [artifacts : BOOLEAN, pack : BOOLEAN, errors : BOOLEAN,
            verdict : Verdicts, judged : {"clean", "unseen", "failure"}]

\* A GenerationResult with an error and nothing else.
Refused == [artifacts |-> FALSE, pack |-> FALSE, errors |-> TRUE,
            verdict |-> "not_run", judged |-> "clean"]

ASSUME NoneIsApart ==
    None \notin Texts \cup Statuses \cup {"error"} /\ None \notin Inputs /\ None \notin Results

Calls == [kind : {"reformulate", "generate", "repair"}, provider : Registered]

TypeOK ==
    /\ flags \in Flags
    /\ pc \in [Requests -> {"idle", "reformulate", "input", "jira", "rag", "join",
                            "dispatch", "output", "validate", "repair", "reply",
                            "audit", "snapshot", "end"}]
    /\ request \in [Requests -> Inputs \cup {None}]
    /\ worker \in [Requests -> [Fetches -> {"none", "running", "found", "empty"}]]
    /\ story \in [Requests -> SUBSET Fetches]
    /\ context \in [Requests -> (SUBSET Fetches) \cup {None}]
    /\ calls \in [Requests -> Seq(Calls)]
    /\ text \in [Requests -> Texts \cup {None}]
    /\ result \in [Requests -> Results]
    /\ skill \in [Requests -> Skills \cup {None}]
    /\ first \in [Requests -> Results \cup {None}]
    /\ outcome \in [Requests -> Statuses \cup {"error", None}]
    /\ event \in [Requests -> Statuses \cup {None}]
    /\ kept \in SUBSET Requests
    /\ metrics \in [Statuses -> Nat]

Init ==
    /\ flags \in Flags
    /\ pc = [r \in Requests |-> "idle"]
    /\ request = [r \in Requests |-> None]
    /\ worker = [r \in Requests |-> [f \in Fetches |-> "none"]]
    /\ story = [r \in Requests |-> {}]
    /\ context = [r \in Requests |-> None]
    /\ calls = [r \in Requests |-> <<>>]
    /\ text = [r \in Requests |-> None]
    /\ result = [r \in Requests |-> Refused]
    /\ skill = [r \in Requests |-> None]
    /\ first = [r \in Requests |-> None]
    /\ outcome = [r \in Requests |-> None]
    /\ event = [r \in Requests |-> None]
    /\ kept = {}
    /\ metrics = [s \in Statuses |-> 0]

Goto(r, l) == pc' = [pc EXCEPT ![r] = l]

Called(r, kind, p) ==
    calls' = [calls EXCEPT ![r] = Append(@, [kind |-> kind, provider |-> p])]

-----------------------------------------------------------------------------
(* Up to the plan.                                                         *)

Receive(r, input) ==
    /\ pc[r] = "idle"
    /\ request' = [request EXCEPT ![r] = input]
    /\ Goto(r, IF input.testgen THEN "reformulate" ELSE "input")
    /\ UNCHANGED <<flags, worker, story, context, calls, text, result, skill, first,
                   lasting>>

\* Whatever the call brings, there is an intent: keywords are the fallback.
Reformulate(r) ==
    /\ pc[r] = "reformulate"
    /\ IF flags.llm \in Registered THEN Called(r, "reformulate", flags.llm)
       ELSE UNCHANGED calls
    /\ Goto(r, "input")
    /\ UNCHANGED <<flags, request, worker, story, context, text, result, skill, first,
                   lasting>>

\* Whether the input guardrail lets the request through, if it is enabled.
Admitted(r) == flags.input => request[r].clean

Block(r) ==
    /\ pc[r] = "input"
    /\ ~ Admitted(r)
    /\ Goto(r, "reply")
    /\ UNCHANGED <<flags, handling, lasting>>

StartFetches(r) ==
    /\ pc[r] = "input"
    /\ Admitted(r)
    /\ worker' = [worker EXCEPT ![r]["rag"] = "running",
                                ![r]["jira"] = IF request[r].jira THEN "running"
                                                                  ELSE @]
    /\ Goto(r, IF request[r].jira THEN "jira" ELSE "rag")
    /\ UNCHANGED <<flags, request, story, context, calls, text, result, skill, first,
                   lasting>>

\* A fetch answers; one that raises is as good as one that finds nothing.  Nothing
\* bounds the time the vector store takes.
FetchEnds(r, f) ==
    /\ worker[r][f] = "running"
    /\ \E w \in {"found", "empty"} : worker' = [worker EXCEPT ![r][f] = w]
    /\ UNCHANGED <<flags, pc, request, story, context, calls, text, result,
                   skill, first, lasting>>

\* future.result(timeout) returns, raises or gives up.
Await(r, f) ==
    /\ pc[r] = f
    /\ story' = IF worker[r][f] = "found" THEN [story EXCEPT ![r] = @ \cup {f}]
                                          ELSE story
    /\ Goto(r, IF f = "jira" THEN "rag" ELSE "join")
    /\ UNCHANGED <<flags, request, worker, context, calls, text, result, skill, first,
                   lasting>>

\* A fetch that raised is waited for.
BugJoined(r) ==
    \A f \in Fetches : worker[r][f] = "none" \/ f \in story[r]

\* The executor is shut down without waiting.
BugNotJoined(r) == TRUE

\* Leaving the executor's block waits for the fetches that were given up.
Joined(r) == \A f \in Fetches : worker[r][f] # "running"

\* plan, build and redact.
Plan(r) ==
    /\ pc[r] = "join"
    /\ Joined(r)
    /\ context' = [context EXCEPT ![r] = story[r]]
    /\ Goto(r, "dispatch")
    /\ UNCHANGED <<flags, request, worker, story, calls, text, result, skill, first,
                   lasting>>

-----------------------------------------------------------------------------
(* The provider, the guardrail on what it says, and its normalisation.     *)

\* RuleBasedOutputGuardrail.check.
Safe(t) == t \in {"nothing", "partial", "artifacts", "pack"}

\* ResponseNormalizer.normalize ...
HasArtifacts(t) == t \in {"partial", "artifacts", "unsafe"}
HasErrors(t) == t \notin {"nothing", "artifacts", "unsafe"}
\* ... and TestCasePackNormalizer.normalize, which strips a fence.
HasPack(t) == t \in {"pack", "fenced"}

Chain(r) == request[r].chain

\* A provider whose call failed is followed by the next one.
BugAsked(r) == {p \in Registered : \E i \in DOMAIN Chain(r) : Chain(r)[i] = p}

\* The first provider of the chain that is registered.
Asked(r) ==
    {p \in Registered : \E i \in DOMAIN Chain(r) :
        Chain(r)[i] = p /\ \A j \in 1 .. i - 1 : Chain(r)[j] \notin Registered}

\* ProviderNotFoundError, of no provider in the chain.
NoProvider(r) ==
    /\ pc[r] = "dispatch"
    /\ Asked(r) = {}
    /\ Goto(r, "reply")
    /\ context' = [context EXCEPT ![r] = None]
    /\ UNCHANGED <<flags, request, worker, story, calls, text, result, skill, first,
                   lasting>>

\* A provider that is registered answers, failed call or not; the fallbacks are
\* for names that are not registered.
Dispatch(r, t) ==
    /\ pc[r] = "dispatch"
    /\ \E p \in Asked(r) : Called(r, "generate", p)
    /\ text' = [text EXCEPT ![r] = t]
    /\ Goto(r, "output")
    /\ UNCHANGED <<flags, request, worker, story, context, result, skill, first,
                   lasting>>

\* Only what would become a test case pack is checked.
BugLetsThrough(r) == ~ (flags.output /\ request[r].testgen) \/ Safe(text[r])

\* The output guardrail, if it is enabled.
LetsThrough(r) == ~ flags.output \/ Safe(text[r])

\* Tone refinement asks for a provider "default", which is not registered, and
\* falls back to the text it was given.
CheckOutput(r) ==
    /\ pc[r] = "output"
    /\ LetsThrough(r)
    /\ Goto(r, "validate")
    /\ UNCHANGED <<flags, request, worker, story, context, calls, text, result,
                   skill, first, lasting>>

\* The answer has no context then.
Withhold(r) ==
    /\ pc[r] = "output"
    /\ ~ LetsThrough(r)
    /\ Goto(r, "reply")
    /\ context' = [context EXCEPT ![r] = None]
    /\ UNCHANGED <<flags, request, worker, story, calls, text, result, skill, first,
                   lasting>>

\* The rules of the skill, and the types of artifacts it wants.
StructureSays(kind) == IF kind = "structured" THEN SUBSET Severities ELSE {{}}

\* Python is parsed.
SyntaxSays(languages) == {{}} \cup IF "python" \in languages THEN {{"failed"}} ELSE {}

\* Nothing can look at Java.
JavaSays(languages) == IF "java" \in languages THEN {"warning"} ELSE {}

\* The Playwright worker looks at TypeScript, if the skill is for Playwright.
WorkerIsAsked(r, kind, languages) ==
    flags.worker /\ request[r].playwright /\ kind # "no skill" /\ "typescript" \in languages

Outage == {"outage"}

\* An outage leaves no trace.
BugWorkerSays(answer) == answer \ Outage

\* A worker that is missing, too late, or ends with anything but a response, is a
\* warning; otherwise it says what it has found in the artifacts.
WorkerSays(answer) == IF answer = Outage THEN {"warning"} ELSE answer

\* Silence has a status of its own.
BugOverall(said) ==
    IF said = {} THEN "skipped"
    ELSE IF "failed" \in said THEN "failed" ELSE "warning"

Overall(said) ==
    IF said = {} THEN "passed"
    ELSE IF "failed" \in said THEN "failed" ELSE "warning"

WorkerAnswers(r, kind, languages) ==
    IF WorkerIsAsked(r, kind, languages) THEN {Outage} \cup SUBSET Severities ELSE {{}}

\* The validators decide together.
Judge(languages, structure, syntax, answer) ==
    [verdict |-> Overall(structure \cup syntax \cup JavaSays(languages)
                             \cup WorkerSays(answer)),
     judged |-> IF "failed" \in structure \cup syntax \cup answer THEN "failure"
                ELSE IF "java" \in languages \/ answer = Outage THEN "unseen"
                ELSE "clean"]

\* ValidationCoordinator.validate: no artifacts is a failure.
Judgements(r, kind, t) ==
    IF ~ HasArtifacts(t)
    THEN {[verdict |-> "failed", judged |-> "failure"]}
    ELSE UNION {{Judge(languages, structure, syntax, answer) :
                    structure \in StructureSays(kind),
                    syntax \in SyntaxSays(languages),
                    answer \in WorkerAnswers(r, kind, languages)} :
                languages \in (SUBSET Languages) \ {{}}}

NotJudged == {[verdict |-> "not_run", judged |-> "clean"]}

\* Normalised and validated.
Outcomes(r, kind, t) ==
    IF request[r].testgen
    THEN {[artifacts |-> FALSE, pack |-> HasPack(t), errors |-> ~ HasPack(t),
           verdict |-> "not_run", judged |-> "clean"]}
    ELSE {[artifacts |-> HasArtifacts(t), pack |-> FALSE, errors |-> HasErrors(t),
           verdict |-> j.verdict, judged |-> j.judged] :
              j \in IF request[r].validate THEN Judgements(r, kind, t) ELSE NotJudged}

\* A failed validation always has diagnostics.
WantsRepair(r, res) ==
    ~ request[r].testgen /\ request[r].repair /\ res.verdict = "failed"

Validate(r) ==
    /\ pc[r] = "validate"
    /\ \E kind \in Skills : \E res \in Outcomes(r, kind, text[r]) :
          /\ result' = [result EXCEPT ![r] = res]
          /\ IF WantsRepair(r, res)
             THEN /\ first' = [first EXCEPT ![r] = res]
                  /\ skill' = [skill EXCEPT ![r] = kind]
                  /\ Goto(r, "repair")
             ELSE UNCHANGED <<first, skill>> /\ Goto(r, "reply")
    /\ UNCHANGED <<flags, request, worker, story, context, calls, text, lasting>>

\* One more call, whose text replaces the first one, whatever it is.
Repair(r, t) ==
    /\ pc[r] = "repair"
    /\ \E p \in Asked(r) : Called(r, "repair", p)
    /\ text' = [text EXCEPT ![r] = t]
    /\ \E res \in Outcomes(r, skill[r], t) : result' = [result EXCEPT ![r] = res]
    /\ Goto(r, "reply")
    /\ skill' = [skill EXCEPT ![r] = None]
    /\ UNCHANGED <<flags, request, worker, story, context, first, lasting>>

-----------------------------------------------------------------------------
(* The answer and what follows it.                                         *)

\* Validation has no say.
BugStatus(r) ==
    IF result[r].errors /\ ~ result[r].artifacts THEN "failed" ELSE "completed"

\* With artifacts, a generation completes even when they are wrong.
Status(r) ==
    IF /\ result[r].errors \/ result[r].verdict = "failed"
       /\ ~ result[r].artifacts
    THEN "failed" ELSE "completed"

Reply(r) ==
    /\ pc[r] = "reply"
    /\ outcome' = [outcome EXCEPT ![r] = Status(r)]
    /\ metrics' = [metrics EXCEPT ![Status(r)] = @ + 1]
    /\ Goto(r, IF flags.db THEN "audit" ELSE "end")
    /\ UNCHANGED <<flags, handling, event, kept>>

\* Something raises where nothing catches: 500, and no background task.
Raise(r) ==
    /\ pc[r] \in {"reformulate", "dispatch", "validate", "repair"}
    /\ outcome' = [outcome EXCEPT ![r] = "error"]
    /\ Goto(r, "end")
    /\ UNCHANGED <<flags, handling, event, kept, metrics>>

\* The event tells whether there were artifacts.
BugEventStatus(r) == IF result[r].artifacts THEN "completed" ELSE "failed"

EventStatus(r) == outcome[r]

Audit(r) ==
    /\ pc[r] = "audit"
    /\ event' = [event EXCEPT ![r] = EventStatus(r)]
    /\ Goto(r, IF context[r] # None THEN "snapshot" ELSE "end")
    /\ UNCHANGED <<flags, handling, outcome, kept, metrics>>

\* The background tasks that follow one that raises are not run; the event may
\* have been written all the same.
AuditFails(r) ==
    /\ pc[r] = "audit"
    /\ event' \in {event, [event EXCEPT ![r] = EventStatus(r)]}
    /\ Goto(r, "end")
    /\ UNCHANGED <<flags, handling, outcome, kept, metrics>>

SaveSnapshot(r) ==
    /\ pc[r] = "snapshot"
    /\ kept' \in {kept, kept \cup {r}}     \* it raises, or not
    /\ Goto(r, "end")
    /\ UNCHANGED <<flags, handling, outcome, event, metrics>>

\* The process dies and is started again: requests and background tasks in
\* flight are lost, counters start from zero.
Restart ==
    /\ \E r \in Requests : pc[r] \notin {"idle", "end"}
    /\ pc' = [r \in Requests |-> IF pc[r] = "idle" THEN "idle" ELSE "end"]
    /\ worker' = [r \in Requests |-> [f \in Fetches |-> "none"]]
    /\ outcome' = [r \in Requests |->
                      IF pc[r] # "idle" /\ outcome[r] = None THEN "error"
                      ELSE outcome[r]]
    /\ metrics' = [s \in Statuses |-> 0]
    /\ UNCHANGED <<flags, request, story, context, calls, text, result, skill, first, event,
                   kept>>

FetchStep(r) == \E f \in Fetches : FetchEnds(r, f)

Step(r) ==
    \/ Reformulate(r) \/ Block(r) \/ StartFetches(r)
    \/ \E f \in Fetches : Await(r, f)
    \/ Plan(r) \/ NoProvider(r)
    \/ \E t \in Texts : Dispatch(r, t) \/ Repair(r, t)
    \/ CheckOutput(r) \/ Withhold(r) \/ Validate(r)
    \/ Reply(r) \/ Raise(r) \/ Audit(r) \/ AuditFails(r) \/ SaveSnapshot(r)

Next ==
    \/ \E r \in Requests :
          \/ \E input \in Inputs : Receive(r, input)
          \/ Step(r) \/ FetchStep(r)
    \/ Restart

Spec == Init /\ [][Next]_vars

\* Threads run, and the calls a request makes before its answer have timeouts: of
\* Jira, the providers, the memory and the worker.  The vector store has none, and
\* neither have the statements of the background tasks: they may take forever.
Fairness ==
    \A r \in Requests :
        /\ WF_vars(pc[r] \notin {"audit", "snapshot"} /\ Step(r))
        /\ WF_vars(FetchEnds(r, "jira"))

FairSpec == Spec /\ Fairness

-----------------------------------------------------------------------------
(* Properties.                                                             *)

\* A request is answered once or given up, and what is left of it in Postgres,
\* whatever task raises and whenever the process dies, agrees with the answer.
Contract == INSTANCE GenerationContract
KeepsContract == Contract!Spec

\* A completed generation carries what was asked for, taken from the last text
\* that a provider gave; without validation it may carry an empty list.
CompletedIsBacked ==
    \A r \in Requests : outcome[r] = "completed" =>
        /\ text[r] # None
        /\ IF request[r].testgen THEN HasPack(text[r])
           ELSE \/ HasArtifacts(text[r])
                \/ text[r] = "nothing" /\ ~ request[r].validate

\* With the output guardrail enabled, what is answered passed it: but for the
\* text of a repair.
AnswersAreGuarded ==
    \A r \in Requests :
        flags.output /\ outcome[r] = "completed" /\ first[r] = None => Safe(text[r])

\* A plan is made when the fetches are over, of those that answered in time,
\* and no thread of a fetch outlives it.
PlanIsSettled ==
    \A r \in Requests :
        context[r] # None =>
            /\ context[r] \subseteq story[r]
            /\ \A f \in Fetches : worker[r][f] # "running"

\* A request that the input guardrail rejects starts no fetch and makes no call of a
\* provider, unless it is one for test cases: that has been reformulated, by one
\* call where an LLM does it (one more than orchestrator.py:88 and
\* input_guardrail.py:1 speak of).  Another one makes at most one generation
\* and, if that was code which failed validation and may be repaired, one repair
\* after it: both with the first provider of its chain that is registered, even
\* when that has failed and there are others.
CallsAreAccounted ==
    \A r \in Requests :
        LET made(kind) == {i \in DOMAIN calls[r] : calls[r][i].kind = kind} IN
        /\ request[r] # None /\ flags.input /\ ~ request[r].clean =>
               /\ calls[r] # <<>> =>
                      /\ request[r].testgen
                      /\ calls[r] = <<[kind |-> "reformulate", provider |-> flags.llm]>>
               /\ \A f \in Fetches : worker[r][f] = "none"
        /\ \A i, j \in made("generate") : i = j
        /\ \A i, j \in made("repair") : i = j
        /\ \A i \in made("repair") :
               /\ made("generate") = {i - 1}
               /\ request[r].repair /\ ~ request[r].testgen
               /\ first[r].verdict = "failed"
        /\ \A i \in made("generate") \cup made("repair") :
               \E k \in DOMAIN Chain(r) :
                   /\ calls[r][i].provider = Chain(r)[k]
                   /\ \A l \in 1 .. k - 1 : Chain(r)[l] \notin Registered

\* A validation does not pass what it knows that nobody has seen: with Java, or
\* when the worker that was asked did not answer, it is a warning at least, of the
\* generation and of its repair.  But no outage fails a validation, and so none of
\* them makes a request be repaired.
VerdictIsEarned ==
    \A r \in Requests : \A res \in {result[r], first[r]} \ {None} :
        /\ res.verdict = "passed" => res.judged = "clean"
        /\ res.verdict = "failed" <=> res.judged = "failure"

\* Every request is answered or given up, whatever the fetches and providers answer
\* or raise and however late: unless the vector store holds its fetch forever, and
\* with it the request, for the time it is awaited does not end the fetch.
RequestsAreAnswered ==
    \A r \in Requests :
        []<>(worker[r]["rag"] # "running") => (pc[r] # "idle" ~> outcome[r] # None)

\* orchestrator.py:262: a repair whose transport failed keeps the original
\* result.
RepairKeepsOriginal ==
    \A r \in Requests :
        outcome[r] \in Statuses /\ first[r] # None /\ text[r] = "empty" =>
            result[r] = first[r]
=============================================================================

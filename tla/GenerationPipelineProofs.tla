---------------------- MODULE GenerationPipelineProofs ----------------------
(***************************************************************************)
(* Proofs about GenerationPipeline, for any number of requests of any      *)
(* kind, any settings, any chains of providers and any registered ones.    *)
(*                                                                         *)
(* Requests share nothing but the counters of metrics, and a restart ends  *)
(* all of them, so the invariant is one of each request.  It says at which *)
(* step a request is: what it has by then and what it cannot have yet.     *)
(***************************************************************************)
EXTENDS GenerationPipeline, TLAPS

Early == {"idle", "reformulate", "input", "jira", "rag", "join"}
Unjudged == Early \cup {"dispatch", "output", "validate"}
Answered == {"audit", "snapshot", "end"}

PlanInv(r) ==
    /\ pc[r] \in Early => context[r] = None
    /\ context[r] # None => /\ context[r] \subseteq story[r]
                            /\ \A f \in Fetches : worker[r][f] # "running"

\* The result is made from the text.
Matches(in, res, t) ==
    /\ t # None
    /\ IF in.testgen
       THEN ~ res.artifacts /\ (~ res.errors => HasPack(t))
       ELSE /\ res.artifacts => HasArtifacts(t)
            /\ ~ res.errors => t \in {"nothing", "artifacts", "unsafe"}
            /\ in.validate /\ ~ HasArtifacts(t) => res.verdict = "failed"
            /\ HasArtifacts(t) => res.artifacts

ResultInv(r) ==
    /\ pc[r] \in Unjudged => result[r] = Refused /\ first[r] = None
    /\ pc[r] \in {"output", "validate"} => text[r] # None
    /\ pc[r] = "repair" => first[r] # None
    /\ result[r] # Refused => Matches(request[r], result[r], text[r])
    /\ flags.output /\ first[r] = None /\ (result[r] # Refused \/ pc[r] = "validate")
          => Safe(text[r])
    /\ outcome[r] = "completed" => pc[r] \in Answered /\ Status(r) = "completed"

Earned(res) ==
    /\ res.verdict = "passed" => res.judged = "clean"
    /\ res.verdict = "failed" <=> res.judged = "failure"

VerdictInv(r) == Earned(result[r]) /\ (first[r] # None => Earned(first[r]))

MayRepair(r) == request[r].repair /\ ~ request[r].testgen /\ first[r].verdict = "failed"

\* The kinds of calls made, of which the first n are reformulations.
KindAt(i, n) == IF i <= n THEN "reformulate" ELSE IF i = n + 1 THEN "generate" ELSE "repair"

CallsAre(r, n) ==
    /\ Len(calls[r]) <= n + 2
    /\ \A i \in 1 .. Len(calls[r]) :
          /\ calls[r][i].kind = KindAt(i, n)
          /\ i > n => calls[r][i].provider \in Asked(r)
    /\ pc[r] \in {"idle", "reformulate"} => Len(calls[r]) = 0
    /\ pc[r] \in {"input", "jira", "rag", "join", "dispatch"} => Len(calls[r]) = n
    /\ pc[r] \in {"output", "validate", "repair"} => Len(calls[r]) = n + 1
    /\ Len(calls[r]) = n + 2 => MayRepair(r)

CallsInv(r) ==
    /\ \E n \in {0, 1} : CallsAre(r, n)
    /\ pc[r] = "repair" => MayRepair(r)

\* The calls of a request that the guardrail has not let through.
OnlyReformulated(r) ==
    \/ calls[r] = <<>>
    \/ /\ request[r].testgen
       /\ calls[r] = <<[kind |-> "reformulate", provider |-> flags.llm]>>

BlockedInv(r) ==
    /\ pc[r] = "idle" => request[r] = None /\ \A f \in Fetches : worker[r][f] = "none"
    /\ request[r] # None /\ ~ Admitted(r) =>
          /\ pc[r] \in {"reformulate", "input", "reply"} \cup Answered
          /\ \A f \in Fetches : worker[r][f] = "none"
          /\ OnlyReformulated(r)
    /\ pc[r] \in {"idle", "reformulate"} => calls[r] = <<>>
    /\ pc[r] = "reformulate" => request[r].testgen

AnswerInv(r) ==
    /\ outcome[r] = None <=> pc[r] \notin Answered
    /\ pc[r] = "audit" => outcome[r] \in Statuses
    /\ pc[r] \notin {"snapshot", "end"} => event[r] = None
    /\ pc[r] = "snapshot" => event[r] \in Statuses

IInv ==
    /\ TypeOK
    /\ \A r \in Requests :
          PlanInv(r) /\ ResultInv(r) /\ VerdictInv(r) /\ CallsInv(r) /\ BlockedInv(r)
             /\ AnswerInv(r)

-----------------------------------------------------------------------------
(* What normalisation and validation produce.                              *)

LEMMA OverallSays ==
    ASSUME NEW said
    PROVE  /\ Overall(said) \in Verdicts
           /\ Overall(said) = "failed" <=> "failed" \in said
           /\ Overall(said) = "passed" <=> said = {}
BY DEF Overall, Verdicts

LEMMA JudgementsAreEarned ==
    ASSUME NEW r, NEW kind, NEW t, NEW j \in Judgements(r, kind, t)
    PROVE  /\ j.verdict \in Verdicts /\ j.judged \in {"clean", "unseen", "failure"}
           /\ Earned(j)
           /\ ~ HasArtifacts(t) => j.verdict = "failed"
<1>1. CASE ~ HasArtifacts(t)
  <2>1. j = [verdict |-> "failed", judged |-> "failure"]
    BY <1>1 DEF Judgements
  <2> QED BY <2>1 DEF Verdicts, Earned
<1>2. CASE HasArtifacts(t)
  <2> DEFINE Judged(languages) == {Judge(languages, structure, syntax, answer) :
                                      structure \in StructureSays(kind),
                                      syntax \in SyntaxSays(languages),
                                      answer \in WorkerAnswers(r, kind, languages)}
  <2>0. j \in UNION {Judged(languages) : languages \in (SUBSET Languages) \ {{}}}
    BY <1>2 DEF Judgements
  <2>1. PICK languages : j \in Judged(languages)
    <3> HIDE DEF Judged
    <3> QED BY <2>0
  <2>2. PICK structure \in StructureSays(kind), syntax \in SyntaxSays(languages),
             answer \in WorkerAnswers(r, kind, languages) :
                j = Judge(languages, structure, syntax, answer)
    BY <2>1
  <2> DEFINE said == structure \cup syntax \cup JavaSays(languages) \cup WorkerSays(answer)
  <2>3. "failed" \in said <=> "failed" \in structure \cup syntax \cup answer
    BY DEF JavaSays, WorkerSays, Outage
  <2>4. "java" \in languages \/ answer = Outage => said # {}
    BY DEF JavaSays, WorkerSays
  <2>5. /\ j.verdict = Overall(said)
        /\ j.judged = IF "failed" \in structure \cup syntax \cup answer THEN "failure"
                      ELSE IF "java" \in languages \/ answer = Outage THEN "unseen" ELSE "clean"
    BY <2>2 DEF Judge
  <2> HIDE DEF said
  <2> QED BY <1>2, <2>3, <2>4, <2>5, OverallSays DEF Earned
<1> QED BY <1>1, <1>2

LEMMA OutcomesMatch ==
    ASSUME NEW r, NEW kind, NEW t \in Texts,
           NEW res \in Outcomes(r, kind, t)
    PROVE  res \in Results /\ Earned(res) /\ Matches(request[r], res, t)
<1> USE NoneIsApart
<1>1. HasPack(t) \in BOOLEAN /\ HasArtifacts(t) \in BOOLEAN /\ HasErrors(t) \in BOOLEAN
  BY DEF HasPack, HasArtifacts, HasErrors
<1>2. CASE request[r].testgen
  <2>1. res = [artifacts |-> FALSE, pack |-> HasPack(t), errors |-> ~ HasPack(t),
               verdict |-> "not_run", judged |-> "clean"]
    BY <1>2 DEF Outcomes
  <2> QED BY <1>1, <1>2, <2>1 DEF Results, Verdicts, Earned, Matches
<1>3. CASE ~ request[r].testgen
  <2>1. PICK j \in IF request[r].validate THEN Judgements(r, kind, t) ELSE NotJudged :
           res = [artifacts |-> HasArtifacts(t), pack |-> FALSE, errors |-> HasErrors(t),
                  verdict |-> j.verdict, judged |-> j.judged]
    BY <1>3 DEF Outcomes
  <2>2. /\ j.verdict \in Verdicts /\ j.judged \in {"clean", "unseen", "failure"}
        /\ Earned(j)
        /\ request[r].validate /\ ~ HasArtifacts(t) => j.verdict = "failed"
    BY <2>1, JudgementsAreEarned DEF NotJudged, Verdicts, Earned
  <2>3. ~ HasErrors(t) => t \in {"nothing", "artifacts", "unsafe"}
    BY DEF HasErrors
  <2>4. /\ res.artifacts = HasArtifacts(t) /\ res.errors = HasErrors(t)
        /\ res.verdict = j.verdict /\ res.judged = j.judged
    BY <2>1
  <2>5. res \in Results
    BY <1>1, <2>1, <2>2 DEF Results
  <2>6. Earned(res)
    BY <2>2, <2>4 DEF Earned
  <2>7. Matches(request[r], res, t)
    BY <1>3, <2>2, <2>3, <2>4 DEF Matches
  <2> QED BY <2>5, <2>6, <2>7
<1> QED BY <1>2, <1>3

-----------------------------------------------------------------------------
(* A step concerns one request.                                            *)

Same(q) == UNCHANGED <<pc[q], request[q], worker[q], story[q], context[q], calls[q], text[q],
                       result[q], skill[q], first[q], outcome[q], event[q]>>

LEMMA OthersStay ==
    ASSUME TypeOK, NEW r \in Requests, NEW q \in Requests, q # r,
           Step(r) \/ FetchStep(r) \/ \E input \in Inputs : Receive(r, input)
    PROVE  Same(q)
<1> USE DEF TypeOK, Same, Goto, Called, handling, lasting
<1>1. ASSUME NEW input \in Inputs, Receive(r, input) PROVE Same(q)
  BY <1>1 DEF Receive
<1>2. CASE FetchStep(r)
  BY <1>2 DEF FetchStep, FetchEnds
<1>3. CASE Reformulate(r) \/ Block(r)
  BY <1>3 DEF Reformulate, Block
<1>4. CASE StartFetches(r)
  BY <1>4 DEF StartFetches
<1>5. ASSUME NEW f \in Fetches, Await(r, f) PROVE Same(q)
  BY <1>5 DEF Await
<1>6. CASE Plan(r) \/ NoProvider(r)
  BY <1>6 DEF Plan, NoProvider
<1>7. ASSUME NEW t \in Texts, Dispatch(r, t) PROVE Same(q)
  BY <1>7 DEF Dispatch
<1>8. ASSUME NEW t \in Texts, Repair(r, t) PROVE Same(q)
  BY <1>8 DEF Repair
<1>9. CASE CheckOutput(r) \/ Withhold(r)
  BY <1>9 DEF CheckOutput, Withhold
<1>10. CASE Validate(r)
  BY <1>10 DEF Validate
<1>11. CASE Reply(r) \/ Raise(r)
  BY <1>11 DEF Reply, Raise
<1>12. CASE Audit(r) \/ AuditFails(r) \/ SaveSnapshot(r)
  BY <1>12 DEF Audit, AuditFails, SaveSnapshot
<1> QED BY <1>1, <1>2, <1>3, <1>4, <1>5, <1>6, <1>7, <1>8, <1>9, <1>10, <1>11, <1>12 DEF Step

\* What it does to that request: Gathering changes what the plan is made of,
\* Generating what is made from it, and Answering what is left of it.
OfPlan(r)   == <<worker[r], story[r], context[r]>>
OfText(r)   == <<text[r], result[r], skill[r], first[r]>>
OfAnswer(r) == <<outcome[r], event[r]>>

Gathering(r) ==
    /\ UNCHANGED <<OfText(r), OfAnswer(r)>>
    /\ \/ /\ pc[r] = "idle" /\ UNCHANGED <<OfPlan(r), calls[r]>>
          /\ \E input \in Inputs :
                request'[r] = input /\ pc'[r] = IF input.testgen THEN "reformulate" ELSE "input"
       \/ /\ UNCHANGED request[r]
          /\ \/ /\ pc[r] = "reformulate" /\ pc'[r] = "input" /\ UNCHANGED OfPlan(r)
                /\ \/ UNCHANGED calls[r]
                   \/ \E p \in Registered : p = flags.llm /\
                         calls'[r] = Append(calls[r], [kind |-> "reformulate", provider |-> p])
             \/ /\ UNCHANGED calls[r]
                /\ \/ pc[r] = "input" /\ ~ Admitted(r) /\ pc'[r] = "reply" /\ UNCHANGED OfPlan(r)
                   \/ /\ pc[r] = "input" /\ Admitted(r) /\ pc'[r] \in {"jira", "rag"}
                      /\ UNCHANGED context[r]
                   \/ /\ UNCHANGED <<pc[r], story[r], context[r]>>
                      /\ \E f \in Fetches : worker[r][f] = "running"
                      /\ \A f \in Fetches : worker'[r][f] = "running" => worker[r][f] = "running"
                   \/ /\ pc[r] \in {"jira", "rag"} /\ pc'[r] \in {"rag", "join"}
                      /\ UNCHANGED <<worker[r], context[r]>>
                   \/ /\ pc[r] = "join" /\ Joined(r) /\ pc'[r] = "dispatch"
                      /\ context'[r] = story[r] /\ UNCHANGED <<worker[r], story[r]>>

Generating(r) ==
    /\ UNCHANGED <<request[r], worker[r], story[r], OfAnswer(r)>>
    /\ \/ /\ pc[r] \in {"dispatch", "output"} /\ pc'[r] = "reply"
          /\ context'[r] = None /\ UNCHANGED <<calls[r], OfText(r)>>
       \/ /\ pc[r] = "dispatch" /\ pc'[r] = "output"
          /\ \E p \in Asked(r) :
                calls'[r] = Append(calls[r], [kind |-> "generate", provider |-> p])
          /\ text'[r] \in Texts /\ UNCHANGED <<context[r], result[r], skill[r], first[r]>>
       \/ /\ pc[r] = "output" /\ LetsThrough(r) /\ pc'[r] = "validate"
          /\ UNCHANGED <<context[r], calls[r], OfText(r)>>
       \/ /\ pc[r] = "validate" /\ UNCHANGED <<context[r], calls[r], text[r]>>
          /\ \E kind \in Skills : result'[r] \in Outcomes(r, kind, text[r])
          /\ \/ /\ WantsRepair(r, result'[r]) /\ first'[r] = result'[r] /\ pc'[r] = "repair"
             \/ UNCHANGED first[r] /\ pc'[r] = "reply"
       \/ /\ pc[r] = "repair" /\ pc'[r] = "reply"
          /\ \E p \in Asked(r) :
                calls'[r] = Append(calls[r], [kind |-> "repair", provider |-> p])
          /\ text'[r] \in Texts /\ result'[r] \in Outcomes(r, skill[r], text'[r])
          /\ UNCHANGED <<context[r], first[r]>>

Answering(r) ==
    /\ UNCHANGED <<request[r], OfPlan(r), calls[r], OfText(r)>>
    /\ \/ /\ pc[r] = "reply" /\ pc'[r] \in {"audit", "end"}
          /\ outcome'[r] = Status(r) /\ UNCHANGED event[r]
       \/ /\ pc[r] \in {"reformulate", "dispatch", "validate", "repair"} /\ pc'[r] = "end"
          /\ outcome'[r] = "error" /\ UNCHANGED event[r]
       \/ /\ pc[r] = "audit" /\ pc'[r] \in {"snapshot", "end"}
          /\ UNCHANGED outcome[r]
          /\ \/ event'[r] = outcome[r]
             \/ pc'[r] = "end" /\ UNCHANGED event[r]
       \/ pc[r] = "snapshot" /\ pc'[r] = "end" /\ UNCHANGED OfAnswer(r)

LEMMA StepEffect ==
    ASSUME TypeOK, NEW r \in Requests,
           Step(r) \/ FetchStep(r) \/ \E input \in Inputs : Receive(r, input)
    PROVE  Gathering(r) \/ Generating(r) \/ Answering(r)
<1> USE DEF TypeOK, Goto, Called, handling, lasting, OfPlan, OfText, OfAnswer
<1>1. ASSUME NEW input \in Inputs, Receive(r, input) PROVE Gathering(r)
  BY <1>1 DEF Receive, Gathering
<1>2. ASSUME NEW f \in Fetches, FetchEnds(r, f) PROVE Gathering(r)
  <2>1. PICK w \in {"found", "empty"} : worker' = [worker EXCEPT ![r][f] = w]
    BY <1>2 DEF FetchEnds
  <2>2. \A g \in Fetches : worker'[r][g] = "running" => worker[r][g] = "running"
    BY <2>1
  <2> QED BY <1>2, <2>2 DEF FetchEnds, Gathering
<1>3. CASE Reformulate(r) \/ Block(r)
  BY <1>3 DEF Reformulate, Block, Gathering
<1>4. CASE StartFetches(r)
  BY <1>4 DEF StartFetches, Gathering
<1>5. ASSUME NEW f \in Fetches, Await(r, f) PROVE Gathering(r)
  BY <1>5 DEF Await, Gathering, Fetches
<1>6. CASE Plan(r)
  BY <1>6 DEF Plan, Gathering
<1>7. CASE NoProvider(r) \/ Withhold(r)
  BY <1>7 DEF NoProvider, Withhold, Generating
<1>8. ASSUME NEW t \in Texts, Dispatch(r, t) PROVE Generating(r)
  BY <1>8 DEF Dispatch, Generating
<1>9. ASSUME NEW t \in Texts, Repair(r, t) PROVE Generating(r)
  BY <1>9 DEF Repair, Generating
<1>10. CASE CheckOutput(r)
  BY <1>10 DEF CheckOutput, Generating
<1>11. CASE Validate(r)
  BY <1>11 DEF Validate, Generating
<1>12. CASE Reply(r) \/ Raise(r)
  BY <1>12 DEF Reply, Raise, Answering
<1>13. CASE Audit(r) \/ AuditFails(r) \/ SaveSnapshot(r)
  BY <1>13 DEF Audit, AuditFails, SaveSnapshot, EventStatus, Answering
<1> QED BY <1>1, <1>2, <1>3, <1>4, <1>5, <1>6, <1>7, <1>8, <1>9, <1>10, <1>11, <1>12, <1>13
        DEF Step, FetchStep

\* The end of every request that a restart meets.
Killed(r) ==
    /\ UNCHANGED <<request[r], story[r], context[r], calls[r], OfText(r), event[r]>>
    /\ pc'[r] = IF pc[r] = "idle" THEN "idle" ELSE "end"
    /\ outcome'[r] = IF pc[r] # "idle" /\ outcome[r] = None THEN "error" ELSE outcome[r]
    /\ \A f \in Fetches : worker'[r][f] = "none"

LEMMA NextEffect ==
    ASSUME TypeOK, [Next]_vars, NEW r \in Requests
    PROVE  /\ UNCHANGED flags
           /\ Same(r) \/ Gathering(r) \/ Generating(r) \/ Answering(r) \/ Killed(r)
<1>1. CASE Restart
  BY <1>1 DEF Restart, Killed, OfText
<1>2. ASSUME NEW q \in Requests,
             Step(q) \/ FetchStep(q) \/ \E input \in Inputs : Receive(q, input)
      PROVE  Same(r) \/ Gathering(r) \/ Generating(r) \/ Answering(r)
  BY <1>2, OthersStay, StepEffect
<1>3. CASE UNCHANGED vars
  BY <1>3 DEF vars, handling, lasting, Same
<1>4. \A q \in Requests :
        Step(q) \/ FetchStep(q) \/ (\E input \in Inputs : Receive(q, input)) => UNCHANGED flags
  BY DEF Step, FetchStep, FetchEnds, Receive, Reformulate, Block, StartFetches, Await, Plan,
         NoProvider, Dispatch, Repair, CheckOutput, Withhold, Validate, Reply, Raise, Audit,
         AuditFails, SaveSnapshot
<1>5. UNCHANGED flags
  BY <1>4 DEF Next, Restart, vars
<1> QED BY <1>1, <1>2, <1>3, <1>5 DEF Next

LEMMA StatusIsOne == \A r : Status(r) \in Statuses
BY DEF Status, Statuses

LEMMA TypeInit == Init => TypeOK
<1> SUFFICES ASSUME Init PROVE TypeOK
  OBVIOUS
<1>1. Refused \in Results
  BY DEF Refused, Results, Verdicts
<1>2. calls \in [Requests -> Seq(Calls)]
  <2>1. calls = [r \in Requests |-> <<>>]
    BY DEF Init
  <2>2. <<>> \in Seq(Calls)
    OBVIOUS
  <2> QED BY <2>1, <2>2
<1>3. /\ worker \in [Requests -> [Fetches -> {"none", "running", "found", "empty"}]]
      /\ story \in [Requests -> SUBSET Fetches]
      /\ context \in [Requests -> (SUBSET Fetches) \cup {None}]
  BY DEF Init
<1>4. /\ result \in [Requests -> Results]
      /\ metrics \in [Statuses -> Nat]
  BY <1>1 DEF Init
<1> QED BY <1>2, <1>3, <1>4 DEF Init, TypeOK

LEMMA TypeNext == IInv /\ [Next]_vars => TypeOK'
<1> SUFFICES ASSUME IInv, [Next]_vars PROVE TypeOK'
  OBVIOUS
<1>0. TypeOK
  BY DEF IInv
<1> USE DEF Goto, handling, lasting
<1>1. ASSUME NEW r \in Requests, NEW input \in Inputs, Receive(r, input)
      PROVE  TypeOK'
  BY <1>0, <1>1 DEF TypeOK, Receive
<1>2. ASSUME NEW r \in Requests, FetchStep(r)
      PROVE  TypeOK'
  <2>1. PICK f \in Fetches : FetchEnds(r, f)
    BY <1>2 DEF FetchStep
  <2>2. PICK w \in {"found", "empty"} : worker' = [worker EXCEPT ![r] = [worker[r] EXCEPT ![f] = w]]
    BY <2>1 DEF FetchEnds
  <2>3. [worker[r] EXCEPT ![f] = w] \in [Fetches -> {"none", "running", "found", "empty"}]
    BY <1>0 DEF TypeOK
  <2>4. worker' \in [Requests -> [Fetches -> {"none", "running", "found", "empty"}]]
    BY <1>0, <2>2, <2>3 DEF TypeOK
  <2> QED BY <1>0, <2>1, <2>4 DEF TypeOK, FetchEnds
<1>3. ASSUME NEW r \in Requests, NEW kind \in {"reformulate", "generate", "repair"},
             NEW p \in Registered, Called(r, kind, p)
      PROVE  calls' \in [Requests -> Seq(Calls)]
  <2>1. [kind |-> kind, provider |-> p] \in Calls
    BY DEF Calls
  <2>2. Append(calls[r], [kind |-> kind, provider |-> p]) \in Seq(Calls)
    BY <1>0, <2>1 DEF TypeOK
  <2> QED BY <1>0, <1>3, <2>2 DEF Called, TypeOK
<1>4. ASSUME NEW r \in Requests, Step(r)
      PROVE  TypeOK'
  <2>1. CASE Reformulate(r)
    <3>1. calls' \in [Requests -> Seq(Calls)]
      BY <1>0, <1>3, <2>1 DEF Reformulate, TypeOK
    <3> QED BY <1>0, <2>1, <3>1 DEF TypeOK, Reformulate
  <2>2. CASE Block(r)
    BY <1>0, <2>2 DEF TypeOK, Block
  <2>3. CASE StartFetches(r)
    <3> DEFINE W == {"none", "running", "found", "empty"}
    <3>1. PICK j \in W : worker' = [worker EXCEPT ![r]["rag"] = "running", ![r]["jira"] = j]
      BY <1>0, <2>3 DEF StartFetches, TypeOK, Fetches
    <3>2. worker' = [worker EXCEPT ![r] = [worker[r] EXCEPT !["rag"] = "running", !["jira"] = j]]
      BY <1>0, <3>1 DEF TypeOK
    <3>3. [worker[r] EXCEPT !["rag"] = "running", !["jira"] = j] \in [Fetches -> W]
      BY <1>0 DEF TypeOK
    <3>4. worker' \in [Requests -> [Fetches -> W]]
      BY <1>0, <3>2, <3>3 DEF TypeOK
    <3> QED BY <1>0, <2>3, <3>4 DEF TypeOK, StartFetches
  <2>4. ASSUME NEW f \in Fetches, Await(r, f) PROVE TypeOK'
    <3>1. story' \in [Requests -> SUBSET Fetches]
      BY <1>0, <2>4 DEF TypeOK, Await
    <3> QED BY <1>0, <2>4, <3>1 DEF TypeOK, Await
  <2>5. CASE Plan(r)
    BY <1>0, <2>5 DEF TypeOK, Plan
  <2>6. CASE NoProvider(r)
    BY <1>0, <2>6 DEF TypeOK, NoProvider
  <2>7. ASSUME NEW t \in Texts, Dispatch(r, t) PROVE TypeOK'
    <3>1. calls' \in [Requests -> Seq(Calls)]
      BY <1>3, <2>7 DEF Dispatch, Asked
    <3> QED BY <1>0, <2>7, <3>1 DEF TypeOK, Dispatch
  <2>8. ASSUME NEW t \in Texts, Repair(r, t) PROVE TypeOK'
    <3>1. calls' \in [Requests -> Seq(Calls)]
      BY <1>3, <2>8 DEF Repair, Asked
    <3>2. PICK res \in Outcomes(r, skill[r], t) : result' = [result EXCEPT ![r] = res]
      BY <2>8 DEF Repair
    <3>3. res \in Results
      BY OutcomesMatch
    <3> QED BY <1>0, <2>8, <3>1, <3>2, <3>3 DEF TypeOK, Repair
  <2>9. CASE CheckOutput(r)
    BY <1>0, <2>9 DEF TypeOK, CheckOutput
  <2>10. CASE Withhold(r)
    BY <1>0, <2>10 DEF TypeOK, Withhold
  <2>11. CASE Validate(r)
    <3>1. /\ pc[r] = "validate"
          /\ UNCHANGED <<flags, request, worker, story, context, calls, text, lasting>>
      BY <2>11 DEF Validate
    <3>2. PICK kind \in Skills : \E res \in Outcomes(r, kind, text[r]) :
             /\ result' = [result EXCEPT ![r] = res]
             /\ first' = [first EXCEPT ![r] = res] \/ first' = first
             /\ skill' = [skill EXCEPT ![r] = kind] \/ skill' = skill
             /\ pc' = [pc EXCEPT ![r] = "repair"] \/ pc' = [pc EXCEPT ![r] = "reply"]
      BY <2>11 DEF Validate
    <3>4. PICK res \in Outcomes(r, kind, text[r]) :
             /\ result' = [result EXCEPT ![r] = res]
             /\ first' = [first EXCEPT ![r] = res] \/ first' = first
             /\ skill' = [skill EXCEPT ![r] = kind] \/ skill' = skill
             /\ pc' = [pc EXCEPT ![r] = "repair"] \/ pc' = [pc EXCEPT ![r] = "reply"]
      BY <3>2
    <3>3. text[r] \in Texts
      BY <1>0, <3>1 DEF IInv, ResultInv, TypeOK
    <3> QED
      <4>1. res \in Results
        BY <3>3, OutcomesMatch
      <4>2. result' \in [Requests -> Results]
        BY <1>0, <3>4, <4>1 DEF TypeOK
      <4>3. first' \in [Requests -> Results \cup {None}]
        <5>1. first' \in {first, [first EXCEPT ![r] = res]}
          BY <3>4
        <5>2. first \in [Requests -> Results \cup {None}]
          BY <1>0 DEF TypeOK
        <5> QED BY <4>1, <5>1, <5>2
      <4>4. skill' \in [Requests -> Skills \cup {None}]
        BY <1>0, <3>4 DEF TypeOK
      <4>5. pc' \in {[pc EXCEPT ![r] = "repair"], [pc EXCEPT ![r] = "reply"]}
        BY <3>4
      <4> QED BY <1>0, <3>1, <4>2, <4>3, <4>4, <4>5 DEF TypeOK
  <2>12. CASE Reply(r)
    <3>1. Status(r) \in Statuses
      BY StatusIsOne
    <3>2. metrics' \in [Statuses -> Nat]
      BY <1>0, <2>12, <3>1 DEF TypeOK, Reply
    <3> QED BY <1>0, <2>12, <3>1, <3>2 DEF TypeOK, Reply
  <2>13. CASE Raise(r)
    BY <1>0, <2>13 DEF TypeOK, Raise
  <2>14. CASE Audit(r) \/ AuditFails(r)
    <3>1. outcome[r] \in Statuses
      BY <2>14 DEF IInv, AnswerInv, Audit, AuditFails
    <3> QED BY <1>0, <2>14, <3>1 DEF TypeOK, Audit, AuditFails, EventStatus
  <2>15. CASE SaveSnapshot(r)
    BY <1>0, <2>15 DEF TypeOK, SaveSnapshot
  <2> QED BY <1>4, <2>1, <2>2, <2>3, <2>4, <2>5, <2>6, <2>7, <2>8, <2>9, <2>10, <2>11, <2>12,
             <2>13, <2>14, <2>15 DEF Step
<1>5. CASE Restart
  BY <1>0, <1>5 DEF TypeOK, Restart, Statuses
<1>6. CASE UNCHANGED vars
  BY <1>0, <1>6 DEF TypeOK, vars
<1> QED BY <1>1, <1>2, <1>4, <1>5, <1>6 DEF Next

-----------------------------------------------------------------------------
LEMMA PlanNext ==
    ASSUME IInv, [Next]_vars, NEW r \in Requests
    PROVE  PlanInv(r)'
<1>1. PlanInv(r) /\ TypeOK
  BY DEF IInv
<1>2. CASE Same(r)
  BY <1>1, <1>2 DEF PlanInv, Same
<1>3. CASE Gathering(r)
  BY <1>1, <1>3 DEF PlanInv, Gathering, OfPlan, Early, Joined
<1>4. CASE Generating(r)
  BY <1>1, <1>4 DEF PlanInv, Generating, Early
<1>5. CASE Answering(r)
  BY <1>1, <1>5 DEF PlanInv, Answering, OfPlan, Early
<1>6. CASE Killed(r)
  BY <1>1, <1>6 DEF PlanInv, Killed, Early
<1> QED BY <1>1, <1>2, <1>3, <1>4, <1>5, <1>6, NextEffect

LEMMA VerdictNext ==
    ASSUME IInv, [Next]_vars, NEW r \in Requests
    PROVE  VerdictInv(r)'
<1>1. VerdictInv(r) /\ ResultInv(r) /\ TypeOK
  BY DEF IInv
<1>2. CASE Same(r) \/ Gathering(r) \/ Answering(r) \/ Killed(r)
  BY <1>1, <1>2 DEF VerdictInv, Same, Gathering, Answering, Killed, OfText
<1>3. CASE Generating(r)
  <2>1. text[r] \in Texts \/ text[r] = None
    BY <1>1 DEF TypeOK
  <2>2. \A kind, t : t \in Texts => \A res \in Outcomes(r, kind, t) : Earned(res)
    BY OutcomesMatch
  <2>3. pc[r] = "validate" => text[r] \in Texts
    BY <1>1, <2>1 DEF ResultInv
  <2> QED BY <1>1, <1>3, <2>2, <2>3 DEF VerdictInv, Generating, OfText
<1> QED BY <1>1, <1>2, <1>3, NextEffect

LEMMA AnswerNext ==
    ASSUME IInv, [Next]_vars, NEW r \in Requests
    PROVE  AnswerInv(r)'
<1>1. AnswerInv(r) /\ TypeOK /\ Status(r) \in Statuses
  BY StatusIsOne DEF IInv
<1>2. CASE Same(r)
  BY <1>1, <1>2 DEF AnswerInv, Same
<1>3. CASE Gathering(r)
  BY <1>1, <1>3 DEF AnswerInv, Gathering, OfAnswer, Answered
<1>4. CASE Generating(r)
  BY <1>1, <1>4 DEF AnswerInv, Generating, OfAnswer, Answered
<1>5. CASE Answering(r)
  BY <1>1, <1>5, NoneIsApart DEF AnswerInv, Answering, OfAnswer, Answered
<1>6. CASE Killed(r)
  BY <1>1, <1>6, NoneIsApart DEF AnswerInv, Killed, Answered
<1> QED BY <1>1, <1>2, <1>3, <1>4, <1>5, <1>6, NextEffect

LEMMA ResultNext ==
    ASSUME IInv, [Next]_vars, NEW r \in Requests
    PROVE  ResultInv(r)'
<1>1. ResultInv(r) /\ AnswerInv(r) /\ TypeOK /\ UNCHANGED flags
  BY NextEffect DEF IInv
<1>2. CASE Same(r)
  BY <1>1, <1>2 DEF ResultInv, Same, Status
<1>3. CASE Gathering(r)
  <2>1. UNCHANGED <<text[r], result[r], first[r], outcome[r]>>
    BY <1>3 DEF Gathering, OfText, OfAnswer
  <2>2. \/ UNCHANGED <<pc[r], request[r]>>
        \/ pc[r] \in Early /\ pc'[r] \in Early \cup {"dispatch", "reply"}
    BY <1>3 DEF Gathering, Early
  <2>3. CASE UNCHANGED <<pc[r], request[r]>>
    BY <1>1, <2>1, <2>3 DEF ResultInv, Status
  <2>4. CASE pc[r] \in Early /\ pc'[r] \in Early \cup {"dispatch", "reply"}
    <3>1. result[r] = Refused /\ first[r] = None /\ outcome[r] # "completed"
      BY <1>1, <2>4 DEF ResultInv, Unjudged, Early, Answered
    <3> QED BY <2>1, <2>4, <3>1 DEF ResultInv, Early
  <2> QED BY <2>2, <2>3, <2>4
<1>4. CASE Generating(r)
  <2>1. /\ UNCHANGED <<request[r], outcome[r]>>
        /\ pc[r] \in {"dispatch", "output", "validate", "repair"}
        /\ outcome[r] # "completed"
    BY <1>1, <1>4 DEF Generating, OfAnswer, ResultInv, Answered
  <2>2. CASE pc[r] \in {"dispatch", "output"} /\ pc'[r] = "reply" /\ UNCHANGED OfText(r)
    BY <1>1, <2>1, <2>2 DEF ResultInv, Unjudged, OfText, Early
  <2>3. CASE /\ pc[r] = "dispatch" /\ pc'[r] = "output"
             /\ text'[r] \in Texts /\ UNCHANGED <<result[r], first[r]>>
    BY <1>1, <2>1, <2>3, NoneIsApart DEF ResultInv, Unjudged
  <2>4. CASE pc[r] = "output" /\ LetsThrough(r) /\ pc'[r] = "validate" /\ UNCHANGED OfText(r)
    BY <1>1, <2>1, <2>4 DEF ResultInv, Unjudged, OfText, LetsThrough
  <2>5. CASE /\ pc[r] = "validate" /\ UNCHANGED text[r]
             /\ \E kind \in Skills : result'[r] \in Outcomes(r, kind, text[r])
             /\ \/ first'[r] = result'[r] /\ pc'[r] = "repair"
                \/ UNCHANGED first[r] /\ pc'[r] = "reply"
    <3>1. text[r] \in Texts /\ (flags.output => Safe(text[r]))
      BY <1>1, <2>5 DEF ResultInv, TypeOK, Unjudged
    <3>2. result'[r] \in Results /\ Matches(request[r], result'[r], text[r])
      BY <2>5, <3>1, OutcomesMatch
    <3>3. result'[r] # None
      BY <3>2, NoneIsApart
    <3> QED BY <1>1, <2>1, <2>5, <3>1, <3>2, <3>3, NoneIsApart DEF ResultInv, Unjudged, Early
  <2>6. CASE /\ pc[r] = "repair" /\ pc'[r] = "reply"
             /\ text'[r] \in Texts /\ result'[r] \in Outcomes(r, skill[r], text'[r])
             /\ UNCHANGED first[r]
    <3>1. Matches(request[r], result'[r], text'[r])
      BY <2>6, OutcomesMatch
    <3> QED BY <1>1, <2>1, <2>6, <3>1 DEF ResultInv, Unjudged, Early
  <2> QED BY <1>4, <2>2, <2>3, <2>4, <2>5, <2>6 DEF Generating
<1>5. CASE Answering(r)
  <2>1. UNCHANGED <<request[r], text[r], result[r], first[r]>> /\ Status(r)' = Status(r)
    BY <1>5 DEF Answering, OfText, Status
  <2>2. /\ pc'[r] \in Answered
        /\ outcome'[r] \in {outcome[r], Status(r), "error"}
    BY <1>5 DEF Answering, OfAnswer, Answered
  <2> QED BY <1>1, <2>1, <2>2 DEF ResultInv, Answered, Unjudged, Early
<1>6. CASE Killed(r)
  <2>1. UNCHANGED <<request[r], text[r], result[r], first[r]>> /\ Status(r)' = Status(r)
    BY <1>6 DEF Killed, OfText, Status
  <2>2. /\ pc'[r] = pc[r] \/ pc'[r] = "end"
        /\ outcome'[r] \in {outcome[r], "error"}
    BY <1>6 DEF Killed
  <2> QED BY <1>1, <2>1, <2>2 DEF ResultInv, Answered, Unjudged, Early
<1> QED BY <1>2, <1>3, <1>4, <1>5, <1>6, NextEffect DEF IInv

\* The calls of a request are not taken back.
LEMMA CallsGrow ==
    ASSUME TypeOK, NEW r \in Requests, NEW kind, NEW p,
           calls'[r] = Append(calls[r], [kind |-> kind, provider |-> p])
    PROVE  /\ Len(calls[r]) \in Nat
           /\ Len(calls'[r]) = Len(calls[r]) + 1
           /\ \A i \in 1 .. Len(calls[r]) : calls'[r][i] = calls[r][i]
           /\ calls'[r][Len(calls[r]) + 1] = [kind |-> kind, provider |-> p]
<1>1. calls[r] \in Seq(Calls)
  BY DEF TypeOK
<1> QED BY <1>1

LEMMA BlockedNext ==
    ASSUME IInv, [Next]_vars, NEW r \in Requests
    PROVE  BlockedInv(r)'
<1>1. BlockedInv(r) /\ TypeOK /\ UNCHANGED flags
  BY NextEffect DEF IInv
<1>2. CASE Same(r)
  BY <1>1, <1>2 DEF BlockedInv, Same, Admitted, OnlyReformulated
<1>3. CASE Gathering(r)
  <2>1. CASE /\ pc[r] = "idle" /\ pc'[r] \in {"reformulate", "input"}
             /\ UNCHANGED <<OfPlan(r), calls[r]>>
             /\ pc'[r] = "reformulate" => request'[r].testgen
    <3>1. calls'[r] = <<>> /\ UNCHANGED worker[r]
      BY <1>1, <2>1 DEF BlockedInv, OfPlan
    <3>2. OnlyReformulated(r)'
      BY <3>1 DEF OnlyReformulated
    <3>3. \A f \in Fetches : worker'[r][f] = "none"
      BY <1>1, <2>1, <3>1 DEF BlockedInv
    <3> QED BY <2>1, <3>1, <3>2, <3>3 DEF BlockedInv
  <2>2. CASE /\ pc[r] = "reformulate" /\ pc'[r] = "input" /\ UNCHANGED <<request[r], OfPlan(r)>>
             /\ \E p \in Registered : p = flags.llm /\
                   calls'[r] = Append(calls[r], [kind |-> "reformulate", provider |-> p])
    <3>1. calls'[r] = Append(calls[r], [kind |-> "reformulate", provider |-> flags.llm])
      BY <2>2
    <3>2. calls[r] = <<>> /\ request[r].testgen
      BY <1>1, <2>2 DEF BlockedInv
    <3>3. calls'[r] = <<[kind |-> "reformulate", provider |-> flags.llm]>>
      BY <3>1, <3>2
    <3>4. OnlyReformulated(r)'
      BY <1>1, <2>2, <3>2, <3>3 DEF OnlyReformulated
    <3> QED BY <1>1, <2>2, <3>4 DEF BlockedInv, OfPlan, Admitted
  <2>3. CASE UNCHANGED <<request[r], calls[r]>> /\ pc[r] # "idle"
    <3>1. Admitted(r)' = Admitted(r)
      BY <1>1, <2>3 DEF Admitted
    <3>2. /\ pc'[r] # "idle" /\ (pc'[r] = "reformulate" => pc[r] = "reformulate")
          /\ pc'[r] \in {pc[r], "input", "reply", "jira", "rag", "join", "dispatch"}
      BY <1>3, <2>3 DEF Gathering
    <3>3. ASSUME ~ Admitted(r), request[r] # None
          PROVE  UNCHANGED worker[r] /\ pc'[r] \in {"input", "reply"}
      <4>1. \A f \in Fetches : worker[r][f] # "running"
        BY <1>1, <3>3 DEF BlockedInv
      <4>2. pc[r] \notin {"jira", "rag", "join"}
        BY <1>1, <3>3 DEF BlockedInv, Answered
      <4> QED BY <1>3, <2>3, <3>3, <4>1, <4>2 DEF Gathering, OfPlan
    <3>4. OnlyReformulated(r)' = OnlyReformulated(r)
      BY <1>1, <2>3 DEF OnlyReformulated
    <3> QED BY <1>1, <2>3, <3>1, <3>2, <3>3, <3>4 DEF BlockedInv
  <2>4. CASE UNCHANGED <<request[r], calls[r], pc[r]>> /\ \E f \in Fetches : worker[r][f] = "running"
    <3>1. Admitted(r)' = Admitted(r)
      BY <1>1, <2>4 DEF Admitted
    <3> QED BY <1>1, <2>4, <3>1 DEF BlockedInv, OnlyReformulated
  <2> QED BY <1>3, <2>1, <2>2, <2>3, <2>4 DEF Gathering
<1>4. CASE Generating(r)
  <2>1. /\ pc[r] \in {"dispatch", "output", "validate", "repair"}
        /\ pc'[r] \in {"output", "validate", "repair", "reply"}
        /\ UNCHANGED request[r]
    BY <1>4 DEF Generating
  <2>2. Admitted(r)' = Admitted(r)
    BY <1>1, <2>1 DEF Admitted
  <2> QED BY <1>1, <2>1, <2>2 DEF BlockedInv, Answered, OnlyReformulated
<1>5. CASE Answering(r)
  <2>1. /\ UNCHANGED <<request[r], worker[r], calls[r]>> /\ pc'[r] \in Answered
    BY <1>5 DEF Answering, OfPlan, Answered
  <2>2. Admitted(r)' = Admitted(r)
    BY <1>1, <2>1 DEF Admitted
  <2> QED BY <1>1, <2>1, <2>2 DEF BlockedInv, Answered, OnlyReformulated
<1>6. CASE Killed(r)
  <2>1. /\ UNCHANGED <<request[r], calls[r]>>
        /\ pc'[r] = IF pc[r] = "idle" THEN "idle" ELSE "end"
        /\ \A f \in Fetches : worker'[r][f] = "none"
    BY <1>6 DEF Killed
  <2>2. Admitted(r)' = Admitted(r)
    BY <1>1, <2>1 DEF Admitted
  <2> QED BY <1>1, <2>1, <2>2 DEF BlockedInv, Answered, OnlyReformulated
<1> QED BY <1>2, <1>3, <1>4, <1>5, <1>6, NextEffect DEF IInv

\* One more call of the kind that is due.
LEMMA CallsAppended ==
    ASSUME TypeOK, NEW r \in Requests, NEW n \in {0, 1}, NEW p, NEW kind,
           calls'[r] = Append(calls[r], [kind |-> kind, provider |-> p]),
           kind = KindAt(Len(calls[r]) + 1, n),
           Len(calls[r]) + 1 > n => p \in Asked(r),
           \A i \in 1 .. Len(calls[r]) :
               calls[r][i].kind = KindAt(i, n) /\ (i > n => calls[r][i].provider \in Asked(r)),
           UNCHANGED request[r]
    PROVE  /\ Len(calls'[r]) = Len(calls[r]) + 1
           /\ \A i \in 1 .. Len(calls'[r]) :
                 calls'[r][i].kind = KindAt(i, n) /\ (i > n => calls'[r][i].provider \in Asked(r)')
<1>1. /\ Len(calls[r]) \in Nat
      /\ Len(calls'[r]) = Len(calls[r]) + 1
      /\ \A i \in 1 .. Len(calls[r]) : calls'[r][i] = calls[r][i]
      /\ calls'[r][Len(calls[r]) + 1] = [kind |-> kind, provider |-> p]
  BY CallsGrow
<1>2. Asked(r)' = Asked(r)
  BY DEF Asked, Chain
<1>3. ASSUME NEW i \in 1 .. Len(calls'[r])
      PROVE  calls'[r][i].kind = KindAt(i, n) /\ (i > n => calls'[r][i].provider \in Asked(r)')
  <2>1. i \in 1 .. Len(calls[r]) \/ i = Len(calls[r]) + 1
    BY <1>1, <1>3
  <2>2. CASE i \in 1 .. Len(calls[r])
    BY <1>1, <1>2, <2>2
  <2>3. CASE i = Len(calls[r]) + 1
    BY <1>1, <1>2, <2>3
  <2> QED BY <2>1, <2>2, <2>3
<1> QED BY <1>1, <1>3

LEMMA CallsNext ==
    ASSUME IInv, [Next]_vars, NEW r \in Requests
    PROVE  CallsInv(r)'
<1>1. CallsInv(r) /\ BlockedInv(r) /\ ResultInv(r) /\ TypeOK
  BY DEF IInv
<1>2. PICK n \in {0, 1} : CallsAre(r, n)
  BY <1>1 DEF CallsInv
<1>3. Len(calls[r]) \in Nat
  BY <1>1 DEF TypeOK
<1>4. ASSUME UNCHANGED <<request[r], calls[r], first[r]>>,
             pc'[r] \in {pc[r], "reply"} \cup Answered
                \/ (pc[r] # "idle" /\ pc'[r] \in {"jira", "rag", "join", "dispatch"}
                      /\ pc[r] \in {"input", "jira", "rag", "join"})
                \/ (pc[r] = "output" /\ pc'[r] = "validate"),
             pc'[r] # "repair" \/ pc[r] = "repair"
      PROVE  CallsInv(r)'
  <2>1. Asked(r)' = Asked(r) /\ MayRepair(r)' = MayRepair(r)
    BY <1>4 DEF Asked, Chain, MayRepair
  <2>2. CallsAre(r, n)'
    BY <1>2, <1>3, <1>4, <2>1 DEF CallsAre, Answered
  <2>3. pc'[r] = "repair" => MayRepair(r)'
    BY <1>1, <1>4, <2>1 DEF CallsInv
  <2> QED BY <2>2, <2>3 DEF CallsInv
<1>5. CASE Same(r)
  BY <1>4, <1>5 DEF Same
<1>6. CASE Gathering(r)
  <2>1. CASE pc[r] \in {"idle", "reformulate"} /\ pc'[r] \in {"reformulate", "input"} /\ UNCHANGED calls[r]
    <3>1. Len(calls'[r]) = 0
      BY <1>2, <2>1 DEF CallsAre
    <3>2. CallsAre(r, 0)'
      BY <2>1, <3>1 DEF CallsAre
    <3> QED BY <2>1, <3>2 DEF CallsInv
  <2>2. CASE /\ pc[r] = "reformulate" /\ pc'[r] = "input" /\ UNCHANGED request[r]
             /\ \E p \in Registered :
                   calls'[r] = Append(calls[r], [kind |-> "reformulate", provider |-> p])
    <3>1. PICK p \in Registered : calls'[r] = Append(calls[r], [kind |-> "reformulate", provider |-> p])
      BY <2>2
    <3>2. Len(calls[r]) = 0
      BY <1>2, <2>2 DEF CallsAre
    <3>3. "reformulate" = KindAt(Len(calls[r]) + 1, 1)
      BY <3>2 DEF KindAt
    <3>4. /\ Len(calls'[r]) = 1
          /\ \A i \in 1 .. Len(calls'[r]) :
                calls'[r][i].kind = KindAt(i, 1) /\ (i > 1 => calls'[r][i].provider \in Asked(r)')
      BY <1>1, <2>2, <3>1, <3>2, <3>3, CallsAppended
    <3>5. CallsAre(r, 1)'
      BY <2>2, <3>4 DEF CallsAre
    <3> QED BY <2>2, <3>5 DEF CallsInv
  <2>3. CASE pc[r] \notin {"idle", "reformulate"} \/ UNCHANGED <<request[r], pc[r], calls[r]>>
    BY <1>4, <1>6, <2>3 DEF Gathering, OfText
  <2> QED BY <1>6, <2>1, <2>2, <2>3 DEF Gathering
<1>7. CASE Generating(r)
  <2>0. UNCHANGED request[r]
    BY <1>7 DEF Generating
  <2>1. CASE /\ UNCHANGED <<calls[r], first[r]>>
             /\ \/ pc'[r] = "reply"
                \/ pc[r] = "output" /\ pc'[r] = "validate"
    BY <1>4, <2>0, <2>1
  <2>2. CASE /\ pc[r] = "dispatch" /\ pc'[r] = "output"
             /\ \E p \in Asked(r) :
                   calls'[r] = Append(calls[r], [kind |-> "generate", provider |-> p])
    <3>1. PICK p \in Asked(r) : calls'[r] = Append(calls[r], [kind |-> "generate", provider |-> p])
      BY <2>2
    <3>2. Len(calls[r]) = n
      BY <1>2, <2>2 DEF CallsAre
    <3>3. "generate" = KindAt(Len(calls[r]) + 1, n)
      BY <3>2 DEF KindAt
    <3>4. /\ Len(calls'[r]) = n + 1
          /\ \A i \in 1 .. Len(calls'[r]) :
                calls'[r][i].kind = KindAt(i, n) /\ (i > n => calls'[r][i].provider \in Asked(r)')
      BY <1>1, <1>2, <2>0, <3>1, <3>2, <3>3, CallsAppended DEF CallsAre
    <3>5. CallsAre(r, n)'
      BY <2>2, <3>4 DEF CallsAre
    <3> QED BY <2>2, <3>5 DEF CallsInv
  <2>3. CASE /\ pc[r] = "validate" /\ UNCHANGED calls[r]
             /\ \/ /\ WantsRepair(r, result'[r]) /\ first'[r] = result'[r] /\ pc'[r] = "repair"
                \/ UNCHANGED first[r] /\ pc'[r] = "reply"
    <3>1. Len(calls[r]) = n + 1 /\ Asked(r)' = Asked(r)
      BY <1>2, <2>0, <2>3 DEF CallsAre, Asked, Chain
    <3>2. CallsAre(r, n)'
      BY <1>2, <2>3, <3>1 DEF CallsAre
    <3>3. pc'[r] = "repair" => MayRepair(r)'
      BY <2>0, <2>3 DEF MayRepair, WantsRepair
    <3> QED BY <3>2, <3>3 DEF CallsInv
  <2>4. CASE /\ pc[r] = "repair" /\ pc'[r] = "reply" /\ UNCHANGED first[r]
             /\ \E p \in Asked(r) :
                   calls'[r] = Append(calls[r], [kind |-> "repair", provider |-> p])
    <3>1. PICK p \in Asked(r) : calls'[r] = Append(calls[r], [kind |-> "repair", provider |-> p])
      BY <2>4
    <3>2. Len(calls[r]) = n + 1
      BY <1>2, <2>4 DEF CallsAre
    <3>3. "repair" = KindAt(Len(calls[r]) + 1, n)
      BY <3>2 DEF KindAt
    <3>4. /\ Len(calls'[r]) = n + 2
          /\ \A i \in 1 .. Len(calls'[r]) :
                calls'[r][i].kind = KindAt(i, n) /\ (i > n => calls'[r][i].provider \in Asked(r)')
      <4>1. \A i \in 1 .. Len(calls[r]) :
               calls[r][i].kind = KindAt(i, n) /\ (i > n => calls[r][i].provider \in Asked(r))
        BY <1>2 DEF CallsAre
      <4>2. /\ Len(calls'[r]) = Len(calls[r]) + 1
            /\ \A i \in 1 .. Len(calls'[r]) :
                  calls'[r][i].kind = KindAt(i, n) /\ (i > n => calls'[r][i].provider \in Asked(r)')
        BY <1>1, <2>0, <3>1, <3>3, <4>1, CallsAppended
      <4> QED BY <3>2, <4>2
    <3>5. MayRepair(r)'
      BY <1>1, <2>0, <2>4 DEF CallsInv, MayRepair
    <3>6. CallsAre(r, n)'
      BY <2>4, <3>4, <3>5 DEF CallsAre
    <3> QED BY <2>4, <3>6 DEF CallsInv
  <2> QED BY <1>7, <2>1, <2>2, <2>3, <2>4 DEF Generating, OfText
<1>8. CASE Answering(r)
  BY <1>4, <1>8 DEF Answering, OfText, Answered
<1>9. CASE Killed(r)
  BY <1>4, <1>9 DEF Killed, OfText, Answered
<1> QED BY <1>5, <1>6, <1>7, <1>8, <1>9, NextEffect DEF IInv

-----------------------------------------------------------------------------
LEMMA InvInit == Init => IInv
<1> SUFFICES ASSUME Init PROVE IInv
  OBVIOUS
<1>1. TypeOK
  BY TypeInit
<1>2. ASSUME NEW r \in Requests
      PROVE  PlanInv(r) /\ ResultInv(r) /\ VerdictInv(r) /\ BlockedInv(r) /\ AnswerInv(r)
  <2>1. PlanInv(r) /\ AnswerInv(r)
    BY DEF Init, PlanInv, AnswerInv, Answered
  <2>2. ResultInv(r)
    <3>1. /\ pc[r] = "idle" /\ result[r] = Refused /\ first[r] = None /\ outcome[r] = None
      BY DEF Init
    <3>2. outcome[r] # "completed"
      BY <3>1, NoneIsApart DEF Statuses
    <3> HIDE DEF Init
    <3> QED BY <3>1, <3>2 DEF ResultInv
  <2>3. VerdictInv(r)
    BY DEF Init, VerdictInv, Earned, Refused
  <2>4. BlockedInv(r)
    BY DEF Init, BlockedInv
  <2> QED BY <2>1, <2>2, <2>3, <2>4
<1>3. ASSUME NEW r \in Requests
      PROVE  CallsInv(r)
  <2>1. Len(calls[r]) = 0 /\ pc[r] = "idle"
    BY DEF Init
  <2>2. CallsAre(r, 0)
    BY <2>1 DEF CallsAre
  <2> QED BY <2>1, <2>2 DEF CallsInv
<1> QED BY <1>1, <1>2, <1>3 DEF IInv

LEMMA InvNext == IInv /\ [Next]_vars => IInv'
<1> SUFFICES ASSUME IInv, [Next]_vars PROVE IInv'
  OBVIOUS
<1>1. TypeOK'
  BY TypeNext
<1>2. ASSUME NEW r \in Requests
      PROVE  (PlanInv(r) /\ ResultInv(r) /\ VerdictInv(r) /\ CallsInv(r) /\ BlockedInv(r)
                /\ AnswerInv(r))'
  BY PlanNext, ResultNext, VerdictNext, CallsNext, BlockedNext, AnswerNext
<1> QED BY <1>1, <1>2 DEF IInv

THEOREM Invariance == Spec => []IInv
BY InvInit, InvNext, PTL DEF Spec

\* TypeOK: the variables keep their types, for any number of requests and settings.
THEOREM TypeCorrect == Spec => []TypeOK
<1>1. IInv => TypeOK
  BY DEF IInv
<1> QED BY Invariance, <1>1, PTL

\* PlanIsSettled: a plan holds nothing but what answered in time, and no thread of a
\* fetch outlives it.
THEOREM PlansAreSettled == Spec => []PlanIsSettled
<1>1. IInv => PlanIsSettled
  BY DEF IInv, PlanInv, PlanIsSettled
<1> QED BY Invariance, <1>1, PTL

\* CompletedIsBacked: what is answered as completed was made from the last text of a
\* provider, and that text had what was asked for.
THEOREM CompletionsAreBacked == Spec => []CompletedIsBacked
<1>1. IInv => CompletedIsBacked
  <2> SUFFICES ASSUME IInv, NEW r \in Requests, outcome[r] = "completed"
               PROVE  /\ text[r] # None
                      /\ IF request[r].testgen THEN HasPack(text[r])
                         ELSE \/ HasArtifacts(text[r])
                              \/ text[r] = "nothing" /\ ~ request[r].validate
    BY DEF CompletedIsBacked
  <2>1. Status(r) = "completed"
    BY DEF IInv, ResultInv
  <2>2. result[r].artifacts \/ (~ result[r].errors /\ result[r].verdict # "failed")
    BY <2>1 DEF Status
  <2>3. result[r] # Refused
    BY <2>2 DEF Refused
  <2>4. Matches(request[r], result[r], text[r])
    BY <2>3 DEF IInv, ResultInv
  <2>5. text[r] \in {"nothing", "artifacts", "unsafe"} => HasArtifacts(text[r]) \/ text[r] = "nothing"
    BY DEF HasArtifacts
  <2> QED BY <2>2, <2>4, <2>5 DEF Matches
<1> QED BY Invariance, <1>1, PTL

\* AnswersAreGuarded: with the output guardrail, a text that it rejects is the answer
\* only if it came with a repair.
THEOREM AnswersStayGuarded == Spec => []AnswersAreGuarded
<1>1. IInv => AnswersAreGuarded
  <2> SUFFICES ASSUME IInv, NEW r \in Requests, flags.output, outcome[r] = "completed",
                      first[r] = None
               PROVE  Safe(text[r])
    BY DEF AnswersAreGuarded
  <2>1. Status(r) = "completed"
    BY DEF IInv, ResultInv
  <2>2. result[r] # Refused
    BY <2>1 DEF Status, Refused
  <2> QED BY <2>2 DEF IInv, ResultInv
<1> QED BY Invariance, <1>1, PTL

\* VerdictIsEarned: nothing that a validator did not see passes, and no outage fails a
\* validation, of the generation or of its repair.
THEOREM VerdictsAreEarned == Spec => []VerdictIsEarned
<1>1. IInv => VerdictIsEarned
  BY DEF IInv, VerdictInv, Earned, VerdictIsEarned
<1> QED BY Invariance, <1>1, PTL

\* CallsAreAccounted: a request that the input guardrail rejects reaches no fetch, and no
\* provider but for the reformulation of one for test cases; another one makes at most one generation
\* and one repair after it, both with the first registered provider of its chain.
THEOREM EveryCallIsAccounted == Spec => []CallsAreAccounted
<1>1. IInv => CallsAreAccounted
  <2> SUFFICES ASSUME IInv, NEW r \in Requests
               PROVE  LET made(kind) == {i \in DOMAIN calls[r] : calls[r][i].kind = kind} IN
                      /\ request[r] # None /\ flags.input /\ ~ request[r].clean =>
                             /\ calls[r] # <<>> =>
                                    /\ request[r].testgen
                                    /\ calls[r] = <<[kind |-> "reformulate",
                                                     provider |-> flags.llm]>>
                             /\ \A f \in Fetches : worker[r][f] = "none"
                      /\ \A i, j \in made("generate") : i = j
                      /\ \A i, j \in made("repair") : i = j
                      /\ \A i \in made("repair") :
                             /\ made("generate") = {i - 1}
                             /\ request[r].repair /\ ~ request[r].testgen
                             /\ first[r].verdict = "failed"
                      /\ \A i \in made("generate") \cup made("repair") :
                             \E k \in DOMAIN Chain(r) :
                                 /\ calls[r][i].provider = Chain(r)[k]
                                 /\ \A l \in 1 .. k - 1 : Chain(r)[l] \notin Registered
    BY DEF CallsAreAccounted
  <2> DEFINE made(kind) == {i \in DOMAIN calls[r] : calls[r][i].kind = kind}
             L == Len(calls[r])
  <2>1. PICK n \in {0, 1} : CallsAre(r, n)
    BY DEF IInv, CallsInv
  <2>2. L \in Nat /\ DOMAIN calls[r] = 1 .. L
    BY DEF IInv, TypeOK
  <2>3. /\ \A i \in 1 .. L : calls[r][i].kind = KindAt(i, n)
        /\ L <= n + 2
    BY <2>1 DEF CallsAre
  <2>4. \A i \in made("generate") : i \in 1 .. L /\ i = n + 1
    BY <2>2, <2>3 DEF KindAt
  <2>5. \A i \in made("repair") : i \in 1 .. L /\ i = n + 2
    BY <2>2, <2>3 DEF KindAt
  <2>6. request[r] # None /\ flags.input /\ ~ request[r].clean =>
            /\ calls[r] # <<>> =>
                   /\ request[r].testgen
                   /\ calls[r] = <<[kind |-> "reformulate", provider |-> flags.llm]>>
            /\ \A f \in Fetches : worker[r][f] = "none"
    BY DEF IInv, BlockedInv, Admitted, OnlyReformulated
  <2>7. ASSUME NEW i \in made("repair")
        PROVE  /\ made("generate") = {i - 1}
               /\ request[r].repair /\ ~ request[r].testgen /\ first[r].verdict = "failed"
    <3>1. i = n + 2 /\ L = n + 2
      BY <2>2, <2>3, <2>5
    <3>2. n + 1 \in made("generate")
      BY <2>2, <2>3, <3>1 DEF KindAt
    <3>3. made("generate") = {i - 1}
      BY <2>4, <3>1, <3>2
    <3>4. MayRepair(r)
      BY <2>1, <3>1 DEF CallsAre
    <3> QED BY <3>3, <3>4 DEF MayRepair
  <2>8. ASSUME NEW i \in made("generate") \cup made("repair")
        PROVE  \E k \in DOMAIN Chain(r) :
                  /\ calls[r][i].provider = Chain(r)[k]
                  /\ \A l \in 1 .. k - 1 : Chain(r)[l] \notin Registered
    <3>1. i \in 1 .. L /\ i > n
      BY <2>4, <2>5
    <3>2. calls[r][i].provider \in Asked(r)
      BY <2>1, <3>1 DEF CallsAre
    <3> QED BY <3>2 DEF Asked
  <2> HIDE DEF L
  <2> QED BY <2>4, <2>5, <2>6, <2>7, <2>8
<1> QED BY Invariance, <1>1, PTL

-----------------------------------------------------------------------------
(* What a client and an auditor rely on.                                   *)

LEMMA ContractInit == Init => Contract!Init
BY DEF Init, Contract!Init

LEMMA ContractStep ==
    IInv /\ [Next]_vars => [Contract!Next]_(Contract!vars)
<1> SUFFICES ASSUME IInv, [Next]_vars
             PROVE  Contract!Next \/ UNCHANGED <<outcome, event, kept>>
  BY DEF Contract!vars
<1> USE DEF Contract!Next, Contract!Answer, Contract!Record, Contract!Keep, Contract!Statuses
<1>0. TypeOK /\ \A r \in Requests : AnswerInv(r) /\ Status(r) \in Statuses
  BY StatusIsOne DEF IInv
<1>1. ASSUME NEW r \in Requests, Reply(r)
      PROVE  Contract!Next
  BY <1>0, <1>1 DEF Reply, AnswerInv, Answered, Statuses
<1>2. ASSUME NEW r \in Requests, Raise(r)
      PROVE  Contract!Next
  <2>1. /\ outcome' = [outcome EXCEPT ![r] = "error"] /\ outcome[r] = None
        /\ UNCHANGED <<event, kept>>
    BY <1>0, <1>2 DEF Raise, AnswerInv, Answered
  <2>2. outcome' = [q \in Requests |-> IF q \in {r} THEN "error" ELSE outcome[q]]
    BY <1>0, <2>1 DEF TypeOK
  <2>3. Contract!GiveUp({r})
    BY <2>1, <2>2 DEF Contract!GiveUp
  <2> QED BY <2>3
<1>3. ASSUME NEW r \in Requests, Audit(r) \/ AuditFails(r)
      PROVE  Contract!Next \/ UNCHANGED <<outcome, event, kept>>
  <2>1. /\ event[r] = None /\ outcome[r] \in Statuses
        /\ event' \in {event, [event EXCEPT ![r] = outcome[r]]}
        /\ UNCHANGED <<outcome, kept>>
    BY <1>0, <1>3 DEF Audit, AuditFails, EventStatus, AnswerInv
  <2> QED BY <2>1 DEF Statuses
<1>4. ASSUME NEW r \in Requests, SaveSnapshot(r)
      PROVE  Contract!Next \/ UNCHANGED <<outcome, event, kept>>
  <2>1. /\ event[r] # None
        /\ kept' \in {kept, kept \cup {r}}
        /\ UNCHANGED <<outcome, event>>
    BY <1>0, <1>4, NoneIsApart DEF SaveSnapshot, AnswerInv
  <2> QED BY <2>1
<1>5. CASE Restart
  <2> DEFINE R == {r \in Requests : pc[r] # "idle" /\ outcome[r] = None}
  <2>1. /\ outcome' = [r \in Requests |-> IF r \in R THEN "error" ELSE outcome[r]]
        /\ UNCHANGED <<event, kept>>
    BY <1>5 DEF Restart
  <2>2. Contract!GiveUp(R)
    BY <2>1 DEF Contract!GiveUp
  <2> QED BY <2>2
<1>6. ASSUME NEW r \in Requests,
             FetchStep(r) \/ (\E input \in Inputs : Receive(r, input))
               \/ (Step(r) /\ ~ (Reply(r) \/ Raise(r) \/ Audit(r) \/ AuditFails(r)
                                    \/ SaveSnapshot(r)))
      PROVE  UNCHANGED <<outcome, event, kept>>
  BY <1>6 DEF Step, FetchStep, FetchEnds, Receive, Reformulate, Block, StartFetches, Await, Plan,
              NoProvider, Dispatch, Repair, CheckOutput, Withhold, Validate, lasting, handling
<1>7. CASE UNCHANGED vars
  BY <1>7 DEF vars, lasting
<1> QED BY <1>1, <1>2, <1>3, <1>4, <1>5, <1>6, <1>7 DEF Next

\* KeepsContract: whichever task raises and whenever the process dies, a request is
\* answered once or given up, its event tells the status that was answered, and its
\* context is kept only after its event.
THEOREM KeepsTheContract == Spec => KeepsContract
BY Invariance, ContractInit, ContractStep, PTL DEF Spec, KeepsContract, Contract!Spec

=============================================================================

-------------------------- MODULE SkillGovernance --------------------------
(***************************************************************************)
(* Governance of skills: promote and deprecate requests, the records they  *)
(* leave in Postgres, and the two selections a generation makes.           *)
(*                                                                         *)
(* The registry holds the skills of the JSON files, in file order, and     *)
(* overrides of their status.  A request changes the override at once and  *)
(* then awaits the upsert of the record of the skill and its version;      *)
(* start-up turns the records into overrides again, by skill id alone.  A  *)
(* process started without a database loads no record and writes none: its *)
(* overrides live in memory only.  A generation, in a thread of the pool,  *)
(* looks at one skill after the other, once for the plan and once to       *)
(* choose the validators.                                                  *)
(*                                                                         *)
(* All the skills considered match the language and framework asked for.   *)
(***************************************************************************)
EXTENDS Naturals

CONSTANTS
    NSkills,      \* skills 1 .. NSkills, in file order
    Versions,     \* versions a skill file may have
    Deployments,  \* the files there may be: a version of each skill
    FileStatus,   \* FileStatus[s][v]: the status in the file
    Handlers,     \* promote and deprecate requests
    Decisions,    \* what they ask for: pairs of a skill and a status
    Generations,  \* threads
    MaxUpdates,   \* bound: committed upserts
    Unset

Skills == 1 .. NSkills
Statuses == {"draft", "active", "deprecated", "disabled"}
NoSkill == 0

ASSUME SkillsAreCounted == NSkills \in Nat
ASSUME DeploymentsAreFiles == Deployments \subseteq [Skills -> Versions]
ASSUME FilesHaveStatus == FileStatus \in [Skills -> [Versions -> Statuses]]
ASSUME DecisionsArePairs == Decisions \subseteq Skills \X {"active", "deprecated"}
ASSUME UnsetIsNoStatus == Unset \notin Statuses
ASSUME UpdatesAreCounted == MaxUpdates \in Nat

VARIABLES
    connected,   \* app.state.skill_governance_repo is not None
    version,     \* version[s]: of the file loaded
    override,    \* SkillRegistry._governance_overrides
    rows,        \* rows[s][v]: status in skill_governance, or Unset
    stamp,       \* stamp[s][v]: updated_at of that row
    clock,       \* committed upserts
    pc, target, want,                  \* requests that have a repository
    standing,    \* history: statuses of s that no answered request has replaced
    since,       \* history: statuses asked for target[h] while h runs, its own too
    gpc, pos, planned, used,           \* generations
    stale,       \* history: an override that g's plan rests on was set since
    had          \* history: had[g][s], was s active or not until g's scan saw it

regVars == <<connected, version, override>>
dbVars  == <<rows, stamp, clock>>
reqVars == <<pc, target, want, standing, since>>
genVars == <<gpc, pos, planned, used>>
obsVars == <<stale, had>>
vars == <<regVars, dbVars, reqVars, genVars, obsVars>>

TypeOK ==
    /\ connected \in BOOLEAN
    /\ version \in [Skills -> Versions]
    /\ override \in [Skills -> Statuses \cup {Unset}]
    /\ rows \in [Skills -> [Versions -> Statuses \cup {Unset}]]
    /\ stamp \in [Skills -> [Versions -> 0 .. MaxUpdates]]
    /\ clock \in 0 .. MaxUpdates
    /\ pc \in [Handlers -> {"idle", "upsert"}]
    /\ target \in [Handlers -> Skills \cup {NoSkill}]
    /\ want \in [Handlers -> {"active", "deprecated"}]
    /\ standing \in [Skills -> SUBSET (Statuses \cup {Unset})]
    /\ since \in [Handlers -> SUBSET (Statuses \cup {Unset})]
    /\ gpc \in [Generations -> {"idle", "plan", "generate", "validate"}]
    /\ pos \in [Generations -> 1 .. NSkills + 1]
    /\ planned \in [Generations -> Skills \cup {NoSkill}]
    /\ used \in [Generations -> Skills \cup {NoSkill}]
    /\ stale \in [Generations -> BOOLEAN]
    /\ had \in [Generations -> [Skills -> SUBSET BOOLEAN]]

Init ==
    /\ connected \in BOOLEAN
    /\ version \in Deployments
    /\ override = [s \in Skills |-> Unset]
    /\ rows = [s \in Skills |-> [v \in Versions |-> Unset]]
    /\ stamp = [s \in Skills |-> [v \in Versions |-> 0]]
    /\ clock = 0
    /\ standing = [s \in Skills |-> {Unset}]
    /\ pc = [h \in Handlers |-> "idle"]
    /\ target = [h \in Handlers |-> NoSkill]
    /\ want = [h \in Handlers |-> "active"]
    /\ since = [h \in Handlers |-> {}]
    /\ gpc = [g \in Generations |-> "idle"]
    /\ pos = [g \in Generations |-> 1]
    /\ planned = [g \in Generations |-> NoSkill]
    /\ used = [g \in Generations |-> NoSkill]
    /\ stale = [g \in Generations |-> FALSE]
    /\ had = [g \in Generations |-> [s \in Skills |-> BOOLEAN]]

-----------------------------------------------------------------------------
\* Overrides are forgotten when a skill is selected.
BugEffective(s) == FileStatus[s][version[s]]

\* SkillRegistry._effective_status.
Effective(s) == IF override[s] = Unset THEN FileStatus[s][version[s]]
                                       ELSE override[s]

\* The record of the version that is loaded, not the latest one.
BugLoadedOf(s, loaded) == rows[s][loaded[s]]

\* load_overrides: the status updated last for the skill, whatever the version.
LoadedOf(s, loaded) ==
    LET last == CHOOSE v \in Versions : \A u \in Versions : stamp[s][u] <= stamp[s][v]
    IN  rows[s][last]

-----------------------------------------------------------------------------
(* POST /v1/skills/{skill_id}/promote and .../deprecate.                   *)

\* The skills a selection of n has looked at.
Upto(n) == IF n = NoSkill THEN Skills ELSE 1 .. n

\* The skills whose status the plan of g has read and rests on.
ReadBy(g) ==
    CASE gpc[g] = "plan" -> 1 .. pos[g] - 1
      [] gpc[g] \in {"generate", "validate"} -> Upto(planned[g])
      [] gpc[g] = "idle" -> {}

\* The override is replaced before the first await.
Override(s, st) ==
    /\ override' = [override EXCEPT ![s] = st]
    /\ stale' = [g \in Generations |-> stale[g] \/ s \in ReadBy(g)]
    /\ had' = [g \in Generations |->
                  IF gpc[g] \in {"plan", "validate"} /\ s >= pos[g]
                  THEN [had[g] EXCEPT ![s] = @ \cup {st = "active"}] ELSE had[g]]
    /\ UNCHANGED <<connected, version, dbVars, genVars>>

Pending(h, s) == pc[h] = "upsert" /\ target[h] = s

\* With a repository the request goes on to its record.
SetOverride(h, s, st) ==
    /\ pc[h] = "idle"
    /\ connected
    /\ Override(s, st)
    /\ pc' = [pc EXCEPT ![h] = "upsert"]
    /\ target' = [target EXCEPT ![h] = s]
    /\ want' = [want EXCEPT ![h] = st]
    /\ standing' = [standing EXCEPT ![s] = @ \cup {st}]
    /\ since' = [i \in Handlers |->
                    IF i = h THEN {st} \cup {want[j] : j \in {k \in Handlers : Pending(k, s)}}
                    ELSE IF Pending(i, s) THEN since[i] \cup {st} ELSE since[i]]

\* Without one it is answered at once, and nothing is recorded.
SetUnrecorded(s, st) ==
    /\ ~ connected
    /\ Override(s, st)
    /\ UNCHANGED reqVars

Record(h) ==
    LET s == target[h] IN
    /\ clock < MaxUpdates
    /\ clock' = clock + 1
    /\ rows' = [rows EXCEPT ![s][version[s]] = want[h]]
    /\ stamp' = [stamp EXCEPT ![s][version[s]] = clock + 1]

End(h) ==
    /\ pc' = [pc EXCEPT ![h] = "idle"]
    /\ target' = [target EXCEPT ![h] = NoSkill]
    /\ want' = [want EXCEPT ![h] = "active"]
    /\ since' = [since EXCEPT ![h] = {}]

\* 200: the request has replaced all that was decided before it began.
Upsert(h) ==
    /\ pc[h] = "upsert"
    /\ Record(h)
    /\ standing' = [standing EXCEPT ![target[h]] = since[h]]
    /\ End(h)
    /\ UNCHANGED <<regVars, genVars, obsVars>>

\* The statement raises; the row may have been written all the same.
UpsertFails(h) ==
    /\ pc[h] = "upsert"
    /\ Record(h) \/ UNCHANGED dbVars
    /\ End(h)
    /\ UNCHANGED <<regVars, standing, genVars, obsVars>>

-----------------------------------------------------------------------------
(* SkillRegistry.select, twice in a generation.                            *)

ActiveNow == [s \in Skills |-> {Effective(s) = "active"}]

BeginPlan(g) ==
    /\ gpc[g] = "idle"
    /\ gpc' = [gpc EXCEPT ![g] = "plan"]
    /\ pos' = [pos EXCEPT ![g] = 1]
    /\ planned' = [planned EXCEPT ![g] = NoSkill]
    /\ used' = [used EXCEPT ![g] = NoSkill]
    /\ stale' = [stale EXCEPT ![g] = FALSE]
    /\ had' = [had EXCEPT ![g] = ActiveNow]
    /\ UNCHANGED <<regVars, dbVars, reqVars>>

\* A skill that is not retired is taken, a draft too.
BugSelects(s) == Effective(s) \notin {"deprecated", "disabled"}

Selects(s) == Effective(s) = "active"

\* One skill of the scan; result is the variable that keeps the selection.
LookAt(g, step, next, result, other) ==
    /\ gpc[g] = step
    /\ IF pos[g] \in Skills /\ ~ Selects(pos[g])
       THEN pos' = [pos EXCEPT ![g] = @ + 1] /\ UNCHANGED <<gpc, result>>
       ELSE /\ gpc' = [gpc EXCEPT ![g] = next]
            /\ result' = [result EXCEPT ![g] =
                             IF pos[g] \in Skills THEN pos[g] ELSE NoSkill]
            /\ pos' = [pos EXCEPT ![g] = 1]
    /\ UNCHANGED <<regVars, dbVars, reqVars, other, obsVars>>

PlanLook(g) == LookAt(g, "plan", "generate", planned, used)
ValidateLook(g) == LookAt(g, "validate", "idle", used, planned)

\* The provider has answered; validation chooses the skill again.
BeginValidation(g) ==
    /\ gpc[g] = "generate"
    /\ gpc' = [gpc EXCEPT ![g] = "validate"]
    /\ had' = [had EXCEPT ![g] = ActiveNow]
    /\ UNCHANGED <<regVars, dbVars, reqVars, pos, planned, used, stale>>

-----------------------------------------------------------------------------
\* The process dies and starts again, possibly with other skill files, with or
\* without a database.
Restart(loaded, pool) ==
    /\ connected' = pool
    /\ version' = loaded
    /\ override' = [s \in Skills |-> IF pool THEN LoadedOf(s, loaded) ELSE Unset]
    /\ pc' = [h \in Handlers |-> "idle"]
    /\ target' = [h \in Handlers |-> NoSkill]
    /\ want' = [h \in Handlers |-> "active"]
    /\ since' = [h \in Handlers |-> {}]
    /\ gpc' = [g \in Generations |-> "idle"]
    /\ pos' = [g \in Generations |-> 1]
    /\ planned' = [g \in Generations |-> NoSkill]
    /\ used' = [g \in Generations |-> NoSkill]
    /\ stale' = [g \in Generations |-> FALSE]
    /\ had' = [g \in Generations |-> [s \in Skills |-> BOOLEAN]]
    /\ UNCHANGED <<dbVars, standing>>

Next ==
    \/ \E d \in Decisions :
          SetUnrecorded(d[1], d[2]) \/ \E h \in Handlers : SetOverride(h, d[1], d[2])
    \/ \E h \in Handlers : Upsert(h) \/ UpsertFails(h)
    \/ \E g \in Generations :
          BeginPlan(g) \/ PlanLook(g) \/ BeginValidation(g) \/ ValidateLook(g)
    \/ \E loaded \in Deployments, pool \in BOOLEAN : Restart(loaded, pool)

Spec == Init /\ [][Next]_vars

-----------------------------------------------------------------------------
(* Properties.                                                             *)

\* The last status given to a skill, over all its versions, or Unset.
LastRecorded(s) ==
    {rows[s][v] : v \in {w \in Versions :
                            \A u \in Versions : stamp[s][u] <= stamp[s][w]}}

\* What is in force, and what a restart with a database would put in force, is a
\* decision that no request answered later has replaced: an answered request is
\* never undone by an older one, through overlapping and failing requests,
\* restarts, starts without a database and new versions of the skill's file.
\* Without a database only the records are promised; they are left alone.
DecisionsStand ==
    \A s \in Skills :
        /\ LastRecorded(s) \subseteq standing[s]
        /\ connected => override[s] \in standing[s]

\* A generation planned with the first active skill, and validates with the skill
\* it planned with, unless the plan is stale: a governance request has set the
\* status of that skill, or of one before it, after the plan had read it.
SelectionIsStable ==
    \A g \in Generations :
        LET status(s) == IF override[s] \in Statuses THEN override[s]
                         ELSE FileStatus[s][version[s]]
            first == {s \in Skills : /\ status(s) = "active"
                                     /\ \A t \in 1 .. s - 1 : status(t) # "active"}
            right == IF first = {} THEN {NoSkill} ELSE first
        IN  ~ stale[g] =>
                /\ gpc[g] \in {"generate", "validate"} => planned[g] \in right
                /\ gpc[g] = "idle" => used[g] = planned[g]

\* Whatever requests arrive while a selection goes through the skills, it does not
\* select a skill that was inactive all the time until the selection came to it,
\* nor pass over one that was active all that time.  (It may miss every active
\* skill all the same, when one is promoted behind it and the next deprecated.)
SelectionIsWitnessed ==
    \A g \in Generations :
        LET selected == IF gpc[g] = "generate" THEN planned[g] ELSE used[g]
        IN  gpc[g] \in {"generate", "idle"} =>
                /\ selected # NoSkill => TRUE \in had[g][selected]
                /\ \A s \in Upto(selected) \ {selected} : FALSE \in had[g][s]
=============================================================================

------------------------ MODULE SkillGovernanceProofs ------------------------
(***************************************************************************)
(* Proofs about SkillGovernance, for any number of skills, versions,       *)
(* requests and generations.                                               *)
(*                                                                         *)
(* Of the requests under way for a skill, each has seen the decisions of   *)
(* all and the one in force: that is PendingInv, and what makes the        *)
(* decisions an answered request leaves standing the right ones.  What is  *)
(* recorded is the latest record, because no stamp is later than the clock *)
(* (StampsInv).  A generation is at a skill only if none of those before   *)
(* it is active, unless its plan is stale (ScanInv); and if each of them   *)
(* was once inactive during the selection, stale or not (WitnessInv).      *)
(***************************************************************************)
EXTENDS SkillGovernance, WellFoundedInduction, TLAPS

StampsInv == \A s \in Skills, v \in Versions : stamp[s][v] <= clock

TargetsInv == \A h \in Handlers : pc[h] = "upsert" => target[h] \in Skills

PendingInv ==
    \A h \in Handlers : pc[h] = "upsert" =>
        /\ connected
        /\ override[target[h]] \in since[h]
        /\ want[h] \in standing[target[h]]
        /\ \A i \in Handlers : Pending(i, target[h]) => want[i] \in since[h]

NoneActive(n) == \A t \in 1 .. n - 1 : Effective(t) # "active"

\* What a scan of the skills as they are now selects.
Chosen(s) ==
    \/ s \in Skills /\ Effective(s) = "active" /\ NoneActive(s)
    \/ s = NoSkill /\ NoneActive(NSkills + 1)

ScanInv ==
    \A g \in Generations :
        /\ gpc[g] \in {"idle", "generate"} => pos[g] = 1
        /\ ~ stale[g] =>
              /\ gpc[g] = "plan" => NoneActive(pos[g])
              /\ gpc[g] \in {"generate", "validate"} => Chosen(planned[g])
              /\ gpc[g] = "validate" => NoneActive(pos[g])
              /\ gpc[g] = "idle" => used[g] = planned[g]

\* What the scan of g has passed over was once inactive; the rest is as it is now.
WitnessInv ==
    \A g \in Generations : gpc[g] \in {"plan", "validate"} =>
        \A s \in Skills : IF s < pos[g] THEN FALSE \in had[g][s]
                          ELSE (Effective(s) = "active") \in had[g][s]

Typed == TypeOK /\ TargetsInv

IInv ==
    Typed /\ StampsInv /\ PendingInv /\ DecisionsStand /\ ScanInv /\ WitnessInv
      /\ SelectionIsWitnessed

-----------------------------------------------------------------------------
\* The latest record of a skill is the record of one of its versions.
LEMMA LatestExists ==
    ASSUME TypeOK, NEW s \in Skills, Versions # {}
    PROVE  \E v \in Versions : \A u \in Versions : stamp[s][u] <= stamp[s][v]
<1> DEFINE Ages == {MaxUpdates - stamp[s][v] : v \in Versions}
<1>1. \A v \in Versions : stamp[s][v] \in Nat /\ MaxUpdates - stamp[s][v] \in Nat
  BY UpdatesAreCounted DEF TypeOK
<1>2. Ages \subseteq Nat /\ Ages # {}
  BY <1>1
<1>3. PICK a \in Ages : \A b \in Ages : <<b, a>> \notin OpToRel(<, Nat)
  BY <1>2, WFMin, NatLessThanWellFounded, Zenon
<1>4. \A b \in Ages : ~ (b < a)
  BY <1>2, <1>3, Zenon DEF OpToRel
<1>5. PICK v \in Versions : a = MaxUpdates - stamp[s][v]
  OBVIOUS
<1>6. \A u \in Versions : ~ (MaxUpdates - stamp[s][u] < MaxUpdates - stamp[s][v])
  BY <1>4, <1>5
<1>7. \A u \in Versions : stamp[s][u] <= stamp[s][v]
  BY <1>1, <1>6, UpdatesAreCounted
<1> QED BY <1>7

\* load_overrides finds a latest record.
LEMMA LoadedIsLatest ==
    ASSUME TypeOK, NEW s \in Skills, NEW loaded
    PROVE  LoadedOf(s, loaded) \in LastRecorded(s) /\ LoadedOf(s, loaded) \in Statuses \cup {Unset}
<1> DEFINE Latest(v) == \A u \in Versions : stamp[s][u] <= stamp[s][v]
           last == CHOOSE v \in Versions : Latest(v)
<1>1. Versions # {}
  BY DEF TypeOK
<1>2. \E v \in Versions : Latest(v)
  BY <1>1, LatestExists
<1>3. last \in Versions /\ Latest(last)
  BY <1>2, Zenon
<1>4. LoadedOf(s, loaded) = rows[s][last]
  BY DEF LoadedOf
<1> HIDE DEF last
<1> QED BY <1>3, <1>4 DEF LastRecorded, TypeOK

\* There is one selection.
LEMMA ChosenIsUnique ==
    ASSUME NEW a, NEW b, Chosen(a), Chosen(b)
    PROVE  a = b
<1> USE SkillsAreCounted DEF Skills, NoSkill
<1>1. CASE a \in Skills /\ b \in Skills
  BY <1>1 DEF Chosen, NoneActive
<1>2. CASE a = NoSkill \/ b = NoSkill
  BY <1>2 DEF Chosen, NoneActive
<1> QED BY <1>1, <1>2 DEF Chosen

-----------------------------------------------------------------------------
\* The steps, with the decisions spelt out.
LEMMA NextCases ==
    ASSUME Next
    PROVE  \/ \E s \in Skills, st \in {"active", "deprecated"} :
                 SetUnrecorded(s, st) \/ \E h \in Handlers : SetOverride(h, s, st)
           \/ \E h \in Handlers : Upsert(h) \/ UpsertFails(h)
           \/ \E g \in Generations :
                 BeginPlan(g) \/ PlanLook(g) \/ BeginValidation(g) \/ ValidateLook(g)
           \/ \E loaded \in Deployments, pool \in BOOLEAN : Restart(loaded, pool)
<1>1. ASSUME NEW d \in Decisions,
             SetUnrecorded(d[1], d[2]) \/ \E h \in Handlers : SetOverride(h, d[1], d[2])
      PROVE  \E s \in Skills, st \in {"active", "deprecated"} :
                 SetUnrecorded(s, st) \/ \E h \in Handlers : SetOverride(h, s, st)
  <2>1. d[1] \in Skills /\ d[2] \in {"active", "deprecated"}
    BY DecisionsArePairs
  <2> QED BY <1>1, <2>1
<1> QED BY <1>1 DEF Next

\* A new override leaves the other skills as they are.
LEMMA OverrideEffect ==
    ASSUME Typed, NEW s \in Skills, NEW st \in {"active", "deprecated"}, Override(s, st)
    PROVE  /\ override' \in [Skills -> Statuses \cup {Unset}]
           /\ override'[s] = st
           /\ \A t \in Skills : t # s => override'[t] = override[t]
           /\ stale' \in [Generations -> BOOLEAN]
           /\ had' \in [Generations -> [Skills -> SUBSET BOOLEAN]]
<1>1. st \in Statuses /\ (st = "active") \in BOOLEAN
  BY DEF Statuses
<1>2. /\ override' = [override EXCEPT ![s] = st]
      /\ override \in [Skills -> Statuses \cup {Unset}]
  BY DEF Override, Typed, TypeOK
<1>3. stale' \in [Generations -> BOOLEAN]
  <2>1. stale' = [g \in Generations |-> stale[g] \/ s \in ReadBy(g)]
    BY DEF Override
  <2>2. \A g \in Generations : (stale[g] \/ s \in ReadBy(g)) \in BOOLEAN
    OBVIOUS
  <2> QED BY <2>1, <2>2, Zenon
<1>4. had' \in [Generations -> [Skills -> SUBSET BOOLEAN]]
  <2> DEFINE more(g) == [had[g] EXCEPT ![s] = had[g][s] \cup {st = "active"}]
  <2>1. \A g \in Generations : had[g] \in [Skills -> SUBSET BOOLEAN]
    BY DEF Typed, TypeOK
  <2>2. \A g \in Generations : more(g) \in [Skills -> SUBSET BOOLEAN]
    BY <1>1, <2>1
  <2>3. had' = [g \in Generations |->
                   IF gpc[g] \in {"plan", "validate"} /\ s >= pos[g]
                   THEN more(g) ELSE had[g]]
    BY DEF Override
  <2> HIDE DEF more
  <2> QED BY <2>1, <2>2, <2>3
<1> QED BY <1>1, <1>2, <1>3, <1>4

LEMMA TypeInit == Init => Typed
BY SkillsAreCounted, UpdatesAreCounted, DeploymentsAreFiles
   DEF Init, Typed, TypeOK, TargetsInv, Skills, NoSkill

LEMMA RecordType ==
    ASSUME Typed, NEW h \in Handlers, pc[h] = "upsert", Record(h)
    PROVE  /\ rows' \in [Skills -> [Versions -> Statuses \cup {Unset}]]
           /\ stamp' \in [Skills -> [Versions -> 0 .. MaxUpdates]]
           /\ clock' \in 0 .. MaxUpdates
<1> DEFINE s == target[h]
           v == version[s]
<1>1. s \in Skills /\ want[h] \in Statuses \cup {Unset}
  BY DEF Typed, TypeOK, TargetsInv, Statuses
<1>2. v \in Versions
  BY <1>1 DEF Typed, TypeOK
<1>3. clock + 1 \in 0 .. MaxUpdates
  BY UpdatesAreCounted DEF Record, Typed, TypeOK
<1>4. /\ rows' = [rows EXCEPT ![s] = [rows[s] EXCEPT ![v] = want[h]]]
      /\ stamp' = [stamp EXCEPT ![s] = [stamp[s] EXCEPT ![v] = clock + 1]]
      /\ clock' = clock + 1
  BY DEF Record
<1>5. /\ rows \in [Skills -> [Versions -> Statuses \cup {Unset}]]
      /\ stamp \in [Skills -> [Versions -> 0 .. MaxUpdates]]
  BY DEF Typed, TypeOK
<1> HIDE DEF s, v
<1>6. /\ [rows[s] EXCEPT ![v] = want[h]] \in [Versions -> Statuses \cup {Unset}]
      /\ [stamp[s] EXCEPT ![v] = clock + 1] \in [Versions -> 0 .. MaxUpdates]
  BY <1>1, <1>2, <1>3, <1>5
<1>7. rows' \in [Skills -> [Versions -> Statuses \cup {Unset}]]
  BY <1>4, <1>5, <1>6
<1>8. stamp' \in [Skills -> [Versions -> 0 .. MaxUpdates]]
  BY <1>4, <1>5, <1>6
<1> QED BY <1>3, <1>4, <1>7, <1>8

LEMMA LookType ==
    ASSUME TypeOK, NEW g \in Generations, PlanLook(g) \/ ValidateLook(g)
    PROVE  /\ pos' \in [Generations -> 1 .. NSkills + 1]
           /\ planned' \in [Generations -> Skills \cup {NoSkill}]
           /\ used' \in [Generations -> Skills \cup {NoSkill}]
           /\ gpc' \in [Generations -> {"idle", "plan", "generate", "validate"}]
<1> DEFINE here == IF pos[g] \in Skills THEN pos[g] ELSE NoSkill
<1>1. pos \in [Generations -> 1 .. NSkills + 1]
  BY DEF TypeOK
<1>2. here \in Skills \cup {NoSkill} /\ 1 \in 1 .. NSkills + 1
  BY SkillsAreCounted
<1>3. pos[g] \in Skills => pos[g] + 1 \in 1 .. NSkills + 1
  BY SkillsAreCounted DEF Skills
<1>4. \/ pos[g] \in Skills /\ pos' = [pos EXCEPT ![g] = pos[g] + 1]
      \/ pos' = [pos EXCEPT ![g] = 1]
  BY DEF PlanLook, ValidateLook, LookAt
<1>5. pos' \in [Generations -> 1 .. NSkills + 1]
  BY <1>1, <1>2, <1>3, <1>4
<1>6. /\ planned' \in {planned, [planned EXCEPT ![g] = here]}
      /\ used' \in {used, [used EXCEPT ![g] = here]}
      /\ gpc' \in {gpc, [gpc EXCEPT ![g] = "generate"], [gpc EXCEPT ![g] = "idle"]}
  BY DEF PlanLook, ValidateLook, LookAt
<1> HIDE DEF here
<1>7. planned' \in [Generations -> Skills \cup {NoSkill}]
  BY <1>2, <1>6 DEF TypeOK
<1>8. used' \in [Generations -> Skills \cup {NoSkill}]
  BY <1>2, <1>6 DEF TypeOK
<1>9. gpc' \in [Generations -> {"idle", "plan", "generate", "validate"}]
  BY <1>6 DEF TypeOK
<1> QED BY <1>5, <1>7, <1>8, <1>9

LEMMA TypeNext == Typed /\ [Next]_vars => Typed'
<1> SUFFICES ASSUME Typed, [Next]_vars PROVE Typed'
  OBVIOUS
<1> USE DEF Typed, TargetsInv
<1>1. ASSUME NEW s \in Skills, NEW st \in {"active", "deprecated"}, SetUnrecorded(s, st)
      PROVE  Typed'
  <2>1. Override(s, st) /\ UNCHANGED reqVars
    BY <1>1 DEF SetUnrecorded
  <2>2. UNCHANGED <<connected, version, dbVars, genVars>>
    BY <2>1 DEF Override
  <2> QED BY <2>1, <2>2, OverrideEffect DEF TypeOK, dbVars, reqVars, genVars
<1>2. ASSUME NEW h \in Handlers, NEW s \in Skills, NEW st \in {"active", "deprecated"},
             SetOverride(h, s, st)
      PROVE  Typed'
  <2>1. Override(s, st)
    BY <1>2 DEF SetOverride
  <2>2. UNCHANGED <<connected, version, dbVars, genVars>>
    BY <2>1 DEF Override
  <2>3. st \in Statuses \cup {Unset}
    BY DEF Statuses
  <2>4. /\ pc' \in [Handlers -> {"idle", "upsert"}]
        /\ target' \in [Handlers -> Skills \cup {NoSkill}]
        /\ want' \in [Handlers -> {"active", "deprecated"}]
        /\ TargetsInv'
    BY <1>2 DEF SetOverride, TypeOK
  <2>5. standing' \in [Skills -> SUBSET (Statuses \cup {Unset})]
    <3>1. standing' = [standing EXCEPT ![s] = standing[s] \cup {st}]
      BY <1>2 DEF SetOverride
    <3> QED BY <2>3, <3>1 DEF TypeOK
  <2>6. since' \in [Handlers -> SUBSET (Statuses \cup {Unset})]
    <3> DEFINE own == {st} \cup {want[j] : j \in {k \in Handlers : Pending(k, s)}}
    <3>1. \A j \in Handlers : want[j] \in Statuses
      BY DEF TypeOK, Statuses
    <3>2. own \subseteq Statuses \cup {Unset}
      BY <2>3, <3>1
    <3>3. since' = [i \in Handlers |->
                       IF i = h THEN own
                       ELSE IF Pending(i, s) THEN since[i] \cup {st} ELSE since[i]]
      BY <1>2 DEF SetOverride
    <3>4. \A i \in Handlers : since[i] \subseteq Statuses \cup {Unset}
      BY DEF TypeOK
    <3> HIDE DEF own
    <3> QED BY <2>3, <3>2, <3>3, <3>4
  <2> QED BY <2>1, <2>2, <2>4, <2>5, <2>6, OverrideEffect DEF TypeOK, dbVars, genVars
<1>3. ASSUME NEW h \in Handlers, Upsert(h) \/ UpsertFails(h)
      PROVE  Typed'
  <2>1. pc[h] = "upsert" /\ End(h) /\ (Record(h) \/ UNCHANGED dbVars)
    BY <1>3 DEF Upsert, UpsertFails
  <2>2. /\ rows' \in [Skills -> [Versions -> Statuses \cup {Unset}]]
        /\ stamp' \in [Skills -> [Versions -> 0 .. MaxUpdates]]
        /\ clock' \in 0 .. MaxUpdates
    BY <2>1, RecordType DEF TypeOK, dbVars
  <2>3. /\ pc' \in [Handlers -> {"idle", "upsert"}]
        /\ target' \in [Handlers -> Skills \cup {NoSkill}]
        /\ want' \in [Handlers -> {"active", "deprecated"}]
        /\ since' \in [Handlers -> SUBSET (Statuses \cup {Unset})]
        /\ TargetsInv'
    BY <2>1 DEF TypeOK, End
  <2>4. standing' \in [Skills -> SUBSET (Statuses \cup {Unset})]
    <3> DEFINE t == target[h]
    <3>1. standing' \in {standing, [standing EXCEPT ![t] = since[h]]}
      BY <1>3 DEF Upsert, UpsertFails
    <3> HIDE DEF t
    <3> QED BY <3>1 DEF TypeOK
  <2>5. UNCHANGED <<regVars, genVars, obsVars>>
    BY <1>3 DEF Upsert, UpsertFails
  <2> QED BY <2>2, <2>3, <2>4, <2>5 DEF TypeOK, regVars, genVars, obsVars
<1>4. ASSUME NEW g \in Generations,
             BeginPlan(g) \/ PlanLook(g) \/ BeginValidation(g) \/ ValidateLook(g)
      PROVE  Typed'
  <2> USE DEF regVars, dbVars, reqVars, obsVars
  <2>1. ActiveNow \in [Skills -> SUBSET BOOLEAN]
    BY DEF ActiveNow
  <2>2. had' \in {had, [had EXCEPT ![g] = ActiveNow]}
    BY <1>4 DEF BeginPlan, PlanLook, BeginValidation, ValidateLook, LookAt
  <2>3. had' \in [Generations -> [Skills -> SUBSET BOOLEAN]]
    BY <2>1, <2>2 DEF TypeOK
  <2>4. CASE BeginPlan(g)
    BY <2>3, <2>4, SkillsAreCounted DEF TypeOK, BeginPlan
  <2>5. CASE PlanLook(g) \/ ValidateLook(g)
    <3>1. UNCHANGED <<regVars, dbVars, reqVars, obsVars>>
      BY <2>5 DEF PlanLook, ValidateLook, LookAt
    <3> QED BY <2>5, <3>1, LookType DEF TypeOK
  <2>6. CASE BeginValidation(g)
    BY <2>3, <2>6 DEF TypeOK, BeginValidation
  <2> QED BY <1>4, <2>4, <2>5, <2>6
<1>5. ASSUME NEW loaded \in Deployments, NEW pool \in BOOLEAN, Restart(loaded, pool)
      PROVE  Typed'
  <2>1. \A s \in Skills : LoadedOf(s, loaded) \in Statuses \cup {Unset}
    BY LoadedIsLatest
  <2>2. override' \in [Skills -> Statuses \cup {Unset}]
    BY <1>5, <2>1 DEF Restart
  <2>3. version' \in [Skills -> Versions]
    BY <1>5, DeploymentsAreFiles DEF Restart
  <2> QED BY <1>5, <2>2, <2>3, SkillsAreCounted DEF TypeOK, Restart, dbVars, NoSkill
<1>6. CASE UNCHANGED vars
  BY <1>6 DEF TypeOK, vars, regVars, dbVars, reqVars, genVars, obsVars
<1> QED BY <1>1, <1>2, <1>3, <1>4, <1>5, <1>6, NextCases

\* TypeOK: the variables keep their types, for any number of skills, versions,
\* requests and generations.
THEOREM TypeCorrect == Spec => []TypeOK
<1>1. Typed => TypeOK
  BY DEF Typed
<1> QED BY TypeInit, TypeNext, <1>1, PTL DEF Spec

-----------------------------------------------------------------------------
\* The record of a request is the last of its skill.
LEMMA RecordEffect ==
    ASSUME Typed, NEW h \in Handlers, pc[h] = "upsert", Record(h)
    PROVE  /\ \A t \in Skills : t # target[h] => rows'[t] = rows[t] /\ stamp'[t] = stamp[t]
           /\ \E v \in Versions :
                 /\ rows'[target[h]][v] = want[h]
                 /\ stamp'[target[h]] = [stamp[target[h]] EXCEPT ![v] = clock + 1]
           /\ clock' = clock + 1
<1> DEFINE s == target[h]
           v == version[s]
<1>1. s \in Skills
  BY DEF Typed, TargetsInv
<1>2. v \in Versions
  BY <1>1 DEF Typed, TypeOK
<1>3. /\ rows' = [rows EXCEPT ![s] = [rows[s] EXCEPT ![v] = want[h]]]
      /\ stamp' = [stamp EXCEPT ![s] = [stamp[s] EXCEPT ![v] = clock + 1]]
      /\ clock' = clock + 1
  BY DEF Record
<1>4. /\ rows \in [Skills -> [Versions -> Statuses \cup {Unset}]]
      /\ stamp \in [Skills -> [Versions -> 0 .. MaxUpdates]]
  BY DEF Typed, TypeOK
<1> HIDE DEF s, v
<1>5. \A t \in Skills : t # s => rows'[t] = rows[t] /\ stamp'[t] = stamp[t]
  BY <1>3, <1>4
<1>6. rows'[s][v] = want[h] /\ stamp'[s] = [stamp[s] EXCEPT ![v] = clock + 1]
  BY <1>1, <1>2, <1>3, <1>4
<1> QED BY <1>2, <1>3, <1>5, <1>6 DEF s

LEMMA StampsNext == Typed /\ StampsInv /\ [Next]_vars => StampsInv'
<1> SUFFICES ASSUME Typed, StampsInv, [Next]_vars, NEW s \in Skills, NEW u \in Versions
             PROVE  (stamp[s][u] <= clock)'
  BY DEF StampsInv
<1>1. stamp[s][u] <= clock /\ stamp[s][u] \in Nat /\ clock \in Nat
  BY UpdatesAreCounted DEF StampsInv, Typed, TypeOK
<1>2. ASSUME NEW h \in Handlers, pc[h] = "upsert", Record(h)
      PROVE  (stamp[s][u] <= clock)'
  <2>1. PICK v \in Versions : stamp'[target[h]] = [stamp[target[h]] EXCEPT ![v] = clock + 1]
    BY <1>2, RecordEffect
  <2>2. clock' = clock + 1 /\ (s # target[h] => stamp'[s] = stamp[s])
    BY <1>2, RecordEffect
  <2>3. stamp[s] \in [Versions -> 0 .. MaxUpdates]
    BY DEF Typed, TypeOK
  <2>4. stamp'[s][u] \in {stamp[s][u], clock + 1}
    BY <2>1, <2>2, <2>3
  <2> QED BY <1>1, <2>2, <2>4
<1>3. CASE UNCHANGED dbVars
  BY <1>1, <1>3 DEF dbVars
<1>4. UNCHANGED dbVars \/ \E h \in Handlers : pc[h] = "upsert" /\ Record(h)
  BY NextCases DEF SetOverride, SetUnrecorded, Override, Upsert, UpsertFails, BeginPlan,
                   PlanLook, ValidateLook, LookAt, BeginValidation, Restart, vars
<1> QED BY <1>2, <1>3, <1>4

\* The record of a request is the latest one of its skill.
LEMMA RecordIsLast ==
    ASSUME Typed, StampsInv, NEW h \in Handlers, pc[h] = "upsert", Record(h),
           NEW s \in Skills
    PROVE  LastRecorded(s)' \subseteq IF s = target[h] THEN {want[h]} ELSE LastRecorded(s)
<1>1. CASE s # target[h]
  <2>1. rows'[s] = rows[s] /\ stamp'[s] = stamp[s]
    BY <1>1, RecordEffect
  <2> QED BY <1>1, <2>1 DEF LastRecorded
<1>2. CASE s = target[h]
  <2>1. PICK v \in Versions : /\ rows'[s][v] = want[h]
                              /\ stamp'[s] = [stamp[s] EXCEPT ![v] = clock + 1]
    BY <1>2, RecordEffect
  <2>2. stamp[s] \in [Versions -> 0 .. MaxUpdates] /\ clock \in Nat
    BY UpdatesAreCounted DEF Typed, TypeOK
  <2>3. ASSUME NEW w \in Versions, \A u \in Versions : stamp'[s][u] <= stamp'[s][w]
        PROVE  w = v
    <3>1. stamp'[s][v] = clock + 1
      BY <2>1, <2>2
    <3>2. stamp[s][w] <= clock /\ stamp[s][w] \in Nat
      BY <2>2, UpdatesAreCounted DEF StampsInv
    <3>3. w # v => stamp'[s][w] = stamp[s][w]
      BY <2>1, <2>2
    <3>4. stamp'[s][v] <= stamp'[s][w]
      BY <2>3
    <3> QED BY <2>2, <3>1, <3>2, <3>3, <3>4
  <2> QED BY <1>2, <2>1, <2>3 DEF LastRecorded
<1> QED BY <1>1, <1>2

LEMMA PendingNext == Typed /\ PendingInv /\ [Next]_vars => PendingInv'
<1> DEFINE Inv(i) == /\ connected
                     /\ override[target[i]] \in since[i]
                     /\ want[i] \in standing[target[i]]
                     /\ \A j \in Handlers : Pending(j, target[i]) => want[j] \in since[i]
<1> SUFFICES ASSUME Typed, PendingInv, [Next]_vars,
                    NEW i \in Handlers, pc'[i] = "upsert"
             PROVE  Inv(i)'
  BY DEF PendingInv
<1>1. ASSUME NEW h \in Handlers, NEW s \in Skills, NEW st \in {"active", "deprecated"},
             SetOverride(h, s, st)
      PROVE  Inv(i)'
  <2>1. /\ pc'[h] = "upsert" /\ target'[h] = s /\ want'[h] = st
        /\ \A j \in Handlers : j # h => /\ pc'[j] = pc[j]
                                         /\ target'[j] = target[j]
                                         /\ want'[j] = want[j]
        /\ pc[h] = "idle" /\ connected'
    BY <1>1 DEF SetOverride, Override, Typed, TypeOK
  <2>2. /\ override'[s] = st
        /\ \A t \in Skills : t # s => override'[t] = override[t]
    BY <1>1, OverrideEffect DEF SetOverride
  <2>3. /\ standing'[s] = standing[s] \cup {st}
        /\ \A t \in Skills : t # s => standing'[t] = standing[t]
    BY <1>1 DEF SetOverride, Typed, TypeOK
  <2>4. /\ since'[h] = {st} \cup {want[j] : j \in {k \in Handlers : Pending(k, s)}}
        /\ \A j \in Handlers : j # h => since'[j] = IF Pending(j, s) THEN since[j] \cup {st}
                                                    ELSE since[j]
    BY <1>1 DEF SetOverride
  <2>5. ASSUME NEW j \in Handlers, NEW t \in Skills, Pending(j, t)'
        PROVE  (j = h /\ t = s) \/ (j # h /\ Pending(j, t))
    <3>1. pc'[j] = "upsert" /\ target'[j] = t
      BY <2>5 DEF Pending
    <3> QED BY <2>1, <3>1 DEF Pending
  <2>6. CASE i = h
    BY <2>1, <2>2, <2>3, <2>4, <2>5, <2>6
  <2>7. CASE i # h
    <3>1. pc[i] = "upsert" /\ target[i] \in Skills /\ target'[i] = target[i]
      BY <2>1, <2>7 DEF Typed, TargetsInv
    <3>2. Inv(i)
      BY <3>1 DEF PendingInv
    <3>3. CASE target[i] = s
      <4>1. since'[i] = since[i] \cup {st}
        BY <2>4, <2>7, <3>1, <3>3 DEF Pending
      <4> QED BY <2>1, <2>2, <2>3, <2>5, <2>7, <3>1, <3>2, <3>3, <4>1
    <3>4. CASE target[i] # s
      <4>1. since'[i] = since[i]
        BY <2>4, <2>7, <3>4 DEF Pending
      <4> QED BY <2>1, <2>2, <2>3, <2>5, <2>7, <3>1, <3>2, <3>4, <4>1
    <3> QED BY <3>3, <3>4
  <2> QED BY <2>6, <2>7
<1>2. ASSUME NEW h \in Handlers, Upsert(h) \/ UpsertFails(h)
      PROVE  Inv(i)'
  <2>1. /\ pc[h] = "upsert" /\ UNCHANGED regVars
        /\ \A j \in Handlers : pc'[j] = "upsert" => /\ j # h /\ pc[j] = "upsert"
                                                    /\ target'[j] = target[j]
                                                    /\ want'[j] = want[j]
                                                    /\ since'[j] = since[j]
    BY <1>2 DEF Upsert, UpsertFails, End, Typed, TypeOK
  <2>2. target[i] \in Skills /\ target[h] \in Skills /\ i # h /\ pc[i] = "upsert"
    BY <2>1 DEF Typed, TargetsInv
  <2>3. Inv(i) /\ Inv(h)
    BY <2>1, <2>2 DEF PendingInv
  <2>4. want[i] \in standing'[target[i]]
    <3>1. target[i] = target[h] => want[i] \in since[h]
      BY <2>2, <2>3 DEF Pending
    <3>2. \/ standing' = standing
          \/ standing' = [standing EXCEPT ![target[h]] = since[h]]
      BY <1>2 DEF Upsert, UpsertFails
    <3> QED BY <2>2, <2>3, <3>1, <3>2 DEF Typed, TypeOK
  <2>5. \A j \in Handlers : Pending(j, target[i])' => Pending(j, target[i]) /\ want'[j] = want[j]
    BY <2>1 DEF Pending
  <2> QED BY <2>1, <2>2, <2>3, <2>4, <2>5 DEF regVars
<1>3. ASSUME NEW s \in Skills, NEW st \in {"active", "deprecated"}, SetUnrecorded(s, st)
      PROVE  FALSE
  <2>1. pc[i] = "upsert" /\ ~ connected
    BY <1>3 DEF SetUnrecorded, reqVars
  <2> QED BY <2>1 DEF PendingInv
<1>4. CASE UNCHANGED <<regVars, reqVars>>
  BY <1>4 DEF PendingInv, Pending, regVars, reqVars
<1>5. ASSUME NEW loaded \in Deployments, NEW pool \in BOOLEAN, Restart(loaded, pool)
      PROVE  FALSE
  BY <1>5 DEF Restart
<1>6. \A g \in Generations :
        BeginPlan(g) \/ PlanLook(g) \/ BeginValidation(g) \/ ValidateLook(g)
           => UNCHANGED <<regVars, reqVars>>
  BY DEF BeginPlan, PlanLook, BeginValidation, ValidateLook, LookAt
<1>7. CASE UNCHANGED vars
  BY <1>4, <1>7 DEF vars
<1> HIDE DEF Inv
<1> QED BY <1>1, <1>2, <1>3, <1>4, <1>5, <1>6, <1>7, NextCases

LEMMA DecisionsNext ==
    Typed /\ StampsInv /\ PendingInv /\ DecisionsStand /\ [Next]_vars => DecisionsStand'
<1> DEFINE Stands(s) == /\ LastRecorded(s) \subseteq standing[s]
                        /\ connected => override[s] \in standing[s]
<1> SUFFICES ASSUME Typed, StampsInv, PendingInv, DecisionsStand, [Next]_vars,
                    NEW s \in Skills
             PROVE  Stands(s)'
  BY DEF DecisionsStand
<1>1. Stands(s)
  BY DEF DecisionsStand
<1>2. UNCHANGED dbVars => LastRecorded(s)' = LastRecorded(s)
  BY DEF LastRecorded, dbVars
<1>3. ASSUME NEW h \in Handlers, NEW t \in Skills, NEW st \in {"active", "deprecated"},
             SetOverride(h, t, st)
      PROVE  Stands(s)'
  <2>1. /\ UNCHANGED <<dbVars, connected>>
        /\ override'[s] = IF s = t THEN st ELSE override[s]
    BY <1>3, OverrideEffect DEF SetOverride, Override
  <2>2. standing'[s] = IF s = t THEN standing[s] \cup {st} ELSE standing[s]
    BY <1>3 DEF SetOverride, Typed, TypeOK
  <2> QED BY <1>1, <1>2, <2>1, <2>2
<1>4. ASSUME NEW h \in Handlers, Upsert(h) \/ UpsertFails(h)
      PROVE  Stands(s)'
  <2>1. /\ pc[h] = "upsert" /\ UNCHANGED regVars /\ target[h] \in Skills
        /\ UNCHANGED dbVars \/ Record(h)
    BY <1>4 DEF Upsert, UpsertFails, Typed, TargetsInv
  <2>2. /\ override[target[h]] \in since[h] /\ want[h] \in since[h]
        /\ want[h] \in standing[target[h]]
    BY <2>1 DEF PendingInv, Pending
  <2>3. LastRecorded(s)' \subseteq LastRecorded(s) \cup (IF s = target[h] THEN {want[h]} ELSE {})
    BY <1>2, <2>1, RecordIsLast
  <2>4. CASE s # target[h]
    <3>1. standing'[s] = standing[s]
      BY <1>4, <2>4 DEF Upsert, UpsertFails, Typed, TypeOK
    <3> QED BY <1>1, <2>1, <2>3, <2>4, <3>1 DEF regVars
  <2>5. CASE s = target[h] /\ UpsertFails(h)
    <3>1. standing' = standing
      BY <2>5 DEF UpsertFails
    <3> QED BY <1>1, <2>1, <2>2, <2>3, <2>5, <3>1 DEF regVars
  <2>6. CASE s = target[h] /\ Upsert(h)
    <3>1. standing'[s] = since[h] /\ Record(h)
      BY <2>6 DEF Upsert, Typed, TypeOK
    <3>2. LastRecorded(s)' \subseteq {want[h]}
      BY <2>1, <2>6, <3>1, RecordIsLast
    <3> QED BY <2>1, <2>2, <2>6, <3>1, <3>2 DEF regVars
  <2> QED BY <1>4, <2>4, <2>5, <2>6
<1>5. ASSUME NEW t \in Skills, NEW st \in {"active", "deprecated"}, SetUnrecorded(t, st)
      PROVE  Stands(s)'
  BY <1>1, <1>2, <1>5 DEF SetUnrecorded, Override, reqVars
<1>6. CASE UNCHANGED <<regVars, dbVars, reqVars>>
  BY <1>1, <1>2, <1>6 DEF regVars, reqVars
<1>7. ASSUME NEW loaded \in Deployments, NEW pool \in BOOLEAN, Restart(loaded, pool)
      PROVE  Stands(s)'
  <2>1. /\ UNCHANGED <<dbVars, standing>>
        /\ connected' => override'[s] = LoadedOf(s, loaded)
    BY <1>7 DEF Restart
  <2>2. LoadedOf(s, loaded) \in LastRecorded(s)
    BY LoadedIsLatest DEF Typed
  <2> QED BY <1>1, <1>2, <2>1, <2>2
<1>8. \A g \in Generations :
        BeginPlan(g) \/ PlanLook(g) \/ BeginValidation(g) \/ ValidateLook(g)
           => UNCHANGED <<regVars, dbVars, reqVars>>
  BY DEF BeginPlan, PlanLook, BeginValidation, ValidateLook, LookAt
<1>9. CASE UNCHANGED vars
  BY <1>6, <1>9 DEF vars
<1> HIDE DEF Stands
<1> QED BY <1>3, <1>4, <1>5, <1>6, <1>7, <1>8, <1>9, NextCases

-----------------------------------------------------------------------------
\* A scan that ends has made the selection.
LEMMA ScanEnds ==
    ASSUME NEW n \in 1 .. NSkills + 1, NoneActive(n)
    PROVE  /\ n \in Skills /\ Effective(n) # "active" => NoneActive(n + 1)
           /\ ~ (n \in Skills /\ Effective(n) # "active")
                => Chosen(IF n \in Skills THEN n ELSE NoSkill)
<1> USE SkillsAreCounted DEF Skills
<1>1. ASSUME n \in Skills, Effective(n) # "active"
      PROVE  NoneActive(n + 1)
  BY <1>1 DEF NoneActive
<1>2. ASSUME n \notin Skills
      PROVE  Chosen(NoSkill)
  <2>1. n = NSkills + 1
    BY <1>2
  <2> QED BY <2>1 DEF Chosen
<1>3. ASSUME n \in Skills, Effective(n) = "active"
      PROVE  Chosen(n)
  BY <1>3 DEF Chosen
<1> QED BY <1>1, <1>2, <1>3

\* A new status of a skill that no plan has read disturbs no selection.
LEMMA ScanOverride ==
    ASSUME Typed, ScanInv, NEW s \in Skills, NEW st \in {"active", "deprecated"},
           Override(s, st)
    PROVE  ScanInv'
<1> DEFINE Inv(g) == /\ gpc[g] \in {"idle", "generate"} => pos[g] = 1
                     /\ ~ stale[g] =>
                           /\ gpc[g] = "plan" => NoneActive(pos[g])
                           /\ gpc[g] \in {"generate", "validate"} => Chosen(planned[g])
                           /\ gpc[g] = "validate" => NoneActive(pos[g])
                           /\ gpc[g] = "idle" => used[g] = planned[g]
<1> SUFFICES ASSUME NEW g \in Generations
             PROVE  Inv(g)'
  BY DEF ScanInv
<1> USE SkillsAreCounted DEF Skills, NoSkill
<1>1. UNCHANGED genVars /\ (stale'[g] <=> stale[g] \/ s \in ReadBy(g))
  BY DEF Override
<1>2. \A t \in Skills : t # s => Effective(t)' = Effective(t)
  BY OverrideEffect DEF Override, Effective
<1>3. pos[g] \in 1 .. NSkills + 1 /\ planned[g] \in Skills \cup {NoSkill}
  BY DEF Typed, TypeOK
<1>4. gpc[g] \in {"idle", "generate"} => pos[g] = 1
  BY DEF ScanInv
<1>5. ASSUME ~ stale[g], s \notin ReadBy(g), gpc[g] = "plan"
      PROVE  NoneActive(pos[g])'
  <2>1. NoneActive(pos[g]) /\ s \notin 1 .. pos[g] - 1
    BY <1>5 DEF ScanInv, ReadBy
  <2> QED BY <1>1, <1>2, <1>3, <2>1 DEF NoneActive, genVars
<1>6. ASSUME ~ stale[g], s \notin ReadBy(g), gpc[g] \in {"generate", "validate"}
      PROVE  Chosen(planned[g])' /\ (gpc[g] = "validate" => NoneActive(pos[g])')
  <2>1. Chosen(planned[g]) /\ (gpc[g] = "validate" => NoneActive(pos[g]))
    BY <1>6 DEF ScanInv
  <2>2. s \notin Upto(planned[g])
    BY <1>6 DEF ReadBy
  <2>3. planned[g] \in Skills /\ s > planned[g]
    BY <1>3, <2>2 DEF Upto
  <2>4. Effective(planned[g]) = "active" /\ NoneActive(planned[g])
    BY <2>1, <2>3 DEF Chosen
  <2>5. \A t \in 1 .. planned[g] : Effective(t)' = Effective(t)
    BY <1>2, <2>3
  <2>6. Chosen(planned[g])'
    <3>1. NoneActive(planned[g])'
      BY <1>1, <2>3, <2>4, <2>5 DEF NoneActive, genVars
    <3>2. planned[g] \in 1 .. planned[g]
      BY <2>3
    <3>3. Effective(planned[g])' = "active"
      BY <1>1, <2>4, <2>5, <3>2 DEF genVars
    <3> QED BY <1>1, <2>3, <3>1, <3>3 DEF Chosen, genVars
  <2>7. ASSUME gpc[g] = "validate" PROVE NoneActive(pos[g])'
    <3>1. NoneActive(pos[g])
      BY <2>1, <2>7
    <3>2. pos[g] <= planned[g]
      BY <1>3, <2>3, <2>4, <3>1 DEF NoneActive
    <3> QED BY <1>1, <1>3, <2>3, <2>5, <3>1, <3>2 DEF NoneActive, genVars
  <2> QED BY <2>6, <2>7
<1>7. ASSUME ~ stale[g], gpc[g] = "idle"
      PROVE  used[g] = planned[g]
  BY <1>7 DEF ScanInv
<1> QED BY <1>1, <1>4, <1>5, <1>6, <1>7 DEF genVars

LEMMA ScanNext == Typed /\ ScanInv /\ [Next]_vars => ScanInv'
<1> SUFFICES ASSUME Typed, ScanInv, [Next]_vars PROVE ScanInv'
  OBVIOUS
<1> DEFINE Inv(g) ==
             /\ gpc[g] \in {"idle", "generate"} => pos[g] = 1
             /\ ~ stale[g] =>
                   /\ gpc[g] = "plan" => NoneActive(pos[g])
                   /\ gpc[g] \in {"generate", "validate"} => Chosen(planned[g])
                   /\ gpc[g] = "validate" => NoneActive(pos[g])
                   /\ gpc[g] = "idle" => used[g] = planned[g]
<1>1. /\ \A g \in Generations : Inv(g)
      /\ \A g \in Generations : pos[g] \in 1 .. NSkills + 1
      /\ (\A g \in Generations : Inv(g)') => ScanInv'
  BY DEF ScanInv, Typed, TypeOK
<1>2. ASSUME UNCHANGED regVars
      PROVE  /\ \A n : NoneActive(n)' <=> NoneActive(n)
             /\ \A n : Chosen(n)' <=> Chosen(n)
  BY <1>2 DEF NoneActive, Chosen, Effective, regVars
<1>3. ASSUME NEW g \in Generations, UNCHANGED <<regVars, gpc[g], pos[g], planned[g], used[g], stale[g]>>
      PROVE  Inv(g)'
  BY <1>1, <1>2, <1>3
<1>4. ASSUME NEW s \in Skills, NEW st \in {"active", "deprecated"}, Override(s, st),
             NEW g \in Generations
      PROVE  Inv(g)'
  <2>1. ScanInv'
    BY <1>4, ScanOverride
  <2> QED BY <2>1 DEF ScanInv
<1>5. ASSUME NEW h \in Handlers, Upsert(h) \/ UpsertFails(h), NEW g \in Generations
      PROVE  Inv(g)'
  BY <1>3, <1>5 DEF Upsert, UpsertFails, genVars, obsVars
<1>6. ASSUME NEW f \in Generations, NEW g \in Generations,
             BeginPlan(f) \/ PlanLook(f) \/ BeginValidation(f) \/ ValidateLook(f)
      PROVE  Inv(g)'
  <2> USE DEF Typed, TypeOK
  <2>1. UNCHANGED regVars
    BY <1>6 DEF BeginPlan, PlanLook, BeginValidation, ValidateLook, LookAt, obsVars
  <2>2. CASE g # f
    <3>1. UNCHANGED <<gpc[g], pos[g], planned[g], used[g], stale[g]>>
      BY <1>6, <2>2 DEF BeginPlan, PlanLook, BeginValidation, ValidateLook, LookAt, obsVars
    <3> QED BY <1>3, <2>1, <3>1
  <2>3. CASE g = f /\ BeginPlan(f)
    <3>1. gpc'[g] = "plan" /\ pos'[g] = 1
      BY <2>3 DEF BeginPlan
    <3>2. NoneActive(1)'
      BY DEF NoneActive
    <3> QED BY <3>1, <3>2
  <2>4. CASE g = f /\ BeginValidation(f)
    <3>1. gpc[g] = "generate" /\ gpc'[g] = "validate" /\ UNCHANGED <<pos, planned, stale>>
      BY <2>4 DEF BeginValidation
    <3>2. NoneActive(1)'
      BY DEF NoneActive
    <3>3. pos'[g] = 1
      BY <1>1, <3>1
    <3> QED BY <1>1, <1>2, <2>1, <3>1, <3>2, <3>3
  <2>5. CASE g = f /\ (PlanLook(f) \/ ValidateLook(f))
    <3> DEFINE n == pos[g]
               here == IF n \in Skills THEN n ELSE NoSkill
               skip == n \in Skills /\ Effective(n) # "active"
    <3>1. n \in 1 .. NSkills + 1 /\ gpc[g] \in {"plan", "validate"} /\ stale'[g] = stale[g]
      BY <1>1, <2>5 DEF PlanLook, ValidateLook, LookAt, Selects, obsVars
    <3>2. CASE skip
      <4>1. pos'[g] = n + 1 /\ UNCHANGED <<gpc, planned, used>>
        BY <2>5, <3>2 DEF PlanLook, ValidateLook, LookAt, Selects, obsVars
      <4>2. NoneActive(n) => NoneActive(n + 1)
        BY <3>1, <3>2, ScanEnds
      <4> HIDE DEF n
      <4> QED BY <1>1, <1>2, <2>1, <3>1, <4>1, <4>2 DEF n
    <3>3. CASE ~ skip /\ PlanLook(f)
      <4>1. /\ gpc[g] = "plan" /\ gpc'[g] = "generate" /\ pos'[g] = 1
            /\ planned'[g] = here
        BY <2>5, <3>3 DEF PlanLook, LookAt, Selects, obsVars
      <4>2. NoneActive(n) => Chosen(here)
        BY <3>1, <3>3, ScanEnds
      <4> HIDE DEF here
      <4> QED BY <1>1, <1>2, <2>1, <3>1, <4>1, <4>2
    <3>4. CASE ~ skip /\ ValidateLook(f)
      <4>1. /\ gpc[g] = "validate" /\ gpc'[g] = "idle" /\ pos'[g] = 1
            /\ used'[g] = here /\ planned' = planned
        BY <2>5, <3>4 DEF ValidateLook, LookAt, Selects, obsVars
      <4>2. NoneActive(n) => Chosen(here)
        BY <3>1, <3>4, ScanEnds
      <4> HIDE DEF here
      <4>3. ~ stale[g] => here = planned[g]
        BY <1>1, <4>1, <4>2, ChosenIsUnique
      <4> QED BY <3>1, <4>1, <4>3
    <3> QED BY <2>5, <3>2, <3>3, <3>4
  <2> QED BY <1>6, <2>2, <2>3, <2>4, <2>5
<1>7. ASSUME NEW loaded \in Deployments, NEW pool \in BOOLEAN, Restart(loaded, pool), NEW g \in Generations
      PROVE  Inv(g)'
  BY <1>7 DEF Restart
<1>8. ASSUME UNCHANGED vars, NEW g \in Generations
      PROVE  Inv(g)'
  BY <1>3, <1>8 DEF vars, genVars, obsVars
<1> HIDE DEF Inv
<1>9. \A g \in Generations : Inv(g)'
  BY <1>4, <1>5, <1>6, <1>7, <1>8, NextCases DEF SetOverride, SetUnrecorded
<1> QED BY <1>1, <1>9

LEMMA WitnessNext ==
    Typed /\ ScanInv /\ WitnessInv /\ SelectionIsWitnessed /\ [Next]_vars
       => WitnessInv' /\ SelectionIsWitnessed'
<1> DEFINE Selected(g) == IF gpc[g] = "generate" THEN planned[g] ELSE used[g]
           Inv(g) ==
             /\ gpc[g] \in {"plan", "validate"} =>
                   \A s \in Skills : IF s < pos[g] THEN FALSE \in had[g][s]
                                     ELSE (Effective(s) = "active") \in had[g][s]
             /\ gpc[g] \in {"generate", "idle"} =>
                   /\ Selected(g) # NoSkill => TRUE \in had[g][Selected(g)]
                   /\ \A s \in Upto(Selected(g)) \ {Selected(g)} : FALSE \in had[g][s]
<1> SUFFICES ASSUME Typed, ScanInv, WitnessInv, SelectionIsWitnessed, [Next]_vars,
                    NEW g \in Generations
             PROVE  Inv(g)'
  BY DEF WitnessInv, SelectionIsWitnessed
<1> USE SkillsAreCounted
<1>1. /\ Inv(g) /\ pos[g] \in 1 .. NSkills + 1
      /\ gpc[g] \in {"idle", "generate"} => pos[g] = 1
  BY DEF WitnessInv, SelectionIsWitnessed, ScanInv, Typed, TypeOK
<1>2. ASSUME UNCHANGED <<regVars, gpc[g], pos[g], planned[g], used[g], had[g]>>
      PROVE  Inv(g)'
  BY <1>1, <1>2 DEF Effective, regVars
<1>3. ASSUME NEW t \in Skills, NEW st \in {"active", "deprecated"}, Override(t, st)
      PROVE  Inv(g)'
  <2>1. UNCHANGED genVars
    BY <1>3 DEF Override
  <2>2. CASE gpc[g] \in {"plan", "validate"}
    <3>1. had'[g] = IF t >= pos[g] THEN [had[g] EXCEPT ![t] = had[g][t] \cup {st = "active"}]
                    ELSE had[g]
      BY <1>3, <2>2 DEF Override
    <3>2. had[g] \in [Skills -> SUBSET BOOLEAN]
      BY DEF Typed, TypeOK
    <3>3. /\ \A s \in Skills : had[g][s] \subseteq had'[g][s]
          /\ t >= pos[g] => (st = "active") \in had'[g][t]
      BY <3>1, <3>2
    <3>4. Effective(t)' = st
      <4>1. override'[t] = st /\ st # Unset
        BY <1>3, OverrideEffect, UnsetIsNoStatus DEF Statuses
      <4> QED BY <4>1 DEF Effective
    <3>5. \A s \in Skills : s # t => Effective(s)' = Effective(s)
      BY <1>3, OverrideEffect DEF Override, Effective
    <3>6. ASSUME NEW s \in Skills
          PROVE  IF s < pos[g] THEN FALSE \in had'[g][s]
                 ELSE (Effective(s)' = "active") \in had'[g][s]
      <4>1. IF s < pos[g] THEN FALSE \in had[g][s]
            ELSE (Effective(s) = "active") \in had[g][s]
        BY <1>1, <2>2
      <4>2. CASE s # t
        <5>1. (Effective(s)' = "active") = (Effective(s) = "active")
          BY <3>5, <4>2
        <5> QED BY <3>3, <4>1, <5>1
      <4>3. CASE s = t
        <5>1. (Effective(s)' = "active") = (st = "active")
          BY <3>4, <4>3
        <5>2. s < pos[g] \/ s >= pos[g]
          BY <1>1 DEF Skills
        <5> QED BY <3>3, <4>1, <4>3, <5>1, <5>2
      <4> QED BY <4>2, <4>3
    <3> QED BY <2>1, <2>2, <3>6 DEF genVars
  <2>3. CASE gpc[g] \notin {"plan", "validate"}
    <3>1. had'[g] = had[g]
      BY <1>3, <2>3 DEF Override
    <3> QED BY <1>1, <2>1, <2>3, <3>1 DEF genVars
  <2> QED BY <2>2, <2>3
<1>4. ASSUME NEW f \in Generations, f # g,
             BeginPlan(f) \/ PlanLook(f) \/ BeginValidation(f) \/ ValidateLook(f)
      PROVE  Inv(g)'
  <2>1. UNCHANGED <<regVars, gpc[g], pos[g], planned[g], used[g], had[g]>>
    BY <1>4 DEF BeginPlan, PlanLook, BeginValidation, ValidateLook, LookAt, obsVars,
                Typed, TypeOK
  <2> QED BY <1>2, <2>1
<1>5. ASSUME BeginPlan(g) \/ BeginValidation(g)
      PROVE  Inv(g)'
  <2>1. /\ gpc'[g] \in {"plan", "validate"} /\ pos'[g] = 1
        /\ had'[g] = ActiveNow /\ UNCHANGED regVars
    BY <1>1, <1>5 DEF BeginPlan, BeginValidation, Typed, TypeOK
  <2>2. \A s \in Skills : ~ (s < 1) /\ Effective(s)' = Effective(s)
    BY <2>1 DEF Skills, Effective, regVars
  <2>3. \A s \in Skills : (Effective(s)' = "active") \in had'[g][s]
    BY <2>1, <2>2 DEF ActiveNow
  <2> QED BY <2>1, <2>2, <2>3
<1>6. ASSUME PlanLook(g) \/ ValidateLook(g)
      PROVE  Inv(g)'
  <2> DEFINE n == pos[g]
             here == IF n \in Skills THEN n ELSE NoSkill
  <2>1. gpc[g] \in {"plan", "validate"} /\ UNCHANGED <<regVars, obsVars>>
    BY <1>6 DEF PlanLook, ValidateLook, LookAt
  <2>2. \A s \in Skills : Effective(s)' = Effective(s) /\ had'[g][s] = had[g][s]
    BY <2>1 DEF Effective, regVars, obsVars
  <2>3. \A s \in Skills : IF s < n THEN FALSE \in had[g][s]
                          ELSE (Effective(s) = "active") \in had[g][s]
    BY <1>1, <2>1
  <2>4. CASE n \in Skills /\ Effective(n) # "active"
    <3>1. gpc'[g] = gpc[g] /\ pos'[g] = n + 1
      BY <1>6, <2>4 DEF PlanLook, ValidateLook, LookAt, Selects, Typed, TypeOK
    <3>2. (Effective(n) = "active") = FALSE
      BY <2>4
    <3>3. FALSE \in had[g][n]
      <4>1. ~ (n < n)
        BY <1>1
      <4> QED BY <2>3, <2>4, <3>2, <4>1
    <3>4. \A s \in Skills : s < n + 1 => s < n \/ s = n
      BY <1>1 DEF Skills
    <3>5. \A s \in Skills : s < n => s < n + 1
      BY <1>1 DEF Skills
    <3>6. \A s \in Skills : IF s < n + 1 THEN FALSE \in had[g][s]
                            ELSE (Effective(s) = "active") \in had[g][s]
      BY <2>3, <3>3, <3>4, <3>5
    <3> HIDE DEF n
    <3> QED BY <2>1, <2>2, <3>1, <3>6
  <2>5. CASE ~ (n \in Skills /\ Effective(n) # "active")
    <3>1. /\ gpc'[g] \in {"generate", "idle"}
          /\ Selected(g)' = here
      BY <1>6, <2>5 DEF PlanLook, ValidateLook, LookAt, Selects, Typed, TypeOK
    <3>2. here # NoSkill => TRUE \in had[g][here]
      <4>1. ASSUME n \in Skills PROVE TRUE \in had[g][n]
        <5>1. (Effective(n) = "active") = TRUE /\ ~ (n < n)
          BY <1>1, <2>5, <4>1
        <5> QED BY <2>3, <4>1, <5>1
      <4> QED BY <4>1
    <3>3. \A s \in Upto(here) \ {here} : s \in Skills /\ s < n
      BY <1>1 DEF Upto, Skills, NoSkill
    <3>4. \A s \in Upto(here) \ {here} : FALSE \in had[g][s]
      BY <2>3, <3>3
    <3>5. had'[g] = had[g]
      BY <2>1 DEF obsVars
    <3> HIDE DEF here, Selected
    <3>6. \A s \in (Upto(Selected(g)) \ {Selected(g)})' : s \in Upto(here) \ {here}
      BY <3>1 DEF Upto
    <3> QED BY <3>1, <3>2, <3>4, <3>5, <3>6
  <2> QED BY <2>4, <2>5
<1>7. ASSUME NEW loaded \in Deployments, NEW pool \in BOOLEAN, Restart(loaded, pool)
      PROVE  Inv(g)'
  <2>1. gpc'[g] = "idle" /\ used'[g] = NoSkill /\ had'[g] = [s \in Skills |-> BOOLEAN]
    BY <1>7 DEF Restart
  <2> QED BY <2>1 DEF Upto
<1>8. ASSUME NEW h \in Handlers, Upsert(h) \/ UpsertFails(h)
      PROVE  Inv(g)'
  BY <1>2, <1>8 DEF Upsert, UpsertFails, genVars, obsVars
<1>9. CASE UNCHANGED vars
  BY <1>2, <1>9 DEF vars, genVars, obsVars
<1> HIDE DEF Inv
<1> QED BY <1>3, <1>4, <1>5, <1>6, <1>7, <1>8, <1>9, NextCases DEF SetOverride, SetUnrecorded

-----------------------------------------------------------------------------
LEMMA InvInit == Init => IInv
<1> SUFFICES ASSUME Init PROVE IInv
  OBVIOUS
<1>1. Typed
  BY TypeInit
<1>2. StampsInv /\ PendingInv
  BY DEF Init, StampsInv, PendingInv
<1>3. DecisionsStand
  BY DEF Init, DecisionsStand, LastRecorded
<1>4. ScanInv /\ WitnessInv
  BY DEF Init, ScanInv, WitnessInv
<1>5. SelectionIsWitnessed
  BY DEF Init, SelectionIsWitnessed, Upto
<1> QED BY <1>1, <1>2, <1>3, <1>4, <1>5 DEF IInv

LEMMA InvNext == IInv /\ [Next]_vars => IInv'
BY TypeNext, StampsNext, PendingNext, DecisionsNext, ScanNext, WitnessNext DEF IInv

\* IInv: the strengthened invariant, for any number of skills, versions, requests
\* and generations, with and without a database.
THEOREM Invariance == Spec => []IInv
BY InvInit, InvNext, PTL DEF Spec

\* DecisionsStand: what is in force, and what a restart with a database would put
\* in force, is a decision that no request answered later has replaced, for any
\* number of skills, versions and requests and any order of their awaits.
THEOREM DecisionsAlwaysStand == Spec => []DecisionsStand
<1>1. IInv => DecisionsStand
  BY DEF IInv
<1> QED BY Invariance, <1>1, PTL

\* SelectionIsWitnessed: no selection takes a skill that was inactive, or passes
\* over one that was active, all the time until it came to it, whatever requests
\* arrive meanwhile.
THEOREM SelectionsAreWitnessed == Spec => []SelectionIsWitnessed
<1>1. IInv => SelectionIsWitnessed
  BY DEF IInv
<1> QED BY Invariance, <1>1, PTL

\* SelectionIsStable: a generation plans with the first active skill and validates
\* with the same, unless a request has since set the status of a skill that the
\* plan had read, for any number of skills, requests and generations.
THEOREM SelectionsAreStable == Spec => []SelectionIsStable
<1>1. IInv => SelectionIsStable
  <2> SUFFICES ASSUME IInv, NEW g \in Generations, ~ stale[g]
               PROVE  LET status(s) == IF override[s] \in Statuses THEN override[s]
                                       ELSE FileStatus[s][version[s]]
                          first == {s \in Skills : /\ status(s) = "active"
                                                   /\ \A t \in 1 .. s - 1 : status(t) # "active"}
                          right == IF first = {} THEN {NoSkill} ELSE first
                      IN  /\ gpc[g] \in {"generate", "validate"} => planned[g] \in right
                          /\ gpc[g] = "idle" => used[g] = planned[g]
    BY DEF SelectionIsStable
  <2> DEFINE status(s) == IF override[s] \in Statuses THEN override[s]
                          ELSE FileStatus[s][version[s]]
             first == {s \in Skills : /\ status(s) = "active"
                                      /\ \A t \in 1 .. s - 1 : status(t) # "active"}
  <2>1. \A s \in Skills : status(s) = Effective(s)
    BY UnsetIsNoStatus DEF Effective, IInv, Typed, TypeOK
  <2>2. \A s \in Skills : \A t \in 1 .. s - 1 : t \in Skills
    BY SkillsAreCounted DEF Skills
  <2>3. \A s \in Skills : s \in first <=> Chosen(s)
    <3>1. \A s \in Skills : Chosen(s) <=> Effective(s) = "active" /\ NoneActive(s)
      BY SkillsAreCounted DEF Chosen, Skills, NoSkill
    <3> QED BY <2>1, <2>2, <3>1 DEF NoneActive
  <2>4. ASSUME Chosen(NoSkill) PROVE first = {}
    <3>1. NoneActive(NSkills + 1)
      BY <2>4, SkillsAreCounted DEF Chosen, Skills, NoSkill
    <3>2. \A s \in Skills : s \in 1 .. (NSkills + 1) - 1
      BY SkillsAreCounted DEF Skills
    <3> QED BY <2>1, <3>1, <3>2 DEF NoneActive
  <2>5. /\ gpc[g] \in {"generate", "validate"} => Chosen(planned[g])
        /\ gpc[g] = "idle" => used[g] = planned[g]
    BY DEF IInv, ScanInv
  <2>6. Chosen(planned[g]) => planned[g] \in Skills \/ planned[g] = NoSkill
    BY DEF Chosen
  <2> HIDE DEF first
  <2>7. Chosen(planned[g]) => planned[g] \in (IF first = {} THEN {NoSkill} ELSE first)
    BY <2>3, <2>4, <2>6
  <2> QED BY <2>5, <2>7 DEF first
<1> QED BY Invariance, <1>1, PTL

=============================================================================

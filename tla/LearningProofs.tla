-------------------------- MODULE LearningProofs --------------------------
(***************************************************************************)
(* Proofs about Learning, for every set of keys, hashes and handlers and   *)
(* every number of runs, and about LearningScan, for every set of files,   *)
(* contents, mappings and handlers and every number of runs and edits.     *)
(*                                                                         *)
(* The first half is about reviews: IInv says which runs there are, who    *)
(* holds which claim, and whom the catalogue names.  The second half is    *)
(* about scans.  HistoryInv says which hashes a handler holds, and is what *)
(* explains the deltas; RescanInv says that a scan reads the first files   *)
(* in order, which two scans of one tree have in common.  Last, the runs   *)
(* of LearningScan are shown to be runs of Learning.                       *)
(***************************************************************************)
EXTENDS Learning, LearningScan, FiniteSetTheorems, WellFoundedInduction, TLAPS

(***************************************************************************)
(* Type correctness.                                                       *)
(***************************************************************************)

LEMMA TypeInit == Init => TypeOK
BY RunsAreBounded DEF Init, TypeOK, NoHashes, Discoveries, Runs

\* The report of a run, completed or not.
LEMMA TypeReport ==
    ASSUME TypeOK, NEW h \in Scanners, NEW outcome \in {"completed", "failed"},
           NEW content \in [Keys -> Hashes \cup {NoHash}],
           Report(h, outcome, content)
    PROVE  TypeOK'
<1>1. clock + 1 \in Runs /\ clock + 1 \in 0 .. MaxRuns
  BY RunsAreBounded DEF TypeOK, Report, Runs
<1>2. /\ clock' \in 0 .. MaxRuns
      /\ runStatus' \in [Runs -> {"running", "completed", "failed"}]
      /\ hashes' \in [Runs -> [Keys -> Hashes \cup {NoHash}]]
      /\ scanPc' \in [Scanners -> {"idle", "save", "audit"}]
      /\ run' \in [Scanners -> 0 .. MaxRuns]
      /\ \A g \in Scanners : scanPc'[g] = "save" => run'[g] \in Runs
  BY <1>1 DEF TypeOK, Report
<1> QED
  BY <1>2 DEF TypeOK, Report, rowVars, reviewVars

\* Both outcomes of run_learning are reports.
LEMMA RunIsReport ==
    ASSUME NEW h \in Scanners,
           \/ \E content \in [Keys -> Hashes \cup {NoHash}] :
                 RunLearning(h, content)
           \/ PathMissing(h)
    PROVE  \E outcome \in {"completed", "failed"},
              content \in [Keys -> Hashes \cup {NoHash}] :
                Report(h, outcome, content)
BY DEF RunLearning, PathMissing, NoHashes

\* A step of a trigger handler.
LEMMA TypeScan ==
    ASSUME TypeOK, NEW h \in Scanners, ScanStep(h)
    PROVE  TypeOK'
<1> USE DEF runVars, rowVars, reviewVars
<1>1. NoHashes \in [Keys -> Hashes \cup {NoHash}]
  BY DEF NoHashes
<1>2. CASE \/ \E content \in [Keys -> Hashes \cup {NoHash}] :
                 RunLearning(h, content)
           \/ PathMissing(h)
  BY <1>2, RunIsReport, TypeReport
<1>3. ASSUME scanPc[h] = "save", Insert(run[h])
      PROVE  /\ saved' \in SUBSET Runs
             /\ status' \in [Discoveries -> {"none", "discovered", "approved",
                                             "rejected"}]
             /\ decidedBy' = decidedBy
  BY <1>3 DEF TypeOK, Insert
<1>4. ASSUME EndRun(h)
      PROVE  /\ scanPc' \in [Scanners -> {"idle", "save", "audit"}]
             /\ run' \in [Scanners -> 0 .. MaxRuns]
             /\ \A g \in Scanners : scanPc'[g] = "save" => run'[g] \in Runs
  BY <1>1, <1>4, RunsAreBounded DEF TypeOK, EndRun
<1>5. CASE SaveReport(h)
  BY <1>3, <1>5 DEF TypeOK, SaveReport
<1>6. CASE SaveFails(h)
  BY <1>3, <1>4, <1>6 DEF TypeOK, SaveFails
<1>7. CASE AuditRun(h)
  BY <1>4, <1>7 DEF TypeOK, AuditRun
<1> QED
  BY <1>2, <1>5, <1>6, <1>7 DEF ScanStep

\* A step of a review handler.
LEMMA TypeReview ==
    ASSUME TypeOK, NEW r \in Reviewers,
           \/ ReviewStep(r)
           \/ \E v \in {"approved", "rejected"}, ids \in SUBSET Discoveries :
                 Request(r, v, ids)
    PROVE  TypeOK'
<1> USE DEF runVars, rowVars, scanVars, reviewVars
<1>1. Matched(r) \in SUBSET Discoveries
  BY DEF TypeOK, Matched
<1>2. ASSUME Judge(r)
      PROVE  /\ status' \in [Discoveries -> {"none", "discovered", "approved",
                                             "rejected"}]
             /\ decidedBy' \in [Discoveries -> Reviewers \cup {Nobody}]
             /\ saved' = saved
  BY <1>2 DEF TypeOK, Judge
<1>3. ASSUME End(r)
      PROVE  /\ pc' \in [Reviewers -> {"idle", "update", "promote"}]
             /\ verdict' \in [Reviewers -> {"approved", "rejected"}]
             /\ request' \in [Reviewers -> SUBSET Discoveries]
             /\ claim' \in [Reviewers -> SUBSET Discoveries]
             /\ todo' \in [Reviewers -> SUBSET Discoveries]
  BY <1>3 DEF TypeOK, End
<1>4. ASSUME NEW v \in {"approved", "rejected"}, NEW ids \in SUBSET Discoveries,
             Request(r, v, ids)
      PROVE  TypeOK'
  BY <1>4 DEF TypeOK, Request
<1>5. CASE Decide(r)
  BY <1>1, <1>2, <1>5 DEF TypeOK, Decide, ToPromote
<1>6. CASE NotFound(r)
  BY <1>3, <1>6 DEF TypeOK, NotFound
<1>7. CASE DecideFails(r)
  BY <1>1, <1>2, <1>3, <1>7 DEF TypeOK, DecideFails
<1>8. ASSUME NEW d \in Discoveries, Promote(r, d)
      PROVE  TypeOK'
  <2>1. catalogue' \in [Discoveries -> Reviewers \cup {Nobody}]
    BY <1>8 DEF TypeOK, Promote
  <2>2. todo' \in [Reviewers -> SUBSET Discoveries]
    BY <1>8 DEF TypeOK, Promote
  <2> QED
    BY <1>8, <2>1, <2>2 DEF TypeOK, Promote
<1>9. ASSUME NEW d \in Discoveries, PromoteFails(r, d)
      PROVE  TypeOK'
  <2>1. catalogue' \in [Discoveries -> Reviewers \cup {Nobody}]
    BY <1>9 DEF TypeOK, PromoteFails
  <2>2. failed' \in SUBSET Discoveries
    BY <1>9 DEF TypeOK, PromoteFails
  <2> QED
    BY <1>3, <1>9, <2>1, <2>2 DEF TypeOK, PromoteFails
<1>10. Event(r) \subseteq {"approved", "rejected"} \X Reviewers \X Discoveries
  BY DEF TypeOK, Event
<1>11. CASE AuditAndReply(r)
  BY <1>3, <1>10, <1>11 DEF TypeOK, AuditAndReply
<1>12. CASE AuditFails(r)
  BY <1>3, <1>10, <1>12 DEF TypeOK, AuditFails
<1> QED
  BY <1>4, <1>5, <1>6, <1>7, <1>8, <1>9, <1>11, <1>12 DEF ReviewStep

LEMMA TypeRestart == TypeOK /\ Restart => TypeOK'
<1> SUFFICES ASSUME TypeOK, Restart
             PROVE  TypeOK'
  OBVIOUS
<1>1. failed' \in SUBSET Discoveries
  BY DEF TypeOK, Restart
<1> QED
  BY <1>1, RunsAreBounded DEF TypeOK, Restart, runVars, rowVars

LEMMA TypeStep == TypeOK /\ [Next]_vars => TypeOK'
<1>1. TypeOK /\ UNCHANGED vars => TypeOK'
  BY DEF TypeOK, vars, runVars, rowVars, scanVars, reviewVars
<1> QED
  BY <1>1, TypeScan, TypeReview, TypeRestart DEF Next

\* Every variable keeps its type.
THEOREM TypeCorrect == Spec => []TypeOK
<1> QED
  BY TypeInit, TypeStep, PTL DEF Spec

(***************************************************************************)
(* The inductive invariant.                                                *)
(***************************************************************************)

\* A discovery has a row only in a saved run, and a report that is about to be
\* saved is one handler's alone: its rows are new.
RunsInv ==
    /\ \A d \in Discoveries : status[d] # "none" => d[1] \in saved
    /\ \A n \in saved : n <= clock
    /\ \A h \in Scanners : scanPc[h] = "save" =>
           /\ run[h] <= clock
           /\ run[h] \notin saved
           /\ \A g \in Scanners : scanPc[g] = "save" /\ run[g] = run[h] => g = h

\* What a review handler has claimed stays decided as it decided.
ClaimInv ==
    \A r \in Reviewers :
        /\ todo[r] \subseteq claim[r]
        /\ pc[r] # "promote" => claim[r] = {}
        /\ \A d \in claim[r] : status[d] = verdict[r] /\ decidedBy[d] = r
        /\ verdict[r] = "approved" => \A d \in claim[r] \ todo[r] : Catalogued(d)
        /\ pc[r] = "promote" => /\ verdict[r] = "rejected" => todo[r] = {}
                                /\ IsSingle(request[r]) => request[r] = claim[r]

CatalogueInv ==
    \A d \in Discoveries :
        catalogue[d] # Nobody => status[d] = "approved" /\ decidedBy[d] = catalogue[d]

IInv ==
    /\ TypeOK
    /\ RunsInv /\ ClaimInv /\ CatalogueInv
    /\ GrantedIsCatalogued /\ NothingForgotten /\ AuditIsTruthful

LEMMA IInvInit == Init => IInv
BY TypeInit
DEF Init, IInv, RunsInv, ClaimInv, CatalogueInv, GrantedIsCatalogued,
    NothingForgotten, AuditIsTruthful

-----------------------------------------------------------------------------
\* The parts of the invariant about reviews survive a step that decides
\* nothing, and leaves the content of recorded discoveries alone.
LEMMA ReviewsUndisturbed ==
    ASSUME IInv,
           UNCHANGED <<decidedBy, catalogue, audited, reviewVars, granted, failed>>,
           \A d \in Discoveries :
               status[d] # "none" => /\ status'[d] = status[d]
                                     /\ ShouldPromote(d)' = ShouldPromote(d),
           \A d \in Discoveries :
               status[d] = "none" => status'[d] \in {"none", "discovered"}
    PROVE  /\ ClaimInv' /\ CatalogueInv' /\ GrantedIsCatalogued'
           /\ NothingForgotten' /\ AuditIsTruthful'
<1> USE DEF IInv, reviewVars
<1>1. \A d \in Discoveries :
          status[d] # "none" => (Catalogued(d)' <=> Catalogued(d))
  BY DEF Catalogued
<1>2. ClaimInv'
  <2>1. \A r \in Reviewers : \A d \in claim[r] :
            d \in Discoveries /\ status[d] # "none"
    BY DEF ClaimInv, TypeOK
  <2> QED
    BY <1>1, <2>1 DEF ClaimInv, IsSingle
<1>3. CatalogueInv'
  BY DEF CatalogueInv
<1>4. GrantedIsCatalogued'
  <2>1. \A d \in granted : d \in Discoveries /\ status[d] # "none"
    BY DEF GrantedIsCatalogued, TypeOK
  <2> QED
    BY <1>1, <2>1 DEF GrantedIsCatalogued
<1>5. NothingForgotten'
  BY <1>1 DEF NothingForgotten
<1>6. AuditIsTruthful'
  <2>1. \A e \in audited :
            e \in {"approved", "rejected"} \X Reviewers \X Discoveries
    BY DEF TypeOK
  <2>2. \A e \in audited : e[1] \in {"approved", "rejected"} /\ e[3] \in Discoveries
    BY <2>1
  <2>3. \A e \in audited : status[e[3]] # "none"
    BY <2>2 DEF AuditIsTruthful
  <2> QED
    BY <2>2, <2>3 DEF AuditIsTruthful
<1> QED
  BY <1>2, <1>3, <1>4, <1>5, <1>6

\* Saving a report creates rows that were not there.
LEMMA InsertIsFresh ==
    ASSUME IInv, NEW h \in Scanners, scanPc[h] = "save", Insert(run[h])
    PROVE  /\ \A d \in Discoveries : status[d] # "none" => status'[d] = status[d]
           /\ \A d \in Discoveries :
                 status[d] = "none" => status'[d] \in {"none", "discovered"}
           /\ \A d \in Discoveries : status'[d] # "none" => d[1] \in saved'
BY DEF IInv, RunsInv, TypeOK, Insert

LEMMA InvScan ==
    ASSUME IInv, NEW h \in Scanners, ScanStep(h), TypeOK'
    PROVE  IInv'
<1> USE DEF runVars, rowVars, scanVars, reviewVars
<1> DEFINE Undisturbed ==
      \A d \in Discoveries :
          status[d] # "none" => /\ status'[d] = status[d]
                                /\ ShouldPromote(d)' = ShouldPromote(d)
<1>1. CASE \/ \E content \in [Keys -> Hashes \cup {NoHash}] :
                 RunLearning(h, content)
           \/ PathMissing(h)
  <2>1. PICK outcome \in {"completed", "failed"},
             content \in [Keys -> Hashes \cup {NoHash}] :
                Report(h, outcome, content)
    BY <1>1, RunIsReport
  <2>2. clock \in Nat /\ clock' = clock + 1
    BY <2>1 DEF Report, IInv, TypeOK
  <2>3. \A n \in Runs : n <= clock => hashes'[n] = hashes[n]
    BY <2>1, <2>2 DEF Report, IInv, TypeOK, Runs
  <2>4. RunsInv'
    BY <2>1, <2>2 DEF IInv, RunsInv, Report, TypeOK, Runs
  <2>5. \A d \in Discoveries : status[d] # "none" => d[1] \in Runs /\ d[1] <= clock
    BY DEF IInv, RunsInv, Discoveries
  <2>6. Undisturbed
    BY <2>1, <2>3, <2>5 DEF Report, ShouldPromote
  <2> QED
    BY <2>1, <2>4, <2>6, ReviewsUndisturbed DEF IInv, Report
<1>2. CASE SaveReport(h) \/ SaveFails(h)
  <2>1. scanPc[h] = "save" /\ scanPc'[h] # "save"
    BY <1>2 DEF SaveReport, SaveFails, EndRun, IInv, TypeOK
  <2>2. \A g \in Scanners : g # h => scanPc'[g] = scanPc[g] /\ run'[g] = run[g]
    BY <1>2 DEF SaveReport, SaveFails, EndRun, IInv, TypeOK
  <2>3. CASE Insert(run[h])
    <3>1. UNCHANGED <<clock, hashes, decidedBy, catalogue, audited, reviewVars,
                      granted, failed>>
      BY <1>2, <2>3 DEF SaveReport, SaveFails, Insert
    <3>2. saved' = saved \cup {run[h]}
      BY <2>3 DEF Insert
    <3>3. RunsInv'
      BY <2>3, <2>1, <2>2, <3>1, <3>2, InsertIsFresh DEF IInv, RunsInv
    <3>4. Undisturbed
      BY <2>3, <2>1, <3>1, InsertIsFresh DEF ShouldPromote
    <3> QED
      BY <2>3, <2>1, <3>1, <3>3, <3>4, InsertIsFresh, ReviewsUndisturbed DEF IInv
  <2>4. CASE UNCHANGED rowVars
    <3>1. UNCHANGED <<clock, saved, status>>
      BY <1>2, <2>4 DEF SaveReport, SaveFails
    <3>2. RunsInv'
      BY <2>1, <2>2, <3>1 DEF IInv, RunsInv
    <3>3. Undisturbed
      BY <1>2, <2>4 DEF SaveReport, SaveFails, ShouldPromote
    <3> QED
      BY <1>2, <2>4, <3>2, <3>3, ReviewsUndisturbed
      DEF IInv, SaveReport, SaveFails
  <2> QED
    BY <1>2, <2>3, <2>4 DEF SaveReport, SaveFails
<1>3. CASE AuditRun(h)
  <2>1. RunsInv'
    BY <1>3 DEF IInv, RunsInv, AuditRun, EndRun, TypeOK
  <2>2. Undisturbed
    BY <1>3 DEF AuditRun, ShouldPromote
  <2> QED
    BY <1>3, <2>1, <2>2, ReviewsUndisturbed DEF IInv, AuditRun
<1> QED
  BY <1>1, <1>2, <1>3 DEF ScanStep

-----------------------------------------------------------------------------
\* A review handler neither saves runs nor makes rows.
LEMMA RunsUndisturbed ==
    ASSUME IInv, UNCHANGED <<runVars, saved, scanVars>>,
           \A d \in Discoveries : status[d] = "none" => status'[d] = "none"
    PROVE  RunsInv'
BY DEF IInv, RunsInv, runVars, scanVars

\* What the UPDATE of a decision does, and that nothing decided is touched.
LEMMA JudgeEffect ==
    ASSUME IInv, NEW r \in Reviewers, Judge(r)
    PROVE  /\ saved' = saved
           /\ \A d \in Matched(r) : /\ d \in Discoveries /\ status[d] = "discovered"
                                   /\ status'[d] = verdict[r] /\ decidedBy'[d] = r
           /\ \A d \in Discoveries \ Matched(r) :
                 status'[d] = status[d] /\ decidedBy'[d] = decidedBy[d]
           /\ \A d \in Discoveries :
                 status[d] # "discovered" =>
                     status'[d] = status[d] /\ decidedBy'[d] = decidedBy[d]
           /\ \A d \in Discoveries : status[d] = "none" => status'[d] = "none"
BY DEF IInv, TypeOK, Judge, Matched, Open

\* Decisions already audited, catalogued, granted or claimed survive it.
LEMMA JudgeKeeps ==
    ASSUME IInv, NEW r \in Reviewers, Judge(r), UNCHANGED <<hashes, catalogue>>
    PROVE  /\ CatalogueInv'
           /\ \A d \in granted : status'[d] = "approved" /\ Catalogued(d)'
           /\ \A e \in audited : status'[e[3]] = e[1] /\ decidedBy'[e[3]] = e[2]
           /\ \A q \in Reviewers : \A d \in claim[q] :
                 status'[d] = verdict[q] /\ decidedBy'[d] = q
<1>1. CatalogueInv'
  BY JudgeEffect DEF IInv, CatalogueInv
<1>2. \A d \in granted : status'[d] = "approved" /\ Catalogued(d)'
  <2>1. \A d \in granted : d \in Discoveries
    BY DEF IInv, TypeOK
  <2> QED
    BY <2>1, JudgeEffect DEF IInv, GrantedIsCatalogued, Catalogued, ShouldPromote
<1>3. \A e \in audited : status'[e[3]] = e[1] /\ decidedBy'[e[3]] = e[2]
  <2>1. \A e \in audited :
            e \in {"approved", "rejected"} \X Reviewers \X Discoveries
    BY DEF IInv, TypeOK
  <2>2. \A e \in audited : e[1] \in {"approved", "rejected"} /\ e[3] \in Discoveries
    BY <2>1
  <2> QED
    BY <2>2, JudgeEffect DEF IInv, AuditIsTruthful
<1>4. \A q \in Reviewers : \A d \in claim[q] :
          status'[d] = verdict[q] /\ decidedBy'[d] = q
  <2>1. \A q \in Reviewers : \A d \in claim[q] : d \in Discoveries
    BY DEF IInv, TypeOK
  <2>2. \A q \in Reviewers : verdict[q] \in {"approved", "rejected"}
    BY DEF IInv, TypeOK
  <2> QED
    BY <2>1, <2>2, JudgeEffect DEF IInv, ClaimInv
<1> QED
  BY <1>1, <1>2, <1>3, <1>4

\* A handler that ends drops its claim and leaves the others theirs.
LEMMA EndEffect ==
    ASSUME IInv, NEW r \in Reviewers, End(r)
    PROVE  /\ pc'[r] = "idle" /\ claim'[r] = {} /\ todo'[r] = {}
           /\ \A q \in Reviewers \ {r} :
                 /\ pc'[q] = pc[q] /\ verdict'[q] = verdict[q]
                 /\ request'[q] = request[q]
                 /\ claim'[q] = claim[q] /\ todo'[q] = todo[q]
BY DEF IInv, TypeOK, End

\* The claims of the others, when catalogue entries are only added.
LEMMA ClaimsAfterEnd ==
    ASSUME IInv, NEW r \in Reviewers, End(r),
           \A q \in Reviewers : \A d \in claim[q] :
               /\ status'[d] = verdict[q] /\ decidedBy'[d] = q
               /\ Catalogued(d) => Catalogued(d)'
    PROVE  ClaimInv'
BY EndEffect DEF IInv, ClaimInv, IsSingle

LEMMA InvRequest ==
    ASSUME IInv, NEW r \in Reviewers, NEW v, NEW ids, Request(r, v, ids), TypeOK'
    PROVE  IInv'
<1> USE DEF runVars, rowVars, scanVars, reviewVars
<1>1. RunsInv'
  BY RunsUndisturbed DEF Request
<1>2. \A d : Catalogued(d)' <=> Catalogued(d)
  BY DEF Request, Catalogued, ShouldPromote
<1>3. claim[r] = {} /\ todo[r] = {}
  BY DEF Request, IInv, ClaimInv
<1>4. ClaimInv'
  BY <1>2, <1>3 DEF Request, IInv, ClaimInv, TypeOK, IsSingle
<1>5. CatalogueInv' /\ GrantedIsCatalogued' /\ NothingForgotten' /\ AuditIsTruthful'
  BY <1>2 DEF Request, IInv, CatalogueInv, GrantedIsCatalogued,
              NothingForgotten, AuditIsTruthful
<1> QED
  BY <1>1, <1>4, <1>5 DEF IInv

LEMMA InvDecide ==
    ASSUME IInv, NEW r \in Reviewers, Decide(r), TypeOK'
    PROVE  IInv'
<1> USE DEF runVars, rowVars, scanVars, reviewVars
<1>1. Judge(r) /\ UNCHANGED <<hashes, catalogue>>
  BY DEF Decide
<1>2. RunsInv'
  BY <1>1, JudgeEffect, RunsUndisturbed DEF Decide
<1>3. \A d : Catalogued(d)' <=> Catalogued(d)
  BY DEF Decide, Catalogued, ShouldPromote
<1>4. claim[r] = {} /\ todo[r] = {}
  BY DEF Decide, IInv, ClaimInv
<1>5. /\ pc'[r] = "promote" /\ request'[r] = request[r]
      /\ verdict'[r] = verdict[r] /\ verdict[r] \in {"approved", "rejected"}
      /\ claim'[r] = Matched(r)
      /\ verdict[r] = "approved" => todo'[r] = Matched(r)
      /\ verdict[r] = "rejected" => todo'[r] = {}
  BY DEF Decide, IInv, TypeOK, ToPromote
<1>6. \A q \in Reviewers \ {r} :
          /\ pc'[q] = pc[q] /\ verdict'[q] = verdict[q]
          /\ request'[q] = request[q]
          /\ claim'[q] = claim[q] /\ todo'[q] = todo[q]
  BY DEF Decide, IInv, TypeOK
<1>7. IsSingle(request[r]) => request[r] = Matched(r)
  BY DEF Decide, GoesOn, Matched, IsSingle
<1>8. ClaimInv'
  <2> SUFFICES ASSUME NEW q \in Reviewers
               PROVE  /\ todo'[q] \subseteq claim'[q]
                      /\ pc'[q] # "promote" => claim'[q] = {}
                      /\ \A d \in claim'[q] :
                            status'[d] = verdict'[q] /\ decidedBy'[d] = q
                      /\ verdict'[q] = "approved" =>
                            \A d \in claim'[q] \ todo'[q] : Catalogued(d)'
                      /\ pc'[q] = "promote" =>
                            /\ verdict'[q] = "rejected" => todo'[q] = {}
                            /\ IsSingle(request'[q]) => request'[q] = claim'[q]
    BY DEF ClaimInv, IsSingle
  <2>1. CASE q = r
    BY <1>1, <1>5, <1>7, <2>1, JudgeEffect
  <2>2. CASE q # r
    BY <1>1, <1>3, <1>6, <2>2, JudgeKeeps DEF IInv, ClaimInv
  <2> QED
    BY <2>1, <2>2
<1>9. CatalogueInv' /\ GrantedIsCatalogued' /\ AuditIsTruthful'
  BY <1>1, JudgeKeeps DEF Decide, GrantedIsCatalogued, AuditIsTruthful
<1>10. NothingForgotten'
  BY <1>1, <1>3, <1>4, <1>5, <1>6, JudgeEffect
  DEF Decide, IInv, NothingForgotten
<1> QED
  BY <1>2, <1>8, <1>9, <1>10 DEF IInv

\* A decision that fails leaves rows nobody will promote, or none.
LEMMA InvDecideEnds ==
    ASSUME IInv, NEW r \in Reviewers, NotFound(r) \/ DecideFails(r), TypeOK'
    PROVE  IInv'
<1> USE DEF runVars, rowVars, scanVars, reviewVars
<1>1. /\ End(r) /\ todo[r] = {}
      /\ UNCHANGED <<runVars, scanVars, catalogue, audited, granted>>
  BY DEF NotFound, DecideFails, IInv, ClaimInv
<1>2. \A d : Catalogued(d)' <=> Catalogued(d)
  BY <1>1 DEF Catalogued, ShouldPromote
<1>3. CASE UNCHANGED <<rowVars, failed>>
  <2>1. RunsInv'
    BY <1>1, <1>3, RunsUndisturbed
  <2>2. ClaimInv'
    BY <1>1, <1>2, <1>3, ClaimsAfterEnd DEF IInv, ClaimInv
  <2>3. NothingForgotten'
    BY <1>1, <1>2, <1>3, EndEffect DEF IInv, NothingForgotten
  <2> QED
    BY <1>1, <1>2, <1>3, <2>1, <2>2, <2>3
    DEF IInv, CatalogueInv, GrantedIsCatalogued, AuditIsTruthful
<1>4. CASE Judge(r) /\ failed' = failed \cup Matched(r)
  <2>1. RunsInv'
    BY <1>1, <1>4, JudgeEffect, RunsUndisturbed
  <2>2. ClaimInv'
    BY <1>1, <1>2, <1>4, JudgeKeeps, ClaimsAfterEnd
  <2>3. NothingForgotten'
    BY <1>1, <1>2, <1>4, JudgeEffect, EndEffect DEF IInv, NothingForgotten
  <2> QED
    BY <1>1, <1>4, <2>1, <2>2, <2>3, JudgeKeeps
    DEF IInv, GrantedIsCatalogued, AuditIsTruthful
<1> QED
  BY <1>3, <1>4 DEF NotFound, DecideFails

\* Catalogue entries are added in the name of the reviewer who claimed them.
LEMMA PublishKeeps ==
    ASSUME IInv, NEW r \in Reviewers, NEW d \in todo[r], pc[r] = "promote",
           UNCHANGED <<runVars, rowVars>>,
           \/ UNCHANGED catalogue
           \/ ShouldPromote(d) /\ catalogue' = [catalogue EXCEPT ![d] = r]
    PROVE  /\ CatalogueInv'
           /\ \A e \in Discoveries : Catalogued(e) => Catalogued(e)'
<1> USE DEF runVars, rowVars
<1>1. d \in Discoveries /\ status[d] = "approved" /\ decidedBy[d] = r
  BY DEF IInv, ClaimInv, TypeOK
<1>2. \A e \in Discoveries :
          catalogue'[e] = catalogue[e] \/ (e = d /\ catalogue'[e] = r)
  BY <1>1 DEF IInv, TypeOK
<1>3. CatalogueInv'
  BY <1>1, <1>2 DEF IInv, CatalogueInv
<1>4. \A e \in Discoveries : Catalogued(e) => Catalogued(e)'
  BY <1>2, NamesDiffer DEF Catalogued, ShouldPromote
<1> QED
  BY <1>3, <1>4

LEMMA InvPromote ==
    ASSUME IInv, NEW r \in Reviewers, NEW d \in Discoveries, Promote(r, d), TypeOK'
    PROVE  IInv'
<1> USE DEF runVars, rowVars, scanVars, reviewVars
<1>1. CatalogueInv' /\ \A e \in Discoveries : Catalogued(e) => Catalogued(e)'
  BY PublishKeeps DEF Promote
<1>2. Catalogued(d)'
  BY NamesDiffer DEF Promote, Catalogued, ShouldPromote, IInv, TypeOK
<1>3. RunsInv'
  BY RunsUndisturbed DEF Promote
<1>4. todo'[r] = todo[r] \ {d} /\ \A q \in Reviewers \ {r} : todo'[q] = todo[q]
  BY DEF Promote, IInv, TypeOK
<1>5. \A q \in Reviewers : \A e \in claim[q] : e \in Discoveries
  BY DEF IInv, TypeOK
<1>6. ClaimInv'
  BY <1>1, <1>2, <1>4, <1>5 DEF Promote, IInv, ClaimInv, IsSingle
<1>7. GrantedIsCatalogued'
  BY <1>1 DEF Promote, IInv, GrantedIsCatalogued, TypeOK
<1>8. NothingForgotten'
  BY <1>1, <1>2, <1>4 DEF Promote, IInv, NothingForgotten
<1>9. AuditIsTruthful'
  BY DEF Promote, IInv, AuditIsTruthful
<1> QED
  BY <1>1, <1>3, <1>6, <1>7, <1>8, <1>9 DEF IInv

LEMMA InvPromoteFails ==
    ASSUME IInv, NEW r \in Reviewers, NEW d \in Discoveries, PromoteFails(r, d),
           TypeOK'
    PROVE  IInv'
<1> USE DEF runVars, rowVars, scanVars
<1>1. CatalogueInv' /\ \A e \in Discoveries : Catalogued(e) => Catalogued(e)'
  BY PublishKeeps DEF PromoteFails
<1>2. RunsInv'
  BY RunsUndisturbed DEF PromoteFails
<1>3. \A q \in Reviewers : \A e \in claim[q] : e \in Discoveries
  BY DEF IInv, TypeOK
<1>4. ClaimInv'
  <2>1. \A q \in Reviewers : \A e \in claim[q] :
            status'[e] = verdict[q] /\ decidedBy'[e] = q
    BY DEF PromoteFails, IInv, ClaimInv
  <2> QED
    BY <1>1, <1>3, <2>1, ClaimsAfterEnd DEF PromoteFails
<1>5. GrantedIsCatalogued'
  BY <1>1 DEF PromoteFails, IInv, GrantedIsCatalogued, TypeOK
<1>6. NothingForgotten'
  BY <1>1, EndEffect DEF PromoteFails, IInv, NothingForgotten
<1>7. AuditIsTruthful'
  BY DEF PromoteFails, IInv, AuditIsTruthful
<1> QED
  BY <1>1, <1>2, <1>4, <1>5, <1>6, <1>7 DEF IInv

\* The audit event tells what was claimed; the reply grants what was promoted.
LEMMA InvAudit ==
    ASSUME IInv, NEW r \in Reviewers, AuditAndReply(r) \/ AuditFails(r), TypeOK'
    PROVE  IInv'
<1> USE DEF runVars, rowVars, scanVars
<1>1. /\ End(r) /\ pc[r] = "promote" /\ todo[r] = {}
      /\ UNCHANGED <<runVars, rowVars, catalogue, scanVars, failed>>
      /\ audited' \in {audited, audited \cup Event(r)}
      /\ \/ granted' = granted
         \/ verdict[r] = "approved" /\ granted' = granted \cup claim[r]
  BY DEF AuditAndReply, AuditFails
<1>2. \A d : Catalogued(d)' <=> Catalogued(d)
  BY <1>1 DEF Catalogued, ShouldPromote
<1>3. RunsInv' /\ CatalogueInv'
  BY <1>1, RunsUndisturbed DEF IInv, CatalogueInv
<1>4. ClaimInv'
  BY <1>1, <1>2, ClaimsAfterEnd DEF IInv, ClaimInv
<1>5. GrantedIsCatalogued'
  BY <1>1, <1>2 DEF IInv, ClaimInv, GrantedIsCatalogued
<1>6. NothingForgotten'
  BY <1>1, <1>2, EndEffect DEF IInv, NothingForgotten
<1>7. AuditIsTruthful'
  <2>1. \A e \in Event(r) : status[e[3]] = e[1] /\ decidedBy[e[3]] = e[2]
    BY <1>1 DEF Event, IInv, ClaimInv
  <2> QED
    BY <1>1, <2>1 DEF IInv, AuditIsTruthful
<1> QED
  BY <1>3, <1>4, <1>5, <1>6, <1>7 DEF IInv

\* A restart loses the handlers; what they had still to promote has failed.
LEMMA InvRestart ==
    ASSUME IInv, Restart, TypeOK'
    PROVE  IInv'
<1> USE DEF runVars, rowVars
<1>1. RunsInv'
  BY DEF Restart, IInv, RunsInv
<1>2. \A d : Catalogued(d)' <=> Catalogued(d)
  BY DEF Restart, Catalogued, ShouldPromote
<1>3. ClaimInv'
  BY DEF Restart, ClaimInv
<1>4. \A r \in Reviewers : todo[r] \subseteq failed'
  BY DEF Restart
<1>5. CatalogueInv' /\ GrantedIsCatalogued' /\ NothingForgotten' /\ AuditIsTruthful'
  BY <1>2, <1>4 DEF Restart, IInv, CatalogueInv, GrantedIsCatalogued,
                    NothingForgotten, AuditIsTruthful
<1> QED
  BY <1>1, <1>3, <1>5 DEF IInv

LEMMA IInvStep == IInv /\ [Next]_vars => IInv'
<1> SUFFICES ASSUME IInv, [Next]_vars
             PROVE  IInv'
  OBVIOUS
<1>1. TypeOK'
  BY TypeStep DEF IInv
<1>2. CASE UNCHANGED vars
  BY <1>2 DEF IInv, vars, runVars, rowVars, scanVars, reviewVars, TypeOK,
              RunsInv, ClaimInv, CatalogueInv, GrantedIsCatalogued,
              NothingForgotten, AuditIsTruthful, Catalogued, ShouldPromote,
              IsSingle
<1>3. ASSUME NEW r \in Reviewers, ReviewStep(r)
      PROVE  IInv'
  BY <1>1, <1>3, InvDecide, InvDecideEnds, InvPromote, InvPromoteFails, InvAudit
  DEF ReviewStep
<1> QED
  BY <1>1, <1>2, <1>3, InvScan, InvRequest, InvRestart DEF Next

THEOREM Invariance == Spec => []IInv
<1> QED
  BY IInvInit, IInvStep, PTL DEF Spec

\* An approval answered 200 is in force, however many reviewers race.
THEOREM GrantsAreCatalogued == Spec => []GrantedIsCatalogued
<1>1. IInv => GrantedIsCatalogued
  BY DEF IInv
<1> QED
  BY <1>1, Invariance, PTL

\* Only a failed request can leave an approved discovery out of the catalogue.
THEOREM NoneForgotten == Spec => []NothingForgotten
<1>1. IInv => NothingForgotten
  BY DEF IInv
<1> QED
  BY <1>1, Invariance, PTL

\* The audit trail of single decisions is true, and stays true.
THEOREM AuditTrailIsTruthful == Spec => []AuditIsTruthful
<1>1. IInv => AuditIsTruthful
  BY DEF IInv
<1> QED
  BY <1>1, Invariance, PTL

(***************************************************************************)
(* The specification implements DiscoveryLifecycle.                        *)
(***************************************************************************)

LEMMA LifecycleInit == Init => Lifecycle!Init
BY DEF Init, Lifecycle!Init

LEMMA LifecycleStutter ==
    UNCHANGED <<rowVars, catalogue>> => UNCHANGED Lifecycle!vars
BY DEF rowVars, Lifecycle!vars

\* A report that is saved records its discoveries.
LEMMA LifecycleInsert ==
    ASSUME IInv, NEW h \in Scanners, scanPc[h] = "save", Insert(run[h]),
           UNCHANGED catalogue
    PROVE  Lifecycle!Next
<1> DEFINE D == {d \in Discoveries : d[1] = run[h] /\ hashes[run[h]][d[2]] # NoHash}
<1>1. \A d \in D : status[d] = "none"
  BY DEF IInv, RunsInv
<1>2. status' = [d \in Discoveries |-> IF d \in D THEN "discovered" ELSE status[d]]
  BY DEF Insert
<1>3. decidedBy' = decidedBy
  BY DEF Insert
<1>4. D \in SUBSET Discoveries
  OBVIOUS
<1> HIDE DEF D
<1>5. Lifecycle!Record(D)
  BY <1>1, <1>2, <1>3 DEF Lifecycle!Record
<1> QED
  BY <1>4, <1>5 DEF Lifecycle!Next

\* The UPDATE decides what it matches.
LEMMA LifecycleJudge ==
    ASSUME IInv, NEW r \in Reviewers, Judge(r), UNCHANGED catalogue
    PROVE  Lifecycle!Next
<1>1. PICK D \in SUBSET Discoveries : D = Matched(r)
  BY DEF IInv, TypeOK, Matched
<1>2. PICK v \in {"approved", "rejected"} : v = verdict[r]
  BY DEF IInv, TypeOK
<1>3. \A d \in D : status[d] = "discovered"
  BY <1>1 DEF Matched, Open
<1>4. Lifecycle!Decide(r, D, v)
  BY <1>1, <1>2, <1>3 DEF Lifecycle!Decide, Judge
<1> QED
  BY <1>4 DEF Lifecycle!Next

\* An upsert publishes an approved discovery.
LEMMA LifecyclePublish ==
    ASSUME IInv, NEW r \in Reviewers, NEW d \in Discoveries, d \in todo[r],
           UNCHANGED rowVars, catalogue' = [catalogue EXCEPT ![d] = r]
    PROVE  Lifecycle!Next
<1>1. pc[r] = "promote" /\ verdict[r] = "approved"
  BY DEF IInv, ClaimInv, TypeOK
<1>2. status[d] = "approved" /\ decidedBy[d] = r
  BY <1>1 DEF IInv, ClaimInv
<1>3. Lifecycle!Publish(d)
  BY <1>2 DEF Lifecycle!Publish, rowVars
<1> QED
  BY <1>3 DEF Lifecycle!Next

LEMMA LifecycleStep ==
    IInv /\ [Next]_vars => [Lifecycle!Next]_(Lifecycle!vars)
<1> SUFFICES ASSUME IInv, [Next]_vars
             PROVE  [Lifecycle!Next]_(Lifecycle!vars)
  OBVIOUS
<1>1. ASSUME NEW h \in Scanners, ScanStep(h)
      PROVE  [Lifecycle!Next]_(Lifecycle!vars)
  <2>1. UNCHANGED catalogue
    BY <1>1 DEF ScanStep, RunLearning, PathMissing, Report,
                SaveReport, SaveFails, AuditRun
  <2>2. UNCHANGED rowVars \/ (scanPc[h] = "save" /\ Insert(run[h]))
    BY <1>1 DEF ScanStep, RunLearning, PathMissing, Report,
                SaveReport, SaveFails, AuditRun
  <2> QED
    BY <2>1, <2>2, LifecycleInsert, LifecycleStutter
<1>2. ASSUME NEW r \in Reviewers, Decide(r) \/ NotFound(r) \/ DecideFails(r)
      PROVE  [Lifecycle!Next]_(Lifecycle!vars)
  <2>1. UNCHANGED catalogue /\ (UNCHANGED rowVars \/ Judge(r))
    BY <1>2 DEF Decide, NotFound, DecideFails
  <2> QED
    BY <2>1, LifecycleJudge, LifecycleStutter
<1>3. ASSUME NEW r \in Reviewers, NEW d \in Discoveries,
             Promote(r, d) \/ PromoteFails(r, d)
      PROVE  [Lifecycle!Next]_(Lifecycle!vars)
  <2>1. /\ d \in todo[r] /\ UNCHANGED rowVars
        /\ UNCHANGED catalogue \/ catalogue' = [catalogue EXCEPT ![d] = r]
    BY <1>3 DEF Promote, PromoteFails
  <2> QED
    BY <2>1, LifecyclePublish, LifecycleStutter
<1>4. ASSUME NEW r \in Reviewers, AuditAndReply(r) \/ AuditFails(r)
      PROVE  [Lifecycle!Next]_(Lifecycle!vars)
  BY <1>4, LifecycleStutter DEF AuditAndReply, AuditFails
<1>5. ASSUME NEW r \in Reviewers, NEW v, NEW ids, Request(r, v, ids)
      PROVE  [Lifecycle!Next]_(Lifecycle!vars)
  BY <1>5, LifecycleStutter DEF Request
<1>6. CASE Restart \/ UNCHANGED vars
  BY <1>6, LifecycleStutter DEF Restart, vars
<1> QED
  BY <1>1, <1>2, <1>3, <1>4, <1>5, <1>6 DEF Next, ReviewStep

\* A discovery is decided once, and catalogued in the name of its approver.
THEOREM LearningImplementsLifecycle == Spec => KeepsLifecycle
<1> QED
  BY LifecycleInit, LifecycleStep, Invariance, PTL
  DEF Spec, KeepsLifecycle, Lifecycle!Spec
(***************************************************************************)
(* Sequences, maxima, directories and hashes.                              *)
(***************************************************************************)

LEMMA RangeIsTyped ==
    ASSUME NEW S, NEW s \in Seq(S)
    PROVE  Range(s) \subseteq S
BY DEF Range

LEMMA AppendedRange ==
    ASSUME NEW S, NEW s \in Seq(S), NEW x \in S
    PROVE  Range(Append(s, x)) = Range(s) \cup {x}
<1>1. /\ Append(s, x) \in Seq(S) /\ Len(Append(s, x)) = Len(s) + 1 /\ Len(s) \in Nat
      /\ \A i \in 1 .. Len(s) : Append(s, x)[i] = s[i]
      /\ Append(s, x)[Len(s) + 1] = x
  OBVIOUS
<1>2. DOMAIN Append(s, x) = DOMAIN s \cup {Len(s) + 1} /\ DOMAIN s = 1 .. Len(s)
  BY <1>1
<1> QED BY <1>1, <1>2 DEF Range

Increasing(s) == \A i, j \in DOMAIN s : i < j => s[i] < s[j]

\* What is left of a sorted queue is sorted, and comes after its head.
LEMMA TailOfIncreasing ==
    ASSUME NEW S \in SUBSET Nat, NEW s \in Seq(S), s # <<>>
    PROVE  /\ Head(s) \in S /\ Tail(s) \in Seq(S)
           /\ Range(s) = {Head(s)} \cup Range(Tail(s))
           /\ Increasing(s) => /\ Increasing(Tail(s))
                               /\ \A g \in Range(Tail(s)) : Head(s) < g
<1>1. /\ Len(s) \in Nat \ {0} /\ DOMAIN s = 1 .. Len(s) /\ Head(s) = s[1] /\ s[1] \in S
      /\ Tail(s) \in Seq(S) /\ DOMAIN Tail(s) = 1 .. Len(s) - 1
      /\ \A i \in 1 .. Len(s) - 1 : Tail(s)[i] = s[i + 1]
  OBVIOUS
<1>2. \A i \in 2 .. Len(s) : i - 1 \in 1 .. Len(s) - 1 /\ Tail(s)[i - 1] = s[i]
  BY <1>1
<1>3. Range(s) = {Head(s)} \cup Range(Tail(s))
  <2>1. ASSUME NEW x \in Range(s) PROVE x \in {Head(s)} \cup Range(Tail(s))
    <3>1. PICK i \in 1 .. Len(s) : x = s[i]
      BY <1>1 DEF Range
    <3>2. CASE i = 1
      BY <3>1, <3>2, <1>1
    <3>3. CASE i # 1
      <4>1. i \in 2 .. Len(s)
        BY <3>3, <1>1
      <4>2. i - 1 \in DOMAIN Tail(s) /\ Tail(s)[i - 1] = x
        BY <4>1, <3>1, <1>1, <1>2
      <4>3. x \in Range(Tail(s))
        BY <4>2 DEF Range
      <4> QED BY <4>3
    <3> QED BY <3>2, <3>3
  <2>2. Head(s) \in Range(s)
    BY <1>1 DEF Range
  <2>3. ASSUME NEW x \in Range(Tail(s)) PROVE x \in Range(s)
    BY <1>1 DEF Range
  <2> QED BY <2>1, <2>2, <2>3
<1>4. ASSUME Increasing(s)
      PROVE  Increasing(Tail(s)) /\ \A g \in Range(Tail(s)) : Head(s) < g
  <2>1. ASSUME NEW i \in DOMAIN Tail(s), NEW j \in DOMAIN Tail(s), i < j
        PROVE  Tail(s)[i] < Tail(s)[j]
    <3>1. i + 1 \in DOMAIN s /\ j + 1 \in DOMAIN s /\ i + 1 < j + 1
      BY <1>1, <2>1
    <3> QED BY <1>1, <1>4, <3>1 DEF Increasing
  <2>2. ASSUME NEW g \in Range(Tail(s)) PROVE Head(s) < g
    <3>1. PICK i \in 1 .. Len(s) - 1 : g = Tail(s)[i]
      BY <1>1 DEF Range
    <3>2. 1 \in DOMAIN s /\ i + 1 \in DOMAIN s /\ 1 < i + 1
      BY <1>1
    <3> QED BY <1>1, <1>4, <3>1, <3>2 DEF Increasing
  <2> QED BY <2>1, <2>2 DEF Increasing
<1> QED BY <1>1, <1>3, <1>4

\* A set of numbers with a bound has a largest one.
LEMMA LargestExists ==
    ASSUME NEW S \in SUBSET Nat, S # {}, NEW n \in Nat, \A x \in S : x <= n
    PROVE  \E x \in S : \A y \in S : y <= x
<1> DEFINE Gaps == {n - x : x \in S}
<1>1. \A x \in S : x \in Nat /\ n - x \in Nat
  OBVIOUS
<1>2. Gaps \subseteq Nat /\ Gaps # {}
  BY <1>1
<1>3. PICK a \in Gaps : \A b \in Gaps : <<b, a>> \notin OpToRel(<, Nat)
  BY <1>2, WFMin, NatLessThanWellFounded, Zenon
<1>4. \A b \in Gaps : ~ (b < a)
  BY <1>2, <1>3, Zenon DEF OpToRel
<1>5. PICK x \in S : a = n - x
  BY <1>3
<1>6. ASSUME NEW y \in S PROVE y <= x
  <2>1. n - y \in Gaps
    OBVIOUS
  <2>2. ~ (n - y < n - x)
    BY <2>1, <1>4, <1>5
  <2> QED BY <2>2, <1>1
<1> QED BY <1>6

LEMMA MaxIsLargest ==
    ASSUME NEW S \in SUBSET Nat, S # {}, NEW n \in Nat, \A x \in S : x <= n
    PROVE  Max(S) \in S /\ \A y \in S : y <= Max(S)
<1>1. \E x \in S : \A y \in S : x >= y
  BY LargestExists
<1> QED BY <1>1 DEF Max

\* A request names a directory whatever the mappings are.
LEMMA ResolvedIsDirectory ==
    ASSUME NEW path \in Seq(STRING)
    PROVE  Resolve(path) \in Seq(STRING)
<1> DEFINE fitting == {m \in Mappings : IsPrefix(m[1], path)}
           Longest(m) == \A l \in fitting : Len(l[1]) <= Len(m[1])
           lengths == {Len(m[1]) : m \in fitting}
<1>1. CASE fitting = {}
  BY <1>1 DEF Resolve
<1>2. CASE fitting # {}
  <2>1. \A m \in fitting : /\ m[1] \in Seq(STRING) /\ m[2] \in Seq(STRING)
                           /\ Len(m[1]) \in Nat /\ Len(m[1]) <= Len(path)
    BY MappingsAreDirectories DEF IsPrefix
  <2>2. lengths \in SUBSET Nat /\ lengths # {} /\ \A n \in lengths : n <= Len(path)
    BY <1>2, <2>1
  <2>3. PICK n \in lengths : \A l \in lengths : l <= n
    <3>1. Len(path) \in Nat
      OBVIOUS
    <3> HIDE DEF lengths
    <3> QED BY <2>2, <3>1, LargestExists
  <2>4. \E m \in fitting : Longest(m)
    BY <2>3
  <2> DEFINE m == CHOOSE m \in fitting : Longest(m)
  <2>5. m \in fitting
    BY <2>4
  <2>6. Resolve(path) = m[2] \o SubSeq(path, Len(m[1]) + 1, Len(path))
    BY <1>2 DEF Resolve
  <2> HIDE DEF m
  <2>7. SubSeq(path, Len(m[1]) + 1, Len(path)) \in Seq(STRING)
    BY <2>1, <2>5
  <2>8. m[2] \in Seq(STRING)
    BY <2>1, <2>5
  <2> QED BY <2>6, <2>7, <2>8
<1> QED BY <1>1, <1>2

(***************************************************************************)
(* Type correctness.  While one handler scans no other makes a report, so  *)
(* that the bound on the runs holds.                                       *)
(***************************************************************************)

\* Nobody else runs while a handler scans, and a report is stored after it was made.
LoopInv ==
    \A h \in Handlers :
        /\ step[h] = "scan" => LoopIsFree(h) /\ Len(reports) < MaxScans
        /\ step[h] # "scan" => queue[h] = <<>> /\ found[h] = <<>>
        /\ IF step[h] \in {"save", "audit"} THEN own[h] \in DOMAIN reports ELSE own[h] = 0

TypedLoop == ScanTypeOK /\ LoopInv

LEMMA EmptyFunction == <<>> \in PreviousHashes
<1>1. <<>> \in [{} -> ContentHashes]
  OBVIOUS
<1>2. {} \in SUBSET StableKeys
  OBVIOUS
<1> QED BY <1>1, <1>2 DEF PreviousHashes

LEMMA HashesAreTyped ==
    ASSUME ScanTypeOK, NEW n \in DOMAIN reports
    PROVE  /\ reports[n] \in Reports
           /\ HashesOf(n) \subseteq PreviousHashes
<1>1. reports[n] \in Reports
  BY DEF ScanTypeOK
<1>2. reports[n].discoveries \subseteq Rows
  BY <1>1 DEF Reports
<1> DEFINE keys == {d.key : d \in reports[n].discoveries}
           row == {d.hash : d \in reports[n].discoveries}
<1>3. keys \in SUBSET StableKeys /\ row \subseteq ContentHashes
  BY <1>2 DEF Rows
<1>4. ASSUME NEW f \in HashesOf(n) PROVE f \in PreviousHashes
  <2>1. f \in [keys -> row]
    BY DEF HashesOf
  <2> HIDE DEF keys, row
  <2>2. f \in [keys -> ContentHashes]
    BY <2>1, <1>3
  <2> QED BY <2>2, <1>3 DEF PreviousHashes
<1> QED BY <1>1, <1>4

LEMMA ExtractedAreRows ==
    ASSUME ScanTypeOK, NEW h \in Handlers
    PROVE  Extracted(h) \subseteq Rows
<1>1. ASSUME NEW s \in Range(found[h]), NEW p \in Range(s.content)
      PROVE  Discovery(h, s.file, p) \in Rows
  <2>1. s \in [file : Files, content : Contents]
    <3>1. found[h] \in Seq([file : Files, content : Contents])
      BY DEF ScanTypeOK
    <3> QED BY <3>1, RangeIsTyped
  <2>2. p \in Patterns
    BY <2>1 DEF Patterns
  <2>3. <<s.file, p.name>> \in StableKeys /\ p.hash \in ContentHashes
    BY <2>1, <2>2 DEF StableKeys, ContentHashes
  <2>4. Delta(previousHashes[h], <<s.file, p.name>>, p.hash)
            \in {"new", "changed", "unchanged"}
    BY DEF Delta
  <2> QED BY <2>3, <2>4 DEF Discovery, Rows
<1> QED BY <1>1 DEF Extracted

LEMMA FilesBelow ==
    ASSUME NEW path
    PROVE  /\ Below(path) \subseteq Files /\ IsFiniteSet(Below(path))
           /\ Cardinality(Below(path)) \in Nat
           /\ \A s \in Orders(Below(path)) :
                s \in Seq(Files) /\ Range(s) = Below(path) /\ Increasing(s)
<1>1. Below(path) \subseteq Files
  BY DEF Below
<1>2. IsFiniteSet(Below(path)) /\ Cardinality(Below(path)) \in Nat
  BY <1>1, FilesAreNumbered, FS_Subset, FS_CardinalityType
<1>3. ASSUME NEW s \in Orders(Below(path))
      PROVE  s \in Seq(Files) /\ Range(s) = Below(path) /\ Increasing(s)
  BY <1>1, <1>2 DEF Orders, Increasing
<1> QED BY <1>1, <1>2, <1>3

LEMMA TypedLoopInit == ScanInit => TypedLoop
<1> SUFFICES ASSUME ScanInit PROVE TypedLoop
  OBVIOUS
<1>1. Unscanned \in [Handlers -> PreviousHashes]
  BY EmptyFunction DEF Unscanned
<1>2. <<>> \in Seq(Reports) /\ Len(<<>>) = 0
  OBVIOUS
<1> QED BY <1>1, <1>2, BoundsAreNatural DEF ScanInit, Unscanned, TypedLoop, LoopInv, ScanTypeOK, Steps

\* A new report leaves those before it as they are.
LEMMA ReportIsAdded ==
    ASSUME ScanTypeOK, NEW h \in Handlers, NEW outcome \in {"completed", "failed"},
           NEW discoveries \in SUBSET Rows, MakeReport(h, outcome, discoveries)
    PROVE  /\ Len(reports) \in Nat /\ Len(reports') = Len(reports) + 1
           /\ DOMAIN reports = 1 .. Len(reports)
           /\ DOMAIN reports' = DOMAIN reports \cup {Len(reports) + 1}
           /\ reports' \in Seq(Reports)
           /\ \A n \in DOMAIN reports : reports'[n] = reports[n]
           /\ reports'[Len(reports) + 1] =
                [status |-> outcome, root |-> root[h], previous |-> previous[h],
                 discoveries |-> discoveries, known |-> known[h],
                 began |-> began[h], ended |-> edits]
<1> DEFINE r == [status |-> outcome, root |-> root[h], previous |-> previous[h],
                 discoveries |-> discoveries, known |-> known[h],
                 began |-> began[h], ended |-> edits]
<1>1. r \in Reports
  BY BoundsAreNatural DEF ScanTypeOK, Reports
<1>2. reports \in Seq(Reports) /\ reports' = Append(reports, r)
  BY DEF ScanTypeOK, MakeReport
<1> HIDE DEF r
<1>3. /\ Len(reports) \in Nat /\ Len(reports') = Len(reports) + 1
      /\ DOMAIN reports = 1 .. Len(reports) /\ DOMAIN reports' = 1 .. Len(reports) + 1
      /\ reports' \in Seq(Reports)
      /\ \A n \in DOMAIN reports : reports'[n] = reports[n]
      /\ reports'[Len(reports) + 1] = r
  BY <1>1, <1>2
<1>4. DOMAIN reports' = DOMAIN reports \cup {Len(reports) + 1}
  BY <1>3
<1> QED BY <1>3, <1>4 DEF r

\* Where a trigger ends, nothing is left of it.
LEMMA TypedLoopEnd ==
    ASSUME TypedLoop, NEW h \in Handlers, step[h] \in {"save", "audit"}, EndTrigger(h),
           UNCHANGED <<tree, edits, reports>>, stored' \subseteq DOMAIN reports
    PROVE  TypedLoop'
<1>1. <<>> \in Seq(STRING) /\ {} \in SUBSET Nat /\ 0 \in 0 .. MaxScans /\ 0 \in 0 .. MaxEdits
  BY BoundsAreNatural
<1>2. ScanTypeOK'
  BY <1>1 DEF TypedLoop, ScanTypeOK, EndTrigger, Steps
<1>3. LoopInv'
  BY DEF TypedLoop, LoopInv, ScanTypeOK, EndTrigger, LoopIsFree
<1> QED BY <1>2, <1>3 DEF TypedLoop

LEMMA TypedLoopReport ==
    ASSUME TypedLoop, NEW h \in Handlers, NEW outcome \in {"completed", "failed"},
           NEW discoveries \in SUBSET Rows, MakeReport(h, outcome, discoveries),
           Len(reports) < MaxScans, LoopIsFree(h), step[h] \in {"resolve", "scan"}
    PROVE  TypedLoop'
<1>1. /\ Len(reports) \in Nat /\ Len(reports') = Len(reports) + 1
      /\ DOMAIN reports = 1 .. Len(reports)
      /\ DOMAIN reports' = DOMAIN reports \cup {Len(reports) + 1}
      /\ reports' \in Seq(Reports)
  BY ReportIsAdded DEF TypedLoop
<1>2. Len(reports) + 1 \in 0 .. MaxScans
  BY <1>1, BoundsAreNatural
<1>3. /\ step' = [step EXCEPT ![h] = "save"] /\ own' = [own EXCEPT ![h] = Len(reports) + 1]
      /\ queue' = [queue EXCEPT ![h] = <<>>] /\ found' = [found EXCEPT ![h] = <<>>]
      /\ previousHashes' = [previousHashes EXCEPT ![h] = <<>>]
      /\ UNCHANGED <<tree, edits, stored, root, previous, known, began>>
  BY DEF MakeReport
<1>4. ScanTypeOK'
  <2>1. <<>> \in Seq(Files) /\ <<>> \in Seq([file : Files, content : Contents])
        /\ Len(<<>>) = 0
    OBVIOUS
  <2>2. /\ reports' \in Seq(Reports) /\ Len(reports') <= MaxScans /\ stored' \subseteq DOMAIN reports'
    BY <1>1, <1>2, <1>3 DEF TypedLoop, ScanTypeOK
  <2>3. /\ step' \in [Handlers -> Steps] /\ own' \in [Handlers -> 0 .. MaxScans]
        /\ previousHashes' \in [Handlers -> PreviousHashes]
    BY <1>2, <1>3, EmptyFunction DEF TypedLoop, ScanTypeOK, Steps
  <2>4. /\ queue' \in [Handlers -> Seq(Files)]
        /\ found' \in [Handlers -> Seq([file : Files, content : Contents])]
        /\ \A g \in Handlers : Len(found'[g]) <= MaxFiles
    <3> DEFINE SourceFile == [file : Files, content : Contents]
    <3>1. /\ found \in [Handlers -> Seq(SourceFile)] /\ queue \in [Handlers -> Seq(Files)]
          /\ \A g \in Handlers : Len(found[g]) <= MaxFiles
      BY DEF TypedLoop, ScanTypeOK
    <3>2. <<>> \in Seq(SourceFile)
      OBVIOUS
    <3> HIDE DEF SourceFile
    <3>3. queue' \in [Handlers -> Seq(Files)] /\ found' \in [Handlers -> Seq(SourceFile)]
      BY <1>3, <2>1, <3>1, <3>2
    <3>4. \A g \in Handlers : found'[g] = IF g = h THEN <<>> ELSE found[g]
      BY <1>3, <3>1
    <3>5. \A g \in Handlers : Len(found'[g]) <= MaxFiles
      BY <2>1, <3>1, <3>4, BoundsAreNatural
    <3> QED BY <3>3, <3>5 DEF SourceFile
  <2>5. UNCHANGED <<tree, edits, root, previous, known, began>>
    BY <1>3
  <2> QED BY <2>2, <2>3, <2>4, <2>5 DEF TypedLoop, ScanTypeOK
<1>5. LoopInv'
  <2>1. ASSUME NEW g \in Handlers
        PROVE  /\ step'[g] # "scan"
               /\ queue'[g] = <<>> /\ found'[g] = <<>>
               /\ IF step'[g] \in {"save", "audit"} THEN own'[g] \in DOMAIN reports'
                                                  ELSE own'[g] = 0
    BY <1>1, <1>3 DEF TypedLoop, LoopInv, ScanTypeOK, LoopIsFree
  <2> QED BY <2>1 DEF LoopInv
<1> QED BY <1>4, <1>5 DEF TypedLoop

\* Completed runs are among the reports.
LEMMA CompletedAreReports ==
    ASSUME ScanTypeOK
    PROVE  /\ Len(reports) \in Nat
           /\ Completed \in SUBSET Nat /\ 0 \notin Completed
           /\ \A n \in Completed : n \in DOMAIN reports /\ n <= Len(reports)
<1>1. Len(reports) \in Nat /\ DOMAIN reports = 1 .. Len(reports) /\ stored \subseteq DOMAIN reports
  BY DEF ScanTypeOK
<1>2. Completed \subseteq stored
  BY DEF Completed
<1> QED BY <1>1, <1>2

LEMMA TypedLoopAsk ==
    ASSUME TypedLoop, NEW h \in Handlers, NEW path \in Requests, ReadPrevious(h, path)
    PROVE  TypedLoop'
<1> DEFINE last == IF Completed = {} THEN 0 ELSE Max(Completed)
<1>1. last \in {0} \cup DOMAIN reports
  <2>1. ScanTypeOK
    BY DEF TypedLoop
  <2> QED BY <2>1, CompletedAreReports, MaxIsLargest
<1>2. last \in 0 .. MaxScans
  BY <1>1, BoundsAreNatural DEF TypedLoop, ScanTypeOK
<1> HIDE DEF last
<1>3. PICK f \in (IF last = 0 THEN {<<>>} ELSE HashesOf(last)) :
        previousHashes' = [previousHashes EXCEPT ![h] = f]
  BY DEF ReadPrevious, last
<1>4. f \in PreviousHashes
  BY <1>1, <1>3, EmptyFunction, HashesAreTyped DEF TypedLoop
<1>5. Resolve(path) \in Seq(STRING)
  BY RequestsAreDirectories, ResolvedIsDirectory
<1>6. /\ step[h] = "idle" /\ step' = [step EXCEPT ![h] = "resolve"]
      /\ root' = [root EXCEPT ![h] = Resolve(path)]
      /\ previous' = [previous EXCEPT ![h] = last] /\ known' = [known EXCEPT ![h] = stored]
      /\ UNCHANGED <<tree, edits, reports, stored, began, queue, found, own>>
  BY DEF ReadPrevious, last
<1>7. stored \in SUBSET Nat
  BY DEF TypedLoop, ScanTypeOK
<1>8. ScanTypeOK'
  BY <1>2, <1>3, <1>4, <1>5, <1>6, <1>7 DEF TypedLoop, ScanTypeOK, Steps
<1>9. LoopInv'
  BY <1>6 DEF TypedLoop, LoopInv, ScanTypeOK, LoopIsFree
<1> QED BY <1>8, <1>9 DEF TypedLoop

LEMMA TypedLoopStart ==
    ASSUME TypedLoop, NEW h \in Handlers, StartScan(h)
    PROVE  TypedLoop'
<1>1. PICK files \in Orders(Below(root[h])) : queue' = [queue EXCEPT ![h] = files]
  BY DEF StartScan
<1>2. files \in Seq(Files)
  BY FilesBelow
<1>3. /\ step[h] = "resolve" /\ LoopIsFree(h) /\ Len(reports) < MaxScans
      /\ began' = [began EXCEPT ![h] = edits] /\ step' = [step EXCEPT ![h] = "scan"]
      /\ UNCHANGED <<tree, edits, reports, stored, root, previous, previousHashes, known,
                     found, own>>
  BY DEF StartScan
<1>4. ScanTypeOK'
  BY <1>1, <1>2, <1>3 DEF TypedLoop, ScanTypeOK, Steps
<1>5. LoopInv'
  BY <1>1, <1>3 DEF TypedLoop, LoopInv, ScanTypeOK, LoopIsFree
<1> QED BY <1>4, <1>5 DEF TypedLoop

LEMMA TypedLoopFile ==
    ASSUME TypedLoop, NEW h \in Handlers, ScanFile(h)
    PROVE  TypedLoop'
<1> DEFINE f == Head(queue[h])
           SourceFile == [file : Files, content : Contents]
<1>1. /\ step[h] = "scan" /\ queue[h] # <<>> /\ ~Full(h)
      /\ queue' = [queue EXCEPT ![h] = Tail(queue[h])]
      /\ UNCHANGED <<tree, edits, reports, stored, step, root, previous, previousHashes,
                     known, began, own>>
      /\ found' = IF tree[f] \in {Absent, Skipped} THEN found
                  ELSE [found EXCEPT ![h] = Append(found[h], [file |-> f, content |-> tree[f]])]
  BY DEF ScanFile
<1>2. queue[h] \in Seq(Files) /\ found[h] \in Seq(SourceFile)
  BY DEF TypedLoop, ScanTypeOK
<1>3. f \in Files /\ Tail(queue[h]) \in Seq(Files)
  BY <1>1, <1>2
<1>4. Len(found[h]) \in Nat /\ Len(found[h]) < MaxFiles
  BY <1>1, <1>2, BoundsAreNatural DEF Full
<1>5. found' \in [Handlers -> Seq(SourceFile)] /\ \A g \in Handlers : Len(found'[g]) <= MaxFiles
  <2>1. CASE tree[f] \in {Absent, Skipped}
    BY <1>1, <2>1 DEF TypedLoop, ScanTypeOK
  <2>2. CASE tree[f] \notin {Absent, Skipped}
    <3>1. [file |-> f, content |-> tree[f]] \in SourceFile
      BY <1>3, <2>2 DEF TypedLoop, ScanTypeOK
    <3> DEFINE longer == Append(found[h], [file |-> f, content |-> tree[f]])
    <3>2. longer \in Seq(SourceFile) /\ Len(longer) = Len(found[h]) + 1
      BY <1>2, <3>1
    <3>3. found' = [found EXCEPT ![h] = longer]
      BY <1>1, <2>2
    <3> HIDE DEF longer, SourceFile
    <3>4. found \in [Handlers -> Seq(SourceFile)] /\ \A g \in Handlers : Len(found[g]) <= MaxFiles
      BY DEF TypedLoop, ScanTypeOK, SourceFile
    <3> QED BY <3>2, <3>3, <3>4, <1>4, BoundsAreNatural
  <2> QED BY <2>1, <2>2
<1> HIDE DEF f, SourceFile
<1>6. ScanTypeOK'
  <2> USE DEF SourceFile
  <2> QED BY <1>1, <1>3, <1>5 DEF TypedLoop, ScanTypeOK
<1>7. LoopInv'
  BY <1>1 DEF TypedLoop, LoopInv, ScanTypeOK, LoopIsFree
<1> QED BY <1>6, <1>7 DEF TypedLoop

LEMMA TypedLoopStore ==
    ASSUME TypedLoop, NEW h \in Handlers, StoreReport(h) \/ StoreFails(h) \/ AuditTrigger(h)
    PROVE  TypedLoop'
<1>1. step[h] = "save" => own[h] \in DOMAIN reports
  BY DEF TypedLoop, LoopInv
<1>2. CASE StoreReport(h)
  <2>1. ScanTypeOK'
    BY <1>1, <1>2 DEF TypedLoop, ScanTypeOK, StoreReport, Steps
  <2>2. LoopInv'
    BY <1>2 DEF TypedLoop, LoopInv, ScanTypeOK, StoreReport, LoopIsFree
  <2> QED BY <2>1, <2>2 DEF TypedLoop
<1>3. CASE StoreFails(h)
  <2>1. stored' \subseteq DOMAIN reports
    BY <1>1, <1>3 DEF StoreFails, TypedLoop, ScanTypeOK
  <2> QED BY <1>3, <2>1, TypedLoopEnd DEF StoreFails
<1>4. CASE AuditTrigger(h)
  <2>1. stored' \subseteq DOMAIN reports
    BY <1>4 DEF AuditTrigger, TypedLoop, ScanTypeOK
  <2> QED BY <1>4, <2>1, TypedLoopEnd DEF AuditTrigger
<1> QED BY <1>2, <1>3, <1>4

LEMMA TypedLoopOutside ==
    ASSUME TypedLoop, (\E f \in Files : Edit(f)) \/ RestartScans
    PROVE  TypedLoop'
<1>1. ASSUME NEW f \in Files, Edit(f) PROVE TypedLoop'
  <2>1. ScanTypeOK'
    <3>1. tree' \in [Files -> Contents \cup {Absent, Skipped}]
      BY <1>1 DEF TypedLoop, ScanTypeOK, Edit
    <3>2. edits' \in 0 .. MaxEdits
      BY <1>1, BoundsAreNatural DEF TypedLoop, ScanTypeOK, Edit
    <3> QED BY <1>1, <3>1, <3>2 DEF TypedLoop, ScanTypeOK, Edit, handlerVars
  <2>2. LoopInv'
    BY <1>1 DEF TypedLoop, LoopInv, Edit, handlerVars, LoopIsFree
  <2> QED BY <2>1, <2>2 DEF TypedLoop
<1>2. CASE RestartScans
  <2>1. Unscanned \in [Handlers -> PreviousHashes]
    BY EmptyFunction DEF Unscanned
  <2>2. ScanTypeOK'
    BY <1>2, <2>1, BoundsAreNatural DEF TypedLoop, ScanTypeOK, RestartScans, Unscanned, Steps
  <2>3. LoopInv'
    BY <1>2 DEF LoopInv, RestartScans, Unscanned
  <2> QED BY <2>2, <2>3 DEF TypedLoop
<1> QED BY <1>1, <1>2

LEMMA TypedLoopStep == TypedLoop /\ [ScanNext]_scanningVars => TypedLoop'
<1> SUFFICES ASSUME TypedLoop, [ScanNext]_scanningVars PROVE TypedLoop'
  OBVIOUS
<1>1. ASSUME NEW h \in Handlers, NEW path \in Requests, ReadPrevious(h, path) PROVE TypedLoop'
  BY <1>1, TypedLoopAsk
<1>2. ASSUME NEW h \in Handlers, StartScan(h) PROVE TypedLoop'
  BY <1>2, TypedLoopStart
<1>3. ASSUME NEW h \in Handlers, ScanFile(h) PROVE TypedLoop'
  BY <1>3, TypedLoopFile
<1>4. ASSUME NEW h \in Handlers, EndScan(h) \/ NoDirectory(h) PROVE TypedLoop'
  <2>1. PICK outcome \in {"completed", "failed"}, discoveries \in SUBSET Rows :
            MakeReport(h, outcome, discoveries)
    <3>1. Extracted(h) \in SUBSET Rows /\ {} \in SUBSET Rows
      BY ExtractedAreRows DEF TypedLoop
    <3> QED BY <1>4, <3>1 DEF EndScan, NoDirectory
  <2>2. Len(reports) < MaxScans /\ LoopIsFree(h) /\ step[h] \in {"resolve", "scan"}
    BY <1>4 DEF TypedLoop, LoopInv, EndScan, NoDirectory
  <2> QED BY <2>1, <2>2, TypedLoopReport
<1>5. ASSUME NEW h \in Handlers, StoreReport(h) \/ StoreFails(h) \/ AuditTrigger(h)
      PROVE  TypedLoop'
  BY <1>5, TypedLoopStore
<1>6. CASE (\E f \in Files : Edit(f)) \/ RestartScans
  BY <1>6, TypedLoopOutside
<1>7. CASE UNCHANGED scanningVars
  BY <1>7 DEF TypedLoop, ScanTypeOK, LoopInv, LoopIsFree, scanningVars, handlerVars
<1> QED BY <1>1, <1>2, <1>3, <1>4, <1>5, <1>6, <1>7 DEF ScanNext, Step

\* Every run's report is a report, and there are no more of them than the bound.
THEOREM ScanTypeCorrect == ScanSpec => []ScanTypeOK
<1>1. TypedLoop => ScanTypeOK
  BY DEF TypedLoop
<1> QED BY <1>1, TypedLoopInit, TypedLoopStep, PTL DEF ScanSpec

(***************************************************************************)
(* Reports and hashes.  Reports are added and never rewritten; a handler   *)
(* holds the hashes of the completed run that was the last when it asked.  *)
(***************************************************************************)

\* What every step does to the reports.
Grows ==
    /\ DOMAIN reports \subseteq DOMAIN reports'
    /\ \A n \in DOMAIN reports : reports'[n] = reports[n]
    /\ stored \subseteq stored'
    /\ edits <= edits'

\* A handler takes no step.
Rests(h) ==
    /\ step'[h] = step[h] /\ root'[h] = root[h]
    /\ previous'[h] = previous[h] /\ previousHashes'[h] = previousHashes[h]
    /\ known'[h] = known[h] /\ began'[h] = began[h]
    /\ queue'[h] = queue[h] /\ found'[h] = found[h] /\ own'[h] = own[h]

LEMMA ReportsGrow == TypedLoop /\ [ScanNext]_scanningVars => Grows
<1> SUFFICES ASSUME TypedLoop, [ScanNext]_scanningVars PROVE Grows
  OBVIOUS
<1>1. edits \in Nat
  BY BoundsAreNatural DEF TypedLoop, ScanTypeOK
<1>2. ASSUME NEW h \in Handlers, EndScan(h) \/ NoDirectory(h) PROVE Grows
  <2>1. PICK outcome \in {"completed", "failed"}, discoveries \in SUBSET Rows :
            MakeReport(h, outcome, discoveries)
    <3>1. Extracted(h) \in SUBSET Rows /\ {} \in SUBSET Rows
      BY ExtractedAreRows DEF TypedLoop
    <3> QED BY <1>2, <3>1 DEF EndScan, NoDirectory
  <2>2. stored' = stored /\ edits' = edits
    BY <2>1 DEF MakeReport
  <2>3. /\ DOMAIN reports \subseteq DOMAIN reports'
        /\ \A n \in DOMAIN reports : reports'[n] = reports[n]
    BY <2>1, ReportIsAdded DEF TypedLoop
  <2> QED BY <1>1, <2>2, <2>3 DEF Grows
<1>3. ASSUME NEW h \in Handlers, Step(h), ~ (EndScan(h) \/ NoDirectory(h)) PROVE Grows
  BY <1>1, <1>3 DEF Step, ReadPrevious, StartScan, ScanFile, StoreReport, StoreFails,
                    AuditTrigger, Grows
<1>4. ASSUME NEW f \in Files, Edit(f) PROVE Grows
  BY <1>1, <1>4 DEF Edit, Grows
<1>5. CASE RestartScans
  BY <1>1, <1>5 DEF RestartScans, Grows
<1>6. CASE UNCHANGED scanningVars
  BY <1>1, <1>6 DEF scanningVars, Grows
<1> QED BY <1>2, <1>3, <1>4, <1>5, <1>6 DEF ScanNext

LEMMA OthersRest ==
    ASSUME TypedLoop, NEW h \in Handlers, Step(h), NEW g \in Handlers, g # h
    PROVE  Rests(g)
<1> USE DEF TypedLoop, ScanTypeOK, Rests
<1>1. CASE \E path \in Requests : ReadPrevious(h, path)
  BY <1>1 DEF ReadPrevious
<1>2. CASE StartScan(h)
  BY <1>2 DEF StartScan
<1>3. CASE ScanFile(h)
  BY <1>3 DEF ScanFile
<1>4. CASE EndScan(h) \/ NoDirectory(h)
  BY <1>4 DEF EndScan, NoDirectory, MakeReport
<1>5. CASE StoreReport(h) \/ StoreFails(h) \/ AuditTrigger(h)
  BY <1>5 DEF StoreReport, StoreFails, AuditTrigger, EndTrigger
<1> QED BY <1>1, <1>2, <1>3, <1>4, <1>5 DEF Step

ReportsInv ==
    \A n \in DOMAIN reports :
        /\ reports[n].known \subseteq 1 .. n - 1
        /\ reports[n].began <= reports[n].ended
        /\ reports[n].ended <= edits

CompletedOf(runs) == {n \in runs : reports[n].status = "completed"}

HoldsPrevious(h) ==
    /\ known[h] \subseteq stored
    /\ previous[h] \in CompletedOf(known[h]) \cup {0}
    /\ \A n \in CompletedOf(known[h]) : n <= previous[h]
    /\ began[h] <= edits
    /\ step[h] = "scan" /\ previous[h] # 0 => reports[previous[h]].ended <= began[h]
    /\ step[h] \in {"resolve", "scan"} =>
          IF previous[h] = 0 THEN previousHashes[h] = <<>>
          ELSE previousHashes[h] \in HashesOf(previous[h])

HistoryInv ==
    /\ TypedLoop
    /\ ReportsInv
    /\ \A h \in Handlers : HoldsPrevious(h)
    /\ DeltaIsExplained

LEMMA HoldsWhenEnded ==
    ASSUME TypedLoop', NEW h \in Handlers, known'[h] = {}, previous'[h] = 0,
           began'[h] = 0, step'[h] = "idle"
    PROVE  HoldsPrevious(h)'
BY BoundsAreNatural DEF HoldsPrevious, CompletedOf, TypedLoop, ScanTypeOK

\* Whoever rests keeps what it holds.
LEMMA HoldsWhileResting ==
    ASSUME TypedLoop, TypedLoop', Grows, NEW h \in Handlers, HoldsPrevious(h),
           step'[h] = step[h] \/ step'[h] \notin {"resolve", "scan"},
           previous'[h] = previous[h], known'[h] = known[h], began'[h] = began[h],
           step'[h] \in {"resolve", "scan"} => previousHashes'[h] = previousHashes[h]
    PROVE  HoldsPrevious(h)'
<1>1. /\ known[h] \subseteq DOMAIN reports
      /\ \A n \in known[h] : reports'[n] = reports[n]
  BY DEF HoldsPrevious, Grows, TypedLoop, ScanTypeOK
<1>2. CompletedOf(known[h])' = CompletedOf(known[h])
  BY <1>1 DEF CompletedOf
<1>3. previous[h] # 0 => reports'[previous[h]] = reports[previous[h]]
  BY <1>1 DEF HoldsPrevious, CompletedOf
<1>4. previous[h] # 0 => HashesOf(previous[h])' = HashesOf(previous[h])
  <2> SUFFICES ASSUME previous[h] # 0 PROVE HashesOf(previous[h])' = HashesOf(previous[h])
    OBVIOUS
  <2>1. reports'[previous'[h]] = reports[previous[h]]
    BY <1>3
  <2> QED BY <2>1 DEF HashesOf
<1>5. known'[h] \subseteq stored' /\ began'[h] <= edits'
  BY BoundsAreNatural DEF HoldsPrevious, Grows, TypedLoop, ScanTypeOK
<1>6. step'[h] \in {"resolve", "scan"} => step[h] = step'[h]
  OBVIOUS
<1> QED BY <1>2, <1>3, <1>4, <1>5, <1>6 DEF HoldsPrevious

\* What is known of the last completed run when a handler asks.
LEMMA HoldsAfterAsking ==
    ASSUME HistoryInv, TypedLoop', NEW h \in Handlers, NEW path \in Requests,
           ReadPrevious(h, path)
    PROVE  HoldsPrevious(h)'
<1> DEFINE last == IF Completed = {} THEN 0 ELSE Max(Completed)
<1>1. /\ last \in Completed \cup {0}
      /\ \A n \in Completed : n <= last
  <2>1. ScanTypeOK
    BY DEF HistoryInv, TypedLoop
  <2> QED BY <2>1, CompletedAreReports, MaxIsLargest
<1>2. 0 \notin Completed
  BY CompletedAreReports DEF HistoryInv, TypedLoop
<1> HIDE DEF last
<1>3. PICK f \in (IF last = 0 THEN {<<>>} ELSE HashesOf(last)) :
        previousHashes' = [previousHashes EXCEPT ![h] = f]
  BY DEF ReadPrevious, last
<1>4. /\ step'[h] = "resolve" /\ previous'[h] = last /\ known'[h] = stored
      /\ previousHashes'[h] = f /\ began'[h] = began[h]
      /\ UNCHANGED <<edits, reports, stored>>
  BY <1>3 DEF ReadPrevious, last, HistoryInv, TypedLoop, ScanTypeOK
<1>5. CompletedOf(known[h])' = Completed
  BY <1>4 DEF CompletedOf, Completed
<1>7. HashesOf(previous[h])' = HashesOf(last)
  BY <1>4 DEF HashesOf
<1>6. began[h] <= edits
  BY DEF HistoryInv, HoldsPrevious
<1> QED BY <1>1, <1>2, <1>3, <1>4, <1>5, <1>6, <1>7 DEF HoldsPrevious, Completed

\* The run it compares with has ended when it begins to scan.
LEMMA HoldsAfterStart ==
    ASSUME HistoryInv, TypedLoop', NEW h \in Handlers, StartScan(h)
    PROVE  HoldsPrevious(h)'
<1>1. /\ step[h] = "resolve" /\ step'[h] = "scan" /\ began'[h] = edits
      /\ previous'[h] = previous[h] /\ known'[h] = known[h]
      /\ previousHashes'[h] = previousHashes[h]
      /\ UNCHANGED <<edits, reports, stored>>
  BY DEF StartScan, HistoryInv, TypedLoop, ScanTypeOK
<1>2. HoldsPrevious(h)
  BY DEF HistoryInv
<1>3. previous[h] # 0 => reports[previous[h]].ended <= edits
  <2>1. previous[h] # 0 => previous[h] \in DOMAIN reports
    BY <1>2 DEF HoldsPrevious, CompletedOf, HistoryInv, TypedLoop, ScanTypeOK
  <2> QED BY <2>1 DEF HistoryInv, ReportsInv
<1>4. edits <= edits
  BY BoundsAreNatural DEF HistoryInv, TypedLoop, ScanTypeOK
<1> QED BY <1>1, <1>2, <1>3, <1>4 DEF HoldsPrevious, CompletedOf, HashesOf

\* What DeltaIsExplained says of one report.
Explained(r) ==
    LET last == {m \in r.known : reports[m].status = "completed"} IN
    /\ r.previous \in last \cup {0}
    /\ \A m \in last : m <= r.previous
    /\ \A d \in r.discoveries :
        LET before == IF r.previous = 0 THEN {} ELSE Found(r.previous, d.key) IN
        /\ d.delta = "new" <=> before = {}
        /\ before # {} => \E hash \in before :
            \A e \in r.discoveries :
                e.key = d.key => (e.delta = "unchanged" <=> e.hash = hash)

LEMMA ReportsAreExplained ==
    /\ DeltaIsExplained <=> \A n \in DOMAIN reports : Explained(reports[n])
    /\ DeltaIsExplained' <=> \A n \in DOMAIN reports' : Explained(reports[n])'
BY DEF DeltaIsExplained, Explained

\* What explains a report is not rewritten.
LEMMA StaysExplained ==
    ASSUME Grows, NEW CONSTANT r, r.known \subseteq DOMAIN reports, Explained(r)
    PROVE  Explained(r)'
<1>1. \A m \in r.known : reports'[m] = reports[m]
  BY DEF Grows
<1>2. {m \in r.known : reports'[m].status = "completed"}
        = {m \in r.known : reports[m].status = "completed"}
  BY <1>1
<1>3. r.previous # 0 => reports'[r.previous] = reports[r.previous]
  BY <1>1 DEF Explained
<1> DEFINE Before(d) == IF r.previous = 0 THEN {} ELSE Found(r.previous, d.key)
<1>4. ASSUME NEW CONSTANT d PROVE Before(d)' = Before(d)
  BY <1>3 DEF Found
<1>5. \A d \in r.discoveries :
        /\ d.delta = "new" <=> Before(d) = {}
        /\ Before(d) # {} => \E hash \in Before(d) :
            \A e \in r.discoveries :
                e.key = d.key => (e.delta = "unchanged" <=> e.hash = hash)
  BY DEF Explained
<1>6. ASSUME NEW CONSTANT d \in r.discoveries
      PROVE  /\ d.delta = "new" <=> Before(d)' = {}
             /\ Before(d)' # {} => \E hash \in Before(d)' :
                 \A e \in r.discoveries :
                     e.key = d.key => (e.delta = "unchanged" <=> e.hash = hash)
  <2>1. Before(d)' = Before(d)
    BY <1>4
  <2> HIDE DEF Before
  <2> QED BY <1>5, <2>1
<1>7. /\ r.previous \in {m \in r.known : reports[m].status = "completed"} \cup {0}
      /\ \A m \in {m \in r.known : reports[m].status = "completed"} : m <= r.previous
  BY DEF Explained
<1> QED BY <1>2, <1>6, <1>7 DEF Explained

LEMMA DeltaCompares ==
    ASSUME NEW before, NEW key, NEW hash
    PROVE  /\ Delta(before, key, hash) = "new" <=> key \notin DOMAIN before
           /\ key \in DOMAIN before =>
                (Delta(before, key, hash) = "unchanged" <=> before[key] = hash)
<1>1. CASE key \notin DOMAIN before
  BY <1>1 DEF Delta
<1>2. CASE key \in DOMAIN before /\ before[key] = hash
  BY <1>2 DEF Delta
<1>3. CASE key \in DOMAIN before /\ before[key] # hash
  BY <1>3 DEF Delta
<1> QED BY <1>1, <1>2, <1>3

LEMMA ExtractedAreCompared ==
    ASSUME NEW h \in Handlers, NEW d \in Extracted(h)
    PROVE  d.delta = Delta(previousHashes[h], d.key, d.hash)
<1>1. PICK s \in Range(found[h]) : \E p \in Range(s.content) : d = Discovery(h, s.file, p)
  BY DEF Extracted
<1> PICK p \in Range(s.content) : d = Discovery(h, s.file, p)
  BY <1>1
<1>2. /\ d.key = <<s.file, p.name>> /\ d.hash = p.hash
      /\ d.delta = Delta(previousHashes[h], <<s.file, p.name>>, p.hash)
  BY DEF Discovery
<1> QED BY <1>2

\* The report of a run that has been scanned.
LEMMA NewIsExplained ==
    ASSUME HistoryInv, NEW h \in Handlers, NEW r, r.previous = previous[h], r.known = known[h],
           \/ r.discoveries = {}
           \/ r.discoveries = Extracted(h) /\ step[h] = "scan"
    PROVE  Explained(r)
<1>1. HoldsPrevious(h)
  BY DEF HistoryInv
<1>2. /\ r.previous \in {m \in r.known : reports[m].status = "completed"} \cup {0}
      /\ \A m \in {m \in r.known : reports[m].status = "completed"} : m <= r.previous
  BY <1>1 DEF HoldsPrevious, CompletedOf
<1> DEFINE Before(d) == IF r.previous = 0 THEN {} ELSE Found(r.previous, d.key)
<1>3. ASSUME NEW d \in r.discoveries
      PROVE  /\ d.delta = "new" <=> Before(d) = {}
             /\ Before(d) # {} => \E hash \in Before(d) :
                 \A e \in r.discoveries :
                     e.key = d.key => (e.delta = "unchanged" <=> e.hash = hash)
  <2>1. r.discoveries = Extracted(h) /\ step[h] = "scan"
    BY <1>3
  <2> DEFINE f == previousHashes[h]
  <2>2. \A e \in r.discoveries :
            /\ e.delta = "new" <=> e.key \notin DOMAIN f
            /\ e.key \in DOMAIN f => (e.delta = "unchanged" <=> f[e.key] = e.hash)
    <3> SUFFICES ASSUME NEW e \in r.discoveries
                 PROVE  /\ e.delta = "new" <=> e.key \notin DOMAIN f
                        /\ e.key \in DOMAIN f => (e.delta = "unchanged" <=> f[e.key] = e.hash)
      OBVIOUS
    <3>1. e.delta = Delta(f, e.key, e.hash)
      BY <2>1, ExtractedAreCompared
    <3> HIDE DEF f
    <3> QED BY <3>1, DeltaCompares
  <2>3. CASE previous[h] = 0
    <3>1. f = <<>>
      BY <1>1, <2>1, <2>3 DEF HoldsPrevious
    <3>2. DOMAIN f = {}
      BY <3>1
    <3>3. Before(d) = {} /\ d.delta = "new"
      BY <2>2, <2>3, <3>2
    <3> QED BY <3>3
  <2>4. CASE previous[h] # 0
    <3> DEFINE rows == reports[previous[h]].discoveries
    <3>1. f \in HashesOf(previous[h])
      BY <1>1, <2>1, <2>4 DEF HoldsPrevious
    <3>2. /\ DOMAIN f = {x.key : x \in rows}
          /\ \A k \in DOMAIN f : \E x \in rows : x.key = k /\ x.hash = f[k]
      BY <3>1 DEF HashesOf
    <3>3. Before(d) = {x.hash : x \in {y \in rows : y.key = d.key}}
      BY <2>4 DEF Found
    <3> HIDE DEF f, rows, Before
    <3>4. Before(d) # {} <=> d.key \in DOMAIN f
      BY <3>2, <3>3
    <3>5. ASSUME d.key \in DOMAIN f PROVE f[d.key] \in Before(d)
      BY <3>2, <3>3, <3>5
    <3> QED BY <2>2, <3>4, <3>5
  <2> QED BY <2>3, <2>4
<1> QED BY <1>2, <1>3 DEF Explained

\* Reports stay as they are, and so does what is said of them.
LEMMA ReportsKept ==
    ASSUME HistoryInv, Grows, TypedLoop'
    PROVE  \A n \in DOMAIN reports :
              /\ reports'[n].known \subseteq 1 .. n - 1
              /\ reports'[n].began <= reports'[n].ended
              /\ reports'[n].ended <= edits'
              /\ Explained(reports[n])'
<1> SUFFICES ASSUME NEW n \in DOMAIN reports
             PROVE  /\ reports'[n].known \subseteq 1 .. n - 1
                    /\ reports'[n].began <= reports'[n].ended
                    /\ reports'[n].ended <= edits'
                    /\ Explained(reports[n])'
  OBVIOUS
<1>1. PICK r : r = reports[n]
  OBVIOUS
<1>2. reports'[n] = r
  BY <1>1 DEF Grows
<1>3. /\ r.known \subseteq 1 .. n - 1 /\ r.began <= r.ended /\ r.ended <= edits
      /\ Explained(r)
  BY <1>1, ReportsAreExplained DEF HistoryInv, ReportsInv
<1>4. r \in Reports /\ DOMAIN reports = 1 .. Len(reports) /\ Len(reports) \in Nat
      /\ edits \in Nat /\ edits' \in Nat
  BY <1>1, BoundsAreNatural DEF HistoryInv, TypedLoop, ScanTypeOK
<1>5. r.ended \in Nat
  BY <1>4 DEF Reports
<1>6. r.ended <= edits'
  BY <1>3, <1>4, <1>5 DEF Grows
<1>7. r.known \subseteq DOMAIN reports
  BY <1>3, <1>4
<1>8. Explained(r)'
  BY <1>3, <1>7, StaysExplained
<1> QED BY <1>2, <1>3, <1>6, <1>8

LEMMA HistoryInit == ScanInit => HistoryInv
<1> SUFFICES ASSUME ScanInit PROVE HistoryInv
  OBVIOUS
<1>1. TypedLoop
  BY TypedLoopInit
<1>2. DOMAIN reports = {}
  BY DEF ScanInit
<1>3. ASSUME NEW h \in Handlers PROVE HoldsPrevious(h)
  BY <1>1, BoundsAreNatural DEF ScanInit, HoldsPrevious, CompletedOf
<1> QED BY <1>1, <1>2, <1>3 DEF HistoryInv, ReportsInv, DeltaIsExplained

LEMMA HistoryReport ==
    ASSUME HistoryInv, TypedLoop', Grows, NEW h \in Handlers,
           NEW outcome \in {"completed", "failed"}, NEW discoveries \in SUBSET Rows,
           MakeReport(h, outcome, discoveries),
           \/ discoveries = {}
           \/ discoveries = Extracted(h) /\ step[h] = "scan"
    PROVE  ReportsInv' /\ DeltaIsExplained'
<1> DEFINE n == Len(reports) + 1
<1>1. PICK r : r = [status |-> outcome, root |-> root[h], previous |-> previous[h],
                    discoveries |-> discoveries, known |-> known[h],
                    began |-> began[h], ended |-> edits]
  OBVIOUS
<1>2. /\ n \in Nat /\ DOMAIN reports = 1 .. n - 1 /\ DOMAIN reports' = DOMAIN reports \cup {n}
      /\ reports'[n] = r
  <2>1. ScanTypeOK
    BY DEF HistoryInv, TypedLoop
  <2>2. /\ Len(reports) \in Nat /\ DOMAIN reports = 1 .. Len(reports)
        /\ DOMAIN reports' = DOMAIN reports \cup {n} /\ reports'[n] = r
    BY <1>1, <2>1, ReportIsAdded
  <2> QED BY <2>2
<1>3. HoldsPrevious(h)
  BY DEF HistoryInv
<1>4. r.known \subseteq DOMAIN reports
  BY <1>1, <1>3 DEF HoldsPrevious, HistoryInv, TypedLoop, ScanTypeOK
<1>5. Explained(r)
  BY <1>1, NewIsExplained
<1>6. Explained(r)'
  BY <1>4, <1>5, StaysExplained
<1>7. r.began <= r.ended /\ r.ended <= edits'
  <2>1. edits' = edits /\ edits \in Nat
    BY BoundsAreNatural DEF MakeReport, HistoryInv, TypedLoop, ScanTypeOK
  <2> QED BY <1>1, <1>3, <2>1 DEF HoldsPrevious
<1> HIDE DEF n
<1>8. \A m \in DOMAIN reports' :
        /\ reports'[m].known \subseteq 1 .. m - 1
        /\ reports'[m].began <= reports'[m].ended
        /\ reports'[m].ended <= edits'
  BY <1>2, <1>4, <1>7, ReportsKept
<1>9. ASSUME NEW m \in DOMAIN reports' PROVE Explained(reports[m])'
  <2>1. CASE m = n
    BY <1>2, <1>6, <2>1
  <2>2. CASE m \in DOMAIN reports
    BY <2>2, ReportsKept
  <2> QED BY <1>2, <2>1, <2>2
<1> QED BY <1>8, <1>9, ReportsAreExplained DEF ReportsInv

\* A step that makes no report.
LEMMA HistoryKept ==
    ASSUME HistoryInv, TypedLoop', Grows, reports' = reports
    PROVE  ReportsInv' /\ DeltaIsExplained'
<1>1. ReportsInv'
  BY ReportsKept DEF ReportsInv
<1>2. \A n \in DOMAIN reports' : Explained(reports[n])'
  BY ReportsKept
<1> QED BY <1>1, <1>2, ReportsAreExplained

LEMMA HistoryStep == HistoryInv /\ [ScanNext]_scanningVars => HistoryInv'
<1> SUFFICES ASSUME HistoryInv, [ScanNext]_scanningVars PROVE HistoryInv'
  OBVIOUS
<1>1. TypedLoop /\ TypedLoop' /\ Grows
  BY TypedLoopStep, ReportsGrow DEF HistoryInv
<1>2. ASSUME NEW h \in Handlers, Rests(h) PROVE HoldsPrevious(h)'
  BY <1>1, <1>2, HoldsWhileResting DEF HistoryInv, Rests
<1>3. ASSUME NEW h \in Handlers, HoldsPrevious(h)', ReportsInv', DeltaIsExplained', Step(h)
      PROVE  HistoryInv'
  <2>1. ASSUME NEW g \in Handlers PROVE HoldsPrevious(g)'
    BY <1>1, <1>2, <1>3, OthersRest
  <2> QED BY <1>1, <1>3, <2>1 DEF HistoryInv
<1>4. ASSUME NEW h \in Handlers, NEW path \in Requests, ReadPrevious(h, path)
      PROVE  HistoryInv'
  <2>1. HoldsPrevious(h)'
    BY <1>1, <1>4, HoldsAfterAsking
  <2>2. reports' = reports /\ Step(h)
    BY <1>4 DEF ReadPrevious, Step
  <2> QED BY <1>1, <1>3, <2>1, <2>2, HistoryKept
<1>5. ASSUME NEW h \in Handlers, StartScan(h)
      PROVE  HistoryInv'
  <2>1. HoldsPrevious(h)'
    BY <1>1, <1>5, HoldsAfterStart
  <2>2. reports' = reports /\ Step(h)
    BY <1>5 DEF StartScan, Step
  <2> QED BY <1>1, <1>3, <2>1, <2>2, HistoryKept
<1>6. ASSUME NEW h \in Handlers, ScanFile(h)
      PROVE  HistoryInv'
  <2>1. HoldsPrevious(h)'
    BY <1>1, <1>6, HoldsWhileResting DEF HistoryInv, ScanFile
  <2>2. reports' = reports /\ Step(h)
    BY <1>6 DEF ScanFile, Step
  <2> QED BY <1>1, <1>3, <2>1, <2>2, HistoryKept
<1>7. ASSUME NEW h \in Handlers, EndScan(h) \/ NoDirectory(h)
      PROVE  HistoryInv'
  <2>1. PICK outcome \in {"completed", "failed"}, discoveries \in SUBSET Rows :
            /\ MakeReport(h, outcome, discoveries)
            /\ \/ discoveries = {}
               \/ discoveries = Extracted(h) /\ step[h] = "scan"
    <3>1. Extracted(h) \in SUBSET Rows /\ {} \in SUBSET Rows
      BY <1>1, ExtractedAreRows DEF TypedLoop
    <3> QED BY <1>7, <3>1 DEF EndScan, NoDirectory
  <2>2. ReportsInv' /\ DeltaIsExplained'
    BY <1>1, <2>1, HistoryReport
  <2>3. step'[h] = "save" /\ UNCHANGED <<previous, known, began>>
    BY <1>1, <2>1 DEF MakeReport, TypedLoop, ScanTypeOK
  <2>4. HoldsPrevious(h)'
    BY <1>1, <2>3, HoldsWhileResting DEF HistoryInv
  <2> QED BY <1>3, <1>7, <2>2, <2>4 DEF Step
<1>8. ASSUME NEW h \in Handlers, StoreReport(h)
      PROVE  HistoryInv'
  <2>1. step'[h] = "audit" /\ UNCHANGED <<previous, known, began>>
    BY <1>1, <1>8 DEF StoreReport, TypedLoop, ScanTypeOK
  <2>2. HoldsPrevious(h)'
    BY <1>1, <2>1, HoldsWhileResting DEF HistoryInv
  <2>3. reports' = reports /\ Step(h)
    BY <1>8 DEF StoreReport, Step
  <2> QED BY <1>1, <1>3, <2>2, <2>3, HistoryKept
<1>9. ASSUME NEW h \in Handlers, StoreFails(h) \/ AuditTrigger(h)
      PROVE  HistoryInv'
  <2>1. /\ step'[h] = "idle" /\ previous'[h] = 0 /\ known'[h] = {} /\ began'[h] = 0
        /\ reports' = reports /\ Step(h)
    BY <1>1, <1>9 DEF StoreFails, AuditTrigger, EndTrigger, TypedLoop, ScanTypeOK, Step
  <2>2. HoldsPrevious(h)'
    BY <1>1, <2>1, HoldsWhenEnded
  <2> QED BY <1>1, <1>3, <2>1, <2>2, HistoryKept
<1>10. ASSUME NEW f \in Files, Edit(f)
       PROVE  HistoryInv'
  <2>1. \A h \in Handlers : Rests(h)
    BY <1>10 DEF Edit, Rests, handlerVars
  <2>2. reports' = reports
    BY <1>10 DEF Edit
  <2> QED BY <1>1, <1>2, <2>1, <2>2, HistoryKept DEF HistoryInv
<1>11. CASE RestartScans
  <2>1. ASSUME NEW h \in Handlers PROVE HoldsPrevious(h)'
    <3>1. step'[h] = "idle" /\ previous'[h] = 0 /\ known'[h] = {} /\ began'[h] = 0
      BY <1>11 DEF RestartScans
    <3> QED BY <1>1, <3>1, HoldsWhenEnded
  <2>2. reports' = reports
    BY <1>11 DEF RestartScans
  <2> QED BY <1>1, <2>1, <2>2, HistoryKept DEF HistoryInv
<1>12. CASE UNCHANGED scanningVars
  <2>1. \A h \in Handlers : Rests(h)
    BY <1>12 DEF Rests, scanningVars, handlerVars
  <2>2. reports' = reports
    BY <1>12 DEF scanningVars
  <2> QED BY <1>1, <1>2, <2>1, <2>2, HistoryKept DEF HistoryInv
<1> QED BY <1>4, <1>5, <1>6, <1>7, <1>8, <1>9, <1>10, <1>11, <1>12 DEF ScanNext, Step

\* What a run reports is explained by the hashes of one completed run.
THEOREM DeltasAreExplained == ScanSpec => []DeltaIsExplained
<1>1. HistoryInv => DeltaIsExplained
  BY DEF HistoryInv
<1> QED BY <1>1, HistoryInit, HistoryStep, PTL DEF ScanSpec

(***************************************************************************)
(* A scan that is repeated.  A scan reads the first files that can be      *)
(* read, in order; two scans of a tree that nobody edits read the same.    *)
(***************************************************************************)

Readable(path) == {f \in Below(path) : tree[f] # Skipped}

FilesRead(h) == {s.file : s \in Range(found[h])}

ReadsInOrder(h) ==
    step[h] = "scan" =>
        /\ Increasing(queue[h])
        /\ \A f \in Range(queue[h]) : IsPrefix(root[h], Location[f])
        /\ IsFiniteSet(FilesRead(h)) /\ Cardinality(FilesRead(h)) = Len(found[h])
        /\ \A f \in FilesRead(h), g \in Range(queue[h]) : f < g
        /\ began[h] = edits =>
              /\ \A s \in Range(found[h]) : s.content = tree[s.file]
              /\ FilesRead(h) \cup (Readable(root[h]) \cap Range(queue[h])) = Readable(root[h])

\* D are the first files that can be read, as many as a scan reads.
FirstFiles(path, D) ==
    /\ D \subseteq Readable(path)
    /\ \A f \in D, g \in Readable(path) \ D : f < g
    /\ \/ D = Readable(path) /\ Cardinality(D) <= MaxFiles
       \/ Cardinality(D) = MaxFiles

InTree(D) == UNION {{<<<<f, p.name>>, p.hash>> : p \in Range(tree[f])} : f \in D}
Pairs(discoveries) == {<<d.key, d.hash>> : d \in discoveries}

\* What a scan found is still there, if nobody has edited a file since it began.
Current(r) ==
    r.status = "completed" /\ r.began = edits =>
        \E D \in SUBSET Files : FirstFiles(r.root, D) /\ Pairs(r.discoveries) = InTree(D)

\* What RescanIsQuiet says of one report.
Quiet(r) ==
    LET p == reports[r.previous] IN
    /\ r.status = "completed" /\ r.previous # 0 /\ r.root = p.root /\ p.began = r.ended
    => /\ Pairs(r.discoveries) = Pairs(p.discoveries)
       /\ \A d \in r.discoveries :
            {e.hash : e \in {x \in r.discoveries : x.key = d.key}} = {d.hash}
                => d.delta = "unchanged"

RescanInv ==
    /\ HistoryInv
    /\ \A h \in Handlers : ReadsInOrder(h)
    /\ \A n \in DOMAIN reports : Current(reports[n])
    /\ RescanIsQuiet

LEMMA ReportsAreQuiet ==
    /\ RescanIsQuiet <=> \A n \in DOMAIN reports : Quiet(reports[n])
    /\ RescanIsQuiet' <=> \A n \in DOMAIN reports' : Quiet(reports[n])'
BY DEF RescanIsQuiet, Quiet, Pairs, Found

\* The first files are determined by their number.
LEMMA FirstFilesUnique ==
    ASSUME NEW path, NEW D \in SUBSET Files, NEW E \in SUBSET Files,
           FirstFiles(path, D), FirstFiles(path, E)
    PROVE  D = E
<1>1. /\ IsFiniteSet(D) /\ Cardinality(D) \in Nat /\ Cardinality(D) <= MaxFiles
      /\ IsFiniteSet(E) /\ Cardinality(E) \in Nat /\ Cardinality(E) <= MaxFiles
  BY FilesAreNumbered, FS_Subset, FS_CardinalityType, BoundsAreNatural DEF FirstFiles
<1>2. D \subseteq E \/ E \subseteq D
  <2> SUFFICES ASSUME NEW f \in D, f \notin E, NEW g \in E, g \notin D PROVE FALSE
    OBVIOUS
  <2>1. f \in Nat /\ g \in Nat /\ f < g /\ g < f
    BY FilesAreNumbered DEF FirstFiles
  <2> QED BY <2>1
<1>3. ASSUME NEW A \in SUBSET Files, NEW B \in SUBSET Files, A \subseteq B, A # B,
             FirstFiles(path, A), FirstFiles(path, B), IsFiniteSet(B),
             Cardinality(A) \in Nat, Cardinality(B) \in Nat, Cardinality(B) <= MaxFiles
      PROVE  FALSE
  <2>1. A # Readable(path)
    BY <1>3 DEF FirstFiles
  <2>2. Cardinality(A) = MaxFiles
    BY <1>3, <2>1 DEF FirstFiles
  <2>3. Cardinality(A) < Cardinality(B)
    BY <1>3, FS_Subset
  <2> QED BY <1>3, <2>2, <2>3, BoundsAreNatural
<1> QED BY <1>1, <1>2, <1>3

\* Files and their contents do not change while nobody edits.
LEMMA SameTree ==
    ASSUME UNCHANGED tree, NEW CONSTANT path, NEW CONSTANT D
    PROVE  /\ Below(path)' = Below(path) /\ Readable(path)' = Readable(path)
           /\ FirstFiles(path, D)' <=> FirstFiles(path, D)
           /\ InTree(D)' = InTree(D)
<1>1. Below(path)' = Below(path)
  BY DEF Below
<1>2. Readable(path)' = Readable(path)
  BY <1>1 DEF Readable
<1>3. FirstFiles(path, D)' <=> FirstFiles(path, D)
  BY <1>2 DEF FirstFiles
<1>4. InTree(D)' = InTree(D)
  BY DEF InTree
<1> QED BY <1>1, <1>2, <1>3, <1>4

LEMMA OrderWhileResting ==
    ASSUME HistoryInv, NEW h \in Handlers, ReadsInOrder(h), Rests(h),
           UNCHANGED <<tree, edits>> \/ edits' = edits + 1
    PROVE  ReadsInOrder(h)'
<1> SUFFICES ASSUME step'[h] = "scan" PROVE ReadsInOrder(h)'
  BY DEF ReadsInOrder
<1>1. /\ step[h] = "scan" /\ root'[h] = root[h] /\ began'[h] = began[h]
      /\ queue'[h] = queue[h] /\ found'[h] = found[h]
  BY DEF Rests
<1>2. began[h] <= edits /\ began[h] \in Nat /\ edits \in Nat
  BY BoundsAreNatural DEF HistoryInv, HoldsPrevious, TypedLoop, ScanTypeOK
<1>3. FilesRead(h)' = FilesRead(h)
  BY <1>1 DEF FilesRead
<1>4. began'[h] = edits' => began[h] = edits /\ UNCHANGED <<tree, edits>>
  BY <1>1, <1>2
<1>5. began'[h] = edits' => Readable(root[h])' = Readable(root[h])
  BY <1>1, <1>4 DEF Readable, Below
<1> QED BY <1>1, <1>3, <1>4, <1>5 DEF ReadsInOrder, Increasing

LEMMA OrderAfterStart ==
    ASSUME HistoryInv, NEW h \in Handlers, StartScan(h)
    PROVE  ReadsInOrder(h)'
<1>1. PICK files \in Orders(Below(root[h])) : queue' = [queue EXCEPT ![h] = files]
  BY DEF StartScan
<1>2. files \in Seq(Files) /\ Range(files) = Below(root[h]) /\ Increasing(files)
  BY FilesBelow
<1>3. queue'[h] = files /\ found'[h] = <<>> /\ root'[h] = root[h] /\ tree' = tree
  BY <1>1 DEF StartScan, HistoryInv, TypedLoop, LoopInv, ScanTypeOK
<1>4. FilesRead(h)' = {} /\ Range(found[h])' = {}
  BY <1>3 DEF FilesRead, Range
<1>5. Readable(root[h])' = Readable(root[h]) /\ Readable(root[h]) \subseteq Below(root[h])
  BY <1>3 DEF Readable, Below
<1>6. \A f \in Below(root[h]) : IsPrefix(root[h], Location[f])
  BY DEF Below
<1>7. Range(queue[h])' = Below(root[h]) /\ Increasing(queue[h])'
  BY <1>2, <1>3
<1>8. Len(found'[h]) = 0
  BY <1>3
<1> QED BY <1>3, <1>4, <1>5, <1>6, <1>7, <1>8, FS_EmptySet DEF ReadsInOrder

\* One file is read, or passed over.
LEMMA OrderAfterFile ==
    ASSUME HistoryInv, NEW h \in Handlers, ReadsInOrder(h), ScanFile(h)
    PROVE  ReadsInOrder(h)'
<1> DEFINE f == Head(queue[h])
           rest == Tail(queue[h])
           s == [file |-> f, content |-> tree[f]]
           SourceFile == [file : Files, content : Contents]
<1>1. /\ queue[h] \in Seq(Files) /\ queue[h] # <<>>
      /\ found[h] \in Seq(SourceFile)
      /\ tree \in [Files -> Contents \cup {Absent, Skipped}]
  BY DEF HistoryInv, TypedLoop, ScanTypeOK, ScanFile
<1>2. /\ step[h] = "scan" /\ queue'[h] = rest
      /\ UNCHANGED <<tree, edits, step, root, began>>
      /\ found'[h] = IF tree[f] \in {Absent, Skipped} THEN found[h] ELSE Append(found[h], s)
  BY DEF HistoryInv, TypedLoop, ScanTypeOK, ScanFile
<1>3. /\ f \in Files /\ rest \in Seq(Files)
      /\ Range(queue[h]) = {f} \cup Range(rest)
      /\ Increasing(queue[h]) => Increasing(rest) /\ \A g \in Range(rest) : f < g
  BY <1>1, TailOfIncreasing, FilesAreNumbered
<1> HIDE DEF f, rest
<1>4. /\ Increasing(queue[h])
      /\ \A g \in Range(queue[h]) : IsPrefix(root[h], Location[g])
      /\ IsFiniteSet(FilesRead(h)) /\ Cardinality(FilesRead(h)) = Len(found[h])
      /\ \A e \in FilesRead(h), g \in Range(queue[h]) : e < g
      /\ began[h] = edits =>
            /\ \A x \in Range(found[h]) : x.content = tree[x.file]
            /\ FilesRead(h) \cup (Readable(root[h]) \cap Range(queue[h])) = Readable(root[h])
  BY <1>2 DEF ReadsInOrder
<1>5. Readable(root[h])' = Readable(root[h])
  BY <1>2 DEF Readable, Below
<1>6. CASE tree[f] \in {Absent, Skipped}
  <2>1. found'[h] = found[h]
    BY <1>2, <1>6
  <2>2. FilesRead(h)' = FilesRead(h)
    BY <2>1 DEF FilesRead
  <2>3. f \notin Readable(root[h])
    BY <1>6 DEF Readable, Below
  <2> QED BY <1>2, <1>3, <1>4, <1>5, <2>1, <2>2, <2>3 DEF ReadsInOrder, Increasing
<1>7. CASE tree[f] \notin {Absent, Skipped}
  <2>1. s \in SourceFile
    BY <1>1, <1>3, <1>7
  <2>2. found'[h] = Append(found[h], s)
    BY <1>2, <1>7
  <2>3. /\ Range(found[h])' = Range(found[h]) \cup {s}
        /\ Len(found'[h]) = Len(found[h]) + 1
    <3> HIDE DEF s, SourceFile
    <3>1. Range(Append(found[h], s)) = Range(found[h]) \cup {s}
      BY <1>1, <2>1, AppendedRange
    <3>2. Len(Append(found[h], s)) = Len(found[h]) + 1
      BY <1>1, <2>1
    <3> QED BY <2>2, <3>1, <3>2 DEF Range
  <2>4. s.file = f /\ s.content = tree[f]
    OBVIOUS
  <2> HIDE DEF s
  <2>5. FilesRead(h)' = FilesRead(h) \cup {f}
    BY <2>3, <2>4 DEF FilesRead
  <2>6. f \notin FilesRead(h)
    <3>1. f \in Nat /\ f \in Range(queue[h])
      BY <1>3, FilesAreNumbered
    <3> QED BY <1>4, <3>1
  <2>7. /\ IsFiniteSet(FilesRead(h)')
        /\ Cardinality(FilesRead(h)') = Len(found'[h])
    <3> DEFINE read == FilesRead(h) \cup {f}
    <3>1. IsFiniteSet(read) /\ Cardinality(read) = Cardinality(FilesRead(h)) + 1
      BY <1>4, <2>6, FS_AddElement
    <3> QED BY <1>4, <2>3, <2>5, <3>1
  <2>8. f \in Readable(root[h])
    BY <1>3, <1>4, <1>7 DEF Readable, Below
  <2>9. \A e \in FilesRead(h)', g \in Range(rest) : e < g
    BY <1>3, <1>4, <2>5
  <2>10. ASSUME began[h] = edits
         PROVE  /\ \A x \in Range(found[h])' : x.content = tree[x.file]
                /\ FilesRead(h)' \cup (Readable(root[h]) \cap Range(rest)) = Readable(root[h])
    BY <1>3, <1>4, <2>3, <2>4, <2>5, <2>8, <2>10
  <2>11. Increasing(rest) /\ \A g \in Range(rest) : IsPrefix(root[h], Location[g])
    BY <1>3, <1>4
  <2> QED BY <1>2, <1>5, <2>7, <2>9, <2>10, <2>11 DEF ReadsInOrder, Increasing
<1> QED BY <1>6, <1>7

\* What a finished scan has found.
LEMMA ExtractedIsCurrent ==
    ASSUME HistoryInv, NEW h \in Handlers, ReadsInOrder(h), EndScan(h), began[h] = edits
    PROVE  /\ FilesRead(h) \in SUBSET Files
           /\ FirstFiles(root[h], FilesRead(h))
           /\ Pairs(Extracted(h)) = InTree(FilesRead(h))
<1>1. /\ step[h] = "scan"
      /\ queue[h] = <<>> \/ Full(h)
      /\ Len(found[h]) \in Nat /\ Len(found[h]) <= MaxFiles
      /\ found[h] \in Seq([file : Files, content : Contents])
  <2> DEFINE SourceFile == [file : Files, content : Contents]
  <2>1. found[h] \in Seq(SourceFile) /\ Len(found[h]) <= MaxFiles
    BY DEF HistoryInv, TypedLoop, ScanTypeOK
  <2> HIDE DEF SourceFile
  <2>2. Len(found[h]) \in Nat
    BY <2>1
  <2>3. step[h] = "scan" /\ (queue[h] = <<>> \/ Full(h))
    BY DEF EndScan
  <2> QED BY <2>1, <2>2, <2>3 DEF SourceFile
<1>2. /\ Cardinality(FilesRead(h)) = Len(found[h])
      /\ \A f \in FilesRead(h), g \in Range(queue[h]) : f < g
      /\ \A s \in Range(found[h]) : s.content = tree[s.file]
      /\ FilesRead(h) \cup (Readable(root[h]) \cap Range(queue[h])) = Readable(root[h])
  BY <1>1 DEF ReadsInOrder
<1>3. FilesRead(h) \in SUBSET Files
  <2>1. Range(found[h]) \subseteq [file : Files, content : Contents]
    BY <1>1, RangeIsTyped
  <2> QED BY <2>1 DEF FilesRead
<1>4. \/ FilesRead(h) = Readable(root[h]) /\ Cardinality(FilesRead(h)) <= MaxFiles
      \/ Cardinality(FilesRead(h)) = MaxFiles
  <2>1. CASE queue[h] = <<>>
    <3>1. Range(queue[h]) = {}
      BY <2>1 DEF Range
    <3> QED BY <1>1, <1>2, <3>1
  <2>2. CASE Full(h)
    BY <1>1, <1>2, <2>2, BoundsAreNatural DEF Full
  <2> QED BY <1>1, <2>1, <2>2
<1>5. FirstFiles(root[h], FilesRead(h))
  BY <1>2, <1>4 DEF FirstFiles
<1>6. ASSUME NEW x \in Pairs(Extracted(h)) PROVE x \in InTree(FilesRead(h))
  <2>1. PICK d \in Extracted(h) : x = <<d.key, d.hash>>
    BY DEF Pairs
  <2>2. PICK s \in Range(found[h]) : \E p \in Range(s.content) : d = Discovery(h, s.file, p)
    BY DEF Extracted
  <2> PICK p \in Range(s.content) : d = Discovery(h, s.file, p)
    BY <2>2
  <2>3. x = <<<<s.file, p.name>>, p.hash>>
    BY <2>1 DEF Discovery
  <2>4. s.file \in FilesRead(h) /\ p \in Range(tree[s.file])
    BY <1>2 DEF FilesRead
  <2> QED BY <2>3, <2>4 DEF InTree
<1>7. ASSUME NEW x \in InTree(FilesRead(h)) PROVE x \in Pairs(Extracted(h))
  <2>1. PICK f \in FilesRead(h) : x \in {<<<<f, p.name>>, p.hash>> : p \in Range(tree[f])}
    BY DEF InTree
  <2>2. PICK p \in Range(tree[f]) : x = <<<<f, p.name>>, p.hash>>
    BY <2>1
  <2>3. PICK s \in Range(found[h]) : s.file = f
    BY DEF FilesRead
  <2>4. p \in Range(s.content)
    BY <1>2, <2>3
  <2>5. Discovery(h, s.file, p) \in Extracted(h)
    BY <2>4 DEF Extracted
  <2>6. Discovery(h, s.file, p).key = <<f, p.name>> /\ Discovery(h, s.file, p).hash = p.hash
    BY <2>3 DEF Discovery
  <2> QED BY <2>2, <2>5, <2>6 DEF Pairs
<1> QED BY <1>3, <1>5, <1>6, <1>7

\* The report of a scan is quiet if nothing was edited since the run before.
LEMMA NewIsQuiet ==
    ASSUME RescanInv, NEW h \in Handlers, EndScan(h), NEW r, Explained(r),
           r.root = root[h], r.previous = previous[h], r.ended = edits,
           r.discoveries = Extracted(h)
    PROVE  Quiet(r)
<1> DEFINE p == reports[r.previous]
<1> SUFFICES ASSUME r.previous # 0, r.root = p.root, p.began = r.ended
             PROVE  /\ Pairs(r.discoveries) = Pairs(p.discoveries)
                    /\ \A d \in r.discoveries :
                         {e.hash : e \in {x \in r.discoveries : x.key = d.key}} = {d.hash}
                             => d.delta = "unchanged"
  BY DEF Quiet
<1>1. HistoryInv /\ HoldsPrevious(h) /\ ReadsInOrder(h) /\ step[h] = "scan"
  BY DEF RescanInv, HistoryInv, EndScan
<1>2. /\ r.previous \in DOMAIN reports /\ p.status = "completed"
      /\ p.ended <= began[h] /\ began[h] <= edits
  BY <1>1 DEF HoldsPrevious, CompletedOf, HistoryInv, TypedLoop, ScanTypeOK
<1>3. p.began = edits /\ p.began <= p.ended
  BY <1>1, <1>2 DEF HistoryInv, ReportsInv
<1>4. began[h] = edits
  <2>1. p.ended \in Nat /\ began[h] \in Nat /\ edits \in Nat
    <3>1. p \in Reports
      BY <1>1, <1>2, HashesAreTyped DEF HistoryInv, TypedLoop
    <3> QED BY <1>1, <3>1, BoundsAreNatural DEF HistoryInv, TypedLoop, ScanTypeOK, Reports
  <2> QED BY <1>2, <1>3, <2>1
<1>5. PICK D \in SUBSET Files : FirstFiles(p.root, D) /\ Pairs(p.discoveries) = InTree(D)
  BY <1>2, <1>3 DEF RescanInv, Current
<1>6. /\ FilesRead(h) \in SUBSET Files /\ FirstFiles(p.root, FilesRead(h))
      /\ Pairs(r.discoveries) = InTree(FilesRead(h))
  BY <1>1, <1>4, ExtractedIsCurrent
<1>7. Pairs(r.discoveries) = Pairs(p.discoveries)
  BY <1>5, <1>6, FirstFilesUnique
<1> HIDE DEF p
<1>8. ASSUME NEW d \in r.discoveries,
             {e.hash : e \in {x \in r.discoveries : x.key = d.key}} = {d.hash}
      PROVE  d.delta = "unchanged"
  <2> DEFINE before == Found(r.previous, d.key)
  <2>1. before = {d.hash}
    <3>1. before = {e.hash : e \in {x \in p.discoveries : x.key = d.key}}
      BY DEF Found, p
    <3> HIDE DEF before
    <3>2. ASSUME NEW hash
          PROVE  hash \in before <=> <<d.key, hash>> \in Pairs(p.discoveries)
      BY <3>1 DEF Pairs
    <3>3. ASSUME NEW hash
          PROVE  <<d.key, hash>> \in Pairs(r.discoveries) <=> hash = d.hash
      <4>1. <<d.key, hash>> \in Pairs(r.discoveries)
              <=> hash \in {e.hash : e \in {x \in r.discoveries : x.key = d.key}}
        BY DEF Pairs
      <4> QED BY <1>8, <4>1
    <3> QED BY <1>7, <3>2, <3>3
  <2>2. PICK hash \in before : d.delta = "unchanged" <=> d.hash = hash
    BY <2>1 DEF Explained
  <2> QED BY <2>1, <2>2
<1> QED BY <1>7, <1>8

LEMMA RescanInit == ScanInit => RescanInv
<1> SUFFICES ASSUME ScanInit PROVE RescanInv
  OBVIOUS
<1>1. HistoryInv
  BY HistoryInit
<1>2. DOMAIN reports = {}
  BY DEF ScanInit
<1>3. \A h \in Handlers : ReadsInOrder(h)
  BY DEF ScanInit, ReadsInOrder
<1> QED BY <1>1, <1>2, <1>3 DEF RescanInv, RescanIsQuiet

\* Reports that were current and quiet are so after a step.
LEMMA StaysQuiet ==
    ASSUME HistoryInv, Grows, UNCHANGED <<tree, edits>> \/ edits' = edits + 1,
           NEW n \in DOMAIN reports, Current(reports[n]), Quiet(reports[n])
    PROVE  Current(reports[n])' /\ Quiet(reports[n])'
<1>1. PICK r : r = reports[n]
  OBVIOUS
<1>2. reports'[n] = r
  BY <1>1 DEF Grows
<1>3. /\ r.began <= edits /\ r.began \in Nat /\ edits \in Nat
      /\ r.previous # 0 => r.previous \in DOMAIN reports
  <2>1. /\ r \in Reports /\ edits \in Nat /\ DOMAIN reports = 1 .. Len(reports)
        /\ Len(reports) \in Nat
    BY <1>1, BoundsAreNatural DEF HistoryInv, TypedLoop, ScanTypeOK
  <2>2. r.began \in Nat /\ r.ended \in Nat
    BY <2>1 DEF Reports
  <2>3. r.began <= r.ended /\ r.ended <= edits /\ r.known \subseteq 1 .. n - 1
    BY <1>1 DEF HistoryInv, ReportsInv
  <2>4. r.previous \in r.known \cup {0}
    BY <1>1, ReportsAreExplained DEF HistoryInv, Explained
  <2> QED BY <2>1, <2>2, <2>3, <2>4
<1>4. Current(r)'
  <2> SUFFICES ASSUME r.status = "completed", r.began = edits'
               PROVE  (\E D \in SUBSET Files :
                          FirstFiles(r.root, D) /\ Pairs(r.discoveries) = InTree(D))'
    BY DEF Current
  <2>1. UNCHANGED <<tree, edits>>
    BY <1>3
  <2>2. PICK D \in SUBSET Files : FirstFiles(r.root, D) /\ Pairs(r.discoveries) = InTree(D)
    BY <1>1, <2>1 DEF Current
  <2>3. FirstFiles(r.root, D)' /\ InTree(D)' = InTree(D)
    BY <2>1, <2>2, SameTree
  <2> QED BY <2>2, <2>3 DEF Pairs
<1>5. Quiet(r)'
  <2>1. r.previous # 0 => reports'[r.previous] = reports[r.previous]
    BY <1>3 DEF Grows
  <2> QED BY <1>1, <2>1 DEF Quiet, Pairs
<1> QED BY <1>2, <1>4, <1>5 DEF Current, Quiet

LEMMA RescanKept ==
    ASSUME RescanInv, HistoryInv', Grows, reports' = reports,
           UNCHANGED <<tree, edits>> \/ edits' = edits + 1,
           \A h \in Handlers : ReadsInOrder(h)'
    PROVE  RescanInv'
<1>1. \A n \in DOMAIN reports' : Current(reports[n])' /\ Quiet(reports[n])'
  BY StaysQuiet, ReportsAreQuiet DEF RescanInv
<1> QED BY <1>1, ReportsAreQuiet DEF RescanInv

LEMMA RescanReport ==
    ASSUME RescanInv, HistoryInv', Grows, NEW h \in Handlers, EndScan(h) \/ NoDirectory(h),
           \A g \in Handlers : ReadsInOrder(g)'
    PROVE  RescanInv'
<1>1. PICK outcome \in {"completed", "failed"}, discoveries \in SUBSET Rows :
        /\ MakeReport(h, outcome, discoveries)
        /\ outcome = "completed" => discoveries = Extracted(h) /\ EndScan(h)
  <2>1. Extracted(h) \in SUBSET Rows /\ {} \in SUBSET Rows
    BY ExtractedAreRows DEF RescanInv, HistoryInv, TypedLoop
  <2>2. CASE EndScan(h)
    <3>1. MakeReport(h, "completed", Extracted(h))
      BY <2>2 DEF EndScan
    <3> QED BY <2>1, <2>2, <3>1
  <2>3. CASE NoDirectory(h)
    <3>1. MakeReport(h, "failed", {})
      BY <2>3 DEF NoDirectory
    <3> QED BY <2>1, <3>1
  <2> QED BY <2>2, <2>3
<1> DEFINE n == Len(reports) + 1
<1>2. PICK r : r = [status |-> outcome, root |-> root[h], previous |-> previous[h],
                    discoveries |-> discoveries, known |-> known[h],
                    began |-> began[h], ended |-> edits]
  OBVIOUS
<1>3. DOMAIN reports' = DOMAIN reports \cup {n} /\ reports'[n] = r /\ n \notin DOMAIN reports
  <2>1. ScanTypeOK
    BY DEF RescanInv, HistoryInv, TypedLoop
  <2>2. /\ Len(reports) \in Nat /\ DOMAIN reports = 1 .. Len(reports)
        /\ DOMAIN reports' = DOMAIN reports \cup {n} /\ reports'[n] = r
    BY <1>1, <1>2, <2>1, ReportIsAdded
  <2> QED BY <2>2
<1> HIDE DEF n
<1>4. UNCHANGED <<tree, edits>>
  BY <1>1 DEF MakeReport
<1>5. Current(r)'
  <2> SUFFICES ASSUME r.status = "completed", r.began = edits'
               PROVE  (\E D \in SUBSET Files :
                          FirstFiles(r.root, D) /\ Pairs(r.discoveries) = InTree(D))'
    BY DEF Current
  <2>1. /\ EndScan(h) /\ r.discoveries = Extracted(h) /\ began[h] = edits
        /\ r.root = root[h]
    BY <1>1, <1>2, <1>4
  <2>2. PICK D \in SUBSET Files : FirstFiles(r.root, D) /\ Pairs(r.discoveries) = InTree(D)
    BY <2>1, ExtractedIsCurrent DEF RescanInv
  <2>3. FirstFiles(r.root, D)' /\ InTree(D)' = InTree(D)
    BY <1>4, <2>2, SameTree
  <2> QED BY <2>2, <2>3 DEF Pairs
<1>6. Quiet(r)
  <2>1. CASE outcome = "completed"
    <3>1. Explained(r)
      <4>1. step[h] = "scan" /\ EndScan(h) /\ discoveries = Extracted(h)
        BY <1>1, <2>1 DEF EndScan
      <4> QED BY <1>2, <4>1, NewIsExplained DEF RescanInv
    <3> QED BY <1>1, <1>2, <2>1, <3>1, NewIsQuiet
  <2>2. CASE outcome # "completed"
    BY <1>2, <2>2 DEF Quiet
  <2> QED BY <2>1, <2>2
<1>7. Quiet(r)'
  <2>1. r.previous # 0 => r.previous \in DOMAIN reports
    BY <1>2 DEF RescanInv, HistoryInv, HoldsPrevious, CompletedOf, TypedLoop, ScanTypeOK
  <2>2. r.previous # 0 => reports'[r.previous] = reports[r.previous]
    BY <2>1 DEF Grows
  <2> QED BY <1>6, <2>2 DEF Quiet, Pairs
<1>8. ASSUME NEW m \in DOMAIN reports' PROVE Current(reports[m])' /\ Quiet(reports[m])'
  <2>1. CASE m = n
    BY <1>3, <1>5, <1>7, <2>1 DEF Current, Quiet
  <2>2. CASE m \in DOMAIN reports
    BY <1>4, <2>2, StaysQuiet, ReportsAreQuiet DEF RescanInv
  <2> QED BY <1>3, <2>1, <2>2
<1> QED BY <1>8, ReportsAreQuiet DEF RescanInv

LEMMA RescanStep == RescanInv /\ [ScanNext]_scanningVars => RescanInv'
<1> SUFFICES ASSUME RescanInv, [ScanNext]_scanningVars PROVE RescanInv'
  OBVIOUS
<1>1. HistoryInv /\ HistoryInv' /\ TypedLoop /\ TypedLoop' /\ Grows
  BY HistoryStep, ReportsGrow DEF RescanInv, HistoryInv
<1>2. UNCHANGED <<tree, edits>> \/ edits' = edits + 1
  BY DEF ScanNext, Step, ReadPrevious, StartScan, ScanFile, EndScan, NoDirectory, MakeReport,
         StoreReport, StoreFails, AuditTrigger, Edit, RestartScans, scanningVars
<1>3. ASSUME NEW h \in Handlers, Rests(h) PROVE ReadsInOrder(h)'
  BY <1>1, <1>2, <1>3, OrderWhileResting DEF RescanInv
<1>4. ASSUME NEW h \in Handlers, Step(h) PROVE \A g \in Handlers : ReadsInOrder(g)'
  <2>1. ReadsInOrder(h)'
    <3>1. CASE StartScan(h)
      BY <1>1, <3>1, OrderAfterStart
    <3>2. CASE ScanFile(h)
      BY <1>1, <3>2, OrderAfterFile DEF RescanInv
    <3>3. CASE ~ (StartScan(h) \/ ScanFile(h))
      <4>1. step'[h] # "scan"
        BY <1>1, <1>4, <3>3
           DEF Step, ReadPrevious, EndScan, NoDirectory, MakeReport, StoreReport, StoreFails,
               AuditTrigger, EndTrigger, TypedLoop, ScanTypeOK
      <4> QED BY <4>1 DEF ReadsInOrder
    <3> QED BY <3>1, <3>2, <3>3
  <2> QED BY <1>1, <1>3, <1>4, <2>1, OthersRest
<1>5. ASSUME NEW h \in Handlers, EndScan(h) \/ NoDirectory(h) PROVE RescanInv'
  BY <1>1, <1>4, <1>5, RescanReport DEF Step
<1>6. ASSUME NEW h \in Handlers, Step(h), ~ (EndScan(h) \/ NoDirectory(h)) PROVE RescanInv'
  <2>1. reports' = reports
    BY <1>6 DEF Step, ReadPrevious, StartScan, ScanFile, StoreReport, StoreFails, AuditTrigger
  <2> QED BY <1>1, <1>2, <1>4, <1>6, <2>1, RescanKept
<1>7. CASE \E f \in Files : Edit(f)
  <2>1. reports' = reports /\ \A h \in Handlers : Rests(h)
    BY <1>7 DEF Edit, Rests, handlerVars
  <2> QED BY <1>1, <1>2, <1>3, <2>1, RescanKept
<1>8. CASE RestartScans
  <2>1. reports' = reports /\ \A h \in Handlers : step'[h] # "scan"
    BY <1>8 DEF RestartScans
  <2>2. \A h \in Handlers : ReadsInOrder(h)'
    BY <2>1 DEF ReadsInOrder
  <2> QED BY <1>1, <1>2, <2>1, <2>2, RescanKept
<1>9. CASE UNCHANGED scanningVars
  <2>1. reports' = reports /\ \A h \in Handlers : Rests(h)
    BY <1>9 DEF Rests, scanningVars, handlerVars
  <2> QED BY <1>1, <1>2, <1>3, <2>1, RescanKept
<1> QED BY <1>5, <1>6, <1>7, <1>8, <1>9 DEF ScanNext

\* Whoever scans the same files again is told that nothing has changed.
THEOREM RescansAreQuiet == ScanSpec => []RescanIsQuiet
<1>1. RescanInv => RescanIsQuiet
  BY DEF RescanInv
<1> QED BY <1>1, RescanInit, RescanStep, PTL DEF ScanSpec

(***************************************************************************)
(* What Learning assumes of runs.  Every run of LearningScan is a run of   *)
(* Learning where nobody reviews; a stable key with a hash stands for a    *)
(* key of Learning, which a run has found or not.                          *)
(***************************************************************************)

Findings == StableKeys \X ContentHashes
Executed == 1 .. MaxScans
FoundIn(n) == IF n \in DOMAIN reports THEN Pairs(reports[n].discoveries) ELSE {}
Content(pairs) == [k \in Findings |-> IF k \in pairs THEN <<k[2]>> ELSE <<>>]

Outcomes == [n \in Executed |-> IF n \in DOMAIN reports THEN reports[n].status ELSE "running"]
ContentOf == [n \in Executed |-> Content(FoundIn(n))]
RowStatus == [d \in Executed \X Findings |->
                 IF d[1] \in stored /\ d[2] \in FoundIn(d[1]) THEN "discovered" ELSE "none"]
TriggerStep == [h \in Handlers |-> IF step[h] \in {"save", "audit"} THEN step[h] ELSE "idle"]
Unreviewed == [d \in Executed \X Findings |-> "nobody"]

Reviewed == INSTANCE Learning WITH
    Keys <- Findings, Hashes <- {<<hash>> : hash \in ContentHashes}, NoHash <- <<>>,
    Promotable <- {}, Reviewers <- {}, Nobody <- "nobody",
    MaxRuns <- MaxScans, Scanners <- Handlers,
    clock <- Len(reports), runStatus <- Outcomes, hashes <- ContentOf,
    saved <- stored, status <- RowStatus, decidedBy <- Unreviewed,
    catalogue <- Unreviewed, audited <- {}, scanPc <- TriggerStep, run <- own,
    pc <- [r \in {} |-> "idle"], verdict <- [r \in {} |-> "approved"],
    request <- [r \in {} |-> {}], claim <- [r \in {} |-> {}], todo <- [r \in {} |-> {}],
    granted <- {}, failed <- {}

LEMMA ReviewedInit == ScanInit => Reviewed!Init
<1> SUFFICES ASSUME ScanInit PROVE Reviewed!Init
  OBVIOUS
<1>1. DOMAIN reports = {} /\ Len(reports) = 0 /\ stored = {}
  BY DEF ScanInit
<1>2. \A n \in Executed : FoundIn(n) = {}
  BY <1>1 DEF FoundIn
<1>3. Outcomes = [n \in Executed |-> "running"]
  BY <1>1 DEF Outcomes
<1>4. ContentOf = [n \in Executed |-> [k \in Findings |-> <<>>]]
  BY <1>2 DEF ContentOf, Content
<1>5. RowStatus = [d \in Executed \X Findings |-> "none"]
  BY <1>1 DEF RowStatus
<1>6. TriggerStep = [h \in Handlers |-> "idle"] /\ own = [h \in Handlers |-> 0]
  BY DEF ScanInit, TriggerStep
<1> QED BY <1>1, <1>3, <1>4, <1>5, <1>6
        DEF Reviewed!Init, Reviewed!NoHashes, Reviewed!Runs, Reviewed!Discoveries, Executed, Unreviewed

\* Steps that Learning does not see.
LEMMA ReviewedStutter ==
    ASSUME UNCHANGED <<reports, stored, own>>, TriggerStep' = TriggerStep
    PROVE  UNCHANGED Reviewed!vars
<1>1. /\ Outcomes' = Outcomes /\ ContentOf' = ContentOf /\ RowStatus' = RowStatus
  BY DEF Outcomes, ContentOf, RowStatus, FoundIn
<1> QED BY <1>1 DEF Reviewed!vars, Reviewed!runVars, Reviewed!rowVars, Reviewed!scanVars,
                    Reviewed!reviewVars, Unreviewed

\* A report is a run that has been executed, whatever it found.
LEMMA ReviewedReport ==
    ASSUME TypedLoop, NEW h \in Handlers, NEW outcome \in {"completed", "failed"},
           NEW discoveries \in SUBSET Rows, MakeReport(h, outcome, discoveries),
           Len(reports) < MaxScans, step[h] \in {"resolve", "scan"}
    PROVE  Reviewed!Report(h, outcome, Content(Pairs(discoveries)))
<1> DEFINE n == Len(reports) + 1
<1>1. /\ Len(reports) \in Nat /\ Len(reports') = n
      /\ DOMAIN reports = 1 .. Len(reports)
      /\ DOMAIN reports' = DOMAIN reports \cup {n}
      /\ \A m \in DOMAIN reports : reports'[m] = reports[m]
      /\ reports'[n].status = outcome /\ reports'[n].discoveries = discoveries
  <2>1. ScanTypeOK
    BY DEF TypedLoop
  <2> DEFINE r == [status |-> outcome, root |-> root[h], previous |-> previous[h],
                   discoveries |-> discoveries, known |-> known[h],
                   began |-> began[h], ended |-> edits]
  <2>2. /\ Len(reports) \in Nat /\ Len(reports') = n
        /\ DOMAIN reports = 1 .. Len(reports)
        /\ DOMAIN reports' = DOMAIN reports \cup {n}
        /\ \A m \in DOMAIN reports : reports'[m] = reports[m]
        /\ reports'[n] = r
    BY <2>1, ReportIsAdded
  <2>3. r.status = outcome /\ r.discoveries = discoveries
    OBVIOUS
  <2> HIDE DEF r
  <2> QED BY <2>2, <2>3
<1>2. n \in Executed /\ n \notin DOMAIN reports /\ stored \subseteq DOMAIN reports
  BY <1>1, BoundsAreNatural DEF Executed, TypedLoop, ScanTypeOK
<1>3. \A m \in Executed : FoundIn(m)' = IF m = n THEN Pairs(discoveries) ELSE FoundIn(m)
  BY <1>1, <1>2 DEF FoundIn, Pairs
<1> HIDE DEF n
<1>4. Outcomes' = [Outcomes EXCEPT ![n] = outcome]
  BY <1>1, <1>2 DEF Outcomes
<1>5. ContentOf' = [ContentOf EXCEPT ![n] = Content(Pairs(discoveries))]
  <2>1. ContentOf' = [m \in Executed |-> Content(FoundIn(m)')]
    BY DEF ContentOf, Content
  <2> QED BY <1>2, <1>3, <2>1 DEF ContentOf
<1>6. RowStatus' = RowStatus /\ stored' = stored
  <2>1. stored' = stored
    BY DEF MakeReport
  <2>2. \A m \in stored : m # n
    BY <1>2
  <2> QED BY <1>3, <2>1, <2>2 DEF RowStatus
<1>7. /\ TriggerStep[h] = "idle" /\ TriggerStep' = [TriggerStep EXCEPT ![h] = "save"]
      /\ own' = [own EXCEPT ![h] = n]
  BY DEF MakeReport, TriggerStep, TypedLoop, ScanTypeOK, n
<1>8. Unreviewed' = Unreviewed
  BY DEF Unreviewed
<1> QED BY <1>1, <1>4, <1>5, <1>6, <1>7, <1>8
        DEF Reviewed!Report, Reviewed!rowVars, Reviewed!reviewVars, n

\* The transaction of a run, and the end of its request.
LEMMA ReviewedStore ==
    ASSUME TypedLoop, NEW h \in Handlers, StoreReport(h) \/ StoreFails(h) \/ AuditTrigger(h)
    PROVE  Reviewed!SaveReport(h) \/ Reviewed!SaveFails(h) \/ Reviewed!AuditRun(h)
<1>1. reports' = reports /\ Outcomes' = Outcomes /\ ContentOf' = ContentOf
      /\ Unreviewed' = Unreviewed /\ \A n \in Executed : FoundIn(n)' = FoundIn(n)
  BY DEF StoreReport, StoreFails, AuditTrigger, Outcomes, ContentOf, FoundIn, Unreviewed
<1>2. stored' = stored => RowStatus' = RowStatus
  BY <1>1 DEF RowStatus
<1>3. ASSUME step[h] = "save", stored' = stored \cup {own[h]} PROVE Reviewed!Insert(own[h])
  <2>1. own[h] \in Executed
    <3>1. own[h] \in DOMAIN reports /\ Len(reports) <= MaxScans /\ reports \in Seq(Reports)
      BY <1>3 DEF TypedLoop, LoopInv, ScanTypeOK
    <3> QED BY <3>1, BoundsAreNatural DEF Executed
  <2>2. ASSUME NEW k \in Findings PROVE ContentOf[own[h]][k] # <<>> <=> k \in FoundIn(own[h])
    BY <2>1 DEF ContentOf, Content
  <2>3. RowStatus' = [d \in Executed \X Findings |->
                          IF d[1] = own[h] /\ ContentOf[own[h]][d[2]] # <<>>
                          THEN "discovered" ELSE RowStatus[d]]
    BY <1>1, <1>3, <2>2 DEF RowStatus
  <2> QED BY <1>1, <1>3, <2>3 DEF Reviewed!Insert, Reviewed!Discoveries, Reviewed!Runs, Executed
<1>4. CASE StoreReport(h)
  <2>1. /\ TriggerStep[h] = "save" /\ TriggerStep' = [TriggerStep EXCEPT ![h] = "audit"]
        /\ own' = own /\ step[h] = "save" /\ stored' = stored \cup {own[h]}
    BY <1>4 DEF StoreReport, TriggerStep, TypedLoop, ScanTypeOK
  <2> QED BY <1>1, <1>3, <2>1 DEF Reviewed!SaveReport, Reviewed!runVars, Reviewed!reviewVars
<1>5. CASE StoreFails(h)
  <2>1. /\ TriggerStep[h] = "save" /\ TriggerStep' = [TriggerStep EXCEPT ![h] = "idle"]
        /\ own' = [own EXCEPT ![h] = 0] /\ step[h] = "save"
        /\ stored' = stored \/ stored' = stored \cup {own[h]}
    BY <1>5 DEF StoreFails, EndTrigger, TriggerStep, TypedLoop, ScanTypeOK
  <2> QED BY <1>1, <1>2, <1>3, <2>1
          DEF Reviewed!SaveFails, Reviewed!EndRun, Reviewed!runVars, Reviewed!rowVars,
              Reviewed!reviewVars
<1>6. CASE AuditTrigger(h)
  <2>1. /\ TriggerStep[h] = "audit" /\ TriggerStep' = [TriggerStep EXCEPT ![h] = "idle"]
        /\ own' = [own EXCEPT ![h] = 0] /\ stored' = stored
    BY <1>6 DEF AuditTrigger, EndTrigger, TriggerStep, TypedLoop, ScanTypeOK
  <2> QED BY <1>1, <1>2, <2>1
          DEF Reviewed!AuditRun, Reviewed!EndRun, Reviewed!runVars, Reviewed!rowVars,
              Reviewed!reviewVars
<1> QED BY <1>4, <1>5, <1>6

\* A restart is a restart, or nothing if no report was being stored.
LEMMA ReviewedRestart ==
    ASSUME TypedLoop, RestartScans
    PROVE  Reviewed!Restart \/ UNCHANGED Reviewed!vars
<1>1. /\ UNCHANGED <<reports, stored>> /\ own' = [h \in Handlers |-> 0]
      /\ TriggerStep' = [h \in Handlers |-> "idle"]
  BY DEF RestartScans, TriggerStep
<1>2. /\ Outcomes' = Outcomes /\ ContentOf' = ContentOf /\ RowStatus' = RowStatus
      /\ Unreviewed' = Unreviewed
  BY <1>1 DEF Outcomes, ContentOf, RowStatus, FoundIn, Unreviewed
<1>3. CASE \E h \in Handlers : TriggerStep[h] # "idle"
  <2>1. UNION {[q \in {} |-> {}][r] : r \in {}} = {}
    OBVIOUS
  <2> QED BY <1>1, <1>2, <1>3, <2>1
          DEF Reviewed!Restart, Reviewed!runVars, Reviewed!rowVars
<1>4. CASE \A h \in Handlers : TriggerStep[h] = "idle"
  <2>1. TriggerStep' = TriggerStep
    BY <1>1, <1>4 DEF TriggerStep
  <2>2. own' = own
    <3>1. \A h \in Handlers : own[h] = 0
      BY <1>4 DEF TriggerStep, TypedLoop, LoopInv
    <3> QED BY <1>1, <3>1 DEF TypedLoop, ScanTypeOK
  <2> QED BY <1>1, <2>1, <2>2, ReviewedStutter
<1> QED BY <1>3, <1>4

LEMMA ReviewedStep == TypedLoop /\ [ScanNext]_scanningVars => [Reviewed!Next]_(Reviewed!vars)
<1> SUFFICES ASSUME TypedLoop, [ScanNext]_scanningVars
             PROVE  Reviewed!Next \/ UNCHANGED Reviewed!vars
  OBVIOUS
<1>1. ASSUME NEW h \in Handlers,
             (\E path \in Requests : ReadPrevious(h, path)) \/ StartScan(h) \/ ScanFile(h)
      PROVE  UNCHANGED Reviewed!vars
  <2>1. UNCHANGED <<reports, stored, own>> /\ TriggerStep' = TriggerStep
    BY <1>1 DEF ReadPrevious, StartScan, ScanFile, TriggerStep, TypedLoop, ScanTypeOK
  <2> QED BY <2>1, ReviewedStutter
<1>2. ASSUME NEW h \in Handlers, EndScan(h) \/ NoDirectory(h) PROVE Reviewed!Next
  <2>1. /\ Extracted(h) \in SUBSET Rows /\ {} \in SUBSET Rows
        /\ Len(reports) < MaxScans /\ step[h] \in {"resolve", "scan"}
    BY <1>2, ExtractedAreRows DEF EndScan, NoDirectory, TypedLoop, LoopInv
  <2>2. CASE EndScan(h)
    <3>1. Reviewed!RunLearning(h, Content(Pairs(Extracted(h))))
      BY <2>1, <2>2, ReviewedReport DEF EndScan, Reviewed!RunLearning
    <3>2. Content(Pairs(Extracted(h)))
            \in [Findings -> {<<hash>> : hash \in ContentHashes} \cup {<<>>}]
      BY DEF Content, Findings
    <3> QED BY <3>1, <3>2 DEF Reviewed!Next, Reviewed!ScanStep
  <2>3. CASE NoDirectory(h)
    <3>1. Content(Pairs({})) = Reviewed!NoHashes
      BY DEF Content, Pairs, Reviewed!NoHashes
    <3>2. Reviewed!PathMissing(h)
      BY <2>1, <2>3, <3>1, ReviewedReport DEF NoDirectory, Reviewed!PathMissing
    <3> QED BY <3>2 DEF Reviewed!Next, Reviewed!ScanStep
  <2> QED BY <1>2, <2>2, <2>3
<1>3. ASSUME NEW h \in Handlers, StoreReport(h) \/ StoreFails(h) \/ AuditTrigger(h)
      PROVE  Reviewed!Next
  BY <1>3, ReviewedStore DEF Reviewed!Next, Reviewed!ScanStep
<1>4. CASE RestartScans
  BY <1>4, ReviewedRestart DEF Reviewed!Next
<1>5. CASE (\E f \in Files : Edit(f)) \/ UNCHANGED scanningVars
  <2>1. UNCHANGED <<reports, stored, own>> /\ TriggerStep' = TriggerStep
    BY <1>5 DEF Edit, scanningVars, handlerVars, TriggerStep
  <2> QED BY <2>1, ReviewedStutter
<1> QED BY <1>1, <1>2, <1>3, <1>4, <1>5 DEF ScanNext, Step

\* A run is what the review takes it to be.
THEOREM RunsImplementLearning == ScanSpec => Reviewed!Spec
<1> QED BY ReviewedInit, ReviewedStep, TypedLoopInit, TypedLoopStep, PTL
        DEF ScanSpec, Reviewed!Spec
=============================================================================

----------------------------- MODULE Learning -----------------------------
(***************************************************************************)
(* Learning runs and the review of what they discover.                     *)
(*                                                                         *)
(* POST /v1/learning/runs scans the repository, saves the report and its   *)
(* discoveries in one transaction and records an audit event; what a scan  *)
(* finds and how it is compared with the scan before is LearningScan, and  *)
(* here a report has any content (LearningProofs shows that its runs are   *)
(* runs of this module).  The review routes decide one discovery, or many, *)
(* and copy what was approved to the catalogue, entry after entry.  The    *)
(* handlers are coroutines of one process: they interleave at their        *)
(* database calls, each of which may raise, and die together with the      *)
(* process.                                                                *)
(*                                                                         *)
(* One tenant and application.  A discovery's id is <<run, key>>: its run  *)
(* and the stable key "file::symbol".  A run's id is the order of its      *)
(* completed_at.  A content hash covers the pattern type, and that decides *)
(* the discovery type.                                                     *)
(***************************************************************************)
EXTENDS Naturals, FiniteSets

CONSTANTS
    Keys,        \* stable keys of the patterns a scan can find
    Hashes,      \* content hashes
    Promotable,  \* hashes of the patterns classified as promotable
    MaxRuns,     \* bound: learning runs executed
    Scanners,    \* POST /v1/learning/runs handlers
    Reviewers,   \* review handlers, each named after its actor
    NoHash, Nobody

ASSUME PromotableHashes == Promotable \subseteq Hashes
ASSUME RunsAreBounded == MaxRuns \in Nat
ASSUME NamesDiffer == NoHash \notin Hashes /\ Nobody \notin Reviewers

Runs == 1 .. MaxRuns
Discoveries == Runs \X Keys
NoHashes == [k \in Keys |-> NoHash]

VARIABLES
    clock,       \* runs executed so far
    runStatus,   \* LearningRun.status of the report of each run
    hashes,      \* hashes[n][k]: current_hash of k in run n, or NoHash
    saved,       \* Postgres learning_runs
    status,      \* learning_discoveries.status, "none" when there is no row
    decidedBy,   \* learning_discoveries.approved_by
    catalogue,   \* approved_by of the active catalogue entry, or Nobody
    audited,     \* audit events <<verdict, actor, subject>> of single decisions
    scanPc, run, \* trigger handlers
    pc, verdict, request, claim, todo,    \* review handlers
    granted,     \* history: approvals answered 200
    failed       \* history: approvals whose handler raised or died

runVars  == <<clock, runStatus, hashes>>
rowVars  == <<saved, status, decidedBy>>
scanVars == <<scanPc, run>>
reviewVars == <<pc, verdict, request, claim, todo>>
vars == <<runVars, rowVars, catalogue, audited, scanVars, reviewVars,
          granted, failed>>

TypeOK ==
    /\ clock \in 0 .. MaxRuns
    /\ runStatus \in [Runs -> {"running", "completed", "failed"}]
    /\ hashes \in [Runs -> [Keys -> Hashes \cup {NoHash}]]
    /\ saved \in SUBSET Runs
    /\ status \in [Discoveries -> {"none", "discovered", "approved", "rejected"}]
    /\ decidedBy \in [Discoveries -> Reviewers \cup {Nobody}]
    /\ catalogue \in [Discoveries -> Reviewers \cup {Nobody}]
    /\ audited \in SUBSET ({"approved", "rejected"} \X Reviewers \X Discoveries)
    /\ scanPc \in [Scanners -> {"idle", "save", "audit"}]
    /\ run \in [Scanners -> 0 .. MaxRuns]
    /\ pc \in [Reviewers -> {"idle", "update", "promote"}]
    /\ verdict \in [Reviewers -> {"approved", "rejected"}]
    /\ request \in [Reviewers -> SUBSET Discoveries]
    /\ claim \in [Reviewers -> SUBSET Discoveries]
    /\ todo \in [Reviewers -> SUBSET Discoveries]
    /\ granted \in SUBSET Discoveries
    /\ failed \in SUBSET Discoveries
    /\ \A h \in Scanners : scanPc[h] = "save" => run[h] \in Runs

Init ==
    /\ clock = 0
    /\ runStatus = [n \in Runs |-> "running"]
    /\ hashes = [n \in Runs |-> NoHashes]
    /\ saved = {}
    /\ status = [d \in Discoveries |-> "none"]
    /\ decidedBy = [d \in Discoveries |-> Nobody]
    /\ catalogue = [d \in Discoveries |-> Nobody]
    /\ audited = {}
    /\ scanPc = [h \in Scanners |-> "idle"]
    /\ run = [h \in Scanners |-> 0]
    /\ pc = [r \in Reviewers |-> "idle"]
    /\ verdict = [r \in Reviewers |-> "approved"]
    /\ request = [r \in Reviewers |-> {}]
    /\ claim = [r \in Reviewers |-> {}]
    /\ todo = [r \in Reviewers |-> {}]
    /\ granted = {} /\ failed = {}

-----------------------------------------------------------------------------
(* Learning runs.                                                          *)

Report(h, outcome, content) ==
    LET n == clock + 1 IN
    /\ scanPc[h] = "idle"
    /\ clock < MaxRuns
    /\ clock' = n
    /\ runStatus' = [runStatus EXCEPT ![n] = outcome]
    /\ hashes' = [hashes EXCEPT ![n] = content]
    /\ run' = [run EXCEPT ![h] = n]
    /\ scanPc' = [scanPc EXCEPT ![h] = "save"]
    /\ UNCHANGED <<rowVars, catalogue, audited, reviewVars, granted, failed>>

\* run_learning, without an await.  The path that is scanned and the state of
\* the repository make the content any function.
RunLearning(h, content) == Report(h, "completed", content)

PathMissing(h) == Report(h, "failed", NoHashes)

\* The two states of a row are swapped: delta_state is stored as its status.
BugInsert(n) ==
    /\ saved' = saved \cup {n}
    /\ status' = [d \in Discoveries |->
                     IF d[1] = n /\ hashes[n][d[2]] # NoHash
                     THEN "new" ELSE status[d]]
    /\ UNCHANGED decidedBy

\* A run's id and the ids of its discoveries are fresh.
Insert(n) ==
    /\ saved' = saved \cup {n}
    /\ status' = [d \in Discoveries |->
                     IF d[1] = n /\ hashes[n][d[2]] # NoHash
                     THEN "discovered" ELSE status[d]]
    /\ UNCHANGED decidedBy

EndRun(h) ==
    /\ scanPc' = [scanPc EXCEPT ![h] = "idle"]
    /\ run' = [run EXCEPT ![h] = 0]

SaveReport(h) ==
    /\ scanPc[h] = "save"
    /\ Insert(run[h])
    /\ scanPc' = [scanPc EXCEPT ![h] = "audit"]
    /\ UNCHANGED <<runVars, catalogue, audited, run, reviewVars, granted,
                   failed>>

\* The transaction raises; it may have been committed all the same.
SaveFails(h) ==
    /\ scanPc[h] = "save"
    /\ Insert(run[h]) \/ UNCHANGED rowVars
    /\ EndRun(h)
    /\ UNCHANGED <<runVars, catalogue, audited, reviewVars, granted, failed>>

\* The audit event of the run, written or not, ends the request.
AuditRun(h) ==
    /\ scanPc[h] = "audit"
    /\ EndRun(h)
    /\ UNCHANGED <<runVars, rowVars, catalogue, audited, reviewVars, granted,
                   failed>>

-----------------------------------------------------------------------------
(* Review.                                                                 *)

\* The status condition of the UPDATE is forgotten.
BugOpen(d) == status[d] # "none"

\* The rows the UPDATE of a decision matches.
Open(d) == status[d] = "discovered"

\* should_promote.
ShouldPromote(d) == hashes[d[1]][d[2]] \in Promotable

\* Only the first id of a batch is promoted ...
BugFirstOnly(D) == {d \in D : d = CHOOSE e \in D : TRUE}
\* ... or a batch is approved without promoting anything.
BugPromoteNone(D) == {}

\* The approved ids the handler goes on with.
ToPromote(D) == D

\* One id: the single routes; more: the bulk routes.
IsSingle(ids) == \A d, e \in ids : d = e

\* The result of the UPDATE is not looked at.
BugRowcountIgnored(ids, D) == TRUE

\* A single decision that updates no row is a 404; a batch goes on.
GoesOn(ids, D) == D # {} \/ ~ IsSingle(ids)

\* A request names one discovery, or many.
Request(r, v, ids) ==
    /\ pc[r] = "idle"
    /\ ids # {}
    /\ pc' = [pc EXCEPT ![r] = "update"]
    /\ verdict' = [verdict EXCEPT ![r] = v]
    /\ request' = [request EXCEPT ![r] = ids]
    /\ UNCHANGED <<runVars, rowVars, catalogue, audited, scanVars, claim, todo,
                   granted, failed>>

Matched(r) == {d \in request[r] : Open(d)}

\* One UPDATE, atomic in Postgres.
Judge(r) ==
    /\ status' = [d \in Discoveries |->
                     IF d \in Matched(r) THEN verdict[r] ELSE status[d]]
    /\ decidedBy' = [d \in Discoveries |->
                        IF d \in Matched(r) THEN r ELSE decidedBy[d]]
    /\ UNCHANGED saved

End(r) ==
    /\ pc' = [pc EXCEPT ![r] = "idle"]
    /\ request' = [request EXCEPT ![r] = {}]
    /\ claim' = [claim EXCEPT ![r] = {}]
    /\ todo' = [todo EXCEPT ![r] = {}]
    /\ verdict' = [verdict EXCEPT ![r] = "approved"]

Decide(r) ==
    /\ pc[r] = "update"
    /\ GoesOn(request[r], Matched(r))
    /\ Judge(r)
    /\ pc' = [pc EXCEPT ![r] = "promote"]
    /\ claim' = [claim EXCEPT ![r] = Matched(r)]
    /\ todo' = [todo EXCEPT ![r] = IF verdict[r] = "approved"
                                   THEN ToPromote(Matched(r)) ELSE {}]
    /\ UNCHANGED <<runVars, catalogue, audited, scanVars, verdict, request,
                   granted, failed>>

\* 404: not found or already processed.
NotFound(r) ==
    /\ pc[r] = "update"
    /\ ~ GoesOn(request[r], Matched(r))
    /\ End(r)
    /\ UNCHANGED <<runVars, rowVars, catalogue, audited, scanVars, granted,
                   failed>>

\* The UPDATE raises; it may have been committed all the same.
DecideFails(r) ==
    /\ pc[r] = "update"
    /\ \/ UNCHANGED <<rowVars, failed>>
       \/ Judge(r) /\ failed' = failed \cup Matched(r)
    /\ End(r)
    /\ UNCHANGED <<runVars, catalogue, audited, scanVars, granted>>

\* get_discovery and, for a promotable type, the upsert of its entry.
Promote(r, d) ==
    /\ pc[r] = "promote"
    /\ d \in todo[r]
    /\ catalogue' = IF ShouldPromote(d) THEN [catalogue EXCEPT ![d] = r]
                                        ELSE catalogue
    /\ todo' = [todo EXCEPT ![r] = @ \ {d}]
    /\ UNCHANGED <<runVars, rowVars, audited, scanVars, pc, verdict, request,
                   claim, granted, failed>>

\* One of the two raises: the rest of the batch is not promoted.
PromoteFails(r, d) ==
    /\ pc[r] = "promote"
    /\ d \in todo[r]
    /\ \/ UNCHANGED catalogue
       \/ ShouldPromote(d) /\ catalogue' = [catalogue EXCEPT ![d] = r]
    /\ failed' = failed \cup todo[r]
    /\ End(r)
    /\ UNCHANGED <<runVars, rowVars, audited, scanVars, granted>>

\* The event of a batch has the subject "bulk" and counts, but no ids: it says
\* nothing about any discovery and is left out.
Event(r) ==
    IF IsSingle(request[r]) THEN {<<verdict[r], r, d>> : d \in request[r]} ELSE {}

AuditAndReply(r) ==
    /\ pc[r] = "promote"
    /\ todo[r] = {}
    /\ audited' = audited \cup Event(r)
    /\ granted' = IF verdict[r] = "approved" THEN granted \cup claim[r]
                                             ELSE granted
    /\ End(r)
    /\ UNCHANGED <<runVars, rowVars, catalogue, scanVars, failed>>

AuditFails(r) ==
    /\ pc[r] = "promote"
    /\ todo[r] = {}
    /\ audited' \in {audited, audited \cup Event(r)}
    /\ End(r)
    /\ UNCHANGED <<runVars, rowVars, catalogue, scanVars, granted, failed>>

-----------------------------------------------------------------------------
\* The process dies and is started again.
Restart ==
    /\ \/ \E h \in Scanners : scanPc[h] # "idle"
       \/ \E r \in Reviewers : pc[r] # "idle"
    /\ scanPc' = [h \in Scanners |-> "idle"]
    /\ pc' = [r \in Reviewers |-> "idle"]
    /\ request' = [r \in Reviewers |-> {}]
    /\ claim' = [r \in Reviewers |-> {}]
    /\ todo' = [r \in Reviewers |-> {}]
    /\ verdict' = [r \in Reviewers |-> "approved"]
    /\ failed' = failed \cup UNION {todo[r] : r \in Reviewers}
    /\ run' = [h \in Scanners |-> 0]
    /\ UNCHANGED <<runVars, rowVars, catalogue, audited, granted>>

ScanStep(h) ==
    \/ \E content \in [Keys -> Hashes \cup {NoHash}] : RunLearning(h, content)
    \/ PathMissing(h) \/ SaveReport(h) \/ SaveFails(h) \/ AuditRun(h)

ReviewStep(r) ==
    \/ Decide(r) \/ NotFound(r) \/ DecideFails(r)
    \/ \E d \in Discoveries : Promote(r, d) \/ PromoteFails(r, d)
    \/ AuditAndReply(r) \/ AuditFails(r)

Next ==
    \/ \E h \in Scanners : ScanStep(h)
    \/ \E r \in Reviewers :
          \/ ReviewStep(r)
          \/ \E v \in {"approved", "rejected"}, ids \in SUBSET Discoveries :
                Request(r, v, ids)
    \/ Restart

Spec == Init /\ [][Next]_vars

\* A handler that has started runs on: every database call returns or raises.
Fairness == \A r \in Reviewers : WF_vars(ReviewStep(r))

FairSpec == Spec /\ Fairness

-----------------------------------------------------------------------------
(* Properties.                                                             *)

\* A discovery is decided once, by one reviewer, and only what was approved is
\* in the catalogue, in the name of the reviewer who approved it, whichever
\* single and batch decisions, failures and restarts overlap.
Lifecycle == INSTANCE DiscoveryLifecycle
    WITH Actors <- Reviewers, verdict <- status, judge <- decidedBy,
         sponsor <- catalogue
KeepsLifecycle == Lifecycle!Spec

Catalogued(d) == ShouldPromote(d) => catalogue[d] # Nobody

\* An approval answered 200 is in force: approved, and in the catalogue if its
\* type is promotable, for every discovery the reply counts as processed.
GrantedIsCatalogued ==
    \A d \in granted : status[d] = "approved" /\ Catalogued(d)

\* An approved discovery that misses its catalogue entry is still being
\* promoted, or its request failed: no order of decisions alone loses one.
NothingForgotten ==
    \A d \in Discoveries :
        status[d] = "approved" /\ ~ Catalogued(d) =>
            d \in failed \/ \E r \in Reviewers : d \in todo[r]

\* An audit event that names a discovery tells what became of it and who did it:
\* the reviewer whose request came too late leaves no event.
AuditIsTruthful ==
    \A e \in audited :
        status[e[3]] = e[1] /\ decidedBy[e[3]] = e[2]

\* Every approval of a promotable discovery ends: catalogued, or given up by a
\* request that raised.
ApprovalConcludes ==
    \A d \in Discoveries :
        status[d] = "approved" ~> (Catalogued(d) \/ d \in failed)
=============================================================================

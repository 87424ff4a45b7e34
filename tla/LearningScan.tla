---------------------------- MODULE LearningScan ----------------------------
(***************************************************************************)
(* What a learning run finds, and what it says has changed.                *)
(*                                                                         *)
(* The handler of POST /v1/learning/runs reads the hashes that the last    *)
(* completed run has left, translates the path it was given, scans the     *)
(* source files below it, one after the other, extracts their patterns and *)
(* compares each one by its stable key, "file::name", with the hashes.     *)
(* The scan has no await: nothing else of the process runs meanwhile, but  *)
(* people edit the files.  Handlers interleave at their database calls.    *)
(*                                                                         *)
(* A pattern is a name and the hash of its type and of its redacted        *)
(* excerpt, and a file is the sequence of the patterns that the parser     *)
(* extracts.  The review of what was found is in module Learning.          *)
(***************************************************************************)
EXTENDS Naturals, SequencesExt

CONSTANTS
    Handlers,   \* POST /v1/learning/runs handlers
    Files,      \* source files, as numbers: sorted() puts them in order
    Location,   \* the directory of each file, a sequence of names
    Mappings,   \* learning_path_mappings: pairs of directories
    Requests,   \* directories that requests name
    Contents,   \* sequences of patterns that a file may have
    MaxFiles,   \* max_files of scan_path
    MaxScans,   \* bound: runs
    MaxEdits,   \* bound: edits of files
    Absent,     \* no file
    Skipped     \* a file that is too large, or cannot be read

ASSUME FilesAreNumbered == Files \subseteq Nat /\ IsFiniteSet(Files)
ASSUME FilesAreSomewhere == Location \in [Files -> Seq(STRING)]
ASSUME RequestsAreDirectories == Requests \subseteq Seq(STRING)
ASSUME MappingsAreDirectories == Mappings \subseteq Seq(STRING) \X Seq(STRING)
ASSUME BoundsAreNatural == MaxFiles \in Nat /\ MaxScans \in Nat /\ MaxEdits \in Nat
ASSUME ContentsAreSequences == Contents \cap {Absent, Skipped} = {}

VARIABLES
    tree,           \* what is in each file
    edits,          \* history: how often a file was edited
    reports,        \* the reports of run_learning, in the order of completed_at
    stored,         \* those in learning_runs and learning_discoveries
    step,           \* next step of each handler
    root,           \* the directory it scans
    previous,       \* the run whose hashes it compares with, or 0
    previousHashes, \* the hashes it compares with
    known,          \* history: stored, when it read them
    began,          \* history: edits, when it began to scan
    queue,          \* files still to scan
    found,          \* files scanned, with their patterns
    own             \* its report

handlerVars == <<step, root, previous, previousHashes, known, began, queue, found, own>>
scanningVars == <<tree, edits, reports, stored, handlerVars>>

Patterns == UNION {Range(content) : content \in Contents}
StableKeys == Files \X {p.name : p \in Patterns}
ContentHashes == {p.hash : p \in Patterns}
PreviousHashes == UNION {[keys -> ContentHashes] : keys \in SUBSET StableKeys}
Rows == [key : StableKeys, hash : ContentHashes, delta : {"new", "changed", "unchanged"}]
Reports == [status : {"completed", "failed"}, root : Seq(STRING), previous : Nat,
            discoveries : SUBSET Rows, known : SUBSET Nat, began : Nat, ended : Nat]
Steps == {"idle", "resolve", "scan", "save", "audit"}
Unscanned == [h \in Handlers |-> <<>>]

ScanTypeOK ==
    /\ tree \in [Files -> Contents \cup {Absent, Skipped}]
    /\ edits \in 0 .. MaxEdits
    /\ reports \in Seq(Reports) /\ Len(reports) <= MaxScans
    /\ stored \subseteq DOMAIN reports
    /\ step \in [Handlers -> Steps]
    /\ root \in [Handlers -> Seq(STRING)]
    /\ previous \in [Handlers -> 0 .. MaxScans]
    /\ previousHashes \in [Handlers -> PreviousHashes]
    /\ known \in [Handlers -> SUBSET Nat]
    /\ began \in [Handlers -> 0 .. MaxEdits]
    /\ queue \in [Handlers -> Seq(Files)]
    /\ found \in [Handlers -> Seq([file : Files, content : Contents])]
    /\ \A h \in Handlers : Len(found[h]) <= MaxFiles
    /\ own \in [Handlers -> 0 .. MaxScans]

ScanInit ==
    /\ tree \in [Files -> Contents]
    /\ edits = 0
    /\ reports = <<>> /\ stored = {}
    /\ step = [h \in Handlers |-> "idle"]
    /\ root = Unscanned /\ queue = Unscanned /\ found = Unscanned /\ previousHashes = Unscanned
    /\ previous = [h \in Handlers |-> 0]
    /\ known = [h \in Handlers |-> {}]
    /\ began = [h \in Handlers |-> 0]
    /\ own = [h \in Handlers |-> 0]

-----------------------------------------------------------------------------
(* Paths and previous hashes.                                              *)

\* resolve_learning_path: the longest source that is the path or above it is
\* replaced by its target.
Resolve(path) ==
    LET fitting == {m \in Mappings : IsPrefix(m[1], path)} IN
    IF fitting = {} THEN path
    ELSE LET m == CHOOSE m \in fitting : \A l \in fitting : Len(l[1]) <= Len(m[1])
         IN  m[2] \o SubSeq(path, Len(m[1]) + 1, Len(path))

\* The status filter of the query is forgotten.
BugCompleted == stored

Completed == {n \in stored : reports[n].status = "completed"}

\* The hashes a run has left, by stable key.  Rows come in no order, and of two
\* rows with one key the one read last stays.
HashesOf(n) ==
    LET rows == reports[n].discoveries
        keys == {d.key : d \in rows}
    IN  {f \in [keys -> {d.hash : d \in rows}] :
            \A k \in keys : \E d \in rows : d.key = k /\ d.hash = f[k]}

\* Nothing but the scan of another handler keeps the event loop from running.
LoopIsFree(h) == \A g \in Handlers \ {h} : step[g] # "scan"

\* get_previous_hashes: of the run that completed last, whatever it scanned.
ReadPrevious(h, path) ==
    /\ step[h] = "idle" /\ LoopIsFree(h)
    /\ root' = [root EXCEPT ![h] = Resolve(path)]
    /\ LET last == IF Completed = {} THEN 0 ELSE Max(Completed) IN
        /\ previous' = [previous EXCEPT ![h] = last]
        /\ \E f \in (IF last = 0 THEN {<<>>} ELSE HashesOf(last)) :
            previousHashes' = [previousHashes EXCEPT ![h] = f]
    /\ known' = [known EXCEPT ![h] = stored]
    /\ step' = [step EXCEPT ![h] = "resolve"]
    /\ UNCHANGED <<tree, edits, reports, stored, began, queue, found, own>>

-----------------------------------------------------------------------------
(* The scan.                                                               *)

Below(path) == {f \in Files : IsPrefix(path, Location[f]) /\ tree[f] # Absent}

\* The files come as the directory has them.
BugOrders(S) == {s \in [1 .. Cardinality(S) -> S] : Range(s) = S}

\* sorted() puts the files in order.
Orders(S) ==
    {s \in [1 .. Cardinality(S) -> S] :
        Range(s) = S /\ \A i, j \in DOMAIN s : i < j => s[i] < s[j]}

\* scan_path begins: the files there are now are the files it will read.
StartScan(h) ==
    /\ step[h] = "resolve" /\ LoopIsFree(h)
    /\ Len(reports) < MaxScans
    /\ \E files \in Orders(Below(root[h])) : queue' = [queue EXCEPT ![h] = files]
    /\ began' = [began EXCEPT ![h] = edits]
    /\ step' = [step EXCEPT ![h] = "scan"]
    /\ UNCHANGED <<tree, edits, reports, stored, root, previous, previousHashes, known,
                   found, own>>

\* One more.
BugFull(h) == Len(found[h]) > MaxFiles

Full(h) == Len(found[h]) >= MaxFiles

\* A file that is gone, too large or unreadable is passed over; one that does not
\* parse has no patterns, but counts.
ScanFile(h) ==
    /\ step[h] = "scan" /\ queue[h] # <<>> /\ ~Full(h)
    /\ LET f == Head(queue[h]) IN
        found' = IF tree[f] \in {Absent, Skipped} THEN found
                 ELSE [found EXCEPT ![h] = Append(@, [file |-> f, content |-> tree[f]])]
    /\ queue' = [queue EXCEPT ![h] = Tail(@)]
    /\ UNCHANGED <<tree, edits, reports, stored, step, root, previous, previousHashes,
                   known, began, own>>

Delta(before, key, hash) ==
    CASE key \notin DOMAIN before -> "new"
      [] key \in DOMAIN before /\ before[key] = hash -> "unchanged"
      [] key \in DOMAIN before /\ before[key] # hash -> "changed"

Discovery(h, file, pattern) ==
    LET key == <<file, pattern.name>> IN
    [key |-> key, hash |-> pattern.hash, delta |-> Delta(previousHashes[h], key, pattern.hash)]

Extracted(h) ==
    UNION {{Discovery(h, s.file, p) : p \in Range(s.content)} : s \in Range(found[h])}

MakeReport(h, outcome, discoveries) ==
    /\ reports' = Append(reports,
            [status |-> outcome, root |-> root[h], previous |-> previous[h],
             discoveries |-> discoveries, known |-> known[h],
             began |-> began[h], ended |-> edits])
    /\ own' = [own EXCEPT ![h] = Len(reports) + 1]
    /\ step' = [step EXCEPT ![h] = "save"]
    /\ queue' = [queue EXCEPT ![h] = <<>>]
    /\ found' = [found EXCEPT ![h] = <<>>]
    /\ previousHashes' = [previousHashes EXCEPT ![h] = <<>>]
    /\ UNCHANGED <<tree, edits, stored, root, previous, known, began>>

EndScan(h) ==
    /\ step[h] = "scan"
    /\ queue[h] = <<>> \/ Full(h)
    /\ MakeReport(h, "completed", Extracted(h))

\* The directory does not exist: a report without discoveries.
NoDirectory(h) ==
    /\ step[h] = "resolve" /\ LoopIsFree(h)
    /\ Len(reports) < MaxScans
    /\ Below(root[h]) = {}
    /\ MakeReport(h, "failed", {})

-----------------------------------------------------------------------------
(* Saving the report.                                                      *)

EndTrigger(h) ==
    /\ step' = [step EXCEPT ![h] = "idle"]
    /\ root' = [root EXCEPT ![h] = <<>>]
    /\ previous' = [previous EXCEPT ![h] = 0]
    /\ known' = [known EXCEPT ![h] = {}]
    /\ began' = [began EXCEPT ![h] = 0]
    /\ own' = [own EXCEPT ![h] = 0]
    /\ UNCHANGED <<previousHashes, queue, found>>

\* One transaction: the run and its discoveries.
StoreReport(h) ==
    /\ step[h] = "save" /\ LoopIsFree(h)
    /\ stored' = stored \cup {own[h]}
    /\ step' = [step EXCEPT ![h] = "audit"]
    /\ UNCHANGED <<tree, edits, reports, root, previous, previousHashes, known, began, queue,
                   found, own>>

\* It raises, committed or not.
StoreFails(h) ==
    /\ step[h] = "save" /\ LoopIsFree(h)
    /\ stored' \in {stored, stored \cup {own[h]}}
    /\ EndTrigger(h)
    /\ UNCHANGED <<tree, edits, reports>>

AuditTrigger(h) ==
    /\ step[h] = "audit" /\ LoopIsFree(h)
    /\ EndTrigger(h)
    /\ UNCHANGED <<tree, edits, reports, stored>>

\* Somebody creates, changes or removes a file.
Edit(f) ==
    /\ edits < MaxEdits
    /\ edits' = edits + 1
    /\ \E content \in Contents \cup {Absent, Skipped} :
        content # tree[f] /\ tree' = [tree EXCEPT ![f] = content]
    /\ UNCHANGED <<reports, stored, handlerVars>>

\* The process dies with its handlers and is started again.
RestartScans ==
    /\ \E h \in Handlers : step[h] # "idle"
    /\ step' = [h \in Handlers |-> "idle"]
    /\ root' = Unscanned /\ queue' = Unscanned /\ found' = Unscanned /\ previousHashes' = Unscanned
    /\ previous' = [h \in Handlers |-> 0]
    /\ known' = [h \in Handlers |-> {}]
    /\ began' = [h \in Handlers |-> 0]
    /\ own' = [h \in Handlers |-> 0]
    /\ UNCHANGED <<tree, edits, reports, stored>>

Step(h) ==
    \/ \E path \in Requests : ReadPrevious(h, path)
    \/ StartScan(h) \/ ScanFile(h) \/ EndScan(h) \/ NoDirectory(h)
    \/ StoreReport(h) \/ StoreFails(h) \/ AuditTrigger(h)

ScanNext ==
    \/ \E h \in Handlers : Step(h)
    \/ \E f \in Files : Edit(f)
    \/ RestartScans

ScanSpec == ScanInit /\ [][ScanNext]_scanningVars

-----------------------------------------------------------------------------
(* Properties.                                                             *)

Found(n, key) == {d.hash : d \in {e \in reports[n].discoveries : e.key = key}}

\* What a run reports is explained by one completed run before it, and no run that
\* had completed when its handler asked is more recent: "new" are exactly the keys
\* which that run did not find, and all patterns that share a key are compared
\* with one and the same of its hashes.
DeltaIsExplained ==
    \A n \in DOMAIN reports :
        LET r == reports[n]
            last == {m \in r.known : reports[m].status = "completed"}
        IN  /\ r.previous \in last \cup {0}
            /\ \A m \in last : m <= r.previous
            /\ \A d \in r.discoveries :
                LET before == IF r.previous = 0 THEN {} ELSE Found(r.previous, d.key) IN
                /\ d.delta = "new" <=> before = {}
                /\ before # {} => \E hash \in before :
                    \A e \in r.discoveries :
                        e.key = d.key => (e.delta = "unchanged" <=> e.hash = hash)

\* Whoever scans the same files again is told that nothing has changed: if nobody
\* edited a file from the beginning of the one scan to the end of the other, a run
\* finds what the run before it found in the same directory, under whatever name
\* that was requested, and no pattern that has its key for itself is new or
\* changed, even if there are more files than a scan reads.
RescanIsQuiet ==
    \A n \in DOMAIN reports :
        LET r == reports[n] IN
        /\ r.status = "completed" /\ r.previous # 0
        /\ r.root = reports[r.previous].root
        /\ reports[r.previous].began = r.ended
        => /\ {<<d.key, d.hash>> : d \in r.discoveries}
                = {<<d.key, d.hash>> : d \in reports[r.previous].discoveries}
           /\ \A d \in r.discoveries : Found(n, d.key) = {d.hash} => d.delta = "unchanged"
=============================================================================

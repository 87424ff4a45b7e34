---------------------- MODULE MemoryGovernanceProofs ----------------------
(***************************************************************************)
(* Proofs about MemoryGovernance, for every set of keys, handlers and      *)
(* readers.                                                                *)
(***************************************************************************)
EXTENDS MemoryGovernance, TLAPS

LEMMA HomeIsProc == \A w \in Workers : Home(w) \in Procs
BY DEF Home, Procs

(***************************************************************************)
(* Type correctness.                                                       *)
(***************************************************************************)

LEMMA TypeInit == Init => TypeOK
BY DEF Init, TypeOK, Procs, CacheEntry, Miss

\* A step of a DELETE handler keeps every variable in its type.
LEMMA TypeDelete ==
    ASSUME TypeOK, NEW d \in Deleters,
           DeleteStep(d) \/ \E k \in Keys : DeleteRequest(d, k)
    PROVE  TypeOK'
<1>1. "api" \in Procs
  BY DEF Procs
<1>2. CASE \E k \in Keys : DeleteRequest(d, k)
  BY <1>2 DEF TypeOK, DeleteRequest, dbVars, procVars, workerVars
<1>3. CASE InsertTombstone(d) \/ InsertFails(d)
  BY <1>3 DEF TypeOK, InsertTombstone, InsertFails, RowsWith, EndDelete,
              procVars, workerVars
<1>4. CASE AddToFilter(d)
  BY <1>1, <1>4 DEF TypeOK, AddToFilter, dbVars, workerVars
<1>5. CASE RecordAudit(d) \/ AuditFails(d)
  BY <1>5 DEF TypeOK, RecordAudit, AuditFails, EndDelete, procVars, workerVars
<1>6. CASE InvalidateAndReply(d)
  <2>1. cache' \in [Procs -> [Scopes -> CacheEntry]]
    BY <1>1, <1>6 DEF TypeOK, InvalidateAndReply, CacheEntry, Miss
  <2> QED
    BY <1>6, <2>1 DEF TypeOK, InvalidateAndReply, EndDelete, dbVars, workerVars
<1> QED
  BY <1>2, <1>3, <1>4, <1>5, <1>6 DEF DeleteStep

\* The arrival of a request at a reader.
LEMMA TypeBegin ==
    ASSUME TypeOK, NEW w \in Workers, NEW s \in Scopes,
           NEW step \in {"lookup", "build"}, NEW ids \in SUBSET Keys,
           BeginWith(w, s, step, ids)
    PROVE  TypeOK'
<1>1. Owed(w) \in SUBSET Keys
  BY DEF TypeOK, Owed, Procs
<1> QED
  BY <1>1 DEF TypeOK, BeginWith, dbVars, procVars, delVars

\* A step of a reader.
LEMMA TypeRead ==
    ASSUME TypeOK, NEW w \in Workers, ReadStep(w)
    PROVE  TypeOK'
<1> USE DEF dbVars, procVars, delVars
<1>1. CASE CacheHit(w)
  <2>1. cache[Home(w)][scope[w]] \in SUBSET Keys
    BY <1>1, HomeIsProc DEF TypeOK, CacheHit, CacheEntry, Miss
  <2> QED
    BY <1>1, <2>1 DEF TypeOK, CacheHit
<1>2. CASE CacheMiss(w) \/ SearchRaises(w) \/ Finish(w)
  BY <1>2 DEF TypeOK, CacheMiss, SearchRaises, Finish
<1>3. CASE AdapterSearch(w)
  BY <1>3 DEF TypeOK, AdapterSearch
<1>4. ASSUME NEW k \in Keys, FilterEntry(w, k)
      PROVE  TypeOK'
  BY <1>4 DEF TypeOK, FilterEntry
<1>5. ASSUME NEW k \in Keys, CheckTombstone(w, k)
      PROVE  TypeOK'
  <2>1. CASE Tombstoned(Home(w), k)
    BY <1>5, <2>1 DEF TypeOK, CheckTombstone
  <2>2. CASE ~ Tombstoned(Home(w), k)
    <3>1. /\ pc' = [pc EXCEPT ![w] = "fetch"]
          /\ current' = [current EXCEPT ![w] = k]
          /\ todo' = [todo EXCEPT ![w] = @ \ {k}]
      BY <1>5, <2>2 DEF CheckTombstone
    <3>2. /\ current' \in [Workers -> Keys \cup {Nothing}]
          /\ todo' \in [Workers -> SUBSET Keys]
          /\ \A v \in Workers : pc'[v] = "fetch" => current'[v] \in Keys
      BY <3>1 DEF TypeOK
    <3>3. UNCHANGED <<rows, audited, store, up, pool, filter, cache, delPc,
                      delKey, acked, scope, found, plan, answer, excluded>>
      BY <1>5 DEF CheckTombstone
    <3> QED
      BY <3>1, <3>2, <3>3 DEF TypeOK
  <2> QED
    BY <2>1, <2>2
<1>6. CASE CacheSet(w)
  <2>1. cache' \in [Procs -> [Scopes -> CacheEntry]]
    BY <1>6, HomeIsProc DEF TypeOK, CacheSet, CacheEntry
  <2> QED
    BY <1>6, <2>1 DEF TypeOK, CacheSet
<1>7. CASE SelectMemories(w)
  <2>1. PICK S \in SUBSET found[w] :
            /\ plan' = [plan EXCEPT ![w] = S]
            /\ todo' = [todo EXCEPT ![w] = S]
    BY <1>7 DEF SelectMemories
  <2>2. S \in SUBSET Keys
    BY DEF TypeOK
  <2> QED
    BY <1>7, <2>1, <2>2 DEF TypeOK, SelectMemories
<1>8. CASE SearchReply(w)
  BY <1>8 DEF TypeOK, SearchReply
<1>9. CASE AdapterGet(w)
  <2>1. current[w] \in Keys
    BY <1>9 DEF TypeOK, AdapterGet
  <2>2. answer' \in [Workers -> SUBSET Keys]
    BY <1>9, <2>1 DEF TypeOK, AdapterGet
  <2> QED
    BY <1>9, <2>2 DEF TypeOK, AdapterGet
<1>10. CASE AdapterGetNothing(w)
  BY <1>10 DEF TypeOK, AdapterGetNothing
<1> QED
  BY <1>1, <1>2, <1>3, <1>4, <1>5, <1>6, <1>7, <1>8, <1>9, <1>10 DEF ReadStep

\* Death, start-up and the clock.
LEMMA TypeProc ==
    ASSUME TypeOK, NEW p \in Procs,
           \/ Crash(p) \/ Restart(p) \/ RestartWithoutDatabase(p)
           \/ \E s \in Scopes : Expire(p, s)
    PROVE  TypeOK'
<1> USE DEF dbVars, delVars, workerVars
<1>1. CASE Crash(p)
  <2>1. cache' \in [Procs -> [Scopes -> CacheEntry]]
    BY <1>1 DEF TypeOK, Crash, CacheEntry, Miss
  <2> QED
    BY <1>1, <2>1 DEF TypeOK, Crash
<1>2. CASE Restart(p) \/ RestartWithoutDatabase(p)
  BY <1>2 DEF TypeOK, Restart, RestartWithoutDatabase, Preload
<1>3. ASSUME NEW s \in Scopes, Expire(p, s)
      PROVE  TypeOK'
  <2>1. cache' \in [Procs -> [Scopes -> CacheEntry]]
    BY <1>3 DEF TypeOK, Expire, CacheEntry, Miss
  <2> QED
    BY <1>3, <2>1 DEF TypeOK, Expire
<1> QED
  BY <1>1, <1>2, <1>3

LEMMA TypeStep == TypeOK /\ [Next]_vars => TypeOK'
<1> SUFFICES ASSUME TypeOK, [Next]_vars
             PROVE  TypeOK'
  OBVIOUS
<1>1. ASSUME NEW w \in Workers, NEW s \in Scopes, BeginSearch(w, s)
      PROVE  TypeOK'
  BY <1>1, TypeBegin DEF BeginSearch
<1>2. ASSUME NEW c \in Clients, NEW k \in Keys, BeginGet(c, k)
      PROVE  TypeOK'
  BY <1>2, TypeBegin, KeysAreScoped DEF BeginGet, Workers
<1>3. ASSUME NEW k \in Keys, Upsert(k) \/ Erase(k)
      PROVE  TypeOK'
  BY <1>3 DEF TypeOK, Upsert, Erase, dbVars, procVars, delVars, workerVars
<1>4. CASE UNCHANGED vars
  BY <1>4 DEF TypeOK, vars, dbVars, procVars, delVars, workerVars
<1> QED
  BY <1>1, <1>2, <1>3, <1>4, TypeDelete, TypeRead, TypeProc DEF Next

\* Every variable keeps its type, whatever the sets of keys and workers.
THEOREM TypeCorrect == Spec => []TypeOK
<1> QED
  BY TypeInit, TypeStep, PTL DEF Spec

(***************************************************************************)
(* The inductive invariant.  The table, the audit log and the API's filter *)
(* run ahead of the acknowledgement; what a reader owes was in its filter  *)
(* when it began, and a filter only grows while its process lives.         *)
(***************************************************************************)

\* Each finished step of a DELETE handler has left its trace.
HandlersInv == \A d \in Deleters :
    /\ delPc[d] # "idle" => pool["api"]
    /\ delPc[d] \in {"mark", "audit", "invalidate"} => delKey[d] \in rows
    /\ delPc[d] \in {"audit", "invalidate"} => delKey[d] \in filter["api"]
    /\ delPc[d] = "invalidate" => delKey[d] \in audited

\* A dead process holds nothing; while one lives its filter is a part of the
\* table; the service's filter is fixed at start-up, so what it caches is free
\* of what it filters.
ProcsInv ==
    /\ \A p \in Procs :
          /\ filter[p] \subseteq rows
          /\ pool[p] => up[p]
          /\ ~ up[p] => filter[p] = {}
          /\ ~ up[p] => \A s \in Scopes : cache[p][s] = Miss
    /\ \A s \in Scopes : \A k \in filter["service"] :
          cache["service"][s] = Miss \/ k \notin cache["service"][s]

\* What a busy reader owes is in its filter, and the entry it fetches is not
\* owed; no reader has answered with what it owes, nor has a dead one left.
ReadersInv == \A w \in Workers :
    /\ pc[w] # "idle" => up[Home(w)]
    /\ pc[w] # "idle" /\ pool[Home(w)] => excluded[w] \subseteq filter[Home(w)]
    /\ pc[w] = "fetch" /\ pool[Home(w)] => current[w] \notin excluded[w]
    /\ pool[Home(w)] => answer[w] \cap excluded[w] = {}
    /\ ~ up[Home(w)] => answer[w] = {} /\ excluded[w] = {}
    /\ found[w] # {} => pc[w] \in {"filter", "reply"}
    /\ w \in Clients => found[w] \cap filter["service"] = {}

IInv == TypeOK /\ AckedGoverned /\ HandlersInv /\ ProcsInv /\ ReadersInv

LEMMA IInvInit == Init => IInv
BY TypeInit DEF Init, IInv, AckedGoverned, HandlersInv, ProcsInv, ReadersInv,
                Procs, Miss

\* The table never loses a row.
LEMMA RowsGrow ==
    ASSUME NEW k
    PROVE  rows \subseteq RowsWith(k)
BY DEF RowsWith

\* With ids of their own, an insert that returns has its row in the table.
LEMMA RowInserted ==
    ASSUME IdsAreOwn, rows \subseteq Keys, NEW k \in Keys
    PROVE  k \in RowsWith(k)
BY DEF RowsWith, IdsAreOwn
\* A step of a DELETE handler.
LEMMA InvDelete ==
    ASSUME IdsAreOwn, IInv, NEW d \in Deleters,
           DeleteStep(d) \/ \E k \in Keys : DeleteRequest(d, k)
    PROVE  AckedGoverned' /\ HandlersInv' /\ ProcsInv' /\ ReadersInv'
<1> USE DEF dbVars, procVars, workerVars, IInv
<1>1. CASE \E k \in Keys : DeleteRequest(d, k)
  <2>1. HandlersInv'
    BY <1>1 DEF DeleteRequest, HandlersInv, TypeOK
  <2> QED
    BY <1>1, <2>1 DEF DeleteRequest, AckedGoverned, ProcsInv, ReadersInv
<1>2. CASE InsertTombstone(d) \/ InsertFails(d)
  <2>1. rows \subseteq rows'
    BY <1>2, RowsGrow DEF InsertTombstone, InsertFails
  <2>2. ASSUME InsertTombstone(d)
        PROVE  HandlersInv'
    <3>1. delKey[d] \in rows'
      BY <2>2, RowInserted DEF InsertTombstone, TypeOK
    <3> QED
      BY <2>2, <2>1, <3>1 DEF InsertTombstone, HandlersInv, TypeOK
  <2>3. ASSUME InsertFails(d)
        PROVE  HandlersInv'
    BY <2>1, <2>3 DEF InsertFails, EndDelete, HandlersInv, TypeOK
  <2>4. HandlersInv'
    BY <1>2, <2>2, <2>3
  <2> QED
    BY <1>2, <2>1, <2>4 DEF InsertTombstone, InsertFails, AckedGoverned,
                            ProcsInv, ReadersInv
<1>3. CASE AddToFilter(d)
  <2>1. /\ filter'["api"] = filter["api"] \cup {delKey[d]}
        /\ filter'["service"] = filter["service"]
        /\ delKey[d] \in rows
        /\ up["api"]
    BY <1>3 DEF AddToFilter, HandlersInv, ProcsInv, TypeOK, Procs
  <2>2. AckedGoverned'
    BY <1>3, <2>1 DEF AddToFilter, AckedGoverned
  <2>3. HandlersInv'
    BY <1>3, <2>1 DEF AddToFilter, HandlersInv, TypeOK
  <2>4. ProcsInv'
    BY <1>3, <2>1 DEF AddToFilter, ProcsInv, Procs
  <2>5. ReadersInv'
    BY <1>3, <2>1 DEF AddToFilter, ReadersInv, Home
  <2> QED
    BY <2>2, <2>3, <2>4, <2>5
<1>4. CASE RecordAudit(d) \/ AuditFails(d)
  <2>1. audited \subseteq audited'
    BY <1>4 DEF RecordAudit, AuditFails
  <2>2. HandlersInv'
    BY <1>4, <2>1 DEF RecordAudit, AuditFails, EndDelete, HandlersInv, TypeOK
  <2> QED
    BY <1>4, <2>1, <2>2 DEF RecordAudit, AuditFails, AckedGoverned, ProcsInv,
                            ReadersInv
<1>5. CASE InvalidateAndReply(d)
  <2>1. /\ delKey[d] \in rows \cap audited
        /\ delKey[d] \in filter["api"]
    BY <1>5 DEF InvalidateAndReply, HandlersInv
  <2>2. AckedGoverned'
    BY <1>5, <2>1 DEF InvalidateAndReply, AckedGoverned
  <2>3. HandlersInv'
    BY <1>5 DEF InvalidateAndReply, EndDelete, HandlersInv, TypeOK
  <2>4. /\ cache'["service"] = cache["service"]
        /\ \A s \in Scopes : cache["api"][s] = Miss => cache'["api"][s] = Miss
    BY <1>5 DEF InvalidateAndReply, TypeOK, Procs
  <2>5. ProcsInv'
    BY <1>5, <2>4 DEF InvalidateAndReply, ProcsInv, Procs
  <2>6. ReadersInv'
    BY <1>5 DEF InvalidateAndReply, ReadersInv
  <2> QED
    BY <2>2, <2>3, <2>5, <2>6
<1> QED
  BY <1>1, <1>2, <1>3, <1>4, <1>5 DEF DeleteStep

\* What a reader that begins owes is in the filter of its process.
LEMMA OwedIsFiltered ==
    ASSUME IInv, NEW w \in Workers, pool[Home(w)]
    PROVE  Owed(w) \subseteq filter[Home(w)]
BY DEF IInv, AckedGoverned, Owed, Home

LEMMA InvBegin ==
    ASSUME IInv, NEW w \in Workers, NEW s \in Scopes,
           NEW step \in {"lookup", "build"}, NEW ids \in SUBSET Keys,
           BeginWith(w, s, step, ids)
    PROVE  AckedGoverned' /\ HandlersInv' /\ ProcsInv' /\ ReadersInv'
<1> USE DEF dbVars, procVars, delVars, IInv
<1>1. pool[Home(w)] => Owed(w) \subseteq filter[Home(w)]
  BY OwedIsFiltered
<1>2. ReadersInv'
  BY <1>1 DEF BeginWith, ReadersInv, TypeOK
<1> QED
  BY <1>2 DEF BeginWith, AckedGoverned, HandlersInv, ProcsInv

\* Every step of a reader but CacheSet leaves the other parts alone.
LEMMA InvRead ==
    ASSUME IInv, NEW w \in Workers, ReadStep(w)
    PROVE  AckedGoverned' /\ HandlersInv' /\ ProcsInv' /\ ReadersInv'
<1> USE DEF dbVars, procVars, delVars, IInv
<1>1. CASE CacheSet(w)
  <2>1. \A k \in filter["service"], s \in Scopes :
          cache'["service"][s] = Miss \/ k \notin cache'["service"][s]
    <3>1. CASE w \in Clients
      BY <1>1, <3>1, WorkersAreDistinct
      DEF CacheSet, ProcsInv, ReadersInv, TypeOK, Home, Procs
    <3>2. CASE w \in Generations
      BY <1>1, <3>2 DEF CacheSet, ProcsInv, TypeOK, Home, Procs
    <3> QED
      BY <3>1, <3>2 DEF Workers
  <2>2. up[Home(w)] /\ Home(w) \in Procs
    BY <1>1, HomeIsProc DEF CacheSet, ReadersInv
  <2>3. \A p \in Procs : ~ up[p] => cache'[p] = cache[p]
    BY <1>1, <2>2 DEF CacheSet, TypeOK
  <2>4. ProcsInv'
    BY <1>1, <2>1, <2>3 DEF CacheSet, ProcsInv
  <2>5. ReadersInv'
    BY <1>1 DEF CacheSet, ReadersInv, TypeOK
  <2> QED
    BY <1>1, <2>4, <2>5 DEF CacheSet, AckedGoverned, HandlersInv
<1>2. CASE CacheHit(w)
  <2>1. w \in Clients => cache["service"][scope[w]] \cap filter["service"] = {}
    BY <1>2, WorkersAreDistinct DEF CacheHit, ProcsInv, TypeOK, Home
  <2>2. ReadersInv'
    BY <1>2, <2>1, WorkersAreDistinct DEF CacheHit, ReadersInv, TypeOK, Home
  <2> QED
    BY <1>2, <2>2 DEF CacheHit, AckedGoverned, HandlersInv, ProcsInv
<1>3. CASE CacheMiss(w) \/ AdapterSearch(w) \/ SearchRaises(w) \/ Finish(w)
  <2>1. ReadersInv'
    BY <1>3 DEF CacheMiss, AdapterSearch, SearchRaises, Finish, ReadersInv,
                TypeOK
  <2> QED
    BY <1>3, <2>1 DEF CacheMiss, AdapterSearch, SearchRaises, Finish,
                      AckedGoverned, HandlersInv, ProcsInv
<1>4. ASSUME NEW k \in Keys, FilterEntry(w, k)
      PROVE  AckedGoverned' /\ HandlersInv' /\ ProcsInv' /\ ReadersInv'
  <2>1. w \in Clients => found'[w] \cap filter["service"] = {}
    BY <1>4, WorkersAreDistinct DEF FilterEntry, Keeps, ReadersInv, TypeOK, Home
  <2>2. ReadersInv'
    BY <1>4, <2>1 DEF FilterEntry, ReadersInv, TypeOK
  <2> QED
    BY <1>4, <2>2 DEF FilterEntry, AckedGoverned, HandlersInv, ProcsInv
<1>5. ASSUME NEW k \in Keys, CheckTombstone(w, k)
      PROVE  AckedGoverned' /\ HandlersInv' /\ ProcsInv' /\ ReadersInv'
  <2>1. pool[Home(w)] => excluded[w] \subseteq filter[Home(w)]
    BY <1>5 DEF CheckTombstone, ReadersInv
  <2>2. CASE Tombstoned(Home(w), k)
    <3>1. ReadersInv'
      BY <1>5, <2>2 DEF CheckTombstone, ReadersInv, TypeOK
    <3> QED
      BY <1>5, <3>1 DEF CheckTombstone, AckedGoverned, HandlersInv, ProcsInv
  <2>3. CASE ~ Tombstoned(Home(w), k)
    <3>1. pool[Home(w)] => k \notin excluded[w]
      BY <2>1, <2>3 DEF Tombstoned
    <3>2. ReadersInv'
      BY <1>5, <2>3, <3>1 DEF CheckTombstone, ReadersInv, TypeOK
    <3> QED
      BY <1>5, <3>2 DEF CheckTombstone, AckedGoverned, HandlersInv, ProcsInv
  <2> QED
    BY <2>2, <2>3
<1>6. CASE SelectMemories(w)
  <2>1. ReadersInv'
    BY <1>6 DEF SelectMemories, ReadersInv, TypeOK
  <2> QED
    BY <1>6, <2>1 DEF SelectMemories, AckedGoverned, HandlersInv, ProcsInv
<1>7. CASE SearchReply(w)
  <2>1. pool[Home(w)] => found[w] \cap excluded[w] = {}
    BY <1>7, WorkersAreDistinct DEF SearchReply, ReadersInv, Home
  <2>2. ReadersInv'
    BY <1>7, <2>1 DEF SearchReply, ReadersInv, TypeOK
  <2> QED
    BY <1>7, <2>2 DEF SearchReply, AckedGoverned, HandlersInv, ProcsInv
<1>8. CASE AdapterGet(w) \/ AdapterGetNothing(w)
  <2>1. ReadersInv'
    BY <1>8 DEF AdapterGet, AdapterGetNothing, ReadersInv, TypeOK
  <2> QED
    BY <1>8, <2>1 DEF AdapterGet, AdapterGetNothing, AckedGoverned,
                      HandlersInv, ProcsInv
<1> QED
  BY <1>1, <1>2, <1>3, <1>4, <1>5, <1>6, <1>7, <1>8 DEF ReadStep

LEMMA InvProc ==
    ASSUME IInv, NEW p \in Procs,
           \/ Crash(p) \/ Restart(p) \/ RestartWithoutDatabase(p)
           \/ \E s \in Scopes : Expire(p, s)
    PROVE  AckedGoverned' /\ HandlersInv' /\ ProcsInv' /\ ReadersInv'
<1> USE DEF dbVars, delVars, workerVars, IInv
<1>1. CASE Crash(p)
  <2>1. AckedGoverned'
    BY <1>1 DEF Crash, AckedGoverned, TypeOK, Procs
  <2>2. HandlersInv'
    BY <1>1 DEF Crash, HandlersInv, TypeOK, Procs
  <2>3. ProcsInv'
    BY <1>1 DEF Crash, ProcsInv, TypeOK, Procs
  <2>4. ReadersInv'
    BY <1>1 DEF Crash, ReadersInv, TypeOK, Home, Procs
  <2> QED
    BY <2>1, <2>2, <2>3, <2>4
<1>2. CASE Restart(p) \/ RestartWithoutDatabase(p)
  <2> USE DEF Restart, RestartWithoutDatabase
  <2>1. AckedGoverned'
    BY <1>2 DEF Preload, AckedGoverned, TypeOK, Procs
  <2>2. HandlersInv'
    BY <1>2 DEF HandlersInv, ProcsInv, TypeOK, Procs
  <2>3. ProcsInv'
    BY <1>2 DEF Preload, ProcsInv, TypeOK, Procs
  <2>4. \A w \in Workers : Home(w) = p =>
            pc[w] = "idle" /\ found[w] = {} /\ answer[w] = {}
    BY <1>2 DEF ReadersInv
  <2>5. ReadersInv'
    BY <1>2, <2>4, HomeIsProc, WorkersAreDistinct
    DEF ReadersInv, TypeOK, Home, Procs
  <2> QED
    BY <2>1, <2>2, <2>3, <2>5
<1>3. ASSUME NEW s \in Scopes, Expire(p, s)
      PROVE  AckedGoverned' /\ HandlersInv' /\ ProcsInv' /\ ReadersInv'
  <2>1. \A q \in Procs, t \in Scopes :
          cache'[q][t] = Miss \/ cache'[q][t] = cache[q][t]
    BY <1>3 DEF Expire, TypeOK
  <2>2. ProcsInv'
    BY <1>3, <2>1 DEF Expire, ProcsInv, Procs
  <2> QED
    BY <1>3, <2>2 DEF Expire, AckedGoverned, HandlersInv, ReadersInv
<1> QED
  BY <1>1, <1>2, <1>3

LEMMA IInvStep == ASSUME IdsAreOwn PROVE IInv /\ [Next]_vars => IInv'
<1> SUFFICES ASSUME IInv, [Next]_vars
             PROVE  IInv'
  OBVIOUS
<1>1. TypeOK'
  BY TypeStep DEF IInv
<1> DEFINE Goal == AckedGoverned' /\ HandlersInv' /\ ProcsInv' /\ ReadersInv'
<1>2. ASSUME NEW w \in Workers, NEW s \in Scopes, BeginSearch(w, s)
      PROVE  Goal
  BY <1>2, InvBegin DEF BeginSearch
<1>3. ASSUME NEW c \in Clients, NEW k \in Keys, BeginGet(c, k)
      PROVE  Goal
  BY <1>3, InvBegin, KeysAreScoped DEF BeginGet, Workers
<1>4. ASSUME NEW k \in Keys, Upsert(k) \/ Erase(k)
      PROVE  Goal
  BY <1>4 DEF Upsert, Erase, IInv, dbVars, procVars, delVars, workerVars,
              AckedGoverned, HandlersInv, ProcsInv, ReadersInv
<1>5. ASSUME UNCHANGED vars
      PROVE  Goal
  BY <1>5 DEF IInv, vars, dbVars, procVars, delVars, workerVars,
              AckedGoverned, HandlersInv, ProcsInv, ReadersInv
<1>6. Goal
  BY <1>2, <1>3, <1>4, <1>5, InvDelete, InvRead, InvProc DEF Next
<1> QED
  BY <1>1, <1>6 DEF IInv

THEOREM Invariance == ASSUME IdsAreOwn PROVE Spec => []IInv
<1> QED
  BY IInvInit, IInvStep, PTL DEF Spec

\* However handlers, readers, crashes and restarts interleave, a generation
\* that starts after a deletion was answered never has the memory in its
\* prompt, provided no entity id is used in two scopes.
THEOREM DeletedStaysOut ==
    ASSUME IdsAreOwn PROVE Spec => []AnswersExcludeOwed
<1>1. IInv => AnswersExcludeOwed
  BY DEF IInv, ReadersInv, AnswersExcludeOwed
<1> QED
  BY <1>1, Invariance, PTL

\* An acknowledged deletion is recorded, audited and in force.
THEOREM AcknowledgedIsGoverned ==
    ASSUME IdsAreOwn PROVE Spec => []AckedGoverned
<1>1. IInv => AckedGoverned
  BY DEF IInv
<1> QED
  BY <1>1, Invariance, PTL

\* A restart reveals nothing that a filter was hiding.
THEOREM HiddenIsBacked ==
    ASSUME IdsAreOwn PROVE Spec => []HiddenStaysHidden
<1>1. IInv => HiddenStaysHidden
  BY DEF IInv, ProcsInv, HiddenStaysHidden
<1> QED
  BY <1>1, Invariance, PTL

(***************************************************************************)
(* The specification implements UnlearningPromise.                         *)
(***************************************************************************)

LEMMA PromiseInit == Init => Promise!Init
BY DEF Init, Promise!Init, Workers, Procs

\* What leaves acknowledgements, obligations and answers alone is a stutter.
LEMMA PromiseStutter ==
    ASSUME UNCHANGED <<acked, pool["api"]>>,
           \A g \in Generations :
               excluded'[g] = excluded[g] /\ answer'[g] = answer[g]
    PROVE  UNCHANGED Promise!vars
<1>1. pool'["api"] = pool["api"] /\ acked' = acked
  OBVIOUS
<1>2. [g \in Generations |-> IF pool["api"] THEN excluded[g] ELSE {}]' =
      [g \in Generations |-> IF pool["api"] THEN excluded[g] ELSE {}]
  BY <1>1
<1>3. [g \in Generations |-> answer[g]]' = [g \in Generations |-> answer[g]]
  OBVIOUS
<1> QED
  BY <1>1, <1>2, <1>3 DEF Promise!vars

LEMMA PromiseRead ==
    ASSUME IInv, NEW w \in Workers, ReadStep(w)
    PROVE  [Promise!Next]_(Promise!vars)
<1>1. acked' = acked /\ excluded' = excluded /\ pool' = pool
  BY DEF procVars, ReadStep, CacheHit, CacheMiss, AdapterSearch, SearchRaises,
         FilterEntry, CheckTombstone, CacheSet, SelectMemories, SearchReply,
         AdapterGet, AdapterGetNothing, Finish
<1>2. CASE AdapterGet(w) /\ w \in Generations
  <2>1. PICK m \in Keys : m = current[w]
    BY <1>2 DEF AdapterGet, IInv, TypeOK
  <2>2. pool["api"] => m \notin excluded[w]
    BY <1>2, <2>1 DEF AdapterGet, IInv, ReadersInv, Home
  <2>3. \A g \in Generations :
            answer'[g] = IF g = w THEN answer[g] \cup {m} ELSE answer[g]
    BY <1>2, <2>1 DEF AdapterGet, IInv, TypeOK, Workers
  <2>4. [g \in Generations |-> answer'[g]] =
            [[g \in Generations |-> answer[g]] EXCEPT ![w] = @ \cup {m}]
    BY <1>2, <2>3
  <2>5. Promise!Serve(w, m)
    BY <1>1, <1>2, <2>2, <2>4 DEF Promise!Serve
  <2> QED
    BY <1>2, <2>5 DEF Promise!Next
<1>3. CASE ~ (AdapterGet(w) /\ w \in Generations)
  <2>1. \A g \in Generations : answer'[g] = answer[g]
    BY <1>3, WorkersAreDistinct
    DEF ReadStep, CacheHit, CacheMiss, AdapterSearch, SearchRaises,
        FilterEntry, CheckTombstone, CacheSet, SelectMemories, SearchReply,
        AdapterGet, AdapterGetNothing, Finish, IInv, TypeOK, Workers
  <2> QED
    BY <1>1, <2>1, PromiseStutter
<1> QED
  BY <1>2, <1>3

LEMMA PromiseBegin ==
    ASSUME IInv, NEW w \in Workers, NEW s, NEW step, NEW ids,
           BeginWith(w, s, step, ids)
    PROVE  [Promise!Next]_(Promise!vars)
<1>1. CASE w \in Generations
  <2>1. Promise!Start(w)
    BY <1>1 DEF BeginWith, procVars, Owed, Promise!Start, IInv, TypeOK, Workers
  <2> QED
    BY <1>1, <2>1 DEF Promise!Next
<1>2. CASE w \notin Generations
  <2>1. \A g \in Generations :
            excluded'[g] = excluded[g] /\ answer'[g] = answer[g]
    BY <1>2 DEF BeginWith, IInv, TypeOK, Workers
  <2> QED
    BY <2>1, PromiseStutter DEF BeginWith, procVars
<1> QED
  BY <1>1, <1>2

LEMMA PromiseStep == IInv /\ [Next]_vars => [Promise!Next]_(Promise!vars)
<1> SUFFICES ASSUME IInv, [Next]_vars
             PROVE  [Promise!Next]_(Promise!vars)
  OBVIOUS
<1> USE DEF dbVars, procVars, delVars, workerVars
<1>1. ASSUME NEW d \in Deleters,
             DeleteStep(d) \/ \E k \in Keys : DeleteRequest(d, k)
      PROVE  [Promise!Next]_(Promise!vars)
  <2>1. UNCHANGED <<excluded, answer, pool>>
    BY <1>1 DEF DeleteStep, DeleteRequest, InsertTombstone, InsertFails,
                AddToFilter, RecordAudit, AuditFails, InvalidateAndReply
  <2>2. CASE InvalidateAndReply(d)
    <3>1. delKey[d] \in Keys
      BY <2>2 DEF InvalidateAndReply, IInv, TypeOK
    <3>2. Promise!Forget(delKey[d])
      BY <2>1, <2>2 DEF InvalidateAndReply, Promise!Forget
    <3> QED
      BY <3>1, <3>2 DEF Promise!Next
  <2>3. CASE ~ InvalidateAndReply(d)
    <3>1. acked' = acked
      BY <1>1, <2>3 DEF DeleteStep, DeleteRequest, InsertTombstone,
                        InsertFails, AddToFilter, RecordAudit, AuditFails
    <3> QED
      BY <2>1, <3>1, PromiseStutter
  <2> QED
    BY <2>2, <2>3
<1>2. ASSUME NEW w \in Workers, NEW s \in Scopes, BeginSearch(w, s)
      PROVE  [Promise!Next]_(Promise!vars)
  BY <1>2, PromiseBegin DEF BeginSearch
<1>3. ASSUME NEW c \in Clients, NEW k \in Keys, BeginGet(c, k)
      PROVE  [Promise!Next]_(Promise!vars)
  BY <1>3, PromiseBegin DEF BeginGet, Workers
<1>4. CASE Crash("api")
  <2>1. Promise!Abort
    BY <1>4 DEF Crash, Promise!Abort, IInv, TypeOK, Workers, Home, Procs
  <2> QED
    BY <2>1 DEF Promise!Next
<1>5. ASSUME \/ Crash("service") \/ Restart("service")
             \/ RestartWithoutDatabase("service")
      PROVE  [Promise!Next]_(Promise!vars)
  <2>1. UNCHANGED <<acked, pool["api"]>>
    BY <1>5 DEF Crash, Restart, RestartWithoutDatabase, IInv, TypeOK, Procs
  <2>2. \A g \in Generations :
            excluded'[g] = excluded[g] /\ answer'[g] = answer[g]
    BY <1>5 DEF Crash, Restart, RestartWithoutDatabase, Workers, Home
  <2> QED
    BY <2>1, <2>2, PromiseStutter
<1>7. CASE Restart("api") \/ RestartWithoutDatabase("api")
  <2>1. \A g \in Generations : excluded[g] = {} /\ answer[g] = {}
    BY <1>7 DEF Restart, RestartWithoutDatabase, IInv, ReadersInv, Workers, Home
  <2>2. pool'["api"] \in BOOLEAN
    BY <1>7 DEF Restart, RestartWithoutDatabase, IInv, TypeOK, Procs
  <2>3. Promise!Abort
    BY <1>7, <2>1, <2>2 DEF Restart, RestartWithoutDatabase, Promise!Abort
  <2> QED
    BY <2>3 DEF Promise!Next
<1>6. ASSUME \/ \E p \in Procs, s \in Scopes : Expire(p, s)
             \/ \E k \in Keys : Upsert(k) \/ Erase(k)
             \/ UNCHANGED vars
      PROVE  [Promise!Next]_(Promise!vars)
  BY <1>6, PromiseStutter DEF Expire, Upsert, Erase, vars
<1> QED
  BY <1>1, <1>2, <1>3, <1>4, <1>5, <1>6, <1>7, PromiseRead DEF Next, Procs

\* Every behaviour of handlers, caches, crashes and restarts is one the
\* promise allows: acknowledging a deletion bars the memory from every
\* generation that starts later.
THEOREM DeletionImplementsPromise ==
    ASSUME IdsAreOwn PROVE Spec => KeepsPromise
<1> QED
  BY PromiseInit, PromiseStep, Invariance, PTL
  DEF Spec, KeepsPromise, Promise!Spec
=============================================================================

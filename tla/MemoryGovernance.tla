------------------------- MODULE MemoryGovernance -------------------------
(***************************************************************************)
(* How a deleted memory is kept out of generated code.                     *)
(*                                                                         *)
(* Two processes read memories through a MemoryWrapper: the main API       *)
(* ("api": context plans and prompts) and the stand-alone memory service   *)
(* ("service": search, get, upsert and delete routes).  Each holds its own *)
(* TombstoneFilter, loaded from Postgres at start-up, and its own TTLCache *)
(* of search results.  The API's DELETE route writes a tombstone row, adds *)
(* it to its own filter, records an audit event and drops the cached       *)
(* searches of that tenant and application, with an await (another handler *)
(* may run, the statement may fail, the process may die) between steps.    *)
(* Readers run in the thread pool and interleave with it anywhere.         *)
(*                                                                         *)
(* A key is a pair <<scope, id>>: the (tenant, application) scope and the  *)
(* entity id within it.                                                    *)
(***************************************************************************)
EXTENDS FiniteSets

CONSTANTS
    Scopes,        \* (tenant_id, application_id) pairs
    Ids,           \* entity ids
    Keys,          \* the <<scope, id>> pairs that memories and requests name
    Deleters,      \* concurrent DELETE /v1/memories requests of the API
    Generations,   \* worker threads of the API that build a prompt
    Clients,       \* worker threads of the memory service
    Nothing        \* no key, or no cached result

ASSUME KeysAreScoped == Keys \subseteq Scopes \X Ids
ASSUME NothingIsNoValue == /\ Nothing \notin Keys
                           /\ \A S \in SUBSET Keys : S # Nothing
ASSUME WorkersAreDistinct == Generations \cap Clients = {}

Procs == {"api", "service"}
Workers == Generations \cup Clients
Home(w) == IF w \in Generations THEN "api" ELSE "service"

IdOf(k) == k[2]

\* No entity id is used in two scopes (a UUID, say).  Nothing in the code
\* ensures it; what is proved under this assumption fails without it.
IdsAreOwn == \A k, l \in Keys : IdOf(k) = IdOf(l) => k = l

KeysOf(s) == {k \in Keys : k[1] = s}

\* What TTLCache.get returns for a scope's search.
Miss == Nothing
CacheEntry == {Miss} \cup SUBSET Keys

VARIABLES
    rows,          \* Postgres memory_tombstones, by key
    audited,       \* subjects of the memory.deleted rows of audit_events
    store,         \* entries the memory adapter's backend holds
    up,            \* up[p]: process p has finished its start-up
    pool,          \* pool[p]: p found its database at start-up
    filter,        \* filter[p]: TombstoneFilter._tombstones
    cache,         \* cache[p][s]: the unexpired cached search of scope s
    delPc, delKey, \* DELETE handlers: next step and the key they delete
    pc, scope,     \* readers: next step and the scope of the request
    found,         \* search results kept so far, until the reader uses them
    todo,          \* entries still to filter, or still to fetch
    current,       \* entry that passed the tombstone check of get()
    plan,          \* ContextPlan.memory_ids
    answer,        \* entries put in the prompt, or returned to the client
    acked,         \* history: deletions answered 200
    excluded       \* history: what this reader must not return

dbVars     == <<rows, audited>>
procVars   == <<up, pool, filter, cache>>
delVars    == <<delPc, delKey>>
workerVars == <<pc, scope, found, todo, current, plan, answer, excluded>>
vars == <<dbVars, store, procVars, delVars, workerVars, acked>>

TypeOK ==
    /\ rows \in SUBSET Keys
    /\ audited \in SUBSET Keys
    /\ store \in SUBSET Keys
    /\ up \in [Procs -> BOOLEAN]
    /\ pool \in [Procs -> BOOLEAN]
    /\ filter \in [Procs -> SUBSET Keys]
    /\ cache \in [Procs -> [Scopes -> CacheEntry]]
    /\ delPc \in [Deleters -> {"idle", "insert", "mark", "audit", "invalidate"}]
    /\ delKey \in [Deleters -> Keys \cup {Nothing}]
    /\ pc \in [Workers -> {"idle", "lookup", "search", "filter", "reply",
                           "build", "fetch"}]
    /\ scope \in [Workers -> Scopes]
    /\ found \in [Workers -> SUBSET Keys]
    /\ todo \in [Workers -> SUBSET Keys]
    /\ current \in [Workers -> Keys \cup {Nothing}]
    /\ plan \in [Workers -> SUBSET Keys]
    /\ answer \in [Workers -> SUBSET Keys]
    /\ acked \in SUBSET Keys
    /\ excluded \in [Workers -> SUBSET Keys]
    /\ \A d \in Deleters : delPc[d] # "idle" => delKey[d] \in Keys
    /\ \A w \in Workers : pc[w] = "fetch" => current[w] \in Keys

Init ==
    /\ rows = {} /\ audited = {} /\ acked = {}
    /\ store \in SUBSET Keys
    /\ up = [p \in Procs |-> TRUE]
    /\ pool = [p \in Procs |-> TRUE]
    /\ filter = [p \in Procs |-> {}]
    /\ cache = [p \in Procs |-> [s \in Scopes |-> Miss]]
    /\ delPc = [d \in Deleters |-> "idle"]
    /\ delKey = [d \in Deleters |-> Nothing]
    /\ pc = [w \in Workers |-> "idle"]
    /\ scope \in [Workers -> Scopes]
    /\ found = [w \in Workers |-> {}]
    /\ todo = [w \in Workers |-> {}]
    /\ current = [w \in Workers |-> Nothing]
    /\ plan = [w \in Workers |-> {}]
    /\ answer = [w \in Workers |-> {}]
    /\ excluded = [w \in Workers |-> {}]

-----------------------------------------------------------------------------
(* What the filter, the table and its preload answer.  A definition named  *)
(* Bug... is a mistake the code could have made there: no specification    *)
(* uses it, the properties are checked to notice it.                       *)

\* get() without its first lines.
BugNeverTombstoned(p, k) == FALSE

\* TombstoneFilter.is_tombstoned.
Tombstoned(p, k) == k \in filter[p]

\* filter_entries forgotten before the result is cached.
BugKeepsAll(p, k) == TRUE

\* TombstoneFilter.filter_entries, for one entry.
Keeps(p, k) == k \notin filter[p]

\* The insert is never committed.
BugRowLost(k) == rows

\* The table's primary key is the entity id alone, and a conflict is ignored.
RowsWith(k) ==
    IF \E r \in rows : IdOf(r) = IdOf(k) THEN rows ELSE rows \cup {k}

\* The preload forgets the scope of the rows.
BugPreloadIdsOnly == {IdOf(r) : r \in rows}

\* The preload is skipped.
BugNoPreload == {}

\* What load_all and load_bulk put in the filter at start-up.
Preload == rows

-----------------------------------------------------------------------------
(* DELETE /v1/memories/{entity_id}: an authorised request, step by step.   *)

\* Without a database the route answers 503.
DeleteRequest(d, k) ==
    /\ up["api"] /\ pool["api"]
    /\ delPc[d] = "idle"
    /\ delPc' = [delPc EXCEPT ![d] = "insert"]
    /\ delKey' = [delKey EXCEPT ![d] = k]
    /\ UNCHANGED <<dbVars, store, procVars, workerVars, acked>>

InsertTombstone(d) ==
    /\ delPc[d] = "insert"
    /\ rows' = RowsWith(delKey[d])
    /\ delPc' = [delPc EXCEPT ![d] = "mark"]
    /\ UNCHANGED <<audited, store, procVars, delKey, workerVars, acked>>

EndDelete(d) ==
    /\ delPc' = [delPc EXCEPT ![d] = "idle"]
    /\ delKey' = [delKey EXCEPT ![d] = Nothing]

\* The statement raises; the row may have been committed all the same.
InsertFails(d) ==
    /\ delPc[d] = "insert"
    /\ rows' \in {rows, RowsWith(delKey[d])}
    /\ EndDelete(d)
    /\ UNCHANGED <<audited, store, procVars, workerVars, acked>>

AddToFilter(d) ==
    /\ delPc[d] = "mark"
    /\ filter' = [filter EXCEPT !["api"] = @ \cup {delKey[d]}]
    /\ delPc' = [delPc EXCEPT ![d] = "audit"]
    /\ UNCHANGED <<dbVars, store, up, pool, cache, delKey, workerVars, acked>>

RecordAudit(d) ==
    /\ delPc[d] = "audit"
    /\ audited' = audited \cup {delKey[d]}
    /\ delPc' = [delPc EXCEPT ![d] = "invalidate"]
    /\ UNCHANGED <<rows, store, procVars, delKey, workerVars, acked>>

\* The exception is swallowed and the handler goes on.
BugAuditErrorSwallowed(d) ==
    /\ delPc[d] = "audit"
    /\ delPc' = [delPc EXCEPT ![d] = "invalidate"]
    /\ UNCHANGED <<dbVars, store, procVars, delKey, workerVars, acked>>

\* The handler ends with a 500 and never reaches the cache invalidation.
AuditFails(d) ==
    /\ delPc[d] = "audit"
    /\ audited' \in {audited, audited \cup {delKey[d]}}
    /\ EndDelete(d)
    /\ UNCHANGED <<rows, store, procVars, workerVars, acked>>

InvalidateAndReply(d) ==
    /\ delPc[d] = "invalidate"
    /\ cache' = [cache EXCEPT !["api"][delKey[d][1]] = Miss]
    /\ acked' = acked \cup {delKey[d]}
    /\ EndDelete(d)
    /\ UNCHANGED <<dbVars, store, up, pool, filter, workerVars>>

-----------------------------------------------------------------------------
(* Readers.  A generation must not use what was deleted, and answered, in  *)
(* the API before it started; the service must not return what its own     *)
(* filter holds.                                                           *)

Owed(w) == IF w \in Generations THEN acked ELSE filter["service"]

BeginWith(w, s, step, ids) ==
    /\ up[Home(w)]
    /\ pc[w] = "idle"
    /\ pc' = [pc EXCEPT ![w] = step]
    /\ scope' = [scope EXCEPT ![w] = s]
    /\ found' = [found EXCEPT ![w] = {}]
    /\ todo' = [todo EXCEPT ![w] = ids]
    /\ plan' = [plan EXCEPT ![w] = {}]
    /\ answer' = [answer EXCEPT ![w] = {}]
    /\ excluded' = [excluded EXCEPT ![w] = Owed(w)]
    /\ UNCHANGED <<dbVars, store, procVars, delVars, current, acked>>

\* POST /v1/generations, or POST /v1/memory/search.
BeginSearch(w, s) == BeginWith(w, s, "lookup", {})

\* POST /v1/memory/get.
BeginGet(c, k) == BeginWith(c, k[1], "build", {k})

\* A hit is returned as it was stored, without consulting the filter.
CacheHit(w) ==
    LET entry == cache[Home(w)][scope[w]] IN
    /\ pc[w] = "lookup"
    /\ entry # Miss
    /\ found' = [found EXCEPT ![w] = entry]
    /\ pc' = [pc EXCEPT ![w] = "reply"]
    /\ UNCHANGED <<dbVars, store, procVars, delVars, acked, scope, todo,
                   current, plan, answer, excluded>>

CacheMiss(w) ==
    /\ pc[w] = "lookup"
    /\ cache[Home(w)][scope[w]] = Miss
    /\ pc' = [pc EXCEPT ![w] = "search"]
    /\ UNCHANGED <<dbVars, store, procVars, delVars, acked, scope, found, todo,
                   current, plan, answer, excluded>>

\* Relevance, the limit, the adapter flag and a swallowed error of the
\* backend make it any part of what the scope holds.
AdapterSearch(w) ==
    /\ pc[w] = "search"
    /\ \E S \in SUBSET (store \cap KeysOf(scope[w])) :
          todo' = [todo EXCEPT ![w] = S]
    /\ pc' = [pc EXCEPT ![w] = "filter"]
    /\ UNCHANGED <<dbVars, store, procVars, delVars, acked, scope, found,
                   current, plan, answer, excluded>>

\* The search raises: the planner goes on without memories, the service
\* answers 500.
SearchRaises(w) ==
    /\ pc[w] = "search"
    /\ pc' = [pc EXCEPT ![w] = IF w \in Generations THEN "build" ELSE "idle"]
    /\ UNCHANGED <<dbVars, store, procVars, delVars, acked, scope, found, todo,
                   current, plan, answer, excluded>>

\* filter_entries looks at one entry after the other.
FilterEntry(w, k) ==
    /\ pc[w] = "filter"
    /\ k \in todo[w]
    /\ todo' = [todo EXCEPT ![w] = @ \ {k}]
    /\ found' = [found EXCEPT ![w] =
                    IF Keeps(Home(w), k) THEN @ \cup {k} ELSE @]
    /\ UNCHANGED <<dbVars, store, procVars, delVars, acked, pc, scope,
                   current, plan, answer, excluded>>

CacheSet(w) ==
    /\ pc[w] = "filter"
    /\ todo[w] = {}
    /\ cache' = [cache EXCEPT ![Home(w)][scope[w]] = found[w]]
    /\ pc' = [pc EXCEPT ![w] = "reply"]
    /\ UNCHANGED <<dbVars, store, up, pool, filter, delVars, acked, scope, found,
                   todo, current, plan, answer, excluded>>

\* The planner keeps what the token budget allows and names it in the plan.
SelectMemories(g) ==
    /\ g \in Generations
    /\ pc[g] = "reply"
    /\ \E S \in SUBSET found[g] :
          /\ plan' = [plan EXCEPT ![g] = S]
          /\ todo' = [todo EXCEPT ![g] = S]
    /\ found' = [found EXCEPT ![g] = {}]
    /\ pc' = [pc EXCEPT ![g] = "build"]
    /\ UNCHANGED <<dbVars, store, procVars, delVars, acked, scope, current,
                   answer, excluded>>

SearchReply(c) ==
    /\ c \in Clients
    /\ pc[c] = "reply"
    /\ answer' = [answer EXCEPT ![c] = found[c]]
    /\ found' = [found EXCEPT ![c] = {}]
    /\ pc' = [pc EXCEPT ![c] = "idle"]
    /\ UNCHANGED <<dbVars, store, procVars, delVars, acked, scope, todo,
                   current, plan, excluded>>

\* MemoryWrapper.get, first the filter ...
CheckTombstone(w, k) ==
    /\ pc[w] = "build"
    /\ k \in todo[w]
    /\ todo' = [todo EXCEPT ![w] = @ \ {k}]
    /\ IF Tombstoned(Home(w), k)
       THEN UNCHANGED <<pc, current>>
       ELSE /\ pc' = [pc EXCEPT ![w] = "fetch"]
            /\ current' = [current EXCEPT ![w] = k]
    /\ UNCHANGED <<dbVars, store, procVars, delVars, acked, scope, found,
                   plan, answer, excluded>>

\* ... then the adapter, which finds entries by id.
AdapterGet(w) ==
    /\ pc[w] = "fetch"
    /\ \E k \in store : IdOf(k) = IdOf(current[w])
    /\ answer' = [answer EXCEPT ![w] = @ \cup {current[w]}]
    /\ current' = [current EXCEPT ![w] = Nothing]
    /\ pc' = [pc EXCEPT ![w] = "build"]
    /\ UNCHANGED <<dbVars, store, procVars, delVars, acked, scope, found, todo,
                   plan, excluded>>

\* Not found, not this adapter's, or an error: the entry is left out.
AdapterGetNothing(w) ==
    /\ pc[w] = "fetch"
    /\ current' = [current EXCEPT ![w] = Nothing]
    /\ pc' = [pc EXCEPT ![w] = "build"]
    /\ UNCHANGED <<dbVars, store, procVars, delVars, acked, scope, found, todo,
                   plan, answer, excluded>>

Finish(w) ==
    /\ pc[w] = "build"
    /\ todo[w] = {}
    /\ pc' = [pc EXCEPT ![w] = "idle"]
    /\ UNCHANGED <<dbVars, store, procVars, delVars, acked, scope, found, todo,
                   current, plan, answer, excluded>>

-----------------------------------------------------------------------------
(* The service's write routes change the backend and nothing else.         *)

Upsert(k) ==
    /\ up["service"]
    /\ store' = store \cup {k}
    /\ UNCHANGED <<dbVars, procVars, delVars, workerVars, acked>>

Erase(k) ==
    /\ up["service"]
    /\ store' = {e \in store : IdOf(e) # IdOf(k)}
    /\ UNCHANGED <<dbVars, procVars, delVars, workerVars, acked>>

-----------------------------------------------------------------------------
(* Time and failures.                                                      *)

\* A cached result outlives its TTL: the next get() treats it as a miss.
Expire(p, s) ==
    /\ cache[p][s] # Miss
    /\ cache' = [cache EXCEPT ![p][s] = Miss]
    /\ UNCHANGED <<dbVars, store, up, pool, filter, delVars, workerVars, acked>>

\* The process dies: its memory and its requests are gone.
Crash(p) ==
    LET lost == {w \in Workers : Home(w) = p}
        Cleared(f, v) == [w \in Workers |-> IF w \in lost THEN v ELSE f[w]]
    IN
    /\ up[p]
    /\ up' = [up EXCEPT ![p] = FALSE]
    /\ pool' = [pool EXCEPT ![p] = FALSE]
    /\ filter' = [filter EXCEPT ![p] = {}]
    /\ cache' = [cache EXCEPT ![p] = [s \in Scopes |-> Miss]]
    /\ delPc' = IF p = "api" THEN [d \in Deleters |-> "idle"] ELSE delPc
    /\ delKey' = IF p = "api" THEN [d \in Deleters |-> Nothing] ELSE delKey
    /\ pc' = Cleared(pc, "idle")
    /\ found' = Cleared(found, {})
    /\ todo' = Cleared(todo, {})
    /\ current' = Cleared(current, Nothing)
    /\ plan' = Cleared(plan, {})
    /\ answer' = Cleared(answer, {})
    /\ excluded' = Cleared(excluded, {})
    /\ UNCHANGED <<dbVars, store, scope, acked>>

\* Start-up loads every tombstone row before a request is accepted ...
Restart(p) ==
    /\ ~ up[p]
    /\ up' = [up EXCEPT ![p] = TRUE]
    /\ pool' = [pool EXCEPT ![p] = TRUE]
    /\ filter' = [filter EXCEPT ![p] = Preload]
    /\ UNCHANGED <<dbVars, store, cache, delVars, workerVars, acked>>

\* ... but a database that cannot be reached is only logged: the process then
\* serves with an empty filter.
RestartWithoutDatabase(p) ==
    /\ ~ up[p]
    /\ up' = [up EXCEPT ![p] = TRUE]
    /\ UNCHANGED <<dbVars, store, pool, filter, cache, delVars, workerVars, acked>>

-----------------------------------------------------------------------------
DeleteStep(d) ==
    \/ InsertTombstone(d) \/ InsertFails(d) \/ AddToFilter(d)
    \/ RecordAudit(d) \/ AuditFails(d) \/ InvalidateAndReply(d)

ReadStep(w) ==
    \/ CacheHit(w) \/ CacheMiss(w) \/ AdapterSearch(w) \/ SearchRaises(w)
    \/ (\E k \in Keys : FilterEntry(w, k) \/ CheckTombstone(w, k))
    \/ CacheSet(w) \/ SelectMemories(w) \/ SearchReply(w)
    \/ AdapterGet(w) \/ AdapterGetNothing(w) \/ Finish(w)

Next ==
    \/ \E d \in Deleters : DeleteStep(d) \/ \E k \in Keys : DeleteRequest(d, k)
    \/ \E w \in Workers : ReadStep(w) \/ \E s \in Scopes : BeginSearch(w, s)
    \/ \E c \in Clients, k \in Keys : BeginGet(c, k)
    \/ \E k \in Keys : Upsert(k) \/ Erase(k)
    \/ \E p \in Procs : \/ Crash(p) \/ Restart(p) \/ RestartWithoutDatabase(p)
                        \/ \E s \in Scopes : Expire(p, s)

Spec == Init /\ [][Next]_vars

(***************************************************************************)
(* A handler that was started runs on, a reader is scheduled and the       *)
(* adapter answers or raises, and time passes.  Nothing makes a request    *)
(* arrive or starts a dead process again, and which way a statement or a   *)
(* call goes is left open.                                                 *)
(***************************************************************************)
Fairness ==
    /\ \A d \in Deleters : WF_vars(DeleteStep(d))
    /\ \A w \in Workers : WF_vars(ReadStep(w))
    /\ \A p \in Procs, s \in Scopes : WF_vars(Expire(p, s))

FairSpec == Spec /\ Fairness

-----------------------------------------------------------------------------
(* Properties.                                                             *)

\* The entries put in a prompt never include a memory whose deletion was
\* answered before the generation began, whatever the cache still holds and
\* however often the API was restarted in between, as long as it has its
\* database; the service never returns what was tombstoned when it started.
AnswersExcludeOwed ==
    \A w \in Workers : pool[Home(w)] => answer[w] \cap excluded[w] = {}

\* A deletion answered 200 is in the table under its own scope, has its audit
\* event, and is in the filter of the API whenever that has its database.
AckedGoverned ==
    /\ acked \subseteq rows \cap audited
    /\ pool["api"] => acked \subseteq filter["api"]

\* What a filter hides is in the table, so a restart cannot bring it back,
\* even when the handler failed half-way and the client was told 500.
HiddenStaysHidden == \A p \in Procs : filter[p] \subseteq rows

\* A search that was in flight may cache a deleted memory after the route has
\* dropped the cached searches, but the cache gets rid of it for good.
AckedLeavesCache ==
    \A k \in Keys :
        (k \in acked) ~> []( \/ ~ pool["api"]
                            \/ cache["api"][k[1]] = Miss
                            \/ k \notin cache["api"][k[1]])

\* The deletions answered and the prompts built implement the promise.
Promise == INSTANCE UnlearningPromise
    WITH Memories <- Keys, Sessions <- Generations, forgotten <- acked,
         guarded <- pool["api"],
         barred <- [g \in Generations |->
                       IF pool["api"] THEN excluded[g] ELSE {}],
         served <- [g \in Generations |-> answer[g]]
KeepsPromise == Promise!Spec

\* product_idea.md:25 and the comment in delete_memory: the next context plan
\* excludes the deleted memory.
PlanExcludesAcked ==
    pool["api"] => \A g \in Generations : plan[g] \cap excluded[g] = {}
=============================================================================

------------------------- MODULE UnlearningPromise -------------------------
(***************************************************************************)
(* What deleting a memory promises, without filter, cache, table or crash: *)
(* once a deletion has been acknowledged, no session that starts later is  *)
(* served the memory.  A session that was already running may still be,    *)
(* and so may one that starts while the guard is off, which it can only be *)
(* from one loss of all sessions to the next.                              *)
(***************************************************************************)
CONSTANTS Memories, Sessions

VARIABLES
    guarded,     \* sessions started now are kept from what was forgotten
    forgotten,   \* memories whose deletion was acknowledged
    barred,      \* barred[x]: what session x must not be served
    served       \* served[x]: what session x was served

vars == <<guarded, forgotten, barred, served>>

Init ==
    /\ guarded = TRUE
    /\ forgotten = {}
    /\ barred = [x \in Sessions |-> {}]
    /\ served = [x \in Sessions |-> {}]

Forget(m) ==
    /\ forgotten' = forgotten \cup {m}
    /\ UNCHANGED <<guarded, barred, served>>

Start(x) ==
    /\ barred' = [barred EXCEPT ![x] = IF guarded THEN forgotten ELSE {}]
    /\ served' = [served EXCEPT ![x] = {}]
    /\ UNCHANGED <<guarded, forgotten>>

Serve(x, m) ==
    /\ m \notin barred[x]
    /\ served' = [served EXCEPT ![x] = @ \cup {m}]
    /\ UNCHANGED <<guarded, forgotten, barred>>

\* Every session is lost together; the guard may be on or off from then on.
Abort ==
    /\ guarded' \in BOOLEAN
    /\ barred' = [x \in Sessions |-> {}]
    /\ served' = [x \in Sessions |-> {}]
    /\ UNCHANGED forgotten

Next ==
    \/ \E m \in Memories : Forget(m) \/ \E x \in Sessions : Serve(x, m)
    \/ \E x \in Sessions : Start(x)
    \/ Abort

Spec == Init /\ [][Next]_vars
=============================================================================

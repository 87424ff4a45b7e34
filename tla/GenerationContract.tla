------------------------ MODULE GenerationContract ------------------------
(***************************************************************************)
(* What a client and an auditor may rely on.  A request is answered once,  *)
(* or given up.  The audit event of an answer tells the status that was    *)
(* answered, and the context of a generation is kept only after its event. *)
(***************************************************************************)
CONSTANTS Requests, None

VARIABLES
    outcome,   \* outcome[r]: the status answered, "error", or None so far
    event,     \* event[r]: the status the audit event tells, or None
    kept       \* requests whose context snapshot is stored

vars == <<outcome, event, kept>>

Statuses == {"completed", "failed"}

Init ==
    /\ outcome = [r \in Requests |-> None]
    /\ event = [r \in Requests |-> None]
    /\ kept = {}

Answer(r, s) ==
    /\ outcome[r] = None
    /\ outcome' = [outcome EXCEPT ![r] = s]
    /\ UNCHANGED <<event, kept>>

\* The process may die and give up many requests at once.
GiveUp(R) ==
    /\ \A r \in R : outcome[r] = None
    /\ outcome' = [r \in Requests |-> IF r \in R THEN "error" ELSE outcome[r]]
    /\ UNCHANGED <<event, kept>>

Record(r) ==
    /\ event[r] = None
    /\ outcome[r] \in Statuses
    /\ event' = [event EXCEPT ![r] = outcome[r]]
    /\ UNCHANGED <<outcome, kept>>

Keep(r) ==
    /\ event[r] # None
    /\ kept' = kept \cup {r}
    /\ UNCHANGED <<outcome, event>>

Next ==
    \/ \E r \in Requests :
          \/ \E s \in Statuses : Answer(r, s)
          \/ Record(r) \/ Keep(r)
    \/ \E R \in SUBSET Requests : GiveUp(R)

Spec == Init /\ [][Next]_vars
=============================================================================

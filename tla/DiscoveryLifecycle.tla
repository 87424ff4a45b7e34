------------------------ MODULE DiscoveryLifecycle ------------------------
(***************************************************************************)
(* What the learning pipeline promises about a discovery: it is recorded   *)
(* once, decided at most once, and reaches the catalogue only if it was    *)
(* approved, in the name of the reviewer who approved it.                  *)
(***************************************************************************)
CONSTANTS Discoveries, Actors, Nobody

VARIABLES
    verdict,     \* verdict[d]: "none" until it is recorded
    judge,       \* judge[d]: who decided
    sponsor      \* sponsor[d]: in whose name d is in the catalogue

vars == <<verdict, judge, sponsor>>

Init ==
    /\ verdict = [d \in Discoveries |-> "none"]
    /\ judge = [d \in Discoveries |-> Nobody]
    /\ sponsor = [d \in Discoveries |-> Nobody]

Record(D) ==
    /\ \A d \in D : verdict[d] = "none"
    /\ verdict' = [d \in Discoveries |->
                      IF d \in D THEN "discovered" ELSE verdict[d]]
    /\ UNCHANGED <<judge, sponsor>>

Decide(a, D, v) ==
    /\ \A d \in D : verdict[d] = "discovered"
    /\ verdict' = [d \in Discoveries |-> IF d \in D THEN v ELSE verdict[d]]
    /\ judge' = [d \in Discoveries |-> IF d \in D THEN a ELSE judge[d]]
    /\ UNCHANGED sponsor

Publish(d) ==
    /\ verdict[d] = "approved"
    /\ sponsor' = [sponsor EXCEPT ![d] = judge[d]]
    /\ UNCHANGED <<verdict, judge>>

Next ==
    \/ \E D \in SUBSET Discoveries :
          \/ Record(D)
          \/ \E a \in Actors, v \in {"approved", "rejected"} : Decide(a, D, v)
    \/ \E d \in Discoveries : Publish(d)

Spec == Init /\ [][Next]_vars
=============================================================================

----------------------------- MODULE PageDemand -----------------------------
(***************************************************************************)
(* What a GraphDemand promises its consumer, without the scheduler behind  *)
(* it: a demand opens on a set of root pages; each of them is delivered or *)
(* declared lost, once; wait() returns when none is left or after an abort.*)
(***************************************************************************)
EXTENDS Naturals

CONSTANTS Demand, Page

VARIABLES
    status,     \* Demand -> "idle", "admitted", "expanding", "issued", "released"
    left,       \* Demand -> the root pages still owed
    lost,       \* Demand -> pages that will never be produced (notProduced)
    aborted     \* the demands shutdown() has aborted

vars == <<status, left, lost, aborted>>

Init ==
    /\ status = [d \in Demand |-> "idle"]
    /\ left = [d \in Demand |-> {}]
    /\ lost = [d \in Demand |-> 0]
    /\ aborted = {}

\* The call makes progress; nothing is owed before the handle is issued.
Prepare(d) ==
    /\ \/ status[d] = "idle" /\ status' = [status EXCEPT ![d] = "admitted"]
       \/ status[d] = "admitted" /\ status' = [status EXCEPT ![d] = "expanding"]
    /\ UNCHANGED <<left, lost, aborted>>

Issue(d) ==
    /\ status[d] \in {"idle", "expanding"}
    /\ status' = [status EXCEPT ![d] = "issued"]
    /\ \E pages \in SUBSET Page : left' = [left EXCEPT ![d] = pages]
    /\ UNCHANGED <<lost, aborted>>

Deliver(d) ==
    /\ \E p \in left[d] : left' = [left EXCEPT ![d] = @ \ {p}]
    /\ UNCHANGED <<status, lost, aborted>>

Lose(d) ==
    /\ \E p \in left[d] : left' = [left EXCEPT ![d] = @ \ {p}]
    /\ lost' = [lost EXCEPT ![d] = @ + 1]
    /\ UNCHANGED <<status, aborted>>

\* shutdown() gives up on some demands, each of which owed something.
Abort(ds) ==
    /\ \A d \in ds : left[d] # {}
    /\ aborted' = aborted \cup ds
    /\ \A d \in Demand : left'[d] \subseteq left[d] /\ (left'[d] # left[d] => d \in ds)
    /\ left' \in [Demand -> SUBSET Page]
    /\ UNCHANGED <<status, lost>>

Release(d) ==
    /\ status[d] = "issued"
    /\ left[d] = {} \/ d \in aborted
    /\ status' = [status EXCEPT ![d] = "released"]
    /\ UNCHANGED <<left, lost, aborted>>

Next ==
    \/ \E d \in Demand : Prepare(d) \/ Issue(d) \/ Deliver(d) \/ Lose(d) \/ Release(d)
    \/ \E ds \in SUBSET Demand : Abort(ds)

Spec == Init /\ [][Next]_vars

=============================================================================

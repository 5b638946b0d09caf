------------------------------ MODULE Scheduling ------------------------------
(***************************************************************************)
(* What the gateway promises about one pool, whatever its mechanism.  A    *)
(* request may be given any node that has not failed it; if the pool       *)
(* offers some of those, only one of them.  No node runs more than         *)
(* Parallel requests, no more than MaxQueued wait, a request is queued or  *)
(* turned away only when every node it may be given is full, it fails over *)
(* at most MaxRetries times and never after its caller has seen output.    *)
(***************************************************************************)
EXTENDS Integers, FiniteSets

CONSTANTS Nodes, Requests, Parallel, MaxQueued, MaxRetries, NoNode

VARIABLES stage,   \* where a request is
          at,      \* the node that holds a slot for it
          failed,  \* the nodes that failed it
          offered  \* the nodes the pool believes in

vars == <<stage, at, failed, offered>>

Load(n) == Cardinality({r \in Requests : at[r] = n})
Queue == {r \in Requests : stage[r] = "waiting"}

Init ==
    /\ stage = [r \in Requests |-> "new"]
    /\ at = [r \in Requests |-> NoNode]
    /\ failed = [r \in Requests |-> {}]
    /\ offered = Nodes

Move(r, s) == stage' = [stage EXCEPT ![r] = s]

\* The nodes a request may be given: those offered, if it has not failed on
\* all of them.
Eligible(r) ==
    LET left == Nodes \ failed[r]
    IN  IF left \cap offered = {} THEN left ELSE left \cap offered

Saturated(r) == \A n \in Eligible(r) : Load(n) >= Parallel

Run(r) ==
    /\ stage[r] \in {"new", "waiting", "paused"}
    /\ Move(r, "running")
    /\ \E n \in Eligible(r) :
          /\ Load(n) < Parallel
          /\ at' = [at EXCEPT ![r] = n]
    /\ UNCHANGED <<failed, offered>>

Wait(r) ==
    /\ stage[r] \in {"new", "paused"}
    /\ Saturated(r)
    /\ Cardinality(Queue) < MaxQueued
    /\ Move(r, "waiting")
    /\ UNCHANGED <<at, failed, offered>>

TurnAway(r) ==
    /\ stage[r] \in {"new", "paused"}
    /\ Saturated(r)
    /\ Cardinality(Queue) = MaxQueued
    /\ Move(r, "done")
    /\ UNCHANGED <<at, failed, offered>>

Deliver(r) ==
    /\ stage[r] = "running"
    /\ Move(r, "delivering")
    /\ UNCHANGED <<at, failed, offered>>

\* The node that failed the request is not offered to others either.
FailOver(r) ==
    /\ stage[r] = "running"
    /\ Cardinality(failed[r]) < MaxRetries
    /\ Move(r, "paused")
    /\ failed' = [failed EXCEPT ![r] = @ \cup {at[r]}]
    /\ at' = [at EXCEPT ![r] = NoNode]
    /\ offered' = offered \ {at[r]}

End(r) ==
    /\ stage[r] \in {"running", "delivering"}
    /\ Move(r, "done")
    /\ at' = [at EXCEPT ![r] = NoNode]
    /\ UNCHANGED <<failed, offered>>

Leave(r) ==
    /\ stage[r] \in {"waiting", "paused"}
    /\ Move(r, "done")
    /\ UNCHANGED <<at, failed, offered>>

\* The pool may lose track of a request in service; its slot stays taken.
Lose(r) ==
    /\ stage[r] \in {"running", "delivering"}
    /\ Move(r, "lost")
    /\ UNCHANGED <<at, failed, offered>>

\* Nodes come and go.
Offer ==
    /\ offered' \in SUBSET Nodes
    /\ UNCHANGED <<stage, at, failed>>

Next ==
    \/ Offer
    \/ \E r \in Requests :
          \/ Run(r) \/ Wait(r) \/ TurnAway(r)
          \/ Deliver(r) \/ FailOver(r) \/ End(r)
          \/ Leave(r) \/ Lose(r)

Spec == Init /\ [][Next]_vars
=============================================================================

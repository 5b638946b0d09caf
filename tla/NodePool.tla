------------------------------- MODULE NodePool -------------------------------
(***************************************************************************)
(* gateway/router.py, class NodePool: which node of a pool of llama-server *)
(* nodes gets the next request, how many requests a node may run at once,  *)
(* and how many may wait for a free slot.  One coroutine runs at a time    *)
(* and the pool's lock is never held across a suspension other than        *)
(* Condition.wait, so each operator below is one indivisible step.         *)
(***************************************************************************)
EXTENDS Integers, FiniteSets

CONSTANTS Nodes,      \* the ips of the pool
          Parallel,   \* slots of a node
          MaxQueued,  \* requests that may wait for a slot
          NoNode      \* Python's None where an ip could stand

ASSUME PoolAssumption ==
    /\ IsFiniteSet(Nodes) /\ Nodes # {} /\ NoNode \notin Nodes
    /\ Parallel \in Nat \ {0} /\ MaxQueued \in Nat

VARIABLES healthy,   \* the set shared with gateway/health_monitor.py
          inFlight,  \* reserved slots of each node
          waiting,   \* the counter the queue limit is tested against
          parked     \* coroutines suspended in Condition.wait, not notified

poolVars == <<healthy, inFlight, waiting, parked>>

PoolInit ==
    /\ healthy = Nodes
    /\ inFlight = [n \in Nodes |-> 0]
    /\ waiting = 0
    /\ parked = {}

-----------------------------------------------------------------------------
(* Choice of a node *)

\* Faulty variant: capacity is filtered before health.
RelevantFolded(exclude) ==
    LET pool == {n \in Nodes \ exclude : inFlight[n] < Parallel}
    IN  IF pool \cap healthy # {} THEN pool \cap healthy ELSE pool

Relevant(exclude) ==
    LET pool == Nodes \ exclude
    IN  IF pool \cap healthy # {} THEN pool \cap healthy ELSE pool

Candidates(exclude) == {n \in Relevant(exclude) : inFlight[n] < Parallel}

HasAlternate(exclude) == Candidates(exclude) # {}

\* The affinity node if it is a candidate, else a least loaded candidate
\* (which of several depends on the order of the ips, left open here).
Chosen(exclude, aff) ==
    IF aff \in Candidates(exclude)
    THEN {aff}
    ELSE {n \in Candidates(exclude) :
            \A m \in Candidates(exclude) : inFlight[n] <= inFlight[m]}

\* The node a session key prefers when its own one, home, may be down: the
\* hash then picks some healthy node (left open), or nothing.
AffinityNode(home) ==
    CASE home = NoNode     -> {NoNode}
      [] home \in healthy  -> {home}
      [] healthy = {}      -> {NoNode}
      [] OTHER             -> healthy

-----------------------------------------------------------------------------
(* Steps on the pool; each leaves the variables it does not prime to the   *)
(* action it is part of.                                                   *)

Reserve(n) == inFlight' = [inFlight EXCEPT ![n] = @ + 1]

Enqueue(t, exclude) ==
    /\ ~HasAlternate(exclude)
    /\ waiting < MaxQueued
    /\ waiting' = waiting + 1
    /\ parked' = parked \cup {t}

\* Faulty variant: one full node is taken for a full pool.
PoolBusyHastily(exclude) ==
    /\ \E n \in Relevant(exclude) : inFlight[n] = Parallel
    /\ waiting >= MaxQueued

PoolBusy(exclude) == ~HasAlternate(exclude) /\ waiting >= MaxQueued

\* Faulty variant: the counter is not decremented.
DequeueUncounted(t) == waiting' = waiting /\ parked' = parked \ {t}

\* The finally clause of acquire: a waiter leaves with a slot or cancelled.
Dequeue(t) ==
    /\ waiting' = waiting - 1
    /\ parked' = parked \ {t}

\* A notified waiter that finds every candidate taken again waits again.
Repark(t, exclude) ==
    /\ ~HasAlternate(exclude)
    /\ parked' = parked \cup {t}

\* Faulty variant: nobody is notified.
ReleaseQuietly(n) ==
    /\ inFlight' = [inFlight EXCEPT ![n] = IF @ > 0 THEN @ - 1 ELSE 0]
    /\ parked' = parked

\* The slot goes back and notify_all wakes every waiter.
Release(n) ==
    /\ inFlight' = [inFlight EXCEPT ![n] = IF @ > 0 THEN @ - 1 ELSE 0]
    /\ parked' = {}

Evict(n) == healthy' = healthy \ {n}
=============================================================================

---------------------------- MODULE HealthMonitor ----------------------------
(***************************************************************************)
(* gateway/health_monitor.py: the background loop that probes /health of   *)
(* every node of a pool, gathers all the answers and only then writes them *)
(* to the healthy set the router reads and evicts from.                    *)
(***************************************************************************)
EXTENDS NodePool

CONSTANT MaxFlips  \* bound: changes of a node's /health that are explored

ASSUME MonitorAssumption == MaxFlips \in Nat

VARIABLES monitor,  \* "probing" or "sleeping"
          pending,  \* nodes whose probe of this round is not answered
          passed,   \* nodes that answered 200 in this round
          up,       \* nodes whose /health would answer 200 in time
          flips     \* changes of up so far

monVars == <<monitor, pending, passed, up, flips>>

\* The loop's first step has run before the server accepts a connection: it
\* declared every node healthy (PoolInit) and started its first round.
MonitorInit ==
    /\ monitor = "probing" /\ pending = Nodes /\ passed = {}
    /\ up \in SUBSET Nodes
    /\ flips = 0

Probe(n) ==
    /\ n \in pending
    /\ pending' = pending \ {n}
    /\ passed' = passed \cup ({n} \cap up)
    /\ UNCHANGED <<poolVars, monitor, up, flips>>

\* Faulty variant: recovered nodes are added, failed ones never discarded.
ApplyRecoveries ==
    /\ monitor = "probing" /\ pending = {}
    /\ healthy' = healthy \cup passed
    /\ monitor' = "sleeping" /\ passed' = {}
    /\ UNCHANGED <<inFlight, waiting, parked, pending, up, flips>>

\* Every answer is in: each node is added or discarded.  Nobody is notified.
Apply ==
    /\ monitor = "probing" /\ pending = {}
    /\ healthy' = passed
    /\ monitor' = "sleeping" /\ passed' = {}
    /\ UNCHANGED <<inFlight, waiting, parked, pending, up, flips>>

StartRound ==
    /\ monitor = "sleeping"
    /\ monitor' = "probing" /\ pending' = Nodes
    /\ UNCHANGED <<poolVars, passed, up, flips>>

\* A llama-server goes down, comes back or is restarted.
Flip(n) ==
    /\ flips < MaxFlips
    /\ flips' = flips + 1
    /\ up' = IF n \in up THEN up \ {n} ELSE up \cup {n}
    /\ UNCHANGED <<poolVars, monitor, pending, passed>>

LoopStep == (\E n \in Nodes : Probe(n)) \/ Apply \/ StartRound

MonitorStep == LoopStep \/ (\E n \in Nodes : Flip(n))
=============================================================================

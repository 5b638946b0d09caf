------------------------------- MODULE Gateway -------------------------------
(***************************************************************************)
(* One pool of the gateway: the requests of Dispatch and the probe loop of *)
(* HealthMonitor, interleaved by the event loop on the state of one        *)
(* NodePool.  The two pools of the program share no state.                 *)
(***************************************************************************)
EXTENDS Dispatch, HealthMonitor

vars == <<poolVars, reqVars, monVars>>

Init == PoolInit /\ DispatchInit /\ MonitorInit

Next ==
    \/ \E r \in Requests : RequestStep(r) /\ UNCHANGED monVars
    \/ MonitorStep /\ UNCHANGED reqVars

Spec == Init /\ [][Next]_vars

\* asyncio runs every ready coroutine, sleeps end, httpx's timeouts bound a
\* node's silence and a probe; arrivals and outages need never happen.
Fairness ==
    /\ \A r \in Requests :
          /\ WF_vars(Retry(r) /\ UNCHANGED monVars)
          /\ WF_vars(Wake(r) /\ UNCHANGED monVars)
          /\ WF_vars(Answer(r) /\ UNCHANGED monVars)
    /\ WF_vars(LoopStep /\ UNCHANGED reqVars)

FairSpec == Spec /\ Fairness

-----------------------------------------------------------------------------
Queued == {r \in Requests : pc[r] = "queued"}
Holders(n) == {r \in Requests : node[r] = n}

(* Types of all variables; a reserved slot belongs to a request in service
   or to one that was lost in service. *)
TypeOK ==
    /\ healthy \subseteq Nodes
    /\ inFlight \in [Nodes -> Nat]
    /\ waiting \in Int
    /\ parked \subseteq Requests
    /\ pc \in [Requests -> {"idle", "queued"} \cup InService
                              \cup Backoffs \cup Outcomes]
    /\ node \in [Requests -> Nodes \cup {NoNode}]
    /\ excluded \in [Requests -> SUBSET Nodes]
    /\ attempt \in [Requests -> Nat]
    /\ affinity \in [Requests -> Nodes \cup {NoNode}]
    /\ monitor \in {"probing", "sleeping"}
    /\ pending \subseteq Nodes /\ passed \subseteq Nodes /\ up \subseteq Nodes
    /\ flips \in 0..MaxFlips

(* The slots counted in in_flight are exactly those that requests hold, one
   each, and no node runs more than parallel: acquire and the seven calls of
   release stay paired along every path of failures, retries and waits. *)
HoldersServed ==
    \A r \in Requests :
        /\ pc[r] \in InService => node[r] \in Nodes
        /\ node[r] # NoNode => pc[r] \in InService \cup {"malformed", "gone"}
SlotsAccounted ==
    /\ HoldersServed
    /\ \A n \in Nodes : inFlight[n] = Cardinality(Holders(n))
CapacityRespected == \A n \in Nodes : inFlight[n] <= Parallel

(* The queue counter equals the number of requests inside acquire's wait, it
   never passes max_queued, and only those requests are parked: the finally
   clause keeps it right for waiters that get a slot and that are cancelled. *)
QueueAccounted ==
    /\ waiting = Cardinality(Queued)
    /\ waiting <= MaxQueued
    /\ parked \subseteq Queued

(* No lost wakeup between the requests: a coroutine asleep in acquire, that
   may still use some node, sleeps behind a full node it may use; whoever
   gives a slot of it back wakes everyone. *)
NoStrandedWaiter ==
    \A r \in parked :
        excluded[r] # Nodes =>
            \E n \in Nodes \ excluded[r] : inFlight[n] >= Parallel

(* Waiting and refusals are for work that is being done.  Unless a slot was
   lost with its request, a sleeper waits for a node it may use that runs all
   it can, so that somebody will wake it; and a request is turned away only
   when every node it might be given runs all it can. *)
RunningAt(n) == {r \in Requests : node[r] = n /\ pc[r] \in InService}
Lost == {r \in Requests : node[r] # NoNode /\ pc[r] \notin InService}
Working(n) == Cardinality(RunningAt(n)) = Parallel
WaitsForWork ==
    Lost = {} =>
        \A r \in parked :
            excluded[r] # Nodes => \E n \in Nodes \ excluded[r] : Working(n)
TurnedAwayForWork ==
    [][Lost = {} =>
          \A r \in Requests :
              pc[r] # "full" /\ pc'[r] = "full" =>
                  \A n \in Relevant(excluded[r]) : Working(n)]_vars

(* A request is never at a node that failed it, and has failed on exactly one
   node per retry: with more nodes than retries it always has one left. *)
Failures(r) == attempt[r] + (IF pc[r] \in Backoffs THEN 1 ELSE 0)
ExclusionBudget ==
    \A r \in Requests :
        /\ node[r] \notin excluded[r]
        /\ pc[r] # "gone" => Cardinality(excluded[r]) = Failures(r)
        /\ Cardinality(excluded[r]) <= MaxRetries

(* A node the router or the monitor took out of the healthy set gets a request
   only if every healthy node has failed that request: full healthy peers do
   not bring it back (the comment in NodePool._candidates). *)
EvictedOnlyAsLastResort ==
    [][\A r \in Requests, n \in Nodes :
          node'[r] = n /\ node[r] # n /\ n \notin healthy
              => healthy \subseteq excluded[r]]_vars

(* No livelock: whatever nodes, monitor and other requests do, a request has a
   bounded number of moves left, and each one it makes is one less: failures
   and queueing again after a retry do not add up. *)
PlacesLeft(r) ==
    CASE pc[r] = "idle"      -> 6
      [] pc[r] = "queued"    -> 5
      [] pc[r] = "sent"      -> 4
      [] pc[r] = "open"      -> 3
      [] pc[r] = "streaming" -> 2
      [] pc[r] \in Backoffs  -> 1
      [] OTHER               -> 0
MovesLeft(r) == 5 * (MaxRetries - attempt[r]) + PlacesLeft(r)
MovesRunOut ==
    [][\A r \in Requests :
          /\ MovesLeft(r)' \in 0..MovesLeft(r)
          /\ pc'[r] # pc[r] => MovesLeft(r)' < MovesLeft(r)]_vars

(* Every request that arrives is answered: with the waiting room, retries and
   evictions of others in its way, and however the nodes fail. *)
EveryRequestAnswered ==
    \A r \in Requests : (pc[r] # "idle") ~> (pc[r] \in Outcomes)

(* Once outages stop, the healthy set settles on the nodes that answer:
   evictions by requests and answers gathered in an old round wash out. *)
HealthConverges == <>[](healthy = up)

(* What can make the healthy set wrong: an answer is outdated by an outage or a
   recovery since, of that node, and by nothing else, however long the round
   takes; the end of a round leaves no mistakes but those answers; and between
   rounds a node is misjudged only if its health has changed or a request that
   it has failed evicted it. *)
Outdated == {n \in Nodes \ pending :
                monitor = "probing" /\ (n \in passed) # (n \in up)}
Misjudged == {n \in Nodes : (n \in healthy) # (n \in up)}
RoundEnds == monitor = "probing" /\ monitor' = "sleeping"
Flipped == {n \in Nodes : (n \in up') # (n \in up)}
Blamed == {n \in Nodes : \E r \in Requests : n \in excluded'[r] \ excluded[r]}
MistakesHaveCauses ==
    [][/\ Outdated' \subseteq Outdated \cup Flipped
       /\ RoundEnds => Misjudged' \subseteq Outdated
       /\ ~RoundEnds => Misjudged' \subseteq Misjudged \cup Flipped \cup Blamed]_vars

(* The pool implements the abstract scheduler, to which its healthy set is what
   it offers: nobody waits or is turned away while a node it may be given has
   a free slot.  A lost request keeps its slot. *)
stageOf(r) ==
    CASE pc[r] = "idle"                              -> "new"
      [] pc[r] = "queued"                            -> "waiting"
      [] pc[r] \in {"sent", "open"}                  -> "running"
      [] pc[r] = "streaming"                         -> "delivering"
      [] pc[r] \in Backoffs                          -> "paused"
      [] pc[r] \in Outcomes /\ node[r] # NoNode      -> "lost"
      [] OTHER                                       -> "done"

Abstract == INSTANCE Scheduling
    WITH stage <- [r \in Requests |-> stageOf(r)], at <- node,
         failed <- excluded, offered <- healthy
ImplementsScheduling == Abstract!Spec
=============================================================================

--------------------------- MODULE GatewayRefinement ---------------------------
(***************************************************************************)
(* Gateway implements Scheduling, for every pool and every set of          *)
(* requests: each step of the router, the retries and the health monitor   *)
(* is a step of the abstract scheduler or leaves it where it is.           *)
(***************************************************************************)
EXTENDS GatewayProofs

(* Both modules count with the same operator. *)
LEMMA SameCardinality ==
    ASSUME NEW S PROVE Abstract!Cardinality(S) = Cardinality(S)
BY Zenon DEF Abstract!Cardinality, Cardinality

(* The load of a node is its counter. *)
LEMMA LoadCounted ==
    ASSUME SlotsAccounted, NEW n \in Nodes
    PROVE  Abstract!Load(n) = inFlight[n]
BY SameCardinality DEF Abstract!Load, SlotsAccounted, Holders

(* The abstract queue has the length of the router's counter. *)
LEMMA QueueCounted ==
    ASSUME QueueAccounted, HoldersServed
    PROVE  Abstract!Cardinality(Abstract!Queue) = waiting
<1>1. Abstract!Queue = Queued
  BY DEF Abstract!Queue, Queued, stageOf, InService, Backoffs, Outcomes
<1> QED BY <1>1, SameCardinality DEF QueueAccounted

(* A request may be given the same nodes in both. *)
LEMMA EligibleRelevant ==
    ASSUME NEW r \in Requests
    PROVE  Abstract!Eligible(r) = Relevant(excluded[r])
BY DEF Abstract!Eligible, Relevant

(* Who finds no candidate finds every node it may be given full. *)
LEMMA SaturatedPool ==
    ASSUME TypeOK, SlotsAccounted, NEW r \in Requests,
           ~HasAlternate(excluded[r])
    PROVE  Abstract!Saturated(r)
<1> SUFFICES ASSUME NEW n \in Relevant(excluded[r])
             PROVE  Abstract!Load(n) >= Parallel
  BY EligibleRelevant DEF Abstract!Saturated
<1>1. n \in Nodes
  BY DEF Relevant
<1>2. inFlight[n] >= Parallel
  BY <1>1, PoolAssumption DEF HasAlternate, Candidates, TypeOK
<1> QED BY <1>1, <1>2, LoadCounted

(* A step that moves one request moves its stage and no other. *)
LEMMA StageMoves ==
    ASSUME NEW r \in Requests, NEW s, stageOf(r)' = s,
           \A q \in Requests \ {r} : pc'[q] = pc[q] /\ node'[q] = node[q]
    PROVE  Abstract!Move(r, s)
<1>1. \A q \in Requests \ {r} : stageOf(q)' = stageOf(q)
  BY DEF stageOf
<1> QED BY <1>1 DEF Abstract!Move

(* A request that reserves a slot runs. *)
LEMMA TakeRuns ==
    ASSUME TypeOK, SlotsAccounted, NEW r \in Requests,
           pc[r] \in {"idle", "queued"} \cup Backoffs,
           NEW aff, Take(r, aff), UNCHANGED <<excluded, healthy>>
    PROVE  Abstract!Run(r)
<1>1. PICK n \in Chosen(excluded[r], aff) :
          node' = [node EXCEPT ![r] = n] /\ Goto(r, "sent")
  BY DEF Take
<1>2. n \in Abstract!Eligible(r) /\ Abstract!Load(n) < Parallel
  BY ChosenNodes, CandidateNodes, LoadCounted, EligibleRelevant DEF Candidates
<1>3. stageOf(r) \in {"new", "waiting", "paused"}
  BY DEF stageOf, Backoffs, Outcomes
<1>4. pc' = [pc EXCEPT ![r] = "sent"]
  BY <1>1 DEF Goto
<1>5. stageOf(r)' = "running"
  BY <1>4 DEF stageOf, TypeOK, Backoffs, Outcomes
<1>6. Abstract!Move(r, "running")
  BY <1>1, <1>4, <1>5, StageMoves DEF TypeOK
<1> QED BY <1>1, <1>2, <1>3, <1>6 DEF Abstract!Run

(* acquire runs the request, lets it wait or turns it away. *)
LEMMA AcquireImplements ==
    ASSUME IInv, NEW r \in Requests, pc[r] \in {"idle"} \cup Backoffs,
           NEW aff, Acquire(r, aff), UNCHANGED <<excluded, healthy>>
    PROVE  Abstract!Next
<1> USE DEF IInv
<1>0. /\ node[r] = NoNode
      /\ stageOf(r) \in {"new", "paused"}
  BY DEF SlotsAccounted, HoldersServed, InService, Backoffs, stageOf
<1>1. CASE Take(r, aff)
  BY <1>1, TakeRuns DEF Abstract!Next
<1>2. CASE /\ Enqueue(r, excluded[r]) /\ Goto(r, "queued")
           /\ UNCHANGED <<inFlight, node>>
  <2>1. pc' = [pc EXCEPT ![r] = "queued"]
    BY <1>2 DEF Goto
  <2>2. stageOf(r)' = "waiting"
    BY <2>1 DEF stageOf, TypeOK, Backoffs, Outcomes
  <2>3. Abstract!Move(r, "waiting")
    BY <1>2, <2>1, <2>2, StageMoves DEF TypeOK
  <2>4. Abstract!Cardinality(Abstract!Queue) < MaxQueued
    BY <1>2, QueueCounted DEF Enqueue, SlotsAccounted
  <2>5. Abstract!Wait(r)
    BY <1>0, <1>2, <2>3, <2>4, SaturatedPool DEF Abstract!Wait, Enqueue
  <2> QED BY <2>5 DEF Abstract!Next
<1>3. CASE /\ PoolBusy(excluded[r]) /\ Goto(r, "full")
           /\ UNCHANGED <<inFlight, waiting, parked, node>>
  <2>1. pc' = [pc EXCEPT ![r] = "full"]
    BY <1>3 DEF Goto
  <2>2. stageOf(r)' = "done"
    BY <1>0, <1>3, <2>1 DEF stageOf, TypeOK, Backoffs, Outcomes
  <2>3. Abstract!Move(r, "done")
    BY <1>3, <2>1, <2>2, StageMoves DEF TypeOK
  <2>4. Abstract!Cardinality(Abstract!Queue) = MaxQueued
    BY <1>3, QueueCounted, QueuedFinite, PoolAssumption
       DEF PoolBusy, SlotsAccounted, QueueAccounted
  <2>5. Abstract!TurnAway(r)
    BY <1>0, <1>3, <2>3, <2>4, SaturatedPool DEF Abstract!TurnAway, PoolBusy
  <2> QED BY <2>5 DEF Abstract!Next
<1> QED BY <1>1, <1>2, <1>3 DEF Acquire

(* A request in service that gives its slot back for good ends. *)
LEMMA FinishImplements ==
    ASSUME IInv, NEW r \in Requests, pc[r] \in InService,
           NEW o \in {"ok", "rejected", "unreachable", "broken"},
           Finish(r, o)
    PROVE  Abstract!Next
<1> USE DEF IInv
<1>1. /\ pc' = [pc EXCEPT ![r] = o]
      /\ node' = [node EXCEPT ![r] = NoNode]
      /\ UNCHANGED <<excluded, healthy>>
  BY DEF Finish, GiveBack, Goto
<1>2. stageOf(r)' = "done"
  BY <1>1 DEF stageOf, TypeOK, Backoffs, Outcomes
<1>3. Abstract!Move(r, "done")
  BY <1>1, <1>2, StageMoves DEF TypeOK
<1>4. stageOf(r) \in {"running", "delivering"}
  BY DEF stageOf, InService, Backoffs, Outcomes
<1>5. Abstract!End(r)
  BY <1>1, <1>3, <1>4 DEF Abstract!End
<1> QED BY <1>5 DEF Abstract!Next

(* A failure before any output is a failover, within the budget of retries. *)
LEMMA RerouteImplements ==
    ASSUME IInv, NEW r \in Requests, Reroute(r)
    PROVE  Abstract!Next
<1> USE DEF IInv
<1>1. /\ pc[r] \in {"sent", "open"} /\ attempt[r] < MaxRetries
      /\ node' = [node EXCEPT ![r] = NoNode]
      /\ excluded' = [excluded EXCEPT ![r] = @ \cup {node[r]}]
      /\ healthy' = healthy \ {node[r]}
  BY DEF Reroute, FailOver, GiveBack, Evict
<1>2. PICK l \in Backoffs : pc' = [pc EXCEPT ![r] = l]
  BY DEF Reroute, FailOver, Goto, Backoffs
<1>3. stageOf(r) = "running" /\ stageOf(r)' = "paused"
  BY <1>1, <1>2 DEF stageOf, TypeOK, Backoffs, Outcomes
<1>4. Abstract!Move(r, "paused")
  BY <1>1, <1>2, <1>3, StageMoves DEF TypeOK
<1>5. Abstract!Cardinality(excluded[r]) < MaxRetries
  BY <1>1, SameCardinality DEF ExclusionBudget, Failures, Backoffs, TypeOK
<1>6. Abstract!FailOver(r)
  BY <1>1, <1>3, <1>4, <1>5 DEF Abstract!FailOver
<1> QED BY <1>6 DEF Abstract!Next

(* Output begins, headers come, a body is garbled, a caller goes away. *)
LEMMA OtherImplements ==
    ASSUME IInv, NEW r \in Requests,
           StreamOpen(r) \/ StreamLine(r) \/ Malformed(r) \/ Disconnect(r)
    PROVE  Abstract!Next \/ UNCHANGED Abstract!vars
<1> USE DEF IInv
<1>0. UNCHANGED <<node, excluded, healthy>>
  BY DEF StreamOpen, StreamLine, Malformed, Disconnect, poolVars
<1>1. CASE StreamOpen(r)
  <2>1. pc[r] = "sent" /\ pc' = [pc EXCEPT ![r] = "open"]
    BY <1>1 DEF StreamOpen, Goto
  <2>2. \A q \in Requests : stageOf(q)' = stageOf(q)
    BY <1>0, <2>1 DEF stageOf, TypeOK, Backoffs, Outcomes
  <2> QED BY <1>0, <2>2 DEF Abstract!vars
<1>2. CASE StreamLine(r)
  <2>1. pc[r] = "open" /\ pc' = [pc EXCEPT ![r] = "streaming"]
    BY <1>2 DEF StreamLine, Goto
  <2>2. stageOf(r) = "running" /\ stageOf(r)' = "delivering"
    BY <2>1 DEF stageOf, TypeOK, Backoffs, Outcomes
  <2>3. Abstract!Move(r, "delivering")
    BY <1>0, <2>1, <2>2, StageMoves DEF TypeOK
  <2> QED BY <1>0, <2>2, <2>3 DEF Abstract!Deliver, Abstract!Next
<1>3. CASE Malformed(r) \/ Disconnect(r)
  <2>1. PICK o \in {"malformed", "gone"} : pc' = [pc EXCEPT ![r] = o]
    BY <1>3 DEF Malformed, Disconnect, Goto
  <2>2. CASE pc[r] \in InService
    <3>1. node'[r] # NoNode
      BY <1>0, <2>2, PoolAssumption DEF SlotsAccounted, HoldersServed
    <3>2. stageOf(r) \in {"running", "delivering"} /\ stageOf(r)' = "lost"
      BY <2>1, <2>2, <3>1
         DEF stageOf, TypeOK, InService, Backoffs, Outcomes
    <3>3. Abstract!Move(r, "lost")
      BY <1>0, <2>1, <3>2, StageMoves DEF TypeOK
    <3> QED BY <1>0, <3>2, <3>3 DEF Abstract!Lose, Abstract!Next
  <2>3. CASE pc[r] \in {"queued"} \cup Backoffs
    <3>1. node'[r] = NoNode
      BY <1>0, <2>3 DEF SlotsAccounted, HoldersServed, InService, Backoffs
    <3>2. stageOf(r) \in {"waiting", "paused"} /\ stageOf(r)' = "done"
      BY <2>1, <2>3, <3>1 DEF stageOf, TypeOK, Backoffs, Outcomes
    <3>3. Abstract!Move(r, "done")
      BY <1>0, <2>1, <3>2, StageMoves DEF TypeOK
    <3> QED BY <1>0, <3>2, <3>3 DEF Abstract!Leave, Abstract!Next
  <2> QED BY <1>3, <2>2, <2>3 DEF Malformed, Disconnect, InService
<1> QED BY <1>1, <1>2, <1>3

(* A step that moves no request at most changes what the pool offers. *)
LEMMA ReqVarsKept ==
    ASSUME UNCHANGED <<pc, node, excluded>>, healthy' \subseteq Nodes
    PROVE  [Abstract!Next]_(Abstract!vars)
<1>1. \A q \in Requests : stageOf(q)' = stageOf(q)
  BY DEF stageOf
<1> QED BY <1>1 DEF Abstract!Offer, Abstract!Next

(* Every step of the gateway is one of the abstract scheduler or none. *)
LEMMA StepImplements ==
    ASSUME IInv, [Next]_vars
    PROVE  [Abstract!Next]_(Abstract!vars)
<1>1. ASSUME NEW r \in Requests, RequestStep(r)
      PROVE  [Abstract!Next]_(Abstract!vars)
  <2>1. CASE Arrive(r)
    BY <2>1, AcquireImplements DEF Arrive
  <2>2. CASE Retry(r)
    BY <2>2, AcquireImplements DEF Retry
  <2>3. CASE Wake(r)
    <3>1. CASE Take(r, affinity[r])
      BY <2>3, <3>1, TakeRuns DEF Wake, IInv, Abstract!Next
    <3>2. CASE UNCHANGED <<inFlight, waiting, node, pc>>
      BY <2>3, <3>2, ReqVarsKept DEF Wake, IInv, TypeOK
    <3> QED BY <2>3, <3>1, <3>2 DEF Wake
  <2>4. CASE Reroute(r)
    BY <2>4, RerouteImplements
  <2>5. CASE \/ StreamOpen(r) \/ StreamLine(r)
             \/ Malformed(r) \/ Disconnect(r)
    BY <2>5, OtherImplements
  <2>6. ASSUME pc[r] \in InService,
               NEW o \in {"ok", "rejected", "unreachable", "broken"},
               Finish(r, o)
        PROVE  Abstract!Next
    BY <2>6, FinishImplements
  <2> QED BY <1>1, <2>1, <2>2, <2>3, <2>4, <2>5, <2>6, StepKinds
<1>2. CASE (MonitorStep /\ UNCHANGED reqVars) \/ UNCHANGED vars
  BY <1>2, ReqVarsKept, IInvStep DEF vars, reqVars, poolVars, IInv, TypeOK
<1> QED BY <1>1, <1>2 DEF Next

(* Before the first request both are at rest. *)
LEMMA InitImplements == Init => Abstract!Init
BY DEF Init, PoolInit, DispatchInit, Abstract!Init, stageOf, Backoffs,
   Outcomes

(* The pool of the gateway implements the abstract scheduler: capacity, queue
   limit, queueing and refusal only when every node a request may be given is
   full, the budget of failovers and no failover after output hold of every run
   of router.py's coroutines. *)
THEOREM Refinement == Spec => ImplementsScheduling
<1>1. Init => Abstract!Init
  BY InitImplements
<1>2. IInv /\ [Next]_vars => [Abstract!Next]_(Abstract!vars)
  BY StepImplements
<1> QED BY <1>1, <1>2, Invariance, PTL DEF Spec, Abstract!Spec, ImplementsScheduling
=============================================================================

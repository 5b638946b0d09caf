---------------------------- MODULE GatewayProofs ----------------------------
(***************************************************************************)
(* Proofs, for every pool and every set of requests, of the safety         *)
(* properties of Gateway that the runs check on small instances, and of    *)
(* how far the claims of GatewayClaims hold.                               *)
(***************************************************************************)
EXTENDS GatewayClaims, FiniteSetTheorems, TLAPS

-----------------------------------------------------------------------------
(* Types *)

(* The initial state, with every request idle, is well typed. *)
LEMMA TypeInit == Init => TypeOK
<1> USE PoolAssumption, DispatchAssumption, MonitorAssumption
<1> QED BY DEF Init, PoolInit, DispatchInit, MonitorInit, TypeOK,
               InService, Backoffs, Outcomes

(* The nodes Chosen and AffinityNode may return are nodes of the pool. *)
LEMMA ChosenNodes ==
    ASSUME NEW exclude, NEW aff
    PROVE  Chosen(exclude, aff) \subseteq Candidates(exclude)
BY DEF Chosen

(* A candidate is a node of the pool, not excluded, with a free slot. *)
LEMMA CandidateNodes ==
    ASSUME NEW exclude, NEW n \in Candidates(exclude)
    PROVE  n \in Nodes \ exclude /\ inFlight[n] < Parallel
BY DEF Candidates, Relevant

(* AffinityNode yields a node or nothing. *)
LEMMA AffinityNodes ==
    ASSUME TypeOK, NEW home \in Nodes \cup {NoNode}
    PROVE  AffinityNode(home) \subseteq Nodes \cup {NoNode}
<1>1. CASE home = NoNode BY <1>1 DEF AffinityNode
<1>2. CASE home # NoNode /\ home \in healthy
  BY <1>2 DEF AffinityNode
<1>3. CASE home # NoNode /\ home \notin healthy
  BY <1>3 DEF AffinityNode, TypeOK
<1> QED BY <1>1, <1>2, <1>3

(* A step of acquire keeps the types of what it changes. *)
LEMMA AcquireTypes ==
    ASSUME TypeOK, NEW r \in Requests, NEW aff, Acquire(r, aff)
    PROVE  /\ inFlight' \in [Nodes -> Nat] /\ waiting' \in Int
           /\ parked' \subseteq Requests
           /\ pc' \in [Requests -> {"idle", "queued"} \cup InService
                                     \cup Backoffs \cup Outcomes]
           /\ node' \in [Requests -> Nodes \cup {NoNode}]
<1>1. CASE Take(r, aff) /\ UNCHANGED <<waiting, parked>>
  <2>1. PICK n \in Chosen(excluded[r], aff) :
            /\ Reserve(n)
            /\ node' = [node EXCEPT ![r] = n]
            /\ Goto(r, "sent")
    BY <1>1 DEF Take
  <2>2. n \in Nodes
    BY ChosenNodes, CandidateNodes
  <2> QED BY <1>1, <2>1, <2>2 DEF Reserve, Goto, TypeOK, InService
<1>2. CASE /\ Enqueue(r, excluded[r]) /\ Goto(r, "queued")
           /\ UNCHANGED <<inFlight, node>>
  BY <1>2 DEF Enqueue, Goto, TypeOK
<1>3. CASE /\ PoolBusy(excluded[r]) /\ Goto(r, "full")
           /\ UNCHANGED <<inFlight, waiting, parked, node>>
  BY <1>3 DEF Goto, TypeOK, Outcomes
<1> QED BY <1>1, <1>2, <1>3 DEF Acquire

(* Giving a slot back keeps the types of what it changes. *)
LEMMA GiveBackTypes ==
    ASSUME TypeOK, NEW r \in Requests, node[r] \in Nodes, GiveBack(r)
    PROVE  /\ inFlight' \in [Nodes -> Nat] /\ parked' = {}
           /\ node' \in [Requests -> Nodes \cup {NoNode}]
<1>1. inFlight[node[r]] \in Nat /\ inFlight \in [Nodes -> Nat]
  BY DEF TypeOK
<1>2. (IF inFlight[node[r]] > 0 THEN inFlight[node[r]] - 1 ELSE 0) \in Nat
  BY <1>1
<1>3. inFlight' \in [Nodes -> Nat]
  BY <1>1, <1>2 DEF GiveBack, Release
<1> QED BY <1>3 DEF GiveBack, Release, TypeOK

(* Finishing a request keeps the types. *)
LEMMA FinishTypes ==
    ASSUME TypeOK, NEW r \in Requests, node[r] \in Nodes,
           NEW outcome \in Outcomes, Finish(r, outcome), UNCHANGED monVars
    PROVE  TypeOK'
<1>1. /\ inFlight' \in [Nodes -> Nat] /\ parked' = {}
      /\ node' \in [Requests -> Nodes \cup {NoNode}]
  BY GiveBackTypes DEF Finish
<1>2. pc' \in [Requests -> {"idle", "queued"} \cup InService
                             \cup Backoffs \cup Outcomes]
  BY DEF Finish, Goto, TypeOK
<1> QED BY <1>1, <1>2 DEF Finish, TypeOK, monVars

(* Every step keeps the types, as long as requests in service have a node. *)
LEMMA TypeStep ==
    ASSUME TypeOK, HoldersServed, [Next]_vars
    PROVE  TypeOK'
<1> USE PoolAssumption, DispatchAssumption, MonitorAssumption
<1>1. ASSUME NEW r \in Requests, UNCHANGED monVars, RequestStep(r)
      PROVE  TypeOK'
  <2>0. /\ pc[r] \in InService => node[r] \in Nodes
        /\ excluded[r] \subseteq Nodes /\ attempt[r] \in Nat
        /\ affinity[r] \in Nodes \cup {NoNode}
        /\ Home[r] \in Nodes \cup {NoNode}
    BY DEF HoldersServed, TypeOK
  <2>1. CASE Arrive(r)
    <3>1. PICK a \in AffinityNode(Home[r]) :
              affinity' = [affinity EXCEPT ![r] = a] /\ Acquire(r, a)
      BY <2>1 DEF Arrive
    <3>2. a \in Nodes \cup {NoNode}
      BY <2>0, AffinityNodes
    <3>3. affinity' \in [Requests -> Nodes \cup {NoNode}]
      BY <3>1, <3>2 DEF TypeOK
    <3>4. UNCHANGED <<healthy, excluded, attempt>>
      BY <2>1 DEF Arrive
    <3> HIDE DEF TypeOK
    <3>5. /\ inFlight' \in [Nodes -> Nat] /\ waiting' \in Int
          /\ parked' \subseteq Requests
          /\ pc' \in [Requests -> {"idle", "queued"} \cup InService
                                     \cup Backoffs \cup Outcomes]
          /\ node' \in [Requests -> Nodes \cup {NoNode}]
      BY <3>1, AcquireTypes
    <3> QED BY <1>1, <3>3, <3>4, <3>5 DEF TypeOK, monVars
  <2>2. CASE Retry(r)
    <3>1. /\ inFlight' \in [Nodes -> Nat] /\ waiting' \in Int
          /\ parked' \subseteq Requests
          /\ pc' \in [Requests -> {"idle", "queued"} \cup InService
                                     \cup Backoffs \cup Outcomes]
          /\ node' \in [Requests -> Nodes \cup {NoNode}]
      BY <2>2, AcquireTypes DEF Retry
    <3>2. attempt' \in [Requests -> Nat]
      BY <2>0, <2>2 DEF Retry, TypeOK
    <3> QED BY <1>1, <2>2, <3>1, <3>2 DEF Retry, TypeOK, monVars
  <2>3. CASE Wake(r)
    <3>1. CASE Take(r, affinity[r]) /\ Dequeue(r)
      <4>1. PICK n \in Chosen(excluded[r], affinity[r]) :
                /\ Reserve(n)
                /\ node' = [node EXCEPT ![r] = n]
                /\ Goto(r, "sent")
        BY <3>1 DEF Take
      <4>2. n \in Nodes
        BY ChosenNodes, CandidateNodes
      <4>3. /\ inFlight' \in [Nodes -> Nat] /\ waiting' \in Int
            /\ parked' \subseteq Requests
            /\ pc' \in [Requests -> {"idle", "queued"} \cup InService
                                       \cup Backoffs \cup Outcomes]
            /\ node' \in [Requests -> Nodes \cup {NoNode}]
        BY <3>1, <4>1, <4>2 DEF Reserve, Dequeue, Goto, TypeOK, InService
      <4> QED BY <1>1, <2>3, <4>3 DEF Wake, TypeOK, monVars
    <3>2. CASE /\ Repark(r, excluded[r])
               /\ UNCHANGED <<inFlight, waiting, node, pc>>
      BY <1>1, <2>3, <3>2 DEF Wake, Repark, TypeOK, monVars
    <3> QED BY <2>3, <3>1, <3>2 DEF Wake
  <2>4. CASE SubmitOk(r)
    BY <1>1, <2>0, <2>4, FinishTypes DEF SubmitOk, Outcomes, InService
  <2>5. CASE Rejected(r)
    BY <1>1, <2>0, <2>5, FinishTypes DEF Rejected, Outcomes, InService
  <2>6. CASE Reroute(r)
    <3>1. node[r] \in Nodes
      BY <2>0, <2>6 DEF Reroute, FailOver, InService
    <3>2. /\ inFlight' \in [Nodes -> Nat] /\ parked' = {}
          /\ node' \in [Requests -> Nodes \cup {NoNode}]
      BY <2>6, <3>1, GiveBackTypes DEF Reroute, FailOver
    <3>3. excluded' \in [Requests -> SUBSET Nodes]
      BY <2>0, <2>6, <3>1 DEF Reroute, FailOver, TypeOK
    <3>4. healthy' \subseteq Nodes
      BY <2>6 DEF Reroute, FailOver, Evict, TypeOK
    <3>5. pc' = [pc EXCEPT ![r] = "fast"] \/ pc' = [pc EXCEPT ![r] = "slow"]
      BY <2>6 DEF Reroute, FailOver, Goto
    <3>6. pc' \in [Requests -> {"idle", "queued"} \cup InService
                                 \cup Backoffs \cup Outcomes]
      BY <3>5 DEF TypeOK, Backoffs
    <3> QED BY <1>1, <2>6, <3>2, <3>3, <3>4, <3>6
            DEF Reroute, FailOver, TypeOK, monVars
  <2>7. CASE GiveUp(r)
    BY <1>1, <2>0, <2>7, FinishTypes DEF GiveUp, Outcomes, InService
  <2>8. CASE StreamOpen(r)
    BY <1>1, <2>8 DEF StreamOpen, Goto, TypeOK, InService, poolVars, monVars
  <2>9. CASE StreamLine(r)
    BY <1>1, <2>9 DEF StreamLine, Goto, TypeOK, InService, poolVars, monVars
  <2>10. CASE StreamEnd(r)
    BY <1>1, <2>0, <2>10, FinishTypes DEF StreamEnd, Outcomes, InService
  <2>11. CASE StreamBroken(r)
    BY <1>1, <2>0, <2>11, FinishTypes DEF StreamBroken, Outcomes, InService
  <2>12. CASE Malformed(r)
    BY <1>1, <2>12 DEF Malformed, Goto, TypeOK, Outcomes, poolVars, monVars
  <2>13. CASE Disconnect(r)
    BY <1>1, <2>13 DEF Disconnect, Dequeue, Goto, TypeOK, Outcomes, monVars
  <2> QED BY <1>1, <2>1, <2>2, <2>3, <2>4, <2>5, <2>6, <2>7, <2>8, <2>9,
             <2>10, <2>11, <2>12, <2>13 DEF RequestStep, Answer
<1>2. ASSUME NEW n \in Nodes, UNCHANGED reqVars, Probe(n)
      PROVE  TypeOK'
  BY <1>2 DEF Probe, TypeOK, poolVars, reqVars
<1>3. ASSUME UNCHANGED reqVars, Apply
      PROVE  TypeOK'
  BY <1>3 DEF Apply, TypeOK, reqVars
<1>4. ASSUME UNCHANGED reqVars, StartRound
      PROVE  TypeOK'
  BY <1>4 DEF StartRound, TypeOK, poolVars, reqVars
<1>5. ASSUME NEW n \in Nodes, UNCHANGED reqVars, Flip(n)
      PROVE  TypeOK'
  <2>1. up' \subseteq Nodes
    BY <1>5 DEF Flip, TypeOK
  <2>2. flips' \in 0..MaxFlips
    BY <1>5 DEF Flip, TypeOK
  <2> QED BY <1>5, <2>1, <2>2 DEF Flip, TypeOK, poolVars, reqVars
<1>6. CASE UNCHANGED vars
  BY <1>6 DEF TypeOK, vars, poolVars, reqVars, monVars
<1> QED BY <1>1, <1>2, <1>3, <1>4, <1>5, <1>6
        DEF Next, MonitorStep, LoopStep

-----------------------------------------------------------------------------
(* Slots *)

(* What a request's step can be, the ways to finish taken together. *)
LEMMA StepKinds ==
    ASSUME NEW r \in Requests, RequestStep(r)
    PROVE  \/ Arrive(r) \/ Retry(r) \/ Wake(r) \/ Reroute(r)
           \/ StreamOpen(r) \/ StreamLine(r) \/ Malformed(r) \/ Disconnect(r)
           \/ /\ pc[r] \in InService
              /\ \E o \in {"ok", "rejected", "unreachable", "broken"} :
                    Finish(r, o)
BY DEF RequestStep, Answer, SubmitOk, Rejected, GiveUp, StreamEnd,
       StreamBroken, InService

(* The requests that hold a slot of a node are finitely many. *)
LEMMA HoldersFinite ==
    ASSUME NEW n PROVE IsFiniteSet(Holders(n))
BY DispatchAssumption, FS_Subset DEF Holders

(* A request with no node that takes one with a free slot adds one holder to
   it and one to its counter, and nothing to the others. *)
LEMMA TakeCounts ==
    ASSUME TypeOK, SlotsAccounted, CapacityRespected,
           NEW r \in Requests, node[r] = NoNode, NEW aff, Take(r, aff)
    PROVE  /\ \A m \in Nodes : inFlight'[m] = Cardinality(Holders(m)')
           /\ CapacityRespected'
           /\ node'[r] \in Nodes
<1>1. PICK n \in Chosen(excluded[r], aff) :
          /\ Reserve(n)
          /\ node' = [node EXCEPT ![r] = n]
          /\ Goto(r, "sent")
  BY DEF Take
<1>2. n \in Nodes /\ inFlight[n] < Parallel
  BY ChosenNodes, CandidateNodes
<1>3. Holders(n)' = Holders(n) \cup {r} /\ r \notin Holders(n)
  BY <1>1, <1>2, PoolAssumption DEF Holders, TypeOK
<1>4. \A m \in Nodes \ {n} : Holders(m)' = Holders(m)
  BY <1>1, PoolAssumption DEF Holders, TypeOK
<1>5. Cardinality(Holders(n)') = Cardinality(Holders(n)) + 1
  BY <1>3, HoldersFinite, FS_AddElement
<1>6. /\ inFlight'[n] = inFlight[n] + 1
      /\ \A m \in Nodes \ {n} : inFlight'[m] = inFlight[m]
  BY <1>1, <1>2 DEF Reserve, TypeOK
<1>7. inFlight[n] \in Nat /\ Parallel \in Nat
  BY <1>2, PoolAssumption DEF TypeOK
<1>8. \A m \in Nodes : inFlight'[m] = Cardinality(Holders(m)')
  BY <1>4, <1>5, <1>6 DEF SlotsAccounted
<1>9. CapacityRespected'
  BY <1>2, <1>6, <1>7 DEF CapacityRespected
<1> QED BY <1>1, <1>2, <1>8, <1>9 DEF TypeOK

(* Giving a held slot back removes one holder and one from the counter, which
   was not zero: the clamp in release never hides a missing slot. *)
LEMMA GiveBackCounts ==
    ASSUME TypeOK, SlotsAccounted, CapacityRespected,
           NEW r \in Requests, node[r] \in Nodes, GiveBack(r)
    PROVE  /\ \A m \in Nodes : inFlight'[m] = Cardinality(Holders(m)')
           /\ CapacityRespected'
           /\ node'[r] = NoNode
<1>0. PICK n \in Nodes : n = node[r]
  OBVIOUS
<1>1. /\ Holders(n)' = Holders(n) \ {r} /\ r \in Holders(n)
      /\ \A m \in Nodes \ {n} : Holders(m)' = Holders(m)
      /\ node'[r] = NoNode
  BY <1>0, PoolAssumption DEF GiveBack, Holders, TypeOK
<1>2. /\ Cardinality(Holders(n)') = Cardinality(Holders(n)) - 1
      /\ Cardinality(Holders(n)) \in Nat
      /\ Cardinality(Holders(n)') \in Nat
  <2>1. IsFiniteSet(Holders(n)) /\ IsFiniteSet(Holders(n) \ {r})
    BY HoldersFinite, FS_RemoveElement
  <2> QED BY <1>1, <2>1, FS_RemoveElement, FS_CardinalityType
<1>3. inFlight[n] = Cardinality(Holders(n))
  BY DEF SlotsAccounted
<1>4. inFlight[n] > 0
  BY <1>2, <1>3
<1>5. /\ inFlight'[n] = inFlight[n] - 1
      /\ \A m \in Nodes \ {n} : inFlight'[m] = inFlight[m]
  BY <1>0, <1>4 DEF GiveBack, Release, TypeOK
<1>6. \A m \in Nodes : inFlight'[m] = Cardinality(Holders(m)')
  BY <1>1, <1>2, <1>3, <1>5 DEF SlotsAccounted
<1>7. inFlight[n] \in Nat /\ Parallel \in Nat
  BY PoolAssumption DEF TypeOK
<1>8. CapacityRespected'
  BY <1>5, <1>7 DEF CapacityRespected
<1> QED BY <1>1, <1>6, <1>8

(* acquire by a request without a slot keeps the accounts. *)
LEMMA AcquireSlots ==
    ASSUME TypeOK, SlotsAccounted, CapacityRespected,
           NEW r \in Requests, node[r] = NoNode, NEW aff, Acquire(r, aff)
    PROVE  SlotsAccounted' /\ CapacityRespected'
<1>1. CASE Take(r, aff) /\ UNCHANGED <<waiting, parked>>
  <2>1. HoldersServed'
    BY <1>1, TakeCounts
       DEF SlotsAccounted, HoldersServed, Take, Goto, TypeOK, InService
  <2> QED BY <1>1, <2>1, TakeCounts DEF SlotsAccounted
<1>2. CASE /\ UNCHANGED <<inFlight, node>>
           /\ Goto(r, "queued") \/ Goto(r, "full")
  <2>1. HoldersServed'
    BY <1>2 DEF SlotsAccounted, HoldersServed, Goto, TypeOK, InService
  <2>2. \A m \in Nodes : Holders(m)' = Holders(m)
    BY <1>2 DEF Holders
  <2> QED BY <1>2, <2>1, <2>2 DEF SlotsAccounted, CapacityRespected
<1> QED BY <1>1, <1>2 DEF Acquire

(* A step that moves no slot keeps the accounts. *)
LEMMA SlotsKept ==
    ASSUME SlotsAccounted, CapacityRespected, HoldersServed',
           UNCHANGED <<inFlight, node>>
    PROVE  SlotsAccounted' /\ CapacityRespected'
<1>1. \A m \in Nodes : Holders(m)' = Holders(m)
  BY DEF Holders
<1> QED BY <1>1 DEF SlotsAccounted, CapacityRespected

(* Every step keeps the accounts of the slots. *)
LEMMA SlotsStep ==
    ASSUME TypeOK, SlotsAccounted, CapacityRespected, [Next]_vars
    PROVE  SlotsAccounted' /\ CapacityRespected'
<1>1. ASSUME NEW r \in Requests, RequestStep(r)
      PROVE  SlotsAccounted' /\ CapacityRespected'
  <2>0. /\ pc[r] \in InService => node[r] \in Nodes
        /\ pc[r] \in {"idle", "queued"} \cup Backoffs => node[r] = NoNode
    BY DEF SlotsAccounted, HoldersServed, InService, Backoffs
  <2>1. CASE Arrive(r)
    BY <2>0, <2>1, AcquireSlots DEF Arrive
  <2>2. CASE Retry(r)
    BY <2>0, <2>2, AcquireSlots DEF Retry
  <2>3. CASE Wake(r)
    <3>1. CASE Take(r, affinity[r])
      <4>1. node[r] = NoNode
        BY <2>0, <2>3 DEF Wake
      <4>2. HoldersServed'
        BY <3>1, <4>1, TakeCounts
           DEF SlotsAccounted, HoldersServed, Take, Goto, TypeOK, InService
      <4> QED BY <3>1, <4>1, <4>2, TakeCounts DEF SlotsAccounted
    <3>2. CASE UNCHANGED <<inFlight, waiting, node, pc>>
      <4>1. HoldersServed'
        BY <3>2 DEF SlotsAccounted, HoldersServed
      <4> QED BY <3>2, <4>1, SlotsKept
    <3> QED BY <2>3, <3>1, <3>2 DEF Wake
  <2>4. CASE Reroute(r)
    <3>1. node[r] \in Nodes /\ GiveBack(r)
      BY <2>0, <2>4 DEF Reroute, FailOver, InService
    <3>2. HoldersServed'
      BY <2>4, <3>1, GiveBackCounts DEF Reroute, FailOver, GiveBack, Goto,
         SlotsAccounted, HoldersServed, TypeOK, InService
    <3> QED BY <3>1, <3>2, GiveBackCounts DEF SlotsAccounted
  <2>5. CASE \/ StreamOpen(r) \/ StreamLine(r)
             \/ Malformed(r) \/ Disconnect(r)
    <3>1. UNCHANGED <<inFlight, node>>
      BY <2>5 DEF StreamOpen, StreamLine, Malformed, Disconnect, poolVars
    <3>2. HoldersServed'
      BY <2>5 DEF StreamOpen, StreamLine, Malformed, Disconnect, Goto,
         SlotsAccounted, HoldersServed, TypeOK, InService
    <3> QED BY <3>1, <3>2, SlotsKept
  <2>6. ASSUME pc[r] \in InService,
               NEW o \in {"ok", "rejected", "unreachable", "broken"},
               Finish(r, o)
        PROVE  SlotsAccounted' /\ CapacityRespected'
    <3>1. node[r] \in Nodes /\ GiveBack(r)
      BY <2>0, <2>6 DEF Finish
    <3>2. HoldersServed'
      BY <2>6, <3>1, GiveBackCounts DEF Finish, GiveBack, Goto,
         SlotsAccounted, HoldersServed, TypeOK, InService
    <3> QED BY <3>1, <3>2, GiveBackCounts DEF SlotsAccounted
  <2> QED BY <1>1, <2>1, <2>2, <2>3, <2>4, <2>5, <2>6, StepKinds
<1>2. CASE MonitorStep /\ UNCHANGED reqVars
  <2>1. UNCHANGED <<inFlight, node, pc>>
    BY <1>2 DEF MonitorStep, LoopStep, Probe, Apply, StartRound, Flip,
                poolVars, reqVars
  <2>2. HoldersServed'
    BY <2>1 DEF SlotsAccounted, HoldersServed
  <2> QED BY <2>1, <2>2, SlotsKept
<1>3. CASE UNCHANGED vars
  <2>1. HoldersServed'
    BY <1>3 DEF SlotsAccounted, HoldersServed, vars, reqVars
  <2> QED BY <1>3, <2>1, SlotsKept DEF vars, reqVars, poolVars
<1> QED BY <1>1, <1>2, <1>3 DEF Next

-----------------------------------------------------------------------------
(* The queue *)

(* The queued requests are finitely many. *)
LEMMA QueuedFinite == IsFiniteSet(Queued) /\ Cardinality(Queued) \in Nat
BY DispatchAssumption, FS_Subset, FS_CardinalityType DEF Queued

(* A request that enters the queue is counted. *)
LEMMA EnqueueCounts ==
    ASSUME TypeOK, QueueAccounted, NEW r \in Requests, pc[r] # "queued",
           Enqueue(r, excluded[r]), Goto(r, "queued")
    PROVE  QueueAccounted'
<1>1. Queued' = Queued \cup {r} /\ r \notin Queued
  BY DEF Queued, Goto, TypeOK
<1>2. Cardinality(Queued') = Cardinality(Queued) + 1
  BY <1>1, QueuedFinite, FS_AddElement
<1>3. waiting \in Nat /\ MaxQueued \in Nat
  BY QueuedFinite, PoolAssumption DEF QueueAccounted
<1> QED BY <1>1, <1>2, <1>3 DEF QueueAccounted, Enqueue

(* A request that leaves the queue is no longer counted. *)
LEMMA DequeueCounts ==
    ASSUME TypeOK, QueueAccounted, NEW r \in Requests, pc[r] = "queued",
           Dequeue(r), NEW l, l # "queued", Goto(r, l)
    PROVE  QueueAccounted'
<1>1. Queued' = Queued \ {r} /\ r \in Queued
  BY DEF Queued, Goto, TypeOK
<1>2. Cardinality(Queued') = Cardinality(Queued) - 1
  BY <1>1, QueuedFinite, FS_RemoveElement
<1>3. waiting \in Nat /\ MaxQueued \in Nat
  BY QueuedFinite, PoolAssumption DEF QueueAccounted
<1> QED BY <1>1, <1>2, <1>3 DEF QueueAccounted, Dequeue

(* A step of a request that is not queued, and is not queued after it, leaves
   the queue as it is. *)
LEMMA QueueKept ==
    ASSUME TypeOK, QueueAccounted, NEW r \in Requests, pc[r] # "queued",
           NEW l, l # "queued", Goto(r, l), UNCHANGED waiting,
           parked' \subseteq parked
    PROVE  QueueAccounted'
<1>1. Queued' = Queued
  BY DEF Queued, Goto, TypeOK
<1> QED BY <1>1 DEF QueueAccounted

(* acquire by a request that is not queued keeps the queue's accounts. *)
LEMMA AcquireQueue ==
    ASSUME TypeOK, QueueAccounted, NEW r \in Requests, pc[r] # "queued",
           NEW aff, Acquire(r, aff)
    PROVE  QueueAccounted'
BY EnqueueCounts, QueueKept DEF Acquire, Take

(* Every step keeps the queue's accounts. *)
LEMMA QueueStep ==
    ASSUME TypeOK, QueueAccounted, [Next]_vars
    PROVE  QueueAccounted'
<1>1. ASSUME NEW r \in Requests, RequestStep(r)
      PROVE  QueueAccounted'
  <2>1. CASE Arrive(r)
    BY <2>1, AcquireQueue DEF Arrive
  <2>2. CASE Retry(r)
    BY <2>2, AcquireQueue DEF Retry, Backoffs
  <2>3. CASE Wake(r)
    <3>1. CASE Take(r, affinity[r]) /\ Dequeue(r)
      BY <2>3, <3>1, DequeueCounts DEF Wake, Take
    <3>2. CASE /\ Repark(r, excluded[r])
               /\ UNCHANGED <<inFlight, waiting, node, pc>>
      <4>1. Queued' = Queued /\ r \in Queued
        BY <2>3, <3>2 DEF Wake, Queued
      <4> QED BY <3>2, <4>1 DEF Repark, QueueAccounted
    <3> QED BY <2>3, <3>1, <3>2 DEF Wake
  <2>4. CASE Reroute(r)
    <3>1. PICK l \in {"fast", "slow"} : Goto(r, l)
      BY <2>4 DEF Reroute, FailOver
    <3> QED BY <2>4, <3>1, QueueKept
            DEF Reroute, FailOver, GiveBack, Release
  <2>5. CASE StreamOpen(r) \/ StreamLine(r) \/ Malformed(r)
    BY <2>5, QueueKept DEF StreamOpen, StreamLine, Malformed, poolVars
  <2>6. CASE Disconnect(r)
    BY <2>6, QueueKept, DequeueCounts DEF Disconnect, InService, Backoffs
  <2>7. ASSUME pc[r] \in InService,
               NEW o \in {"ok", "rejected", "unreachable", "broken"},
               Finish(r, o)
        PROVE  QueueAccounted'
    BY <2>7, QueueKept DEF Finish, GiveBack, Release, InService
  <2> QED BY <1>1, <2>1, <2>2, <2>3, <2>4, <2>5, <2>6, <2>7, StepKinds
<1>2. ASSUME UNCHANGED <<waiting, parked, pc>>
      PROVE  QueueAccounted'
  BY <1>2 DEF QueueAccounted, Queued
<1>3. CASE MonitorStep /\ UNCHANGED reqVars
  BY <1>2, <1>3 DEF MonitorStep, LoopStep, Probe, Apply, StartRound, Flip,
                    poolVars, reqVars
<1>4. CASE UNCHANGED vars
  BY <1>2, <1>4 DEF vars, poolVars, reqVars
<1> QED BY <1>1, <1>3, <1>4 DEF Next

-----------------------------------------------------------------------------
(* Sleepers *)

(* Who finds no candidate, and may use some node, finds a full one. *)
LEMMA FullNode ==
    ASSUME NEW exclude \in SUBSET Nodes, exclude # Nodes,
           ~HasAlternate(exclude), TypeOK
    PROVE  \E n \in Nodes \ exclude : inFlight[n] >= Parallel
<1>1. PICK n \in Relevant(exclude) : TRUE
  BY DEF Relevant
<1>2. n \in Nodes \ exclude
  BY <1>1 DEF Relevant
<1>3. ~(inFlight[n] < Parallel)
  BY <1>1 DEF HasAlternate, Candidates
<1> QED BY <1>2, <1>3, PoolAssumption DEF TypeOK

(* Reserving a slot lowers no counter. *)
LEMMA TakeRaises ==
    ASSUME TypeOK, NEW r \in Requests, NEW aff, Take(r, aff)
    PROVE  \A n \in Nodes : inFlight[n] >= Parallel => inFlight'[n] >= Parallel
<1>1. PICK n \in Chosen(excluded[r], aff) : Reserve(n)
  BY DEF Take
<1> QED BY <1>1, PoolAssumption DEF Reserve, TypeOK

(* acquire strands nobody. *)
LEMMA AcquireWaiters ==
    ASSUME TypeOK, NoStrandedWaiter, NEW r \in Requests, NEW aff,
           Acquire(r, aff), UNCHANGED excluded
    PROVE  NoStrandedWaiter'
<1>1. CASE Take(r, aff) /\ UNCHANGED <<waiting, parked>>
  BY <1>1, TakeRaises DEF NoStrandedWaiter
<1>2. CASE /\ Enqueue(r, excluded[r]) /\ Goto(r, "queued")
           /\ UNCHANGED <<inFlight, node>>
  BY <1>2, FullNode DEF NoStrandedWaiter, Enqueue, TypeOK
<1>3. CASE /\ PoolBusy(excluded[r]) /\ Goto(r, "full")
           /\ UNCHANGED <<inFlight, waiting, parked, node>>
  BY <1>3 DEF NoStrandedWaiter
<1> QED BY <1>1, <1>2, <1>3 DEF Acquire

(* No step strands a sleeper. *)
LEMMA WaiterStep ==
    ASSUME TypeOK, NoStrandedWaiter, [Next]_vars
    PROVE  NoStrandedWaiter'
<1>1. ASSUME UNCHANGED <<inFlight, excluded>>, parked' \subseteq parked
      PROVE  NoStrandedWaiter'
  BY <1>1 DEF NoStrandedWaiter
<1>2. ASSUME NEW r \in Requests, RequestStep(r)
      PROVE  NoStrandedWaiter'
  <2>1. CASE Arrive(r)
    BY <2>1, AcquireWaiters DEF Arrive
  <2>2. CASE Retry(r)
    BY <2>2, AcquireWaiters DEF Retry
  <2>3. CASE Wake(r)
    <3>1. CASE Take(r, affinity[r]) /\ Dequeue(r)
      BY <2>3, <3>1, TakeRaises DEF Wake, Dequeue, NoStrandedWaiter
    <3>2. CASE /\ Repark(r, excluded[r])
               /\ UNCHANGED <<inFlight, waiting, node, pc>>
      BY <2>3, <3>2, FullNode DEF Wake, Repark, NoStrandedWaiter, TypeOK
    <3> QED BY <2>3, <3>1, <3>2 DEF Wake
  <2>4. CASE Reroute(r)
    BY <2>4 DEF Reroute, FailOver, GiveBack, Release, NoStrandedWaiter
  <2>5. CASE \/ StreamOpen(r) \/ StreamLine(r)
             \/ Malformed(r) \/ Disconnect(r)
    BY <1>1, <2>5
       DEF StreamOpen, StreamLine, Malformed, Disconnect, Dequeue, poolVars
  <2>6. ASSUME NEW o, Finish(r, o)
        PROVE  NoStrandedWaiter'
    BY <2>6 DEF Finish, GiveBack, Release, NoStrandedWaiter
  <2> QED BY <1>2, <2>1, <2>2, <2>3, <2>4, <2>5, <2>6, StepKinds
<1>3. CASE MonitorStep /\ UNCHANGED reqVars
  BY <1>1, <1>3 DEF MonitorStep, LoopStep, Probe, Apply, StartRound, Flip,
                    poolVars, reqVars
<1>4. CASE UNCHANGED vars
  BY <1>1, <1>4 DEF vars, poolVars, reqVars
<1> QED BY <1>2, <1>3, <1>4 DEF Next

-----------------------------------------------------------------------------
(* Failures and exclusions *)

(* The excluded nodes of a request are finitely many. *)
LEMMA ExcludedFinite ==
    ASSUME TypeOK, NEW r \in Requests
    PROVE  /\ IsFiniteSet(excluded[r]) /\ Cardinality(excluded[r]) \in Nat
           /\ attempt[r] \in Nat
<1>1. excluded[r] \in SUBSET Nodes /\ attempt[r] \in Nat
  BY DEF TypeOK
<1> QED BY <1>1, PoolAssumption, FS_Subset, FS_CardinalityType

(* The part of ExclusionBudget that is about one request. *)
Budget(r) ==
    /\ node[r] \notin excluded[r]
    /\ pc[r] # "gone" => Cardinality(excluded[r]) = Failures(r)
    /\ Cardinality(excluded[r]) <= MaxRetries

(* What does not concern a request keeps its budget. *)
LEMMA BudgetKept ==
    ASSUME NEW r \in Requests, Budget(r), excluded'[r] = excluded[r],
           attempt'[r] = attempt[r], node'[r] \in {node[r]} \cup {NoNode},
           TypeOK, (pc'[r] \in Backoffs <=> pc[r] \in Backoffs) \/ pc'[r] = "gone",
           pc'[r] # "gone" => pc[r] # "gone"
    PROVE  Budget(r)'
<1>1. NoNode \notin excluded[r]
  BY PoolAssumption DEF TypeOK
<1> QED BY <1>1 DEF Budget, Failures

(* acquire sends a request only to a node that has not failed it. *)
LEMMA AcquireBudget ==
    ASSUME TypeOK, NEW r \in Requests, NEW aff, Acquire(r, aff),
           node[r] = NoNode, excluded'[r] = excluded[r],
           Cardinality(excluded[r]) <= MaxRetries,
           Cardinality(excluded[r]) = attempt'[r], attempt'[r] \in Nat
    PROVE  Budget(r)'
<1>1. NoNode \notin excluded[r]
  BY PoolAssumption DEF TypeOK
<1>2. node'[r] \notin excluded[r]
  BY <1>1, ChosenNodes, CandidateNodes DEF Acquire, Take, TypeOK
<1>3. pc'[r] \in {"sent", "queued", "full"}
  BY DEF Acquire, Take, Goto, TypeOK
<1> QED BY <1>2, <1>3 DEF Budget, Failures, Backoffs

(* A failure is paid for with one node and one retry. *)
LEMMA RerouteBudget ==
    ASSUME TypeOK, HoldersServed, NEW r \in Requests, Budget(r), Reroute(r)
    PROVE  Budget(r)'
<1>1. /\ pc[r] \in {"sent", "open"} /\ attempt[r] < MaxRetries
      /\ excluded'[r] = excluded[r] \cup {node[r]}
      /\ attempt'[r] = attempt[r]
      /\ node'[r] = NoNode /\ pc'[r] \in Backoffs
  BY DEF Reroute, FailOver, GiveBack, Goto, TypeOK, Backoffs
<1>2. node[r] \in Nodes /\ node[r] \notin excluded[r]
  BY <1>1 DEF Budget, HoldersServed, InService
<1>3. Cardinality(excluded[r]) = attempt[r]
  BY <1>1, ExcludedFinite DEF Budget, Failures, Backoffs
<1>4. Cardinality(excluded'[r]) = attempt[r] + 1
  <2> DEFINE S == excluded[r]
             n == node[r]
  <2>1. IsFiniteSet(S) BY ExcludedFinite
  <2>2. n \notin S BY <1>2
  <2> HIDE DEF S, n
  <2>3. Cardinality(S \cup {n}) = Cardinality(S) + 1
    BY <2>1, <2>2, FS_AddElement
  <2> QED BY <1>1, <1>3, <2>3 DEF S, n
<1>5. NoNode \notin excluded'[r]
  BY <1>1, <1>2, PoolAssumption DEF TypeOK
<1>6. attempt[r] \in Nat /\ MaxRetries \in Nat
  BY DispatchAssumption DEF TypeOK
<1>7. pc'[r] # "gone" => Cardinality(excluded'[r]) = Failures(r)'
  BY <1>1, <1>4 DEF Failures
<1> QED BY <1>1, <1>4, <1>5, <1>6, <1>7 DEF Budget

(* Every step keeps every request within its budget. *)
LEMMA BudgetStep ==
    ASSUME TypeOK, HoldersServed, ExclusionBudget, [Next]_vars
    PROVE  ExclusionBudget'
<1>0. SUFFICES ASSUME NEW q \in Requests PROVE Budget(q)'
  BY DEF ExclusionBudget, Budget
<1>1. Budget(q)
  BY DEF ExclusionBudget, Budget
<1>2. ASSUME NEW r \in Requests, RequestStep(r)
      PROVE  Budget(q)'
  <2>0. Budget(r)
    BY DEF ExclusionBudget, Budget
  <2>1. CASE q # r
    <3>1. /\ excluded'[q] = excluded[q] /\ attempt'[q] = attempt[q]
          /\ node'[q] = node[q] /\ pc'[q] = pc[q]
      BY <1>2, <2>1, StepKinds
         DEF Arrive, Retry, Wake, Reroute, FailOver, StreamOpen, StreamLine,
             Malformed, Disconnect, Finish, Acquire, Take, GiveBack, Goto,
             TypeOK
    <3> QED BY <1>1, <3>1, BudgetKept
  <2>2. CASE q = r
    <3>0. /\ pc[r] \in {"idle", "queued"} \cup Backoffs => node[r] = NoNode
          /\ Cardinality(excluded[r]) \in Nat /\ attempt[r] \in Nat
      BY ExcludedFinite DEF HoldersServed, InService, Backoffs
    <3>1. CASE Arrive(r)
      BY <2>0, <2>2, <3>0, <3>1, AcquireBudget
         DEF Arrive, Budget, Failures, Backoffs
    <3>2. CASE Retry(r)
      <4>1. /\ attempt'[r] = attempt[r] + 1 /\ node[r] = NoNode
            /\ Cardinality(excluded[r]) = attempt[r] + 1
        BY <2>0, <3>0, <3>2 DEF Retry, Budget, Failures, Backoffs, TypeOK
      <4> QED BY <2>0, <2>2, <3>0, <3>2, <4>1, AcquireBudget DEF Retry, Budget
    <3>3. CASE Wake(r)
      <4>1. CASE Take(r, affinity[r]) /\ Dequeue(r)
        <5>1. /\ node'[r] \notin excluded[r] /\ pc'[r] = "sent"
              /\ pc[r] = "queued" /\ UNCHANGED <<excluded, attempt>>
          BY <3>3, <4>1, ChosenNodes, CandidateNodes
             DEF Wake, Take, Goto, TypeOK
        <5> QED BY <2>0, <2>2, <5>1 DEF Budget, Failures, Backoffs
      <4>2. CASE UNCHANGED <<inFlight, waiting, node, pc>>
        BY <2>0, <2>2, <3>3, <4>2, BudgetKept DEF Wake
      <4> QED BY <3>3, <4>1, <4>2 DEF Wake
    <3>4. CASE Reroute(r)
      BY <2>0, <2>2, <3>4, RerouteBudget
    <3>5. CASE StreamOpen(r) \/ StreamLine(r) \/ Malformed(r)
      <4>1. /\ UNCHANGED <<node, excluded, attempt>>
            /\ pc[r] \in {"sent", "open"}
            /\ pc'[r] \in {"open", "streaming", "malformed"}
        BY <3>5 DEF StreamOpen, StreamLine, Malformed, Goto, TypeOK
      <4> QED BY <2>0, <2>2, <4>1, BudgetKept DEF Backoffs
    <3>6. CASE Disconnect(r)
      <4>1. UNCHANGED <<node, excluded, attempt>> /\ pc'[r] = "gone"
        BY <3>6 DEF Disconnect, Goto, TypeOK
      <4> QED BY <2>0, <2>2, <4>1, BudgetKept
    <3>7. ASSUME pc[r] \in InService,
                 NEW o \in {"ok", "rejected", "unreachable", "broken"},
                 Finish(r, o)
          PROVE  Budget(q)'
      <4>1. /\ UNCHANGED <<excluded, attempt>> /\ node'[r] = NoNode
            /\ pc'[r] = o
        BY <3>7 DEF Finish, GiveBack, Goto, TypeOK
      <4> QED BY <2>0, <2>2, <3>7, <4>1, BudgetKept DEF Backoffs, InService
    <3> QED BY <1>2, <3>1, <3>2, <3>3, <3>4, <3>5, <3>6, <3>7, StepKinds
  <2> QED BY <2>1, <2>2
<1>3. CASE MonitorStep /\ UNCHANGED reqVars
  BY <1>1, <1>3, BudgetKept DEF reqVars
<1>4. CASE UNCHANGED vars
  BY <1>1, <1>4, BudgetKept DEF vars, reqVars
<1> QED BY <1>2, <1>3, <1>4 DEF Next

-----------------------------------------------------------------------------
(* The theorems *)

(* The inductive invariant: the types need the holders, the accounts need the
   types and capacity, the budget needs both. *)
IInv == /\ TypeOK
        /\ SlotsAccounted /\ CapacityRespected
        /\ QueueAccounted
        /\ NoStrandedWaiter
        /\ ExclusionBudget

(* It holds before the first request arrives. *)
LEMMA IInvInit == Init => IInv
<1> SUFFICES ASSUME Init PROVE IInv
  OBVIOUS
<1> USE PoolAssumption, DispatchAssumption DEF Init, PoolInit, DispatchInit
<1>1. \A n \in Nodes : Holders(n) = {}
  BY DEF Holders
<1>2. Queued = {}
  BY DEF Queued
<1>3. SlotsAccounted
  BY <1>1, FS_EmptySet DEF SlotsAccounted, HoldersServed, InService
<1>4. CapacityRespected
  BY DEF CapacityRespected
<1>5. QueueAccounted
  BY <1>2, FS_EmptySet DEF QueueAccounted
<1>6. ExclusionBudget
  BY FS_EmptySet DEF ExclusionBudget, Failures, Backoffs
<1> QED BY <1>3, <1>4, <1>5, <1>6, TypeInit DEF IInv, NoStrandedWaiter

(* Every step preserves it. *)
LEMMA IInvStep == IInv /\ [Next]_vars => IInv'
BY TypeStep, SlotsStep, QueueStep, WaiterStep, BudgetStep
   DEF IInv, SlotsAccounted

(* The gateway keeps the inductive invariant. *)
THEOREM Invariance == Spec => []IInv
BY IInvInit, IInvStep, PTL DEF Spec

(* The variables keep their types. *)
THEOREM TypeCorrect == Spec => []TypeOK
<1>1. IInv => TypeOK
  BY DEF IInv
<1> QED BY <1>1, Invariance, PTL

(* in_flight counts exactly the slots that requests hold, and no node has more
   than parallel, whatever fails and whoever goes away. *)
THEOREM SlotsCorrect == Spec => [](SlotsAccounted /\ CapacityRespected)
<1>1. IInv => SlotsAccounted /\ CapacityRespected
  BY DEF IInv
<1> QED BY <1>1, Invariance, PTL

(* No node of any pool is ever given more requests than it has slots. *)
THEOREM CapacityCorrect == Spec => []CapacityRespected
BY SlotsCorrect, PTL

(* The queue counter is right and within max_queued. *)
THEOREM QueueCorrect == Spec => []QueueAccounted
<1>1. IInv => QueueAccounted
  BY DEF IInv
<1> QED BY <1>1, Invariance, PTL

(* No wakeup between requests is lost. *)
THEOREM NobodyStranded == Spec => []NoStrandedWaiter
<1>1. IInv => NoStrandedWaiter
  BY DEF IInv
<1> QED BY <1>1, Invariance, PTL

(* No request returns to a node that failed it; its failures are its retries. *)
THEOREM BudgetRespected == Spec => []ExclusionBudget
<1>1. IInv => ExclusionBudget
  BY DEF IInv
<1> QED BY <1>1, Invariance, PTL

(* Some node of the pool has not failed the request. *)
SomeNodeLeft == \A r \in Requests : excluded[r] # Nodes

(* A pool of more than MaxRetries nodes never has all its nodes excluded by
   one request, so that no request waits in acquire for a node it will never
   be given.  The pools deployed by default have six nodes for five retries. *)
THEOREM NeverAllExcluded ==
    ASSUME Cardinality(Nodes) > MaxRetries
    PROVE  Spec => []SomeNodeLeft
<1>1. ExclusionBudget => SomeNodeLeft
  <2>1. Cardinality(Nodes) \in Nat /\ MaxRetries \in Nat
    BY PoolAssumption, DispatchAssumption, FS_CardinalityType
  <2> QED BY <2>1 DEF ExclusionBudget, SomeNodeLeft
<1> QED BY <1>1, BudgetRespected, PTL

(* A request is only ever given a candidate: a healthy node, unless every
   healthy node has failed it. *)
LEMMA TakenFromHealthy ==
    ASSUME TypeOK, NEW r \in Requests, NEW aff, Take(r, aff),
           NEW n \in Nodes, node'[r] = n, n \notin healthy
    PROVE  healthy \subseteq excluded[r]
<1>1. n \in Relevant(excluded[r])
  BY ChosenNodes DEF Take, Candidates, TypeOK
<1> QED BY <1>1 DEF Relevant, TypeOK

(* Only acquire gives a request a node. *)
LEMMA LastResortStep ==
    ASSUME TypeOK, [Next]_vars, NEW r \in Requests, NEW n \in Nodes,
           node'[r] = n, node[r] # n, n \notin healthy
    PROVE  healthy \subseteq excluded[r]
<1>1. PICK q \in Requests : RequestStep(q)
  BY DEF Next, vars, reqVars
<1>2. q = r
  BY <1>1, StepKinds, PoolAssumption
     DEF Arrive, Retry, Wake, Reroute, FailOver, StreamOpen, StreamLine,
         Malformed, Disconnect, Finish, Acquire, Take, GiveBack, TypeOK
<1>3. \E aff : Take(r, aff)
  BY <1>1, <1>2, StepKinds, PoolAssumption
     DEF Arrive, Retry, Wake, Reroute, FailOver, StreamOpen, StreamLine,
         Malformed, Disconnect, Finish, Acquire, GiveBack, TypeOK
<1> QED BY <1>3, TakenFromHealthy

(* A node out of the healthy set is used only as a last resort. *)
THEOREM LastResort == Spec => EvictedOnlyAsLastResort
<1>1. TypeOK /\ [Next]_vars =>
        [\A r \in Requests, n \in Nodes :
            node'[r] = n /\ node[r] # n /\ n \notin healthy
                => healthy \subseteq excluded[r]]_vars
  BY LastResortStep
<1> QED BY <1>1, TypeCorrect, PTL DEF Spec, EvictedOnlyAsLastResort

-----------------------------------------------------------------------------
(* Work *)

(* While no slot is lost, a full node runs all it can. *)
LEMMA FullNodeWorks ==
    ASSUME TypeOK, SlotsAccounted, CapacityRespected, Lost = {},
           NEW n \in Nodes, ~(inFlight[n] < Parallel)
    PROVE  Working(n)
<1>1. RunningAt(n) = Holders(n)
  BY PoolAssumption DEF RunningAt, Holders, Lost
<1>2. inFlight[n] = Parallel
  BY PoolAssumption DEF TypeOK, CapacityRespected
<1> QED BY <1>1, <1>2 DEF Working, SlotsAccounted

(* A sleeper sleeps behind a node at work: its wakeup is on the way. *)
THEOREM WaitingIsForWork == Spec => []WaitsForWork
<1>1. IInv => WaitsForWork
  <2> SUFFICES ASSUME IInv, Lost = {}, NEW r \in parked, excluded[r] # Nodes
               PROVE  \E n \in Nodes \ excluded[r] : Working(n)
    BY DEF WaitsForWork
  <2>1. PICK n \in Nodes \ excluded[r] : inFlight[n] >= Parallel
    BY DEF IInv, NoStrandedWaiter
  <2>2. ~(inFlight[n] < Parallel)
    BY <2>1, PoolAssumption DEF IInv, TypeOK
  <2> QED BY <2>2, FullNodeWorks DEF IInv
<1> QED BY <1>1, Invariance, PTL

(* Only a pool without a candidate turns a request away. *)
LEMMA TurnedAwayStep ==
    ASSUME TypeOK, [Next]_vars, NEW r \in Requests,
           pc[r] # "full", pc'[r] = "full"
    PROVE  ~HasAlternate(excluded[r])
<1>1. PICK q \in Requests : RequestStep(q)
  BY DEF Next, vars, reqVars
<1>2. q = r /\ \E aff : Acquire(r, aff)
  BY <1>1, StepKinds
     DEF Arrive, Retry, Wake, Reroute, FailOver, StreamOpen, StreamLine,
         Malformed, Disconnect, Finish, Acquire, Take, Goto, TypeOK
<1> QED BY <1>2 DEF Acquire, Take, Goto, TypeOK, PoolBusy

(* Unless slots were lost, who is turned away meets real demand. *)
THEOREM RefusalIsForWork == Spec => TurnedAwayForWork
<1>1. IInv /\ [Next]_vars =>
        [Lost = {} =>
            \A r \in Requests :
                pc[r] # "full" /\ pc'[r] = "full" =>
                    \A n \in Relevant(excluded[r]) : Working(n)]_vars
  <2> SUFFICES ASSUME IInv, [Next]_vars, Lost = {}, NEW r \in Requests,
                      pc[r] # "full", pc'[r] = "full",
                      NEW n \in Relevant(excluded[r])
               PROVE  Working(n)
    OBVIOUS
  <2>1. ~HasAlternate(excluded[r])
    BY TurnedAwayStep DEF IInv
  <2>2. n \in Nodes /\ ~(inFlight[n] < Parallel)
    BY <2>1 DEF HasAlternate, Candidates, Relevant
  <2> QED BY <2>2, FullNodeWorks DEF IInv
<1> QED BY <1>1, Invariance, PTL DEF Spec, TurnedAwayForWork

(* Where nothing happens that the code has no handler for, no request leaves
   with its slot. *)
Handled == \A r \in Requests : pc[r] \notin {"malformed", "gone"}

(* A slot is lost by a malformed body or a caller that goes away, only. *)
THEOREM OnlyFaultsLoseSlots ==
    ASSUME Faults = {}
    PROVE  Spec => [](Lost = {})
<1>1. Init => Handled
  BY DEF Init, DispatchInit, Handled
<1>2. TypeOK /\ Handled /\ [Next]_vars => Handled'
  <2> SUFFICES ASSUME TypeOK, Handled, [Next]_vars, NEW r \in Requests
               PROVE  pc'[r] \notin {"malformed", "gone"}
    BY DEF Handled
  <2>1. CASE \E q \in Requests : RequestStep(q)
    BY <2>1, StepKinds
       DEF Arrive, Retry, Wake, Reroute, FailOver, StreamOpen, StreamLine,
           Malformed, Disconnect, Finish, Acquire, Take, Goto, TypeOK, Handled
  <2>2. CASE UNCHANGED pc
    BY <2>2 DEF Handled
  <2> QED BY <2>1, <2>2 DEF Next, vars, reqVars
<1>3. IInv /\ Handled => Lost = {}
  BY DEF IInv, SlotsAccounted, HoldersServed, Handled, Lost
<1> QED BY <1>1, <1>2, <1>3, Invariance, TypeCorrect, PTL DEF Spec

(* The claim that a full pool means demand, refuted where slots are lost,
   holds wherever those two faults stay away. *)
THEOREM FullIsDemand ==
    ASSUME Faults = {}
    PROVE  Spec => FullMeansDemand
<1>1. /\ Lost = {}
      /\ [Lost = {} =>
            \A r \in Requests :
                pc[r] # "full" /\ pc'[r] = "full" =>
                    \A n \in Relevant(excluded[r]) : Working(n)]_vars
      => [\A r \in Requests :
             pc[r] # "full" /\ pc'[r] = "full" =>
                 \A n \in Relevant(excluded[r]) :
                     Cardinality(RunningAt(n)) >= Parallel]_vars
  BY PoolAssumption DEF Working
<1> QED BY <1>1, OnlyFaultsLoseSlots, RefusalIsForWork, PTL
        DEF TurnedAwayForWork, FullMeansDemand

(* A request has counted no more failures than it has retries, also after its
   caller has left; the budget alone says nothing of that. *)
FailuresBounded == \A r \in Requests : Failures(r) <= MaxRetries

(* While the caller is there the budget counts; when it leaves, nothing does. *)
LEMMA FailuresStep ==
    ASSUME TypeOK, TypeOK', ExclusionBudget', FailuresBounded, [Next]_vars
    PROVE  FailuresBounded'
<1> SUFFICES ASSUME NEW r \in Requests PROVE Failures(r)' <= MaxRetries
  BY DEF FailuresBounded
<1>1. CASE pc'[r] # "gone"
  BY <1>1 DEF ExclusionBudget
<1>2. CASE pc'[r] = "gone"
  <2>1. attempt'[r] = attempt[r]
    <3>1. CASE \E q \in Requests : RequestStep(q)
      BY <1>2, <3>1, StepKinds
         DEF Arrive, Retry, Wake, Reroute, FailOver, StreamOpen, StreamLine,
             Malformed, Disconnect, Finish, Acquire, Take, Goto, TypeOK
    <3>2. CASE UNCHANGED attempt
      BY <3>2
    <3> QED BY <3>1, <3>2 DEF Next, vars, reqVars
  <2>2. attempt[r] <= MaxRetries
    BY DispatchAssumption DEF FailuresBounded, Failures, TypeOK
  <2> QED BY <1>2, <2>1, <2>2 DEF Failures, Backoffs, TypeOK
<1> QED BY <1>1, <1>2

(* The failures of every request stay within its retries. *)
LEMMA FailuresAlways == Spec => []FailuresBounded
<1>1. Init => FailuresBounded
  BY DispatchAssumption DEF Init, DispatchInit, FailuresBounded, Failures,
                            Backoffs
<1>2. IInv /\ IInv' /\ FailuresBounded /\ [Next]_vars => FailuresBounded'
  BY FailuresStep DEF IInv
<1> QED BY <1>1, <1>2, Invariance, PTL DEF Spec

(* The moves a request can make, and what they cost it. *)
LEMMA MoveKinds ==
    ASSUME TypeOK, NEW r \in Requests, RequestStep(r)
    PROVE  /\ \A q \in Requests \ {r} : pc'[q] = pc[q] /\ attempt'[q] = attempt[q]
           /\ \/ /\ pc[r] \in Backoffs /\ attempt'[r] = attempt[r] + 1
                 /\ pc'[r] \in {"queued", "sent", "full"}
              \/ /\ attempt'[r] = attempt[r]
                 /\ \/ pc'[r] = pc[r]
                    \/ PlacesLeft(r)' < PlacesLeft(r)
<1>1. CASE Arrive(r) \/ Retry(r)
  BY <1>1 DEF Arrive, Retry, Acquire, Take, Goto, TypeOK, PlacesLeft, Backoffs
<1>2. CASE Wake(r)
  BY <1>2 DEF Wake, Take, Goto, TypeOK, PlacesLeft, Backoffs
<1>3. CASE Reroute(r)
  BY <1>3 DEF Reroute, FailOver, Goto, TypeOK, PlacesLeft, Backoffs
<1>4. CASE StreamOpen(r) \/ StreamLine(r) \/ Malformed(r)
  BY <1>4 DEF StreamOpen, StreamLine, Malformed, Goto, TypeOK, PlacesLeft,
              Backoffs
<1>5. CASE Disconnect(r)
  BY <1>5 DEF Disconnect, Goto, TypeOK, PlacesLeft, Backoffs, InService
<1>6. ASSUME pc[r] \in InService,
             NEW o \in {"ok", "rejected", "unreachable", "broken"}, Finish(r, o)
      PROVE  /\ \A q \in Requests \ {r} : pc'[q] = pc[q] /\ attempt'[q] = attempt[q]
             /\ attempt'[r] = attempt[r]
             /\ PlacesLeft(r)' < PlacesLeft(r)
  BY <1>6 DEF Finish, Goto, TypeOK, PlacesLeft, Backoffs, InService
<1> QED BY <1>1, <1>2, <1>3, <1>4, <1>5, <1>6, StepKinds

(* A move costs at least one of the moves left, and the last leaves none. *)
LEMMA MovesStep ==
    ASSUME TypeOK, TypeOK', FailuresBounded, FailuresBounded', [Next]_vars,
           NEW r \in Requests
    PROVE  /\ MovesLeft(r)' \in 0..MovesLeft(r)
           /\ pc'[r] # pc[r] => MovesLeft(r)' < MovesLeft(r)
<1>0. /\ PlacesLeft(r) \in 0..6 /\ PlacesLeft(r)' \in 0..6
      /\ pc[r] \in Backoffs => PlacesLeft(r) = 1
      /\ pc'[r] \in {"queued", "sent", "full"} => PlacesLeft(r)' <= 5
  BY DEF PlacesLeft, Backoffs
<1>1. /\ attempt[r] \in Nat /\ attempt'[r] \in Nat /\ MaxRetries \in Nat
      /\ attempt[r] <= MaxRetries /\ attempt'[r] <= MaxRetries
  BY DispatchAssumption DEF TypeOK, FailuresBounded, Failures
<1>2. CASE /\ attempt'[r] = attempt[r]
           /\ pc'[r] = pc[r] \/ PlacesLeft(r)' < PlacesLeft(r)
  <2>1. pc'[r] = pc[r] => PlacesLeft(r)' = PlacesLeft(r)
    BY DEF PlacesLeft
  <2> QED BY <1>0, <1>1, <1>2, <2>1 DEF MovesLeft
<1>3. CASE /\ pc[r] \in Backoffs /\ attempt'[r] = attempt[r] + 1
           /\ pc'[r] \in {"queued", "sent", "full"}
  BY <1>0, <1>1, <1>3 DEF MovesLeft
<1>4. CASE \E q \in Requests : RequestStep(q)
  BY <1>2, <1>3, <1>4, MoveKinds
<1>5. CASE UNCHANGED <<pc, attempt>>
  BY <1>2, <1>5
<1> QED BY <1>4, <1>5 DEF Next, vars, reqVars

(* No livelock: a request makes at most 6 + 5 * MaxRetries moves. *)
THEOREM NoLivelock == Spec => MovesRunOut
<1>1. /\ IInv /\ IInv' /\ FailuresBounded /\ FailuresBounded' /\ [Next]_vars
      => [\A r \in Requests :
             /\ MovesLeft(r)' \in 0..MovesLeft(r)
             /\ pc'[r] # pc[r] => MovesLeft(r)' < MovesLeft(r)]_vars
  BY MovesStep DEF IInv
<1> QED BY <1>1, Invariance, FailuresAlways, PTL DEF Spec, MovesRunOut

-----------------------------------------------------------------------------
(* Who breaks the claim about the queue *)

(* Filling a node makes no room. *)
LEMMA TakeMakesNoRoom ==
    ASSUME TypeOK, NEW r \in Requests, NEW aff, Take(r, aff),
           UNCHANGED <<healthy, excluded>>, NEW q \in Requests,
           ~HasAlternate(excluded[q])
    PROVE  ~HasAlternate(excluded[q])'
<1>1. PICK n \in Chosen(excluded[r], aff) : Reserve(n)
  BY DEF Take
<1>2. \A m \in Nodes : inFlight'[m] < Parallel => inFlight[m] < Parallel
  BY <1>1, PoolAssumption DEF Reserve, TypeOK
<1>3. Relevant(excluded[q])' = Relevant(excluded[q])
  BY DEF Relevant
<1> QED BY <1>2, <1>3 DEF HasAlternate, Candidates, Relevant

(* acquire keeps the claim: who goes to sleep there has found no candidate. *)
LEMMA AcquireClaim ==
    ASSUME TypeOK, QueuedOnlyAtCapacity, NEW r \in Requests, NEW aff,
           Acquire(r, aff), UNCHANGED <<healthy, excluded>>
    PROVE  QueuedOnlyAtCapacity'
<1>0. \A q \in parked : q \in Requests
  BY DEF TypeOK
<1>1. CASE Take(r, aff) /\ UNCHANGED <<waiting, parked>>
  BY <1>0, <1>1, TakeMakesNoRoom DEF QueuedOnlyAtCapacity
<1>2. CASE UNCHANGED inFlight /\ parked' \subseteq parked \cup {r}
           /\ ~HasAlternate(excluded[r])
  BY <1>2 DEF QueuedOnlyAtCapacity, HasAlternate, Candidates, Relevant
<1> QED BY <1>1, <1>2 DEF Acquire, Enqueue, PoolBusy

(* No step of a request breaks the claim. *)
LEMMA RequestsKeepClaim ==
    ASSUME TypeOK, QueuedOnlyAtCapacity, NEW r \in Requests, RequestStep(r)
    PROVE  QueuedOnlyAtCapacity'
<1>0. ASSUME UNCHANGED <<healthy, inFlight, excluded>>,
             parked' \subseteq parked \cup {r},
             r \in parked' => ~HasAlternate(excluded[r])
      PROVE  QueuedOnlyAtCapacity'
  BY <1>0 DEF QueuedOnlyAtCapacity, HasAlternate, Candidates, Relevant
<1>1. CASE Arrive(r)
  BY <1>1, AcquireClaim DEF Arrive
<1>2. CASE Retry(r)
  BY <1>2, AcquireClaim DEF Retry
<1>3. CASE Wake(r)
  <2>1. CASE Take(r, affinity[r]) /\ Dequeue(r)
    <3>1. \A q \in parked' : q \in parked /\ q \in Requests
      BY <2>1 DEF Dequeue, TypeOK
    <3> QED BY <1>3, <2>1, <3>1, TakeMakesNoRoom DEF Wake, QueuedOnlyAtCapacity
  <2>2. CASE /\ Repark(r, excluded[r])
             /\ UNCHANGED <<inFlight, waiting, node, pc>>
    BY <1>0, <1>3, <2>2 DEF Wake, Repark
  <2> QED BY <1>3, <2>1, <2>2 DEF Wake
<1>4. CASE Reroute(r)
  BY <1>4 DEF Reroute, FailOver, GiveBack, Release, QueuedOnlyAtCapacity
<1>5. CASE \/ StreamOpen(r) \/ StreamLine(r)
           \/ Malformed(r) \/ Disconnect(r)
  BY <1>0, <1>5
     DEF StreamOpen, StreamLine, Malformed, Disconnect, Dequeue, poolVars,
         QueuedOnlyAtCapacity
<1>6. ASSUME NEW o, Finish(r, o)
      PROVE  QueuedOnlyAtCapacity'
  BY <1>6 DEF Finish, GiveBack, Release, QueuedOnlyAtCapacity
<1> QED BY <1>1, <1>2, <1>3, <1>4, <1>5, <1>6, StepKinds

(* A request sleeps beside a free node it may use only where the monitor has
   left it: the missing notification there is the whole of the defect. *)
THEOREM OnlyTheMonitorBreaks == Spec => BrokenByMonitorOnly
<1>1. TypeOK /\ [Next]_vars =>
        [QueuedOnlyAtCapacity /\ ~QueuedOnlyAtCapacity' => Apply]_vars
  <2> SUFFICES ASSUME TypeOK, [Next]_vars, QueuedOnlyAtCapacity,
                      ~QueuedOnlyAtCapacity'
               PROVE  Apply
    OBVIOUS
  <2>1. ~\E r \in Requests : RequestStep(r)
    BY RequestsKeepClaim
  <2>2. ~UNCHANGED <<poolVars, excluded>>
    BY DEF poolVars, QueuedOnlyAtCapacity, HasAlternate, Candidates, Relevant
  <2> QED BY <2>1, <2>2 DEF Next, MonitorStep, LoopStep, Probe, StartRound,
                            Flip, vars, reqVars
<1> QED BY <1>1, TypeCorrect, PTL DEF Spec, BrokenByMonitorOnly
-----------------------------------------------------------------------------
(* What makes the healthy set wrong *)

(* Nobody has passed before its probe of the round is answered. *)
RoundClean ==
    /\ passed \cap pending = {}
    /\ monitor = "sleeping" => passed = {} /\ pending = {}

(* The loop starts each round with no answers and ends it with all. *)
LEMMA RoundStep ==
    ASSUME TypeOK, RoundClean, [Next]_vars
    PROVE  RoundClean'
<1>1. CASE UNCHANGED monVars
  BY <1>1 DEF monVars, RoundClean
<1>2. ASSUME NEW n \in Nodes, Probe(n)
      PROVE  RoundClean'
  BY <1>2 DEF Probe, RoundClean
<1>3. CASE Apply
  BY <1>3 DEF Apply, RoundClean
<1>4. CASE StartRound
  BY <1>4 DEF StartRound, RoundClean
<1>5. ASSUME NEW n \in Nodes, Flip(n)
      PROVE  RoundClean'
  BY <1>5 DEF Flip, RoundClean
<1> QED BY <1>1, <1>2, <1>3, <1>4, <1>5
        DEF Next, MonitorStep, LoopStep, vars, monVars

(* So every round is clean. *)
LEMMA RoundsClean == Spec => []RoundClean
<1>1. Init => RoundClean
  BY DEF Init, MonitorInit, RoundClean
<1> QED BY <1>1, RoundStep, TypeCorrect, PTL DEF Spec

(* A request takes a node out of the healthy set only when that node has
   failed it, and puts none in. *)
LEMMA EvictionsBlame ==
    ASSUME TypeOK, HoldersServed, ExclusionBudget, NEW r \in Requests, RequestStep(r)
    PROVE  healthy' \subseteq healthy /\ healthy \ healthy' \subseteq Blamed
<1>1. CASE UNCHANGED healthy
  BY <1>1
<1>2. CASE Reroute(r)
  <2>1. /\ pc[r] \in InService /\ healthy' = healthy \ {node[r]}
        /\ excluded' = [excluded EXCEPT ![r] = @ \cup {node[r]}]
    BY <1>2 DEF Reroute, FailOver, Evict, InService
  <2>2. node[r] \in Nodes /\ node[r] \notin excluded[r]
    BY <2>1 DEF HoldersServed, ExclusionBudget
  <2>3. node[r] \in excluded'[r] \ excluded[r]
    BY <2>1, <2>2 DEF TypeOK
  <2> QED BY <2>1, <2>2, <2>3 DEF Blamed
<1> QED BY <1>1, <1>2, StepKinds
        DEF Arrive, Retry, Wake, StreamOpen, StreamLine, Malformed, Disconnect,
            Finish, poolVars

(* Each step accounts for the mistakes it makes. *)
LEMMA MistakesStep ==
    ASSUME TypeOK, HoldersServed, ExclusionBudget, RoundClean, [Next]_vars
    PROVE  /\ Outdated' \subseteq Outdated \cup Flipped
           /\ RoundEnds => Misjudged' \subseteq Outdated
           /\ ~RoundEnds => Misjudged' \subseteq Misjudged \cup Flipped \cup Blamed
<1>1. ASSUME NEW r \in Requests, RequestStep(r), UNCHANGED monVars
      PROVE  /\ Outdated' = Outdated /\ ~RoundEnds
             /\ Misjudged' \subseteq Misjudged \cup Blamed
  <2>1. healthy' \subseteq healthy /\ healthy \ healthy' \subseteq Blamed
    BY <1>1, EvictionsBlame
  <2> QED BY <1>1, <2>1 DEF monVars, Outdated, RoundEnds, Misjudged
<1>2. ASSUME NEW n \in Nodes, Probe(n)
      PROVE  Outdated' \subseteq Outdated /\ ~RoundEnds /\ Misjudged' = Misjudged
  BY <1>2 DEF Probe, poolVars, Outdated, RoundEnds, Misjudged, RoundClean, TypeOK
<1>3. CASE Apply
  BY <1>3 DEF Apply, Outdated, RoundEnds, Misjudged
<1>4. CASE StartRound
  BY <1>4 DEF StartRound, poolVars, Outdated, RoundEnds, Misjudged
<1>5. ASSUME NEW n \in Nodes, Flip(n)
      PROVE  /\ Outdated' \subseteq Outdated \cup Flipped /\ ~RoundEnds
             /\ Misjudged' \subseteq Misjudged \cup Flipped
  BY <1>5 DEF Flip, poolVars, Outdated, RoundEnds, Misjudged, Flipped
<1>6. CASE UNCHANGED vars
  BY <1>6 DEF vars, poolVars, monVars, Outdated, RoundEnds, Misjudged
<1> QED BY <1>1, <1>2, <1>3, <1>4, <1>5, <1>6 DEF Next, MonitorStep, LoopStep

(* The healthy set is wrong about a node only if its health has changed since
   its answer, or a request that it failed evicted it. *)
THEOREM HealthAccountable == Spec => MistakesHaveCauses
<1>1. IInv /\ RoundClean /\ [Next]_vars =>
        [/\ Outdated' \subseteq Outdated \cup Flipped
         /\ RoundEnds => Misjudged' \subseteq Outdated
         /\ ~RoundEnds => Misjudged' \subseteq Misjudged \cup Flipped \cup Blamed]_vars
  BY MistakesStep DEF IInv, SlotsAccounted
<1> QED BY <1>1, Invariance, RoundsClean, PTL DEF Spec, MistakesHaveCauses
=============================================================================

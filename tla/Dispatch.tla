------------------------------- MODULE Dispatch -------------------------------
(***************************************************************************)
(* gateway/router.py, submit_inference and stream_inference: the life of a *)
(* request in a pool, from the reservation of a slot through failures,     *)
(* evictions and retries on other nodes to the answer its caller gets.     *)
(* The durations of the backoffs and of the transfers are abstracted.      *)
(***************************************************************************)
EXTENDS NodePool

CONSTANTS Requests,    \* calls of submit_inference and stream_inference
          Streams,     \* those of stream_inference
          MaxRetries,  \* _MAX_RETRIES
          Home,        \* ips[hash(key) % len(ips)] of a request, or NoNode
          Faults       \* of {"malformed", "disconnect"}: what can go wrong
                       \* that the code has no handler for

ASSUME DispatchAssumption ==
    /\ IsFiniteSet(Requests) /\ Streams \subseteq Requests
    /\ MaxRetries \in Nat
    /\ Home \in [Requests -> Nodes \cup {NoNode}]
    /\ Faults \subseteq {"malformed", "disconnect"}

VARIABLES pc,        \* where the coroutine of a request is suspended
          node,      \* the node whose slot it reserved and did not return
          excluded,  \* the nodes that failed it
          attempt,   \* its retries so far
          affinity   \* its preferred node, chosen when it arrived

reqVars == <<pc, node, excluded, attempt, affinity>>

\* sent: posted, no response yet; open: a stream whose headers came;
\* streaming: a stream that has yielded a line.
InService == {"sent", "open", "streaming"}
Backoffs  == {"fast", "slow"}
Outcomes  == {"ok", "full", "rejected", "unreachable", "broken",
              "malformed", "gone"}

DispatchInit ==
    /\ pc = [r \in Requests |-> "idle"]
    /\ node = [r \in Requests |-> NoNode]
    /\ excluded = [r \in Requests |-> {}]
    /\ attempt = [r \in Requests |-> 0]
    /\ affinity = [r \in Requests |-> NoNode]

Goto(r, label) == pc' = [pc EXCEPT ![r] = label]

-----------------------------------------------------------------------------
(* Getting a slot *)

Take(r, aff) ==
    \E n \in Chosen(excluded[r], aff) :
        /\ Reserve(n)
        /\ node' = [node EXCEPT ![r] = n]
        /\ Goto(r, "sent")

Acquire(r, aff) ==
    \/ /\ Take(r, aff)
       /\ UNCHANGED <<waiting, parked>>
    \/ /\ Enqueue(r, excluded[r])
       /\ Goto(r, "queued")
       /\ UNCHANGED <<inFlight, node>>
    \/ /\ PoolBusy(excluded[r])
       /\ Goto(r, "full")
       /\ UNCHANGED <<inFlight, waiting, parked, node>>

Arrive(r) ==
    /\ pc[r] = "idle"
    /\ \E a \in AffinityNode(Home[r]) :
          /\ affinity' = [affinity EXCEPT ![r] = a]
          /\ Acquire(r, a)
    /\ UNCHANGED <<healthy, excluded, attempt>>

\* Faulty variant: the loop does not count.
RetryUncounted(r) ==
    /\ pc[r] \in Backoffs
    /\ Acquire(r, affinity[r])
    /\ UNCHANGED <<healthy, excluded, attempt, affinity>>

Retry(r) ==
    /\ pc[r] \in Backoffs
    /\ attempt' = [attempt EXCEPT ![r] = @ + 1]
    /\ Acquire(r, affinity[r])
    /\ UNCHANGED <<healthy, excluded, affinity>>

\* A notified waiter runs: it gets a slot or waits again.
Wake(r) ==
    /\ pc[r] = "queued" /\ r \notin parked
    /\ \/ Take(r, affinity[r]) /\ Dequeue(r)
       \/ Repark(r, excluded[r]) /\ UNCHANGED <<inFlight, waiting, node, pc>>
    /\ UNCHANGED <<healthy, excluded, attempt, affinity>>

-----------------------------------------------------------------------------
(* The node answers, or fails *)

GiveBack(r) ==
    /\ Release(node[r])
    /\ node' = [node EXCEPT ![r] = NoNode]

Finish(r, outcome) ==
    /\ GiveBack(r)
    /\ Goto(r, outcome)
    /\ UNCHANGED <<healthy, waiting, excluded, attempt, affinity>>

SubmitOk(r) == r \notin Streams /\ pc[r] = "sent" /\ Finish(r, "ok")

\* A status that is not retried; for a stream, any error status once the
\* retries are used up.
Rejected(r) == pc[r] = "sent" /\ Finish(r, "rejected")

\* One failure: the slot goes back, the node leaves the healthy set and is
\* not tried again by this request, which sleeps and then retries.
FailOver(r, from, limit, failed) ==
    /\ pc[r] \in from
    /\ attempt[r] < limit
    /\ GiveBack(r)
    /\ Evict(node[r])
    /\ excluded' = [excluded EXCEPT ![r] = @ \cup failed]
    /\ Goto(r, IF HasAlternate(excluded[r])' THEN "fast" ELSE "slow")
    /\ UNCHANGED <<waiting, attempt, affinity>>

\* Faulty variants: also after output was passed on; one retry too many; the
\* failed node forgotten; the node read after it was given back.
RerouteAfterOutput(r) == FailOver(r, InService, MaxRetries, {node[r]})
RerouteOnceMore(r) == FailOver(r, {"sent", "open"}, MaxRetries + 1, {node[r]})
RerouteForgetful(r) == FailOver(r, {"sent", "open"}, MaxRetries, {})
RerouteTooLate(r) == FailOver(r, {"sent", "open"}, MaxRetries, {NoNode})
\* A transport error or a retryable status, before any byte was passed on.
Reroute(r) == FailOver(r, {"sent", "open"}, MaxRetries, {node[r]})

\* Faulty variant: no release on the path that gives up.
GiveUpHolding(r) ==
    /\ pc[r] \in {"sent", "open"}
    /\ attempt[r] >= MaxRetries
    /\ Goto(r, "unreachable")
    /\ UNCHANGED <<poolVars, node, excluded, attempt, affinity>>

GiveUp(r) ==
    /\ pc[r] \in {"sent", "open"}
    /\ attempt[r] >= MaxRetries
    /\ Finish(r, "unreachable")

StreamOpen(r) ==
    /\ r \in Streams /\ pc[r] = "sent"
    /\ Goto(r, "open")
    /\ UNCHANGED <<poolVars, node, excluded, attempt, affinity>>

\* The first line that is passed on to the caller; later ones change nothing.
StreamLine(r) ==
    /\ pc[r] = "open"
    /\ Goto(r, "streaming")
    /\ UNCHANGED <<poolVars, node, excluded, attempt, affinity>>

StreamEnd(r) == pc[r] \in {"open", "streaming"} /\ Finish(r, "ok")

\* A transport error after a line, or any other exception of a stream.
StreamBroken(r) == pc[r] \in {"open", "streaming"} /\ Finish(r, "broken")

-----------------------------------------------------------------------------
(* What no handler sees *)

\* A 200 whose body is not JSON: orjson's exception passes both clauses of
\* submit_inference, and the release below them is not reached.
Malformed(r) ==
    /\ "malformed" \in Faults
    /\ r \notin Streams /\ pc[r] = "sent"
    /\ Goto(r, "malformed")
    /\ UNCHANGED <<poolVars, node, excluded, attempt, affinity>>

\* The caller of a stream goes away and its coroutine is cancelled.  acquire
\* has a finally clause; CancelledError is no Exception, so the slot of a
\* stream in service stays reserved.
Disconnect(r) ==
    /\ "disconnect" \in Faults
    /\ r \in Streams
    /\ \/ pc[r] = "queued" /\ Dequeue(r)
       \/ pc[r] \in InService \cup Backoffs /\ UNCHANGED <<waiting, parked>>
    /\ Goto(r, "gone")
    /\ UNCHANGED <<healthy, inFlight, node, excluded, attempt, affinity>>

-----------------------------------------------------------------------------
\* The node's side of a request: httpx's timeouts bound each wait for it.
Answer(r) ==
    \/ SubmitOk(r) \/ Rejected(r) \/ Reroute(r) \/ GiveUp(r)
    \/ StreamOpen(r) \/ StreamLine(r) \/ StreamEnd(r) \/ StreamBroken(r)

RequestStep(r) ==
    \/ Arrive(r) \/ Retry(r) \/ Wake(r)
    \/ Answer(r)
    \/ Malformed(r) \/ Disconnect(r)
=============================================================================

------------------------------ MODULE Benchmark ------------------------------
(***************************************************************************)
(* scripts/benchmark.py: the load each mode puts on the gateway, alone on  *)
(* it, and what the gateway's limits make of it.  A run works through its  *)
(* scenarios, a scenario sends its requests in batches, and a batch is     *)
(* over when each of its requests has a result; but the gateway may still  *)
(* be busy with a request that has one.  Requests are alike: they are      *)
(* counted, by place.                                                      *)
(***************************************************************************)
EXTENDS Integers, Sequences

CONSTANTS Modes,        \* values of --mode that are run
          Requests,     \* --requests
          Concurrency,  \* --concurrency
          Slots,        \* per pool: requests its nodes can run at once
          QueueLimit,   \* per pool: requests that may wait for a slot
          RateLimit,    \* per pool: requests of a user in a minute
          MaxTrouble    \* bound: failures and requests given up

Pools == {"text", "multimodal"}

AtLeast(n, k) == IF n < k THEN k ELSE n
AtMost(n, k) == IF n < k THEN n ELSE k

-----------------------------------------------------------------------------
(* The scenarios of each mode *)

Scenario(p, s, n, c) == [pool |-> p, stream |-> s, size |-> n, width |-> c]

\* n requests in batches of c, an asyncio.gather each.
Batches(n, c) == Scenario("text", FALSE, n, c)
InTurn(n) == Batches(n, 1)
AtOnce(n) == Batches(n, n)
Streams(n) == Scenario("text", TRUE, n, n)
Images(n) == Scenario("multimodal", FALSE, n, 1)

Distribution == <<AtOnce(6)>>
Text == <<InTurn(AtLeast(Requests, 3)), InTurn(2)>>
MultiTurn == <<InTurn(3)>>
Thinking == LET n == AtLeast(Requests \div 2, 1) IN <<InTurn(n), InTurn(n)>>
Affinity == LET n == AtLeast(Requests, 4) IN <<InTurn(n), InTurn(n)>>
Sampling == [i \in 1..5 |-> InTurn(1)]
Streaming == LET n == AtMost(Requests, 2) IN <<Streams(n), Streams(n)>>
Concurrent == <<Batches(Requests, Concurrency)>>
Routing == LET n == AtLeast(Requests, 4)
           IN <<InTurn(n), InTurn(n), AtOnce(AtMost(n, 8)), AtOnce(AtMost(n, 8))>>
QueuePressure == <<AtOnce(2), AtOnce(4), AtOnce(8), AtOnce(12)>>
Throughput == <<Batches(4, 1), Batches(4, 2), Batches(8, 4), Batches(16, 8)>>
Image == <<Images(2), Images(2), Images(1), Images(1)>>

\* All of them but the concurrent one.
All == Distribution \o Text \o MultiTurn \o Thinking \o Affinity \o Sampling
         \o Streaming \o Routing \o QueuePressure \o Throughput \o Image

Plan == [all |-> All, distribution |-> Distribution, text |-> Text,
         multiturn |-> MultiTurn, thinking |-> Thinking, affinity |-> Affinity,
         sampling |-> Sampling, streaming |-> Streaming,
         concurrent |-> Concurrent, routing |-> Routing,
         queue |-> QueuePressure, throughput |-> Throughput, image |-> Image]

ASSUME BenchmarkAssumption ==
    /\ Modes \subseteq DOMAIN Plan
    /\ Requests \in Nat \ {0} /\ Concurrency \in Nat \ {0} /\ MaxTrouble \in Nat
    /\ Slots \in [Pools -> Nat \ {0}] /\ QueueLimit \in [Pools -> Nat]
    /\ RateLimit \in [Pools -> Nat]

-----------------------------------------------------------------------------
VARIABLES phase,     \* "health", "running", "done", or "failed" at the start
          todo,      \* the scenario under way and those to come
          unsent,    \* requests of the scenario that are still to be sent
          results,   \* those that have a result
          count,     \* requests by whether the script still waits for them,
                     \* pool and place
          left,      \* slots of streams the script has ended
          degraded,  \* some node of the pool takes no requests
          recent,    \* requests of the last minute, as the limiter counts
          asked,     \* history: requests the limiter has judged
          refused,   \* history: those it turned away, and those the pool did
          trouble

scriptVars == <<phase, todo, unsent>>
limiterVars == <<recent, asked>>
vars == <<scriptVars, results, count, left, degraded, limiterVars, refused, trouble>>

Owners == {"script", "nobody"}
Places == {"sent", "slot", "queue", "paused"}

Now == Head(todo)
Waiting(w, p) == count[w][p]["sent"] + count[w][p]["slot"]
                   + count[w][p]["queue"] + count[w][p]["paused"]
Outstanding == Waiting("script", "text") + Waiting("script", "multimodal")
Taken(p) == count["script"][p]["slot"] + count["nobody"][p]["slot"] + left[p]
Queued(p) == count["script"][p]["queue"] + count["nobody"][p]["queue"]

None == [w \in Owners |-> [p \in Pools |-> [l \in Places |-> 0]]]

Init ==
    /\ phase = "health"
    /\ \E mode \in Modes : todo = Plan[mode]
    /\ unsent = Now.size /\ results = 0
    /\ count = None /\ left = [p \in Pools |-> 0]
    /\ degraded = [p \in Pools |-> FALSE]
    /\ recent = [p \in Pools |-> 0] /\ asked = [p \in Pools |-> 0]
    /\ refused = [p \in Pools |-> [limit |-> 0, full |-> 0]]
    /\ trouble = 0

Trouble == trouble < MaxTrouble /\ trouble' = trouble + 1
gatewayVars == <<left, degraded, limiterVars, refused>>

-----------------------------------------------------------------------------
(* The script *)

CheckHealth ==
    /\ phase = "health"
    /\ phase' \in {"running", "failed"}
    /\ UNCHANGED <<todo, unsent, results, count, gatewayVars, trouble>>

Send(n, rest) ==
    /\ phase = "running" /\ unsent > 0
    /\ unsent' = rest
    /\ count' = [count EXCEPT !["script"][Now.pool]["sent"] = @ + n]
    /\ UNCHANGED <<phase, todo, results, gatewayVars, trouble>>

Cut == AtMost(Now.width, unsent)

\* Faulty variants: the last batch is not cut to what is left; a batch does
\* not wait for the one before.
SendBatchWhole == Outstanding = 0 /\ Send(Now.width, AtLeast(unsent - Now.width, 0))
SendBatchEarly == Send(Cut, unsent - Cut)

\* The next batch, when the one before is over.
SendBatch == Outstanding = 0 /\ Send(Cut, unsent - Cut)

Advance ==
    /\ phase = "running" /\ unsent = 0 /\ Outstanding = 0
    /\ todo' = Tail(todo) /\ results' = 0
    /\ IF todo' = <<>> THEN phase' = "done" /\ unsent' = 0
                       ELSE phase' = phase /\ unsent' = Head(todo').size
    /\ UNCHANGED <<count, gatewayVars, trouble>>

\* Faulty variant: it waits until the gateway has ended the streams.
EndScenarioIdle == Advance /\ \A p \in Pools : left[p] = 0

EndScenario == Advance

-----------------------------------------------------------------------------
(* A request *)

Move(w, p, from, to) ==
    count' = [count EXCEPT ![w][p][from] = @ - 1, ![w][p][to] = @ + 1]

\* It ends at the gateway; the script, if it still waits, has a result.
Finish(w, p, from) ==
    /\ count' = [count EXCEPT ![w][p][from] = @ - 1]
    /\ results' = IF w = "script" THEN results + 1 ELSE results

Room(p) == Taken(p) < Slots[p]

\* No node that the request may go to has a slot; one that is tried again may
\* not go where it has failed.
Saturated(p, from) == ~Room(p) \/ degraded[p] \/ from = "paused"

\* NodePool.acquire.
Acquire(w, p, from) ==
    \/ /\ Room(p)
       /\ Move(w, p, from, "slot") /\ UNCHANGED <<results, refused>>
    \/ /\ Saturated(p, from) /\ Queued(p) < QueueLimit[p]
       /\ Move(w, p, from, "queue") /\ UNCHANGED <<results, refused>>
    \/ /\ Saturated(p, from) /\ Queued(p) >= QueueLimit[p]
       /\ Finish(w, p, from)
       /\ refused' = [refused EXCEPT ![p].full = @ + 1]

JudgedBy(w, p, limit) ==
    /\ count[w][p]["sent"] > 0
    /\ recent' = [recent EXCEPT ![p] = @ + 1]
    /\ asked' = [asked EXCEPT ![p] = @ + 1]
    /\ IF recent[p] < limit
       THEN Acquire(w, p, "sent")
       ELSE Finish(w, p, "sent") /\ refused' = [refused EXCEPT ![p].limit = @ + 1]
    /\ UNCHANGED <<scriptVars, left, degraded, trouble>>

\* Faulty variant: the request that reaches the limit is refused.
ArriveAtLimit(w, p) == JudgedBy(w, p, RateLimit[p] - 1)

\* check_rate_limit; a request that is refused counts as well.
Arrive(w, p) == JudgedBy(w, p, RateLimit[p])

\* An entry leaves the limiter's window.
AgeOut(p) ==
    /\ recent[p] > 0
    /\ recent' = [recent EXCEPT ![p] = @ - 1]
    /\ UNCHANGED <<scriptVars, results, count, left, degraded, asked, refused, trouble>>

LeaveQueue(w, p) ==
    /\ count[w][p]["queue"] > 0 /\ Room(p)
    /\ Move(w, p, "queue", "slot")
    /\ UNCHANGED <<scriptVars, results, gatewayVars, trouble>>

\* A node fails and is evicted; the request is tried again after a pause.
FailOver(w, p) ==
    /\ count[w][p]["slot"] > 0 /\ Trouble
    /\ Move(w, p, "slot", "paused")
    /\ degraded' = [degraded EXCEPT ![p] = TRUE]
    /\ UNCHANGED <<scriptVars, results, left, limiterVars, refused>>

Retry(w, p) ==
    /\ count[w][p]["paused"] > 0
    /\ Acquire(w, p, "paused")
    /\ UNCHANGED <<scriptVars, left, degraded, limiterVars, trouble>>

\* The answer, or an error.  Of a stream the script reads as far as [DONE]: it
\* goes on while the gateway still has to end the stream.
Answer(w, p) ==
    /\ count[w][p]["slot"] > 0
    /\ Finish(w, p, "slot")
    /\ left' = IF w = "script" /\ Now.stream THEN [left EXCEPT ![p] = @ + 1] ELSE left
    /\ UNCHANGED <<scriptVars, degraded, limiterVars, refused, trouble>>

Release(p, n) ==
    /\ left[p] > 0
    /\ left' = [left EXCEPT ![p] = @ - n]
    /\ UNCHANGED <<scriptVars, results, count, degraded, limiterVars, refused, trouble>>

\* Faulty variant: the slot is released twice.
EndStreamTwice(p) == Release(p, 2)

\* The gateway ends a stream, unless it loses the slot.
EndStream(p) == Release(p, 1)

\* A connection fails, or the script's timeout is over.  The gateway goes on
\* with a request it has received, unless it streams: then it is cancelled, and
\* its slot is left.
GiveUp(p, from) ==
    /\ count["script"][p][from] > 0 /\ Trouble
    /\ \/ /\ from = "sent" \/ ~Now.stream
          /\ count' = [count EXCEPT !["script"][p][from] = @ - 1,
                                    !["nobody"][p][from] = @ + 1]
          /\ results' = results + 1 /\ UNCHANGED left
       \/ /\ from = "sent" \/ Now.stream
          /\ Finish("script", p, from)
          /\ left' = IF from = "slot" THEN [left EXCEPT ![p] = @ + 1] ELSE left
    /\ UNCHANGED <<scriptVars, degraded, limiterVars, refused>>

\* The health monitor finds a node down, or all of them up.
Probe(p) ==
    /\ \/ ~degraded[p] /\ Trouble
       \/ degraded[p] /\ UNCHANGED trouble
    /\ degraded' = [degraded EXCEPT ![p] = ~@]
    /\ UNCHANGED <<scriptVars, results, count, left, limiterVars, refused>>

-----------------------------------------------------------------------------
Script == CheckHealth \/ SendBatch \/ EndScenario
Gateway(w, p) == Arrive(w, p) \/ LeaveQueue(w, p) \/ Retry(w, p) \/ Answer(w, p)

Next ==
    \/ Script
    \/ \E w \in Owners, p \in Pools : Gateway(w, p) \/ FailOver(w, p)
    \/ \E p \in Pools : \/ AgeOut(p) \/ EndStream(p) \/ Probe(p)
                        \/ \E from \in Places : GiveUp(p, from)

Spec == Init /\ [][Next]_vars

\* The gateway answers every request; it need not end a stream.
FairSpec ==
    /\ Spec /\ WF_vars(Script)
    /\ \A w \in Owners, p \in Pools : WF_vars(Gateway(w, p))

-----------------------------------------------------------------------------
Phases == {"health", "running", "done", "failed"}
Scenarios == [pool : Pools, stream : BOOLEAN, size : Nat \ {0}, width : Nat \ {0}]

(* Types; there is a scenario under way until the run is done. *)
TypeOK ==
    /\ phase \in Phases /\ (phase = "done" <=> todo = <<>>)
    /\ todo \in Seq(Scenarios)
    /\ unsent \in Nat /\ results \in Nat
    /\ count \in [Owners -> [Pools -> [Places -> Nat]]]
    /\ left \in [Pools -> Nat] /\ degraded \in [Pools -> BOOLEAN]
    /\ recent \in [Pools -> Nat] /\ asked \in [Pools -> Nat]
    /\ refused \in [Pools -> [limit : Nat, full : Nat]]
    /\ trouble \in 0..MaxTrouble

(* "ok/n succeeded, fail failed": a scenario has one result for each request
   it announces, whatever becomes of them, and never has more of them under
   way than its concurrency. *)
ResultsComplete ==
    IF phase = "done" THEN Outstanding = 0
    ELSE /\ results + Outstanding + unsent = Now.size
         /\ Outstanding <= Now.width

(* What the script has stopped waiting for and the gateway has not ended. *)
Lingering(p) == Waiting("nobody", p) + left[p]
Offered(p) == Lingering(p) + (IF phase = "running" /\ Now.pool = p THEN Now.width ELSE 0)

(* What the latencies are taken to mean: on healthy nodes a request waits for
   a slot only in a scenario that has more requests than there are slots, or
   while requests of an earlier one linger; and the pool is full for it only
   if they exceed the queue as well. *)
Troubled(p) == degraded[p] \/ \E w \in Owners : count[w][p]["paused"] > 0
CrowdedOut(p) ==
    /\ Queued(p)' > Queued(p) => Troubled(p) \/ Offered(p) > Slots[p]
    /\ refused'[p].full # refused[p].full
          => Troubled(p) \/ Offered(p) > Slots[p] + QueueLimit[p]
QueuedOnlyOversubscribed == [][\A p \in Pools : CrowdedOut(p)]_vars

(* A run whose requests to a pool stay within the user's limit is not
   throttled, however fast they come; beyond that each refusal is one request
   over it. *)
ThrottledOnlyBeyondLimit ==
    \A p \in Pools : refused[p].limit = 0 \/ refused[p].limit <= asked[p] - RateLimit[p]

(* The work of a scenario runs out: whatever the script and the gateway do with
   requests, refusals, retries and queueing again included, brings the scenario
   nearer to its end, and none comes back.  Only trouble prolongs it, and pays
   for that. *)
Effort(w, p) == 3 * count[w][p]["sent"] + 3 * count[w][p]["paused"]
                  + 2 * count[w][p]["queue"] + count[w][p]["slot"]
Work == (IF phase = "health" THEN 1 ELSE 0) + 4 * unsent
          + Effort("script", "text") + Effort("script", "multimodal")
          + Effort("nobody", "text") + Effort("nobody", "multimodal")
          + 3 * (MaxTrouble - trouble)
WorkRunsOut ==
    [][\/ Len(todo') < Len(todo)
       \/ /\ todo' = todo /\ Work' \in 0..Work
          /\ <<phase, unsent, count>>' # <<phase, unsent, count>> => Work' < Work]_vars

(* The run ends, though streams may leave slots behind for good. *)
Finishes == <>(phase \in {"done", "failed"})
=============================================================================

--------------------------- MODULE BenchmarkProofs ---------------------------
(***************************************************************************)
(* What a benchmark run puts on the gateway, for every mode and option and *)
(* for pools, queues and limits of any size.                               *)
(***************************************************************************)
EXTENDS Benchmark, SequenceTheorems, TLAPS

Counts == [Owners -> [Pools -> [Places -> Nat]]]

\* The script waits for requests to one pool only, that of its scenario.
OnePool ==
    \A p \in Pools :
        Waiting("script", p) > 0 => phase = "running" /\ Now.pool = p

\* What the limiter remembers it has judged.
Remembered == \A p \in Pools : recent[p] <= asked[p]

IInv == /\ TypeOK /\ ResultsComplete /\ OnePool
        /\ Remembered /\ ThrottledOnlyBeyondLimit

\* A step that leaves the script's requests, and one that ends one of them.
Kept == results' = results /\ \A q \in Pools : Waiting("script", q)' = Waiting("script", q)
Settled(p) ==
    /\ results' = results + 1
    /\ Waiting("script", p)' = Waiting("script", p) - 1 /\ Waiting("script", p) > 0
    /\ \A q \in Pools \ {p} : Waiting("script", q)' = Waiting("script", q)

-----------------------------------------------------------------------------
(* The plans *)

(* Every mode is a sequence of scenarios with at least one request each. *)
LEMMA PlanTypes == \A mode \in DOMAIN Plan : Plan[mode] \in Seq(Scenarios) \ {<<>>}
<1> DEFINE Plans == Seq(Scenarios) \ {<<>>}
<1>1. \A n, k \in Nat \ {0} : /\ AtLeast(n, k) \in Nat \ {0}
                             /\ AtMost(n, k) \in Nat \ {0}
  BY DEF AtLeast, AtMost
<1>2. \A n, c \in Nat \ {0} : Batches(n, c) \in Scenarios
  BY DEF Batches, Scenario, Scenarios, Pools
<1>3. \A n \in Nat \ {0} : /\ InTurn(n) \in Scenarios /\ AtOnce(n) \in Scenarios
                          /\ Streams(n) \in Scenarios /\ Images(n) \in Scenarios
  BY <1>2 DEF InTurn, AtOnce, Streams, Images, Scenario, Scenarios, Pools
<1>4. Requests \in Nat \ {0} /\ Concurrency \in Nat \ {0}
  BY BenchmarkAssumption
<1>5. \A a \in Scenarios : <<a>> \in Plans
  OBVIOUS
<1>6. \A a, b \in Scenarios : <<a, b>> \in Plans
  OBVIOUS
<1>7. \A a, b, c, d \in Scenarios : <<a, b, c, d>> \in Plans
  OBVIOUS
<1>8. \A s, t \in Plans : s \o t \in Plans
  OBVIOUS
<1>9. Distribution \in Plans /\ MultiTurn \in Plans
  BY <1>3, <1>5 DEF Distribution, MultiTurn
<1>10. Text \in Plans
  BY <1>1, <1>3, <1>4, <1>6 DEF Text
<1>11. Thinking \in Plans
  <2>1. AtLeast(Requests \div 2, 1) \in Nat \ {0}
    BY <1>4 DEF AtLeast
  <2> QED BY <1>3, <1>6, <2>1 DEF Thinking
<1>12. Affinity \in Plans
  BY <1>1, <1>3, <1>4, <1>6 DEF Affinity
<1>13. Sampling \in Plans
  BY <1>3 DEF Sampling
<1>14. Streaming \in Plans
  BY <1>1, <1>3, <1>4, <1>6 DEF Streaming
<1>15. Concurrent \in Plans
  BY <1>2, <1>4, <1>5 DEF Concurrent
<1>16. Routing \in Plans
  <2>1. AtLeast(Requests, 4) \in Nat \ {0}
    BY <1>1, <1>4
  <2>2. AtMost(AtLeast(Requests, 4), 8) \in Nat \ {0}
    BY <1>1, <2>1
  <2> QED BY <1>3, <1>7, <2>1, <2>2 DEF Routing
<1>17. QueuePressure \in Plans
  BY <1>3, <1>7 DEF QueuePressure
<1>18. Throughput \in Plans
  BY <1>2, <1>7 DEF Throughput
<1>19. Image \in Plans
  BY <1>3, <1>7 DEF Image
<1> HIDE DEF Plans
<1>20. All \in Plans
  BY <1>8, <1>9, <1>10, <1>11, <1>12, <1>13, <1>14, <1>16, <1>17, <1>18, <1>19
     DEF All
<1>21. \A mode \in DOMAIN Plan : Plan[mode] \in Plans
  BY <1>9, <1>10, <1>11, <1>12, <1>13, <1>14, <1>15, <1>16, <1>17, <1>18, <1>19,
     <1>20 DEF Plan
<1> QED BY <1>21 DEF Plans

-----------------------------------------------------------------------------
(* Counting *)

(* What a count that changes in two places adds up to. *)
LEMMA TwoUpdated ==
    ASSUME NEW f, NEW g, \A m \in Places : f[m] \in Nat /\ g[m] \in Nat,
           NEW from \in Places, NEW to \in Places \ {from},
           g[from] = f[from] - 1, g[to] = f[to] + 1,
           \A m \in Places \ {from, to} : g[m] = f[m]
    PROVE  g["sent"] + g["slot"] + g["queue"] + g["paused"]
             = f["sent"] + f["slot"] + f["queue"] + f["paused"]
<1>1. CASE from = "sent"
  BY <1>1 DEF Places
<1>2. CASE from = "slot"
  BY <1>2 DEF Places
<1>3. CASE from = "queue"
  BY <1>3 DEF Places
<1>4. CASE from = "paused"
  BY <1>4 DEF Places
<1> QED BY <1>1, <1>2, <1>3, <1>4 DEF Places

(* What a count that changes in one place adds up to. *)
LEMMA OneUpdated ==
    ASSUME NEW f, NEW g, \A m \in Places : f[m] \in Nat /\ g[m] \in Nat,
           NEW l \in Places, NEW k \in Int, g[l] = f[l] + k,
           \A m \in Places \ {l} : g[m] = f[m]
    PROVE  /\ f["sent"] + f["slot"] + f["queue"] + f["paused"] >= f[l]
           /\ g["sent"] + g["slot"] + g["queue"] + g["paused"]
                = f["sent"] + f["slot"] + f["queue"] + f["paused"] + k
<1>1. /\ f["sent"] \in Nat /\ f["slot"] \in Nat
      /\ f["queue"] \in Nat /\ f["paused"] \in Nat
  BY DEF Places
<1>2. CASE l = "sent"
  <2>1. /\ g["sent"] = f["sent"] + k /\ g["slot"] = f["slot"]
        /\ g["queue"] = f["queue"] /\ g["paused"] = f["paused"]
    BY <1>2 DEF Places
  <2> QED BY <1>1, <1>2, <2>1
<1>3. CASE l = "slot"
  <2>1. /\ g["sent"] = f["sent"] /\ g["slot"] = f["slot"] + k
        /\ g["queue"] = f["queue"] /\ g["paused"] = f["paused"]
    BY <1>3 DEF Places
  <2> QED BY <1>1, <1>3, <2>1
<1>4. CASE l = "queue"
  <2>1. /\ g["sent"] = f["sent"] /\ g["slot"] = f["slot"]
        /\ g["queue"] = f["queue"] + k /\ g["paused"] = f["paused"]
    BY <1>4 DEF Places
  <2> QED BY <1>1, <1>4, <2>1
<1>5. CASE l = "paused"
  <2>1. /\ g["sent"] = f["sent"] /\ g["slot"] = f["slot"]
        /\ g["queue"] = f["queue"] /\ g["paused"] = f["paused"] + k
    BY <1>5 DEF Places
  <2> QED BY <1>1, <1>5, <2>1
<1> QED BY <1>2, <1>3, <1>4, <1>5 DEF Places

(* A request that moves on is still waited for. *)
LEMMA MoveStep ==
    ASSUME TypeOK, NEW w \in Owners, NEW p \in Pools, NEW from \in Places,
           NEW to \in Places \ {from}, count[w][p][from] > 0, Move(w, p, from, to)
    PROVE  /\ count' \in Counts
           /\ \A v \in Owners, q \in Pools : Waiting(v, q)' = Waiting(v, q)
           /\ \A q \in Pools : Queued(q)' =
                 IF q # p THEN Queued(q)
                 ELSE Queued(q) + (IF to = "queue" THEN 1 ELSE 0)
                                - (IF from = "queue" THEN 1 ELSE 0)
<1>1. count \in Counts
  BY DEF TypeOK, Counts
<1>2. PICK x \in Nat, y \in Nat : x = count[w][p][from] - 1 /\ y = count[w][p][to] + 1
  BY <1>1 DEF Counts
<1>3. PICK c : c = [count EXCEPT ![w][p][from] = x]
  OBVIOUS
<1>4. /\ c \in Counts
      /\ \A v \in Owners, q \in Pools, m \in Places :
            c[v][q][m] = IF v = w /\ q = p /\ m = from THEN x ELSE count[v][q][m]
  BY <1>1, <1>3 DEF Counts
<1>5. count' = [c EXCEPT ![w][p][to] = y]
  BY <1>1, <1>2, <1>3, <1>4 DEF Move, Counts
<1>6. /\ count' \in Counts
      /\ \A v \in Owners, q \in Pools, m \in Places :
            count'[v][q][m] = IF v = w /\ q = p /\ m = to THEN y ELSE c[v][q][m]
  BY <1>4, <1>5 DEF Counts
<1>7. \A v \in Owners, q \in Pools, m \in Places :
          count[v][q][m] \in Nat /\ count'[v][q][m] \in Nat
  BY <1>1, <1>6 DEF Counts
<1>8. ASSUME NEW v \in Owners, NEW q \in Pools PROVE Waiting(v, q)' = Waiting(v, q)
  <2>1. CASE v = w /\ q = p
    <3> DEFINE f == count[v][q]
               g == count'[v][q]
    <3>1. /\ \A m \in Places : f[m] \in Nat /\ g[m] \in Nat
          /\ g[from] = f[from] - 1 /\ g[to] = f[to] + 1
          /\ \A m \in Places \ {from, to} : g[m] = f[m]
      BY <1>2, <1>4, <1>6, <1>7, <2>1
    <3> HIDE DEF f, g
    <3>2. g["sent"] + g["slot"] + g["queue"] + g["paused"]
            = f["sent"] + f["slot"] + f["queue"] + f["paused"]
      BY <3>1, TwoUpdated
    <3> QED BY <3>2 DEF Waiting, f, g
  <2>2. CASE ~(v = w /\ q = p)
    BY <1>4, <1>6, <2>2 DEF Waiting, Places
  <2> QED BY <2>1, <2>2
<1>9. \A q \in Pools : Queued(q)' =
          IF q # p THEN Queued(q)
          ELSE Queued(q) + (IF to = "queue" THEN 1 ELSE 0)
                         - (IF from = "queue" THEN 1 ELSE 0)
  BY <1>2, <1>4, <1>6, <1>7 DEF Queued, Places, Owners
<1> QED BY <1>6, <1>8, <1>9

(* A request that ends at the gateway gives the script that waits for it a
   result. *)
LEMMA FinishStep ==
    ASSUME TypeOK, NEW w \in Owners, NEW p \in Pools, NEW from \in Places,
           count[w][p][from] > 0, Finish(w, p, from)
    PROVE  /\ count' \in Counts
           /\ Kept \/ Settled(p)
           /\ \A q \in Pools : Queued(q)' <= Queued(q)
<1>1. count \in Counts /\ results \in Nat
  BY DEF TypeOK, Counts
<1>2. PICK x \in Nat : x = count[w][p][from] - 1
  BY <1>1 DEF Counts
<1>3. count' = [count EXCEPT ![w][p][from] = x]
  BY <1>2 DEF Finish
<1>4. /\ count' \in Counts
      /\ \A v \in Owners, q \in Pools, m \in Places :
            count'[v][q][m] = IF v = w /\ q = p /\ m = from THEN x ELSE count[v][q][m]
  BY <1>1, <1>3 DEF Counts
<1>5. \A v \in Owners, q \in Pools, m \in Places :
          count[v][q][m] \in Nat /\ count'[v][q][m] \in Nat
  BY <1>1, <1>4 DEF Counts
<1>6. ASSUME NEW v \in Owners, NEW q \in Pools, v # w \/ q # p
      PROVE  Waiting(v, q)' = Waiting(v, q)
  BY <1>4, <1>6 DEF Waiting, Places
<1>7. Waiting(w, p)' = Waiting(w, p) - 1 /\ Waiting(w, p) > 0
  <2> DEFINE f == count[w][p]
             g == count'[w][p]
  <2>1. /\ \A m \in Places : f[m] \in Nat /\ g[m] \in Nat
        /\ f[from] > 0 /\ g[from] = f[from] + -1
        /\ \A m \in Places \ {from} : g[m] = f[m]
    BY <1>2, <1>4, <1>5
  <2>2. -1 \in Int
    OBVIOUS
  <2>3. /\ Waiting(w, p) = f["sent"] + f["slot"] + f["queue"] + f["paused"]
        /\ Waiting(w, p)' = g["sent"] + g["slot"] + g["queue"] + g["paused"]
        /\ Waiting(w, p) \in Nat /\ f[from] \in Nat
    BY <1>5 DEF Waiting, Places
  <2> HIDE DEF f, g
  <2>4. /\ f["sent"] + f["slot"] + f["queue"] + f["paused"] >= f[from]
        /\ g["sent"] + g["slot"] + g["queue"] + g["paused"]
             = f["sent"] + f["slot"] + f["queue"] + f["paused"] + -1
    BY <2>1, <2>2, OneUpdated
  <2> QED BY <2>1, <2>3, <2>4
<1>8. Kept \/ Settled(p)
  <2>1. CASE w = "script"
    BY <1>6, <1>7, <2>1 DEF Finish, Settled, Owners
  <2>2. CASE w # "script"
    BY <1>6, <2>2 DEF Finish, Kept, Owners
  <2> QED BY <2>1, <2>2
<1>9. \A q \in Pools : Queued(q)' <= Queued(q)
  BY <1>2, <1>4, <1>5 DEF Queued, Places, Owners
<1> QED BY <1>4, <1>8, <1>9

(* NodePool.acquire moves the request on or ends it.  Who waits, or is turned
   away, finds the pool saturated. *)
LEMMA AcquireStep ==
    ASSUME TypeOK, NEW w \in Owners, NEW p \in Pools, NEW from \in {"sent", "paused"},
           count[w][p][from] > 0, Acquire(w, p, from)
    PROVE  /\ count' \in Counts
           /\ Kept \/ Settled(p)
           /\ refused' \in [Pools -> [limit : Nat, full : Nat]]
           /\ \A q \in Pools : refused'[q].limit = refused[q].limit
           /\ \A q \in Pools \ {p} :
                 Queued(q)' <= Queued(q) /\ refused'[q].full = refused[q].full
           /\ Queued(p)' > Queued(p) => Saturated(p, from)
           /\ refused'[p].full # refused[p].full =>
                 Saturated(p, from) /\ Queued(p) >= QueueLimit[p]
<1>1. /\ from \in Places /\ "slot" \in Places \ {from} /\ "queue" \in Places \ {from}
      /\ from # "queue" /\ results \in Nat
      /\ refused \in [Pools -> [limit : Nat, full : Nat]]
  BY DEF Places, TypeOK
<1>2. \A q \in Pools : Queued(q) \in Nat
  <2>1. \A v \in Owners, q \in Pools, m \in Places : count[v][q][m] \in Nat
    BY DEF TypeOK
  <2> QED BY <2>1 DEF Queued, Owners, Places
<1>3. CASE Move(w, p, from, "slot") /\ UNCHANGED <<results, refused>>
  BY <1>1, <1>2, <1>3, MoveStep DEF Kept, Owners
<1>4. CASE /\ Saturated(p, from)
           /\ Move(w, p, from, "queue") /\ UNCHANGED <<results, refused>>
  BY <1>1, <1>2, <1>4, MoveStep DEF Kept, Owners
<1>5. CASE /\ Saturated(p, from) /\ Queued(p) >= QueueLimit[p]
           /\ Finish(w, p, from)
           /\ refused' = [refused EXCEPT ![p].full = @ + 1]
  <2>1. /\ refused' \in [Pools -> [limit : Nat, full : Nat]]
        /\ \A q \in Pools : refused'[q].limit = refused[q].limit
        /\ \A q \in Pools \ {p} : refused'[q].full = refused[q].full
    BY <1>1, <1>5
  <2>2. /\ count' \in Counts /\ (Kept \/ Settled(p))
        /\ \A q \in Pools : Queued(q)' <= Queued(q)
    BY <1>1, <1>5, FinishStep
  <2> QED BY <1>2, <1>5, <2>1, <2>2
<1> QED BY <1>3, <1>4, <1>5 DEF Acquire

(* GiveUp ends the script's wait; what waits at the gateway is as many. *)
LEMMA GiveUpStep ==
    ASSUME IInv, NEW p \in Pools, NEW from \in Places, GiveUp(p, from)
    PROVE  /\ count' \in Counts /\ left' \in [Pools -> Nat]
           /\ Kept \/ Settled(p)
           /\ \A q \in Pools : Queued(q)' <= Queued(q)
<1>1. /\ TypeOK /\ count \in Counts /\ results \in Nat /\ left \in [Pools -> Nat]
      /\ "script" \in Owners /\ "nobody" \in Owners /\ count["script"][p][from] > 0
  BY DEF IInv, TypeOK, Counts, Owners, GiveUp
<1>2. ASSUME Finish("script", p, from),
             left' = IF from = "slot" THEN [left EXCEPT ![p] = @ + 1] ELSE left
      PROVE  /\ count' \in Counts /\ left' \in [Pools -> Nat]
             /\ Kept \/ Settled(p)
             /\ \A q \in Pools : Queued(q)' <= Queued(q)
  <2>1. left' \in [Pools -> Nat]
    BY <1>1, <1>2
  <2> QED BY <1>1, <1>2, <2>1, FinishStep
<1>3. ASSUME count' = [count EXCEPT !["script"][p][from] = @ - 1,
                                    !["nobody"][p][from] = @ + 1],
             results' = results + 1, UNCHANGED left
      PROVE  /\ count' \in Counts /\ left' \in [Pools -> Nat]
             /\ Kept \/ Settled(p)
             /\ \A q \in Pools : Queued(q)' <= Queued(q)
  <2>1. PICK x \in Nat, y \in Nat : /\ x = count["script"][p][from] - 1
                                   /\ y = count["nobody"][p][from] + 1
    BY <1>1 DEF Counts
  <2>2. PICK c : c = [count EXCEPT !["script"][p][from] = x]
    OBVIOUS
  <2>3. /\ c \in Counts
        /\ \A v \in Owners, q \in Pools, m \in Places :
              c[v][q][m] = IF v = "script" /\ q = p /\ m = from THEN x ELSE count[v][q][m]
    BY <1>1, <2>2 DEF Counts
  <2>4. count' = [c EXCEPT !["nobody"][p][from] = y]
    BY <1>1, <1>3, <2>1, <2>2, <2>3 DEF Counts
  <2>5. /\ count' \in Counts
        /\ \A v \in Owners, q \in Pools, m \in Places :
              count'[v][q][m] = IF v = "nobody" /\ q = p /\ m = from THEN y ELSE c[v][q][m]
    BY <1>1, <2>3, <2>4 DEF Counts
  <2>6. \A v \in Owners, q \in Pools, m \in Places :
            count[v][q][m] \in Nat /\ count'[v][q][m] \in Nat
    BY <1>1, <2>5 DEF Counts
  <2>7. \A q \in Pools \ {p} : Waiting("script", q)' = Waiting("script", q)
    BY <1>1, <2>3, <2>5 DEF Waiting, Places
  <2>8. Waiting("script", p)' = Waiting("script", p) - 1 /\ Waiting("script", p) > 0
    <3> DEFINE f == count["script"][p]
               g == count'["script"][p]
    <3>1. /\ \A m \in Places : f[m] \in Nat /\ g[m] \in Nat
          /\ f[from] > 0 /\ g[from] = f[from] + -1
          /\ \A m \in Places \ {from} : g[m] = f[m]
      BY <1>1, <2>1, <2>3, <2>5, <2>6
    <3>2. -1 \in Int
      OBVIOUS
    <3>3. /\ Waiting("script", p) = f["sent"] + f["slot"] + f["queue"] + f["paused"]
          /\ Waiting("script", p)' = g["sent"] + g["slot"] + g["queue"] + g["paused"]
          /\ Waiting("script", p) \in Nat /\ f[from] \in Nat
      BY <1>1, <2>6 DEF Waiting, Places
    <3> HIDE DEF f, g
    <3>4. /\ f["sent"] + f["slot"] + f["queue"] + f["paused"] >= f[from]
          /\ g["sent"] + g["slot"] + g["queue"] + g["paused"]
               = f["sent"] + f["slot"] + f["queue"] + f["paused"] + -1
      BY <3>1, <3>2, OneUpdated
    <3> QED BY <3>1, <3>3, <3>4
  <2>9. \A q \in Pools : Queued(q)' <= Queued(q)
    BY <1>1, <2>1, <2>3, <2>5, <2>6 DEF Queued, Places
  <2> QED BY <1>1, <1>3, <2>5, <2>7, <2>8, <2>9 DEF Settled
<1> QED BY <1>2, <1>3 DEF GiveUp

-----------------------------------------------------------------------------
(* The invariant *)

(* Facts of a state that later steps use. *)
LEMMA Facts ==
    ASSUME TypeOK
    PROVE  /\ \A w \in Owners, p \in Pools : Waiting(w, p) \in Nat
           /\ Outstanding \in Nat
           /\ phase # "done" => /\ Now \in Scenarios /\ Tail(todo) \in Seq(Scenarios)
                                /\ Now.size \in Nat \ {0} /\ Now.width \in Nat \ {0}
                                /\ Now.pool \in Pools
<1>1. \A v \in Owners, q \in Pools, m \in Places : count[v][q][m] \in Nat
  BY DEF TypeOK
<1>2. \A w \in Owners, p \in Pools : Waiting(w, p) \in Nat
  BY <1>1 DEF Waiting, Places
<1>3. phase # "done" => Now \in Scenarios /\ Tail(todo) \in Seq(Scenarios)
  BY DEF TypeOK, Now
<1> QED BY <1>2, <1>3 DEF Outstanding, Owners, Pools, Scenarios

(* A step of a request at the gateway leaves the scenario's account. *)
LEMMA RequestStep ==
    ASSUME IInv, NEW p \in Pools, UNCHANGED scriptVars, Kept \/ Settled(p),
           count' \in Counts
    PROVE  ResultsComplete' /\ OnePool' /\ results' \in Nat
<1>1. /\ phase' = phase /\ todo' = todo /\ unsent' = unsent /\ Now' = Now
      /\ results \in Nat /\ unsent \in Nat /\ TypeOK
  BY DEF IInv, TypeOK, scriptVars, Now
<1>2. /\ \A w \in Owners, q \in Pools : Waiting(w, q) \in Nat
      /\ "script" \in Owners /\ Pools = {"text", "multimodal"}
      /\ phase # "done" => Now.size \in Nat /\ Now.width \in Nat
  BY <1>1, Facts DEF Owners, Pools
<1>3. CASE Kept
  BY <1>1, <1>2, <1>3 DEF Kept, IInv, ResultsComplete, OnePool, Outstanding
<1>4. CASE Settled(p)
  <2>1. phase = "running" /\ Now.pool = p
    BY <1>4 DEF Settled, IInv, OnePool
  <2>2. Outstanding' = Outstanding - 1 /\ Outstanding \in Nat
    BY <1>2, <1>4 DEF Settled, Outstanding
  <2>3. ResultsComplete'
    BY <1>1, <1>2, <1>4, <2>1, <2>2 DEF Settled, IInv, ResultsComplete
  <2>4. OnePool'
    BY <1>1, <1>2, <1>4, <2>1 DEF Settled, IInv, OnePool
  <2> QED BY <1>1, <1>4, <2>3, <2>4 DEF Settled
<1> QED BY <1>3, <1>4

(* A batch adds to the script's requests as many as it takes from the rest of
   its scenario. *)
LEMMA SendStep ==
    ASSUME IInv, SendBatch
    PROVE  count' \in Counts /\ unsent' \in Nat /\ ResultsComplete' /\ OnePool'
             /\ \A q \in Pools : Queued(q)' = Queued(q)
<1> DEFINE p == Now.pool
<1>1. /\ TypeOK /\ phase = "running" /\ count \in Counts /\ unsent \in Nat
      /\ Outstanding = 0 /\ unsent > 0 /\ results \in Nat
      /\ phase' = phase /\ todo' = todo /\ Now' = Now /\ results' = results
  BY DEF IInv, TypeOK, Counts, SendBatch, Send, Now
<1>2. /\ p \in Pools /\ Now.width \in Nat \ {0} /\ Now.size \in Nat
      /\ \A w \in Owners, q \in Pools : Waiting(w, q) \in Nat
      /\ "script" \in Owners /\ "sent" \in Places
  BY <1>1, Facts DEF Owners, Places
<1>3. PICK n \in Nat : /\ n = Cut /\ n <= unsent /\ n <= Now.width
                       /\ unsent' = unsent - n
                       /\ count' = [count EXCEPT !["script"][p]["sent"] = @ + n]
  <2>1. Cut \in Nat /\ Cut <= unsent /\ Cut <= Now.width
    BY <1>1, <1>2 DEF Cut, AtMost
  <2> QED BY <2>1 DEF SendBatch, Send
<1> HIDE DEF p
<1>4. PICK x \in Nat : x = count["script"][p]["sent"] + n
  BY <1>1, <1>2 DEF Counts
<1>5. count' = [count EXCEPT !["script"][p]["sent"] = x]
  BY <1>3, <1>4
<1>6. /\ count' \in Counts
      /\ \A v \in Owners, q \in Pools, m \in Places :
            count'[v][q][m] = IF v = "script" /\ q = p /\ m = "sent" THEN x
                              ELSE count[v][q][m]
  BY <1>1, <1>2, <1>5 DEF Counts
<1>7. \A v \in Owners, q \in Pools, m \in Places :
          count[v][q][m] \in Nat /\ count'[v][q][m] \in Nat
  BY <1>1, <1>6 DEF Counts
<1>8. \A q \in Pools : Waiting("script", q)' =
          Waiting("script", q) + (IF q = p THEN n ELSE 0)
  BY <1>2, <1>4, <1>6, <1>7 DEF Waiting, Places
<1>9. Waiting("script", "text") = 0 /\ Waiting("script", "multimodal") = 0
  BY <1>1, <1>2 DEF Outstanding, Pools
<1>10. Outstanding' = n
  BY <1>2, <1>8, <1>9 DEF Outstanding, Pools
<1>11. ResultsComplete'
  BY <1>1, <1>2, <1>3, <1>10 DEF IInv, ResultsComplete
<1>12. OnePool'
  BY <1>1, <1>2, <1>8, <1>9 DEF OnePool, Pools, p
<1>13. \A q \in Pools : Queued(q)' = Queued(q)
  BY <1>6 DEF Queued, Owners, Places
<1> QED BY <1>1, <1>3, <1>6, <1>11, <1>12, <1>13

(* The next scenario starts with nothing of the last under way. *)
LEMMA AdvanceStep ==
    ASSUME IInv, EndScenario
    PROVE  /\ phase' \in Phases /\ (phase' = "done" <=> todo' = <<>>)
           /\ todo' \in Seq(Scenarios) /\ unsent' \in Nat /\ results' = 0
           /\ ResultsComplete' /\ OnePool'
<1>1. /\ TypeOK /\ phase = "running" /\ unsent = 0 /\ Outstanding = 0
      /\ todo' = Tail(todo) /\ results' = 0 /\ count' = count
      /\ IF todo' = <<>> THEN phase' = "done" /\ unsent' = 0
                         ELSE phase' = phase /\ unsent' = Head(todo').size
  BY DEF IInv, EndScenario, Advance
<1>2. /\ todo' \in Seq(Scenarios)
      /\ \A w \in Owners, q \in Pools : Waiting(w, q) \in Nat
  BY <1>1, Facts
<1>3. Outstanding' = 0 /\ \A q \in Pools : Waiting("script", q)' = 0
  BY <1>1, <1>2 DEF Outstanding, Waiting, Pools, Owners
<1>4. CASE todo' = <<>>
  BY <1>1, <1>2, <1>3, <1>4 DEF ResultsComplete, OnePool, Phases
<1>5. CASE todo' # <<>>
  <2>1. Now' \in Scenarios /\ Now' = Head(todo')
    BY <1>2, <1>5 DEF Now
  <2>2. unsent' = Now'.size /\ Now'.size \in Nat /\ Now'.width \in Nat
    BY <1>1, <1>5, <2>1 DEF Scenarios
  <2> QED BY <1>1, <1>2, <1>3, <1>5, <2>2 DEF ResultsComplete, OnePool, Phases
<1> QED BY <1>4, <1>5

Refusals == [Pools -> [limit : Nat, full : Nat]]

(* The limiter judges a request. *)
LEMMA ArriveStep ==
    ASSUME IInv, NEW w \in Owners, NEW p \in Pools, Arrive(w, p)
    PROVE  /\ count' \in Counts /\ refused' \in Refusals
           /\ recent' \in [Pools -> Nat] /\ asked' \in [Pools -> Nat]
           /\ Kept \/ Settled(p)
           /\ Remembered' /\ ThrottledOnlyBeyondLimit'
           /\ \A q \in Pools \ {p} :
                 Queued(q)' <= Queued(q) /\ refused'[q].full = refused[q].full
           /\ Queued(p)' > Queued(p) => Saturated(p, "sent")
           /\ refused'[p].full # refused[p].full =>
                 Saturated(p, "sent") /\ Queued(p) >= QueueLimit[p]
<1>1. /\ TypeOK /\ Remembered /\ ThrottledOnlyBeyondLimit
      /\ recent \in [Pools -> Nat] /\ asked \in [Pools -> Nat]
      /\ RateLimit \in [Pools -> Nat] /\ refused \in Refusals
      /\ "sent" \in {"sent", "paused"} /\ "sent" \in Places
  BY BenchmarkAssumption DEF IInv, TypeOK, Places, Refusals
<1>2. /\ count[w][p]["sent"] > 0
      /\ recent' = [recent EXCEPT ![p] = @ + 1] /\ asked' = [asked EXCEPT ![p] = @ + 1]
      /\ IF recent[p] < RateLimit[p] THEN Acquire(w, p, "sent")
         ELSE Finish(w, p, "sent") /\ refused' = [refused EXCEPT ![p].limit = @ + 1]
  BY DEF Arrive, JudgedBy
<1>3. /\ recent' \in [Pools -> Nat] /\ asked' \in [Pools -> Nat]
      /\ \A q \in Pools : asked'[q] = IF q = p THEN asked[q] + 1 ELSE asked[q]
      /\ Remembered'
  BY <1>1, <1>2 DEF Remembered
<1>4. CASE recent[p] < RateLimit[p]
  <2>1. Acquire(w, p, "sent")
    BY <1>2, <1>4
  <2>2. /\ count' \in Counts /\ (Kept \/ Settled(p)) /\ refused' \in Refusals
        /\ \A q \in Pools : refused'[q].limit = refused[q].limit
        /\ \A q \in Pools \ {p} :
              Queued(q)' <= Queued(q) /\ refused'[q].full = refused[q].full
        /\ Queued(p)' > Queued(p) => Saturated(p, "sent")
        /\ refused'[p].full # refused[p].full =>
              Saturated(p, "sent") /\ Queued(p) >= QueueLimit[p]
    BY <1>1, <1>2, <2>1, AcquireStep DEF Refusals
  <2>3. ThrottledOnlyBeyondLimit'
    BY <1>1, <1>3, <2>2 DEF ThrottledOnlyBeyondLimit, Refusals
  <2> QED BY <1>3, <2>2, <2>3
<1>5. CASE ~(recent[p] < RateLimit[p])
  <2>1. Finish(w, p, "sent") /\ refused' = [refused EXCEPT ![p].limit = @ + 1]
    BY <1>2, <1>5
  <2>2. PICK n \in Nat : n = refused[p].limit + 1
    BY <1>1 DEF Refusals
  <2>3. /\ refused' \in Refusals
        /\ \A q \in Pools : refused'[q].full = refused[q].full
        /\ \A q \in Pools :
              refused'[q].limit = IF q = p THEN refused[q].limit + 1 ELSE refused[q].limit
    BY <1>1, <2>1, <2>2 DEF Refusals
  <2>4. /\ count' \in Counts /\ (Kept \/ Settled(p))
        /\ \A q \in Pools : Queued(q)' <= Queued(q)
    BY <1>1, <1>2, <2>1, FinishStep
  <2>5. /\ \A q \in Pools : Queued(q) \in Nat /\ Queued(q)' \in Nat
        /\ asked[p] >= RateLimit[p]
    <3>1. \A v \in Owners, q \in Pools, m \in Places :
              count[v][q][m] \in Nat /\ count'[v][q][m] \in Nat
      BY <1>1, <2>4 DEF TypeOK, Counts
    <3>2. asked[p] >= RateLimit[p]
      BY <1>1, <1>5 DEF Remembered
    <3> QED BY <3>1, <3>2 DEF Queued, Owners, Places
  <2>6. ThrottledOnlyBeyondLimit'
    <3>1. ASSUME NEW q \in Pools
          PROVE  refused'[q].limit = 0 \/ refused'[q].limit <= asked'[q] - RateLimit[q]
      <4>1. /\ refused[q].limit \in Nat /\ asked[q] \in Nat /\ RateLimit[q] \in Nat
            /\ refused[q].limit = 0 \/ refused[q].limit <= asked[q] - RateLimit[q]
        BY <1>1 DEF Refusals, ThrottledOnlyBeyondLimit
      <4> QED BY <1>3, <2>3, <2>5, <4>1
    <3> QED BY <3>1 DEF ThrottledOnlyBeyondLimit
  <2> QED BY <1>3, <2>3, <2>4, <2>5, <2>6
<1> QED BY <1>4, <1>5

(* So does what the limiter does not see. *)
LEMMA UnseenStep ==
    ASSUME IInv, refused' = refused, asked' = asked,
           recent' = recent \/ \E p \in Pools :
               recent[p] > 0 /\ recent' = [recent EXCEPT ![p] = @ - 1]
    PROVE  /\ recent' \in [Pools -> Nat] /\ asked' \in [Pools -> Nat]
           /\ refused' \in Refusals /\ Remembered' /\ ThrottledOnlyBeyondLimit'
<1>1. /\ recent \in [Pools -> Nat] /\ asked \in [Pools -> Nat] /\ refused \in Refusals
      /\ Remembered /\ ThrottledOnlyBeyondLimit
  BY DEF IInv, TypeOK, Refusals
<1>2. recent' \in [Pools -> Nat] /\ \A q \in Pools : recent'[q] <= recent[q]
  BY <1>1
<1>3. Remembered'
  BY <1>1, <1>2 DEF Remembered
<1> QED BY <1>1, <1>2, <1>3 DEF ThrottledOnlyBeyondLimit

(* What is left to show of a step at the gateway. *)
LEMMA GatewayStep ==
    ASSUME IInv, NEW p \in Pools, UNCHANGED scriptVars, Kept \/ Settled(p),
           count' \in Counts, left' \in [Pools -> Nat],
           degraded' \in [Pools -> BOOLEAN], trouble' \in 0..MaxTrouble,
           recent' \in [Pools -> Nat], asked' \in [Pools -> Nat], refused' \in Refusals,
           Remembered', ThrottledOnlyBeyondLimit'
    PROVE  IInv'
<1>1. ResultsComplete' /\ OnePool' /\ results' \in Nat
  BY RequestStep
<1>2. /\ phase' \in Phases /\ (phase' = "done" <=> todo' = <<>>)
      /\ todo' \in Seq(Scenarios) /\ unsent' \in Nat
  BY DEF IInv, TypeOK, scriptVars
<1> QED BY <1>1, <1>2 DEF IInv, TypeOK, Counts, Refusals

LEMMA InvInit == Init => IInv
<1> SUFFICES ASSUME Init PROVE IInv
  OBVIOUS
<1>1. PICK mode \in Modes : todo = Plan[mode]
  BY DEF Init
<1>2. todo \in Seq(Scenarios) /\ todo # <<>>
  BY <1>1, PlanTypes, BenchmarkAssumption
<1>3. /\ Now \in Scenarios /\ Now.size \in Nat \ {0} /\ Now.width \in Nat \ {0}
  <2>1. Now \in Scenarios
    BY <1>2 DEF Now
  <2> QED BY <2>1 DEF Scenarios
<1>4. count \in [Owners -> [Pools -> [Places -> Nat]]]
  BY DEF Init, None
<1>5. \A v \in Owners, q \in Pools, m \in Places : count[v][q][m] = 0
  BY DEF Init, None
<1>6. \A v \in Owners, q \in Pools : Waiting(v, q) = 0
  BY <1>5 DEF Waiting, Places
<1>7. Outstanding = 0
  BY <1>6 DEF Outstanding, Owners, Pools
<1>8. /\ phase = "health" /\ unsent = Now.size /\ results = 0
      /\ left \in [Pools -> Nat] /\ degraded \in [Pools -> BOOLEAN]
      /\ recent \in [Pools -> Nat] /\ asked \in [Pools -> Nat]
      /\ trouble \in 0..MaxTrouble
      /\ \A p \in Pools : recent[p] = 0 /\ asked[p] = 0
  BY BenchmarkAssumption DEF Init
<1>9. /\ refused \in [Pools -> [limit : Nat, full : Nat]]
      /\ \A p \in Pools : refused[p].limit = 0
  BY DEF Init
<1>10. TypeOK
  BY <1>2, <1>3, <1>4, <1>8, <1>9 DEF TypeOK, Phases
<1>11. ResultsComplete
  BY <1>3, <1>7, <1>8 DEF ResultsComplete
<1>12. OnePool
  BY <1>6 DEF OnePool, Owners
<1>13. Remembered /\ ThrottledOnlyBeyondLimit
  BY <1>8, <1>9 DEF Remembered, ThrottledOnlyBeyondLimit
<1> QED BY <1>10, <1>11, <1>12, <1>13 DEF IInv

(* The steps of the script. *)
LEMMA InvScript == IInv /\ Script => IInv'
<1> SUFFICES ASSUME IInv, Script PROVE IInv'
  OBVIOUS
<1>1. ASSUME UNCHANGED gatewayVars, UNCHANGED trouble
      PROVE  /\ left' \in [Pools -> Nat] /\ degraded' \in [Pools -> BOOLEAN]
             /\ recent' \in [Pools -> Nat] /\ asked' \in [Pools -> Nat]
             /\ refused' \in [Pools -> [limit : Nat, full : Nat]]
             /\ trouble' \in 0..MaxTrouble
             /\ Remembered' /\ ThrottledOnlyBeyondLimit'
  BY <1>1 DEF IInv, TypeOK, gatewayVars, limiterVars, Remembered, ThrottledOnlyBeyondLimit
<1>2. CASE CheckHealth
  <2>1. /\ phase = "health" /\ phase' \in {"running", "failed"}
        /\ todo' = todo /\ unsent' = unsent /\ results' = results /\ count' = count
        /\ UNCHANGED gatewayVars /\ UNCHANGED trouble
    BY <1>2 DEF CheckHealth
  <2>2. /\ Now' = Now /\ Outstanding' = Outstanding
        /\ \A q \in Pools : Waiting("script", q)' = Waiting("script", q)
    BY <2>1 DEF Now, Outstanding, Waiting
  <2>3. ResultsComplete'
    BY <2>1, <2>2 DEF IInv, ResultsComplete
  <2>4. OnePool'
    <3>1. \A q \in Pools : ~(Waiting("script", q) > 0)
      BY <2>1 DEF IInv, OnePool
    <3> QED BY <2>2, <3>1 DEF OnePool
  <2>5. TypeOK'
    BY <1>1, <2>1 DEF IInv, TypeOK, Phases
  <2> QED BY <1>1, <2>1, <2>3, <2>4, <2>5 DEF IInv
<1>3. CASE SendBatch
  <2>1. /\ phase' = phase /\ todo' = todo /\ results' = results
        /\ UNCHANGED gatewayVars /\ UNCHANGED trouble
    BY <1>3 DEF SendBatch, Send
  <2>2. count' \in Counts /\ unsent' \in Nat /\ ResultsComplete' /\ OnePool'
    BY <1>3, SendStep
  <2>3. TypeOK'
    BY <1>1, <2>1, <2>2 DEF IInv, TypeOK, Counts
  <2> QED BY <1>1, <2>1, <2>2, <2>3 DEF IInv
<1>4. CASE EndScenario
  <2>1. count' = count /\ UNCHANGED gatewayVars /\ UNCHANGED trouble
    BY <1>4 DEF EndScenario, Advance
  <2>2. /\ phase' \in Phases /\ (phase' = "done" <=> todo' = <<>>)
        /\ todo' \in Seq(Scenarios) /\ unsent' \in Nat /\ results' = 0
        /\ ResultsComplete' /\ OnePool'
    BY <1>4, AdvanceStep
  <2>3. TypeOK'
    BY <1>1, <2>1, <2>2 DEF IInv, TypeOK
  <2> QED BY <1>1, <2>1, <2>2, <2>3 DEF IInv
<1> QED BY <1>2, <1>3, <1>4 DEF Script

(* The steps of the gateway and its surroundings. *)
LEMMA InvGateway ==
    ASSUME IInv, NEW w \in Owners, NEW p \in Pools, NEW from \in Places,
           \/ Gateway(w, p) \/ FailOver(w, p)
           \/ AgeOut(p) \/ EndStream(p) \/ Probe(p) \/ GiveUp(p, from)
    PROVE  IInv'
<1>1. /\ TypeOK /\ count \in Counts /\ left \in [Pools -> Nat]
      /\ degraded \in [Pools -> BOOLEAN] /\ trouble \in 0..MaxTrouble
      /\ MaxTrouble \in Nat /\ refused \in Refusals
      /\ "paused" \in {"sent", "paused"}
      /\ \A l \in {"sent", "slot", "queue", "paused"} : l \in Places
  BY BenchmarkAssumption DEF IInv, TypeOK, Counts, Refusals, Places
<1>2. Trouble => trouble' \in 0..MaxTrouble
  BY <1>1 DEF Trouble
<1>3. count' = count /\ results' = results => Kept
  BY DEF Kept, Waiting
<1>4. ASSUME Arrive(w, p) PROVE IInv'
  <2>1. UNCHANGED <<scriptVars, left, degraded, trouble>>
    BY <1>4 DEF Arrive, JudgedBy
  <2> QED BY <1>1, <1>4, <2>1, ArriveStep, GatewayStep
<1>5. ASSUME LeaveQueue(w, p) PROVE IInv'
  <2>1. /\ UNCHANGED scriptVars /\ UNCHANGED gatewayVars /\ trouble' = trouble
        /\ results' = results
        /\ count[w][p]["queue"] > 0 /\ Move(w, p, "queue", "slot")
    BY <1>5 DEF LeaveQueue
  <2>2. count' \in Counts /\ Kept
    BY <1>1, <2>1, MoveStep DEF Kept, Owners, Places
  <2> QED BY <1>1, <2>1, <2>2, UnseenStep, GatewayStep DEF gatewayVars, limiterVars
<1>6. ASSUME Retry(w, p) PROVE IInv'
  <2>1. /\ UNCHANGED scriptVars /\ trouble' = trouble
        /\ left' = left /\ degraded' = degraded /\ recent' = recent /\ asked' = asked
        /\ count[w][p]["paused"] > 0 /\ Acquire(w, p, "paused")
    BY <1>6 DEF Retry, limiterVars
  <2>2. /\ count' \in Counts /\ (Kept \/ Settled(p)) /\ refused' \in Refusals
        /\ \A q \in Pools : refused'[q].limit = refused[q].limit
    BY <1>1, <2>1, AcquireStep DEF Refusals
  <2>3. Remembered' /\ ThrottledOnlyBeyondLimit'
    BY <2>1, <2>2 DEF IInv, Remembered, ThrottledOnlyBeyondLimit
  <2>4. recent' \in [Pools -> Nat] /\ asked' \in [Pools -> Nat]
    BY <1>1, <2>1 DEF TypeOK
  <2> QED BY <1>1, <2>1, <2>2, <2>3, <2>4, GatewayStep
<1>7. ASSUME Answer(w, p) PROVE IInv'
  <2>1. /\ UNCHANGED scriptVars /\ trouble' = trouble /\ degraded' = degraded
        /\ recent' = recent /\ asked' = asked /\ refused' = refused
        /\ count[w][p]["slot"] > 0 /\ Finish(w, p, "slot")
        /\ left' \in [Pools -> Nat]
    BY <1>1, <1>7 DEF Answer, limiterVars
  <2>2. count' \in Counts /\ (Kept \/ Settled(p))
    BY <1>1, <2>1, FinishStep
  <2> QED BY <1>1, <2>1, <2>2, UnseenStep, GatewayStep
<1>8. ASSUME FailOver(w, p) PROVE IInv'
  <2>1. /\ UNCHANGED scriptVars /\ trouble' \in 0..MaxTrouble
        /\ results' = results /\ left' = left /\ degraded' \in [Pools -> BOOLEAN]
        /\ recent' = recent /\ asked' = asked /\ refused' = refused
        /\ count[w][p]["slot"] > 0 /\ Move(w, p, "slot", "paused")
    BY <1>1, <1>2, <1>8 DEF FailOver, limiterVars
  <2>2. count' \in Counts /\ Kept
    BY <1>1, <2>1, MoveStep DEF Kept, Owners, Places
  <2> QED BY <1>1, <2>1, <2>2, UnseenStep, GatewayStep
<1>9. ASSUME AgeOut(p) PROVE IInv'
  <2>1. /\ UNCHANGED scriptVars /\ trouble' = trouble /\ degraded' = degraded
        /\ results' = results /\ count' = count /\ left' = left
        /\ recent[p] > 0 /\ recent' = [recent EXCEPT ![p] = @ - 1]
        /\ asked' = asked /\ refused' = refused
    BY <1>9 DEF AgeOut
  <2> QED BY <1>1, <1>3, <2>1, UnseenStep, GatewayStep
<1>10. ASSUME EndStream(p) PROVE IInv'
  <2>1. /\ UNCHANGED scriptVars /\ trouble' = trouble /\ degraded' = degraded
        /\ results' = results /\ count' = count
        /\ recent' = recent /\ asked' = asked /\ refused' = refused
        /\ left' \in [Pools -> Nat]
    BY <1>1, <1>10 DEF EndStream, Release, limiterVars
  <2> QED BY <1>1, <1>3, <2>1, UnseenStep, GatewayStep
<1>11. ASSUME Probe(p) PROVE IInv'
  <2>1. /\ UNCHANGED scriptVars /\ trouble' \in 0..MaxTrouble
        /\ results' = results /\ count' = count /\ left' = left
        /\ recent' = recent /\ asked' = asked /\ refused' = refused
        /\ degraded' \in [Pools -> BOOLEAN]
    BY <1>1, <1>2, <1>11 DEF Probe, limiterVars
  <2> QED BY <1>1, <1>3, <2>1, UnseenStep, GatewayStep
<1>12. ASSUME GiveUp(p, from) PROVE IInv'
  <2>1. /\ UNCHANGED scriptVars /\ trouble' \in 0..MaxTrouble /\ degraded' = degraded
        /\ recent' = recent /\ asked' = asked /\ refused' = refused
    BY <1>2, <1>12 DEF GiveUp, limiterVars
  <2> QED BY <1>1, <1>12, <2>1, GiveUpStep, UnseenStep, GatewayStep
<1> QED BY <1>4, <1>5, <1>6, <1>7, <1>8, <1>9, <1>10, <1>11, <1>12 DEF Gateway

LEMMA InvNext == IInv /\ [Next]_vars => IInv'
<1> SUFFICES ASSUME IInv, [Next]_vars PROVE IInv'
  OBVIOUS
<1>1. CASE Script
  BY <1>1, InvScript
<1>2. ASSUME NEW w \in Owners, NEW p \in Pools, Gateway(w, p) \/ FailOver(w, p)
      PROVE  IInv'
  <2>1. "sent" \in Places
    BY DEF Places
  <2> QED BY <1>2, <2>1, InvGateway
<1>3. ASSUME NEW p \in Pools, NEW from \in Places,
             AgeOut(p) \/ EndStream(p) \/ Probe(p) \/ GiveUp(p, from)
      PROVE  IInv'
  <2>1. "script" \in Owners
    BY DEF Owners
  <2> QED BY <1>3, <2>1, InvGateway
<1>4. CASE UNCHANGED vars
  BY <1>4 DEF vars, scriptVars, limiterVars, IInv, TypeOK, ResultsComplete, OnePool, Remembered,
              ThrottledOnlyBeyondLimit, Outstanding, Waiting, Now
<1>5. "sent" \in Places
  BY DEF Places
<1> QED BY <1>1, <1>2, <1>3, <1>4, <1>5 DEF Next

(* The invariant holds in every run of the benchmark, whatever its options. *)
THEOREM Invariant == Spec => []IInv
BY InvInit, InvNext, PTL DEF Spec

(* The types of the counters, and that a scenario is under way until the run
   is done. *)
THEOREM BenchmarkTypes == Spec => []TypeOK
<1>1. IInv => TypeOK
  BY DEF IInv
<1> QED BY <1>1, Invariant, PTL

(* The summary's ok and failed requests add up to those the scenario announces,
   and no more are under way than its concurrency. *)
THEOREM ResultsCorrect == Spec => []ResultsComplete
<1>1. IInv => ResultsComplete
  BY DEF IInv
<1> QED BY <1>1, Invariant, PTL

(* Each refusal of the limiter is one request beyond the user's limit. *)
THEOREM ThrottlingCorrect == Spec => []ThrottledOnlyBeyondLimit
<1>1. IInv => ThrottledOnlyBeyondLimit
  BY DEF IInv
<1> QED BY <1>1, Invariant, PTL

-----------------------------------------------------------------------------
(* Who waits, and who is turned away *)

(* The script's requests at a pool are within the width of its scenario. *)
LEMMA WithinWidth ==
    ASSUME IInv, NEW p \in Pools
    PROVE  /\ Waiting("script", p) + Lingering(p) <= Offered(p)
           /\ Offered(p) \in Nat
<1>1. /\ TypeOK /\ ResultsComplete /\ OnePool
      /\ \A w \in Owners, q \in Pools : Waiting(w, q) \in Nat
      /\ "script" \in Owners /\ "nobody" \in Owners /\ left[p] \in Nat
  BY Facts DEF IInv, TypeOK, Owners
<1>2. Lingering(p) \in Nat
  BY <1>1 DEF Lingering
<1>3. phase = "running" => Now.width \in Nat
  BY <1>1, Facts
<1>4. CASE phase = "running" /\ Now.pool = p
  <2>1. Outstanding <= Now.width /\ Waiting("script", p) <= Outstanding
    BY <1>1, <1>4 DEF ResultsComplete, Outstanding, Pools
  <2>2. Outstanding \in Nat
    BY <1>1, Facts
  <2> QED BY <1>1, <1>2, <1>3, <1>4, <2>1, <2>2 DEF Offered
<1>5. CASE ~(phase = "running" /\ Now.pool = p)
  <2>1. Waiting("script", p) = 0
    BY <1>1, <1>5 DEF OnePool
  <2> QED BY <1>2, <1>5, <2>1 DEF Offered
<1> QED BY <1>4, <1>5

(* A request that is on its way finds the others in the pool. *)
LEMMA Crowd ==
    ASSUME IInv, NEW w \in Owners, NEW p \in Pools, count[w][p]["sent"] > 0
    PROVE  /\ Taken(p) + Queued(p) < Offered(p)
           /\ Taken(p) \in Nat /\ Queued(p) \in Nat /\ Offered(p) \in Nat
<1>1. /\ \A v \in Owners, m \in Places : count[v][p][m] \in Nat
      /\ left[p] \in Nat
  BY DEF IInv, TypeOK
<1>2. Taken(p) + Queued(p) < Waiting("script", p) + Lingering(p)
  <2>1. CASE w = "script"
    BY <1>1, <2>1 DEF Taken, Queued, Waiting, Lingering, Owners, Places
  <2>2. CASE w = "nobody"
    BY <1>1, <2>2 DEF Taken, Queued, Waiting, Lingering, Owners, Places
  <2> QED BY <2>1, <2>2 DEF Owners
<1>3. /\ Taken(p) \in Nat /\ Queued(p) \in Nat
      /\ Waiting("script", p) + Lingering(p) \in Nat
  BY <1>1 DEF Taken, Queued, Waiting, Lingering, Owners, Places
<1> QED BY <1>2, <1>3, WithinWidth

LEMMA Quiet ==
    ASSUME refused' = refused, \A q \in Pools : Queued(q)' <= Queued(q),
           \A q \in Pools : Queued(q) \in Nat /\ Queued(q)' \in Nat
    PROVE  \A q \in Pools : CrowdedOut(q)
BY DEF CrowdedOut

LEMMA CrowdedStep == IInv /\ IInv' /\ [Next]_vars => \A q \in Pools : CrowdedOut(q)
<1> SUFFICES ASSUME IInv, IInv', [Next]_vars PROVE \A q \in Pools : CrowdedOut(q)
  OBVIOUS
<1>1. TypeOK /\ TypeOK'
  BY DEF IInv
<1>2. \A q \in Pools : Queued(q) \in Nat /\ Queued(q)' \in Nat
  <2>1. \A v \in Owners, q \in Pools, m \in Places :
            count[v][q][m] \in Nat /\ count'[v][q][m] \in Nat
    BY <1>1 DEF TypeOK
  <2> QED BY <2>1 DEF Queued, Owners, Places
<1>3. \A q \in Pools : Slots[q] \in Nat /\ QueueLimit[q] \in Nat
  BY BenchmarkAssumption
<1>4. count' = count => \A q \in Pools : Queued(q)' <= Queued(q)
  BY <1>2 DEF Queued
<1>5. /\ \A l \in {"sent", "slot", "queue", "paused"} : l \in Places
      /\ "paused" \in {"sent", "paused"}
  BY DEF Places
<1>6. CASE Script
  <2>1. refused' = refused /\ \A q \in Pools : Queued(q)' <= Queued(q)
    <3>1. CASE CheckHealth
      BY <1>4, <3>1 DEF CheckHealth, gatewayVars
    <3>2. CASE SendBatch
      BY <1>2, <3>2, SendStep DEF SendBatch, Send, gatewayVars
    <3>3. CASE EndScenario
      BY <1>4, <3>3 DEF EndScenario, Advance, gatewayVars
    <3> QED BY <1>6, <3>1, <3>2, <3>3 DEF Script
  <2> QED BY <1>2, <2>1, Quiet
<1>7. ASSUME NEW w \in Owners, NEW p \in Pools, Arrive(w, p)
      PROVE  \A q \in Pools : CrowdedOut(q)
  <2>1. count[w][p]["sent"] > 0 /\ degraded' = degraded
    BY <1>7 DEF Arrive, JudgedBy
  <2>2. /\ \A q \in Pools \ {p} :
              Queued(q)' <= Queued(q) /\ refused'[q].full = refused[q].full
        /\ Queued(p)' > Queued(p) => Saturated(p, "sent")
        /\ refused'[p].full # refused[p].full =>
              Saturated(p, "sent") /\ Queued(p) >= QueueLimit[p]
    BY <1>7, ArriveStep
  <2>3. Saturated(p, "sent") => Troubled(p) \/ Taken(p) >= Slots[p]
    <3>1. Taken(p) \in Nat
      BY <2>1, Crowd
    <3> QED BY <1>3, <3>1 DEF Saturated, Troubled, Room
  <2>4. CrowdedOut(p)
    BY <1>2, <1>3, <2>1, <2>2, <2>3, Crowd DEF CrowdedOut
  <2>5. \A q \in Pools \ {p} : CrowdedOut(q)
    BY <1>2, <2>2 DEF CrowdedOut
  <2> QED BY <2>4, <2>5
<1>8. ASSUME NEW w \in Owners, NEW p \in Pools, Retry(w, p)
      PROVE  \A q \in Pools : CrowdedOut(q)
  <2>1. count[w][p]["paused"] > 0 /\ Acquire(w, p, "paused")
    BY <1>8 DEF Retry
  <2>2. \A q \in Pools \ {p} :
              Queued(q)' <= Queued(q) /\ refused'[q].full = refused[q].full
    BY <1>1, <1>5, <2>1, AcquireStep
  <2>3. Troubled(p)
    BY <2>1 DEF Troubled
  <2> QED BY <1>2, <2>2, <2>3 DEF CrowdedOut
<1>9. ASSUME NEW w \in Owners, NEW p \in Pools, NEW from \in Places,
             \/ LeaveQueue(w, p) \/ Answer(w, p) \/ FailOver(w, p)
             \/ AgeOut(p) \/ EndStream(p) \/ Probe(p) \/ GiveUp(p, from)
      PROVE  \A q \in Pools : CrowdedOut(q)
  <2>1. refused' = refused
    BY <1>9 DEF LeaveQueue, Answer, FailOver, AgeOut, EndStream, Release, Probe, GiveUp,
                gatewayVars
  <2>2. \A q \in Pools : Queued(q)' <= Queued(q)
    <3>1. ASSUME LeaveQueue(w, p) PROVE \A q \in Pools : Queued(q)' <= Queued(q)
      BY <1>1, <1>2, <1>5, <3>1, MoveStep DEF LeaveQueue
    <3>2. ASSUME FailOver(w, p) PROVE \A q \in Pools : Queued(q)' <= Queued(q)
      BY <1>1, <1>2, <1>5, <3>2, MoveStep DEF FailOver
    <3>3. ASSUME Answer(w, p) PROVE \A q \in Pools : Queued(q)' <= Queued(q)
      BY <1>1, <1>5, <3>3, FinishStep DEF Answer
    <3>4. ASSUME AgeOut(p) \/ EndStream(p) \/ Probe(p)
          PROVE  \A q \in Pools : Queued(q)' <= Queued(q)
      BY <1>4, <3>4 DEF AgeOut, EndStream, Release, Probe
    <3>5. ASSUME GiveUp(p, from) PROVE \A q \in Pools : Queued(q)' <= Queued(q)
      BY <3>5, GiveUpStep
    <3> QED BY <1>9, <3>1, <3>2, <3>3, <3>4, <3>5
  <2> QED BY <1>2, <2>1, <2>2, Quiet
<1>10. CASE UNCHANGED vars
  <2>1. count' = count /\ refused' = refused
    BY <1>10 DEF vars
  <2> QED BY <1>2, <1>4, <2>1, Quiet
<1>11. "script" \in Owners /\ "sent" \in Places
  BY DEF Owners, Places
<1> QED BY <1>6, <1>7, <1>8, <1>9, <1>10, <1>11 DEF Next, Gateway

(* A request of the benchmark waits for a slot, or finds the queue full, only
   when more are offered than the pool can hold, or in trouble. *)
THEOREM QueueingCorrect == Spec => QueuedOnlyOversubscribed
<1>1. IInv /\ IInv' /\ [Next]_vars => [\A p \in Pools : CrowdedOut(p)]_vars
  BY CrowdedStep
<1> QED BY <1>1, Invariant, PTL DEF Spec, QueuedOnlyOversubscribed
-----------------------------------------------------------------------------
(* Work runs out *)

\* What a request at a place has still before it, and those of some counts.
Weight(l) == IF l \in {"sent", "paused"} THEN 3 ELSE IF l = "queue" THEN 2 ELSE 1
Put(c, w, p, l, x) == [c EXCEPT ![w][p][l] = x]
Moved(c, p, w, from, v, to) ==
    [c EXCEPT ![w][p][from] = @ - 1, ![v][p][to] = @ + 1]
Ended(c, p, w, from) == [c EXCEPT ![w][p][from] = @ - 1]
Rise(l, x, y) == Weight(l) * (y - x)
Toil(f) == 3 * f["sent"] + 3 * f["paused"] + 2 * f["queue"] + f["slot"]
Load(c) == Toil(c["script"]["text"]) + Toil(c["script"]["multimodal"])
             + Toil(c["nobody"]["text"]) + Toil(c["nobody"]["multimodal"])

LEMMA ToilType == \A c \in Counts, v \in Owners, q \in Pools : Toil(c[v][q]) \in Nat
<1> SUFFICES ASSUME NEW c \in Counts, NEW v \in Owners, NEW q \in Pools
             PROVE  Toil(c[v][q]) \in Nat
  OBVIOUS
<1>1. /\ c[v][q]["sent"] \in Nat /\ c[v][q]["slot"] \in Nat
      /\ c[v][q]["queue"] \in Nat /\ c[v][q]["paused"] \in Nat
  BY DEF Counts, Places
<1> QED BY <1>1 DEF Toil

LEMMA LoadType == \A c \in Counts : Load(c) \in Nat
<1> SUFFICES ASSUME NEW c \in Counts PROVE Load(c) \in Nat
  OBVIOUS
<1>1. \A v \in Owners, q \in Pools : Toil(c[v][q]) \in Nat
  BY ToilType
<1> QED BY <1>1 DEF Load, Owners, Pools

(* One count that changes changes the load by its weight. *)
LEMMA ToilChange ==
    ASSUME NEW f, NEW g, \A m \in Places : f[m] \in Nat,
           NEW l \in Places, NEW x \in Nat, g[l] = x,
           \A m \in Places \ {l} : g[m] = f[m]
    PROVE  Toil(g) = Toil(f) + Rise(l, f[l], x)
<1>1. /\ f["sent"] \in Nat /\ f["slot"] \in Nat
      /\ f["queue"] \in Nat /\ f["paused"] \in Nat
  BY DEF Places
<1>2. CASE l = "sent"
  BY <1>1, <1>2 DEF Places, Weight, Rise, Toil
<1>3. CASE l = "paused"
  BY <1>1, <1>3 DEF Places, Weight, Rise, Toil
<1>4. CASE l = "queue"
  BY <1>1, <1>4 DEF Places, Weight, Rise, Toil
<1>5. CASE l = "slot"
  BY <1>1, <1>5 DEF Places, Weight, Rise, Toil
<1> QED BY <1>2, <1>3, <1>4, <1>5 DEF Places

LEMMA RiseByOne ==
    ASSUME NEW l \in Places, NEW x \in Int
    PROVE  /\ Rise(l, x, x - 1) = -Weight(l) /\ Rise(l, x, x + 1) = Weight(l)
           /\ Weight(l) \in 1..3
<1>1. Weight(l) \in {1, 2, 3}
  BY DEF Weight
<1>2. (x - 1) - x = -1 /\ (x + 1) - x = 1
  OBVIOUS
<1> QED BY <1>1, <1>2 DEF Rise

LEMMA LoadChange ==
    ASSUME NEW c \in Counts, NEW w \in Owners, NEW p \in Pools, NEW l \in Places,
           NEW x \in Nat
    PROVE  /\ Put(c, w, p, l, x) \in Counts
           /\ Load(Put(c, w, p, l, x)) = Load(c) + Rise(l, c[w][p][l], x)
<1> DEFINE d == Put(c, w, p, l, x)
<1>1. /\ d \in Counts
      /\ \A v \in Owners, q \in Pools, m \in Places :
            d[v][q][m] = IF v = w /\ q = p /\ m = l THEN x ELSE c[v][q][m]
  BY DEF Put, Counts
<1> HIDE DEF d
<1>2. \A v \in Owners, q \in Pools :
          ~(v = w /\ q = p) => Toil(d[v][q]) = Toil(c[v][q])
  BY <1>1 DEF Toil, Places
<1>3. Toil(d[w][p]) = Toil(c[w][p]) + Rise(l, c[w][p][l], x)
  <2>1. \A m \in Places : c[w][p][m] \in Nat
    BY DEF Counts
  <2>2. d[w][p][l] = x /\ \A m \in Places \ {l} : d[w][p][m] = c[w][p][m]
    BY <1>1
  <2> QED BY <2>1, <2>2, ToilChange
<1>4. \A v \in Owners, q \in Pools : Toil(c[v][q]) \in Nat
  BY ToilType
<1>5. PICK k \in Int : k = Rise(l, c[w][p][l], x)
  <2>1. c[w][p][l] \in Int
    BY DEF Counts
  <2> QED BY <2>1 DEF Weight, Rise
<1>6. Load(d) = Load(c) + k
  <2>1. Toil(d[w][p]) = Toil(c[w][p]) + k
    BY <1>3, <1>5
  <2> QED BY <1>2, <1>4, <2>1 DEF Load, Owners, Pools
<1> QED BY <1>1, <1>5, <1>6 DEF d

(* A request that goes from one place, or one owner, to another. *)
LEMMA LoadMoved ==
    ASSUME NEW c \in Counts, NEW p \in Pools,
           NEW w \in Owners, NEW from \in Places, c[w][p][from] > 0,
           NEW v \in Owners, NEW to \in Places, v # w \/ to # from
    PROVE  Load(Moved(c, p, w, from, v, to)) = Load(c) - Weight(from) + Weight(to)
<1>1. PICK x \in Nat, y \in Nat : x = c[w][p][from] - 1 /\ y = c[v][p][to] + 1
  BY DEF Counts
<1>2. PICK b : b = Put(c, w, p, from, x)
  OBVIOUS
<1>3. b \in Counts /\ Load(b) = Load(c) + Rise(from, c[w][p][from], x)
  BY <1>2, LoadChange
<1>4. b[v][p][to] = c[v][p][to]
  BY <1>2 DEF Counts, Put
<1>5. PICK d : d = Put(b, v, p, to, y)
  OBVIOUS
<1>6. Load(d) = Load(b) + Rise(to, b[v][p][to], y)
  BY <1>3, <1>5, LoadChange
<1>7. Rise(from, c[w][p][from], x) = -Weight(from) /\ Rise(to, b[v][p][to], y) = Weight(to)
  <2>1. c[w][p][from] \in Int /\ b[v][p][to] \in Int
    BY <1>4 DEF Counts
  <2> QED BY <1>1, <1>4, <2>1, RiseByOne
<1>8. Load(c) \in Nat
  BY LoadType
<1>9. Load(b) = Load(c) - Weight(from) /\ Load(d) = Load(b) + Weight(to)
  BY <1>3, <1>6, <1>7, <1>8
<1>10. d = Moved(c, p, w, from, v, to)
  BY <1>1, <1>2, <1>4, <1>5 DEF Counts, Put, Moved
<1> QED BY <1>8, <1>9, <1>10, RiseByOne

(* A request that ends. *)
LEMMA LoadEnded ==
    ASSUME NEW c \in Counts, NEW p \in Pools,
           NEW w \in Owners, NEW from \in Places, c[w][p][from] > 0
    PROVE  Load(Ended(c, p, w, from)) = Load(c) - Weight(from)
<1>1. PICK x \in Nat : x = c[w][p][from] - 1
  BY DEF Counts
<1>2. PICK d : d = Put(c, w, p, from, x)
  OBVIOUS
<1>3. Load(d) = Load(c) + Rise(from, c[w][p][from], x)
  BY <1>2, LoadChange
<1>4. Rise(from, c[w][p][from], x) = -Weight(from) /\ Load(c) \in Nat
  <2>1. c[w][p][from] \in Int
    BY DEF Counts
  <2> QED BY <1>1, <2>1, LoadType, RiseByOne
<1>5. d = Ended(c, p, w, from)
  BY <1>1, <1>2 DEF Put, Ended
<1> QED BY <1>3, <1>4, <1>5, RiseByOne

(* The load after each kind of step of a request. *)
LEMMA LoadSteps ==
    ASSUME TypeOK, NEW w \in Owners, NEW p \in Pools, NEW from \in Places,
           count[w][p][from] > 0
    PROVE  /\ Load(count) \in Nat
           /\ \A to \in Places \ {from} : Move(w, p, from, to) =>
                 Load(count') = Load(count) - Weight(from) + Weight(to)
           /\ Finish(w, p, from) => Load(count') = Load(count) - Weight(from)
<1>1. count \in Counts
  BY DEF TypeOK, Counts
<1>2. ASSUME NEW to \in Places \ {from}, Move(w, p, from, to)
      PROVE  Load(count') = Load(count) - Weight(from) + Weight(to)
  <2>1. count' = Moved(count, p, w, from, w, to)
    BY <1>2 DEF Move, Moved
  <2> QED BY <1>1, <2>1, LoadMoved
<1>3. ASSUME Finish(w, p, from)
      PROVE  Load(count') = Load(count) - Weight(from)
  <2>1. count' = Ended(count, p, w, from)
    BY <1>3 DEF Finish, Ended
  <2> QED BY <1>1, <2>1, LoadEnded
<1> QED BY <1>1, <1>2, <1>3, LoadType

\* What Work counts beside the load.
Rest == (IF phase = "health" THEN 1 ELSE 0) + 4 * unsent + 3 * (MaxTrouble - trouble)

Split == Work = Rest + Load(count) /\ Rest \in Nat /\ Load(count) \in Nat

LEMMA WorkSplit == TypeOK => Split
<1> SUFFICES ASSUME TypeOK PROVE Split
  OBVIOUS
<1>1. \A v \in Owners, q \in Pools : Effort(v, q) = Toil(count[v][q])
  BY DEF Effort, Toil
<1>2. count \in Counts /\ unsent \in Nat /\ MaxTrouble \in Nat /\ trouble \in 0..MaxTrouble
  BY BenchmarkAssumption DEF TypeOK, Counts
<1>3. Rest \in Nat /\ Load(count) \in Nat
  BY <1>2, LoadType DEF Rest
<1>4. \A v \in Owners, q \in Pools : Toil(count[v][q]) \in Nat
  BY <1>2, ToilType
<1>5. Work = Rest + Load(count)
  <2>1. (IF phase = "health" THEN 1 ELSE 0) \in Nat /\ 4 * unsent \in Nat
        /\ 3 * (MaxTrouble - trouble) \in Nat
    BY <1>2
  <2> QED BY <1>1, <1>4, <2>1 DEF Work, Rest, Load, Owners, Pools
<1> QED BY <1>3, <1>5 DEF Split

LEMMA WorkSplitNext == TypeOK' => Split'
BY WorkSplit, PTL

\* A step within a scenario, as WorkRunsOut allows it.
Nearer ==
    /\ todo' = todo /\ Work' \in 0..Work
    /\ <<phase, unsent, count>>' # <<phase, unsent, count>> => Work' < Work

LEMMA Falls ==
    ASSUME TypeOK, TypeOK', todo' = todo, Rest' + Load(count') < Rest + Load(count)
    PROVE  Nearer
<1>1. Work' = Rest' + Load(count') /\ Work = Rest + Load(count)
  BY WorkSplit, WorkSplitNext DEF Split
<1>2. Work' \in Nat /\ Work \in Nat
  BY <1>1, WorkSplit, WorkSplitNext DEF Split
<1> QED BY <1>1, <1>2 DEF Nearer

(* A step of a request: it lowers the load by one or more, or by no more than
   trouble pays for. *)
LEMMA Paid ==
    ASSUME TypeOK, TypeOK', UNCHANGED scriptVars,
           \/ trouble' = trouble /\ Load(count') < Load(count)
           \/ trouble' = trouble + 1 /\ Load(count') < Load(count) + 3
    PROVE  Nearer
<1>1. /\ Load(count) \in Nat /\ Load(count') \in Nat /\ Rest \in Nat /\ Rest' \in Nat
  BY WorkSplit, WorkSplitNext DEF Split
<1>2. phase' = phase /\ unsent' = unsent /\ todo' = todo
  BY DEF scriptVars
<1>3. MaxTrouble \in Nat /\ trouble \in Nat /\ unsent \in Nat
  BY BenchmarkAssumption DEF TypeOK
<1>4. CASE trouble' = trouble
  <2>1. Rest' = Rest
    BY <1>2, <1>4 DEF Rest
  <2> QED BY <1>1, <1>2, <1>3, <1>4, <2>1, Falls
<1>5. CASE trouble' = trouble + 1
  <2>1. Rest' = Rest - 3
    BY <1>2, <1>3, <1>5 DEF Rest
  <2> QED BY <1>1, <1>2, <1>3, <1>5, <2>1, Falls
<1> QED BY <1>4, <1>5

LEMMA Idle ==
    ASSUME TypeOK, TypeOK', UNCHANGED scriptVars, count' = count, trouble <= trouble'
    PROVE  Nearer
<1>1. /\ Load(count') = Load(count) /\ Load(count) \in Nat
      /\ Rest \in Nat /\ Rest' \in Nat
      /\ Work = Rest + Load(count) /\ Work' = Rest' + Load(count')
  BY WorkSplit, WorkSplitNext DEF Split
<1>2. phase' = phase /\ unsent' = unsent /\ todo' = todo
  BY DEF scriptVars
<1>3. MaxTrouble \in Nat /\ trouble \in Nat /\ trouble' \in Nat /\ unsent \in Nat
  BY BenchmarkAssumption DEF TypeOK
<1>4. Rest' <= Rest
  <2>1. PICK k \in Nat : trouble' = trouble + k
    BY <1>3
  <2>2. Rest' = Rest - 3 * k
    BY <1>2, <1>3, <2>1 DEF Rest
  <2> QED BY <1>1, <2>2
<1>5. Work' \in 0..Work
  BY <1>1, <1>4
<1> QED BY <1>2, <1>5 DEF Nearer

(* What a request does at the gateway, and with it. *)
LEMMA RequestNearer ==
    ASSUME IInv, IInv', NEW w \in Owners, NEW p \in Pools, NEW from \in Places,
           \/ Gateway(w, p) \/ FailOver(w, p)
           \/ AgeOut(p) \/ EndStream(p) \/ Probe(p) \/ GiveUp(p, from)
    PROVE  Nearer
<1>1. /\ TypeOK /\ TypeOK' /\ trouble \in Nat
      /\ \A l \in {"sent", "slot", "queue", "paused"} : l \in Places
      /\ Load(count) \in Nat /\ "script" \in Owners /\ "nobody" \in Owners
  <2>1. TypeOK /\ TypeOK' /\ Load(count) \in Nat
    BY WorkSplit DEF IInv, Split
  <2>2. trouble \in Nat
    BY <2>1, BenchmarkAssumption DEF TypeOK
  <2> QED BY <2>1, <2>2 DEF Places, Owners
<1>2. /\ Weight("sent") = 3 /\ Weight("paused") = 3
      /\ Weight("queue") = 2 /\ Weight("slot") = 1
      /\ \A l \in Places : Weight(l) \in 1..3
  BY DEF Weight
<1>3. ASSUME NEW l \in {"sent", "paused"}, count[w][p][l] > 0, Acquire(w, p, l)
      PROVE  Load(count') < Load(count)
  <2>1. CASE Finish(w, p, l)
    BY <1>1, <1>2, <1>3, <2>1, LoadSteps
  <2>2. CASE Move(w, p, l, "slot")
    BY <1>1, <1>2, <1>3, <2>2, LoadSteps
  <2>3. CASE Move(w, p, l, "queue")
    BY <1>1, <1>2, <1>3, <2>3, LoadSteps
  <2> QED BY <1>3, <2>1, <2>2, <2>3 DEF Acquire
<1>4. ASSUME Arrive(w, p) PROVE Nearer
  <2>1. /\ UNCHANGED scriptVars /\ trouble' = trouble /\ count[w][p]["sent"] > 0
        /\ Acquire(w, p, "sent") \/ Finish(w, p, "sent")
    BY <1>4 DEF Arrive, JudgedBy
  <2>2. Load(count') < Load(count)
    BY <1>1, <1>2, <1>3, <2>1, LoadSteps
  <2> QED BY <1>1, <2>1, <2>2, Paid
<1>5. ASSUME LeaveQueue(w, p) PROVE Nearer
  <2>1. /\ UNCHANGED scriptVars /\ trouble' = trouble
        /\ count[w][p]["queue"] > 0 /\ Move(w, p, "queue", "slot")
    BY <1>5 DEF LeaveQueue
  <2>2. Load(count') < Load(count)
    BY <1>1, <1>2, <2>1, LoadSteps
  <2> QED BY <1>1, <2>1, <2>2, Paid
<1>6. ASSUME Retry(w, p) PROVE Nearer
  <2>1. /\ UNCHANGED scriptVars /\ trouble' = trouble
        /\ count[w][p]["paused"] > 0 /\ Acquire(w, p, "paused")
    BY <1>6 DEF Retry
  <2>2. Load(count') < Load(count)
    BY <1>3, <2>1
  <2> QED BY <1>1, <2>1, <2>2, Paid
<1>7. ASSUME Answer(w, p) PROVE Nearer
  <2>1. /\ UNCHANGED scriptVars /\ trouble' = trouble
        /\ count[w][p]["slot"] > 0 /\ Finish(w, p, "slot")
    BY <1>7 DEF Answer
  <2>2. Load(count') < Load(count)
    BY <1>1, <1>2, <2>1, LoadSteps
  <2> QED BY <1>1, <2>1, <2>2, Paid
<1>8. ASSUME FailOver(w, p) PROVE Nearer
  <2>1. /\ UNCHANGED scriptVars /\ trouble' = trouble + 1
        /\ count[w][p]["slot"] > 0 /\ Move(w, p, "slot", "paused")
    BY <1>8 DEF FailOver, Trouble
  <2>2. Load(count') = Load(count) + 2
    BY <1>1, <1>2, <2>1, LoadSteps
  <2> QED BY <1>1, <2>1, <2>2, Paid
<1>9. ASSUME GiveUp(p, from) PROVE Nearer
  <2>1. /\ UNCHANGED scriptVars /\ trouble' = trouble + 1
        /\ count["script"][p][from] > 0
    BY <1>9 DEF GiveUp, Trouble
  <2>2. CASE Finish("script", p, from)
    <3>1. Load(count') < Load(count) + 3
      BY <1>1, <1>2, <2>1, <2>2, LoadSteps
    <3> QED BY <1>1, <2>1, <3>1, Paid
  <2>3. CASE count' = [count EXCEPT !["script"][p][from] = @ - 1,
                                    !["nobody"][p][from] = @ + 1]
    <3>1. count' = Moved(count, p, "script", from, "nobody", from) /\ count \in Counts
      BY <1>1, <2>3 DEF Moved, TypeOK, Counts
    <3>2. Load(count') = Load(count) - Weight(from) + Weight(from)
      BY <1>1, <2>1, <3>1, LoadMoved
    <3>3. Load(count') < Load(count) + 3
      BY <1>1, <1>2, <3>2
    <3> QED BY <1>1, <2>1, <3>3, Paid
  <2> QED BY <1>9, <2>2, <2>3 DEF GiveUp
<1>10. ASSUME AgeOut(p) \/ EndStream(p) \/ Probe(p) PROVE Nearer
  <2>1. UNCHANGED scriptVars /\ count' = count /\ trouble <= trouble'
    BY <1>1, <1>10 DEF AgeOut, EndStream, Release, Probe, Trouble
  <2> QED BY <1>1, <2>1, Idle
<1> QED BY <1>4, <1>5, <1>6, <1>7, <1>8, <1>9, <1>10 DEF Gateway

(* What the script does. *)
LEMMA ScriptNearer ==
    ASSUME IInv, IInv', Script PROVE Len(todo') < Len(todo) \/ Nearer
<1>1. /\ TypeOK /\ TypeOK' /\ unsent \in Nat /\ unsent' \in Nat /\ count \in Counts
      /\ Load(count) \in Nat /\ trouble \in Nat /\ MaxTrouble \in Nat
      /\ todo \in Seq(Scenarios)
  BY LoadType, BenchmarkAssumption DEF IInv, TypeOK, Counts
<1>2. Rest \in Nat /\ Rest' \in Nat
  BY <1>1, WorkSplit, WorkSplitNext DEF Split
<1>3. CASE CheckHealth
  <2>1. /\ phase = "health" /\ phase' # "health" /\ todo' = todo /\ unsent' = unsent
        /\ count' = count /\ trouble' = trouble
    BY <1>3 DEF CheckHealth
  <2>2. Rest' = Rest - 1
    BY <1>1, <2>1 DEF Rest
  <2> QED BY <1>1, <1>2, <2>1, <2>2, Falls
<1>4. CASE SendBatch
  <2>1. /\ phase = "running" /\ phase' = "running" /\ unsent > 0 /\ Now.pool \in Pools
        /\ Now.width \in Nat \ {0} /\ todo' = todo /\ trouble' = trouble
    BY <1>1, <1>4, Facts DEF SendBatch, Send
  <2>2. PICK n \in Nat \ {0} : n = Cut /\ n <= unsent
    BY <1>1, <2>1 DEF Cut, AtMost
  <2>3. /\ unsent' = unsent - n
        /\ count' = [count EXCEPT !["script"][Now.pool]["sent"] = @ + n]
    BY <1>4, <2>2 DEF SendBatch, Send
  <2>4. PICK x \in Nat : x = count["script"][Now.pool]["sent"] + n
    BY <1>1, <2>1 DEF Counts, Owners, Places
  <2>5. count' = Put(count, "script", Now.pool, "sent", x)
    BY <2>3, <2>4 DEF Put
  <2>6. Load(count') = Load(count) + Rise("sent", count["script"][Now.pool]["sent"], x)
    <3>1. "script" \in Owners /\ "sent" \in Places
      BY DEF Owners, Places
    <3> QED BY <1>1, <2>1, <2>5, <3>1, LoadChange
  <2>7. Rise("sent", count["script"][Now.pool]["sent"], x) = 3 * n
    <3>1. count["script"][Now.pool]["sent"] \in Nat
      BY <1>1, <2>1 DEF Counts, Owners, Places
    <3>2. x - count["script"][Now.pool]["sent"] = n
      BY <2>4, <3>1
    <3> QED BY <3>2 DEF Rise, Weight
  <2>8. Rest' = Rest - 4 * n
    BY <1>1, <2>1, <2>2, <2>3 DEF Rest
  <2> QED BY <1>1, <1>2, <2>1, <2>6, <2>7, <2>8, Falls
<1>5. CASE EndScenario
  <2>1. todo # <<>> /\ todo' = Tail(todo)
    BY <1>1, <1>5 DEF EndScenario, Advance, TypeOK
  <2> QED BY <1>1, <2>1
<1> QED BY <1>3, <1>4, <1>5 DEF Script

(* The work of a scenario runs out, for pools, queues and limits of any size:
   no step of the script or of a request brings any of it back. *)
THEOREM WorkEnds == Spec => WorkRunsOut
<1> DEFINE A == Len(todo') < Len(todo) \/ Nearer
<1>1. IInv /\ IInv' /\ [Next]_vars => [A]_vars
  <2> SUFFICES ASSUME IInv, IInv', Next PROVE A
    OBVIOUS
  <2>1. "script" \in Owners /\ "sent" \in Places
    BY DEF Owners, Places
  <2> QED BY <2>1, ScriptNearer, RequestNearer DEF Next
<1> QED BY <1>1, Invariant, PTL DEF Spec, WorkRunsOut, Nearer
=============================================================================

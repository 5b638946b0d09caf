-------------------------- MODULE ChatHandlerProofs --------------------------
(***************************************************************************)
(* Proofs, for any number of requests, any limits and any window, of the   *)
(* safety properties of ChatHandler that the runs check on two requests.   *)
(***************************************************************************)
EXTENDS ChatHandler, FiniteSetTheorems, SequenceTheorems, TLAPS

-----------------------------------------------------------------------------
(* The inductive invariant *)

(* Readings of the clock: a request that has not read it has no stamp, no
   verdict and no commands; readings differ and none lies ahead. *)
StampsIssued ==
    /\ \A r \in Requests : pc[r] = "new" <=> stamp[r] = 0
    /\ \A r \in Requests : stamp[r] = 0 => verdict[r] = "none"
    /\ \A r \in Requests : stamp[r] <= clock
    /\ \A q, r \in Requests : stamp[q] = stamp[r] /\ stamp[q] > 0 => q = r
    /\ \A r \in ran : stamp[r] > 0 /\ stamp[r] <= latest[key[r]]
    /\ \A r \in Requests : verdict[r] \in {"granted", "rejected"} => r \in ran

(* A stamp Redis has seen is in the set, or so old that no request to come
   has it in its window. *)
Remembered ==
    \A r \in ran : \/ stamp[r] \in entries[key[r]]
                   \/ stamp[r] + Window <= latest[key[r]]
                   \/ stamp[r] + Window + MaxDelay <= clock

(* The set holds stamps of requests to its key, and outlives each of them by
   the window and the slack. *)
EntriesIssued ==
    \A k \in Keys : \A t \in entries[k] :
        /\ \E r \in Sent(k) : stamp[r] = t
        /\ t + Window + Slack <= expiry[k]

(* Rows and counts at each place a handler can be. *)
Spoilt(r) ==
    /\ r \notin Streams /\ status[r] = 500 /\ counted[r] = 2
    /\ pc[r] \in {"saving", "answered"}
    /\ pc[r] = "saving" => rows[r] = IF r \in lost THEN <<>> ELSE <<200>>
    /\ pc[r] = "answered" =>
          rows[r] \in IF r \in lost THEN {<<>>, <<200>>, <<500>>} ELSE {<<200, 500>>}
Whole(r) ==
    /\ pc[r] # "answered" => rows[r] = <<>>
    /\ pc[r] \notin {"answered", "gone"} => r \notin lost
    /\ pc[r] \in {"new", "limiting", "inside", "streaming", "closing", "gone"}
          => counted[r] = 0
    /\ pc[r] \in {"refusing", "dropping"} => counted[r] = 1
    /\ pc[r] = "saving" => counted[r] = IF status[r] = 200 THEN 0 ELSE 1
    /\ pc[r] = "answered" =>
          /\ rows[r] = IF r \in lost THEN <<>> ELSE <<status[r]>>
          /\ counted[r] \in {0, 1}
          /\ (r \in lost => r \notin Streams) => counted[r] = 1
Phase(r) ==
    /\ pc[r] \in {"streaming", "closing"} => r \in Streams
    /\ pc[r] \in {"inside", "saving"} => r \notin Streams
    /\ pc[r] \in {"refusing", "dropping", "saving", "closing"} => status[r] # 0
    /\ IF r \in spoilt THEN Spoilt(r) ELSE Whole(r)
Phases == \A r \in Requests : Phase(r)

IInv ==
    /\ TypeOK /\ StampsIssued /\ Remembered /\ EntriesIssued /\ Phases
    /\ WindowRespected /\ RejectedOnlyOverLimit /\ GaugeAccounted

-----------------------------------------------------------------------------
(* Counting *)

(* A function injective on S maps S to a set at least as large. *)
LEMMA Injected ==
    ASSUME NEW S, NEW T, IsFiniteSet(T), NEW f,
           \A x \in S : f[x] \in T,
           \A x, y \in S : f[x] = f[y] => x = y
    PROVE  Cardinality(S) <= Cardinality(T)
<1> DEFINE g == [x \in S |-> f[x]]
<1>1. g \in Injection(S, T)
  BY DEF Injection, IsInjective
<1> QED BY <1>1, FS_Injection

(* A set covered by the values of a function on S is at most as large as S. *)
LEMMA Surjected ==
    ASSUME NEW S, IsFiniteSet(S), NEW T, NEW f,
           \A t \in T : \E x \in S : f[x] = t
    PROVE  Cardinality(T) <= Cardinality(S)
<1> DEFINE R == {x \in S : f[x] \in T}
           g == [x \in R |-> f[x]]
<1>1. g \in Surjection(R, T)
  BY DEF Surjection
<1>2. IsFiniteSet(R) /\ Cardinality(R) <= Cardinality(S)
  BY FS_Subset
<1>3. Cardinality(T) <= Cardinality(R) /\ IsFiniteSet(T)
  BY <1>1, <1>2, FS_Surjection
<1>4. Cardinality(T) \in Int /\ Cardinality(R) \in Int /\ Cardinality(S) \in Int
  BY <1>2, <1>3, FS_CardinalityType
<1> QED BY <1>2, <1>3, <1>4

(* The requests, and whatever part of them, are finitely many. *)
LEMMA SomeRequests ==
    ASSUME NEW S \in SUBSET Requests
    PROVE  IsFiniteSet(S) /\ Cardinality(S) \in Nat
BY HandlerAssumption, FS_Subset, FS_CardinalityType

(* So are the entries of a key. *)
LEMMA SomeEntries ==
    ASSUME TypeOK, NEW k \in Keys
    PROVE  IsFiniteSet(entries[k]) /\ Cardinality(entries[k]) \in Nat
<1>1. IsFiniteSet(1..MaxClock) BY LimiterAssumption, FS_Interval
<1>2. entries[k] \in SUBSET (1..MaxClock) BY DEF TypeOK
<1> QED BY <1>1, <1>2, FS_Subset, FS_CardinalityType

-----------------------------------------------------------------------------
(* Types *)

(* The initial states are well typed. *)
LEMMA TypeInit == Init => TypeOK
BY LimiterAssumption DEF Init, LimiterInit, TypeOK, Places

(* The commands of a stamped request keep the types of Redis's state. *)
LEMMA CommandsTyped ==
    ASSUME TypeOK, NEW r \in Requests, stamp[r] > 0, Commands(r)
    PROVE  /\ entries' \in [Keys -> SUBSET (1..MaxClock)]
           /\ expiry' \in [Keys -> Nat]
           /\ ran' \subseteq Requests
           /\ latest' \in [Keys -> 0..MaxClock]
<1>1. key[r] \in Keys /\ stamp[r] \in 1..MaxClock /\ clock \in Nat
  BY LimiterAssumption DEF TypeOK
<1>2. Trimmed(r) \cup {stamp[r]} \subseteq 1..MaxClock
  BY <1>1 DEF Trimmed, TypeOK
<1>3. clock + Window + Slack \in Nat
  BY <1>1, LimiterAssumption
<1>4. Later(latest[key[r]], stamp[r]) \in 0..MaxClock
  BY <1>1 DEF Later, TypeOK
<1> QED BY <1>1, <1>2, <1>3, <1>4 DEF Commands, TypeOK

(* What a step of the limiter may change keeps its type. *)
LEMMA LimiterTyped ==
    ASSUME TypeOK, StampsIssued, UNCHANGED handlerVars,
           \/ \E r \in Requests : Judge(r) \/ RedisFails(r)
           \/ RedisStep
    PROVE  TypeOK'
<1> USE DEF TypeOK, handlerVars
<1>1. ASSUME NEW r \in Requests, Judge(r) PROVE TypeOK'
  BY <1>1, CommandsTyped DEF Judge, Asking
<1>2. ASSUME NEW r \in Requests, RedisFails(r) PROVE TypeOK'
  BY <1>2 DEF RedisFails
<1>3. ASSUME NEW r \in Requests, RunLate(r) PROVE TypeOK'
  <2>1. stamp[r] > 0 BY <1>3 DEF RunLate, StampsIssued
  <2> QED BY <1>3, <2>1, CommandsTyped DEF RunLate
<1>4. ASSUME NEW k \in Keys, Expire(k) PROVE TypeOK'
  BY <1>4 DEF Expire
<1>5. ASSUME Tick PROVE TypeOK'
  BY <1>5, LimiterAssumption DEF Tick
<1> QED BY <1>1, <1>2, <1>3, <1>4, <1>5 DEF RedisStep

(* A row that is written has a status. *)
LEMMA RowTyped ==
    ASSUME TypeOK, NEW r \in Requests, status[r] # 0, Log(r)
    PROVE  rows' \in [Requests -> Seq({200, 429} \cup Errors)] /\ lost' \subseteq Requests
<1> DEFINE Codes == {200, 429} \cup Errors
<1>1. status[r] \in Codes BY DEF TypeOK
<1>2. rows[r] \in Seq(Codes) BY DEF TypeOK
<1>3. Append(rows[r], status[r]) \in Seq(Codes)
  <2> HIDE DEF Codes
  <2> QED BY <1>1, <1>2
<1>4. rows \in [Requests -> Seq(Codes)] BY DEF TypeOK
<1>5. [rows EXCEPT ![r] = Append(@, status[r])] \in [Requests -> Seq(Codes)]
  <2> HIDE DEF Codes
  <2> QED BY <1>3, <1>4
<1>6. rows' \in [Requests -> Seq(Codes)]
  <2> HIDE DEF Codes
  <2> QED BY <1>4, <1>5 DEF Log
<1> QED BY <1>6 DEF Log, TypeOK

(* So does a count. *)
LEMMA CountTyped ==
    ASSUME TypeOK, NEW r \in Requests, Count(r)
    PROVE  counted' \in [Requests -> Nat]
<1>1. counted \in [Requests -> Nat] BY DEF TypeOK
<1>2. counted[r] + 1 \in Nat BY <1>1
<1> QED BY <1>1, <1>2 DEF Count

(* And a status that is settled. *)
LEMMA SettleTyped ==
    ASSUME TypeOK, NEW r \in Requests, NEW code \in {200, 429} \cup Errors,
           Settle(r, code)
    PROVE  status' \in [Requests -> {0, 200, 429} \cup Errors]
<1>1. status \in [Requests -> {0, 200, 429} \cup Errors] BY DEF TypeOK
<1> QED BY <1>1 DEF Settle

(* A handler moves to a place. *)
LEMMA PlaceTyped ==
    ASSUME TypeOK, NEW r \in Requests,
           NEW place \in Places, Goto(r, place)
    PROVE  pc' \in [Requests -> Places]
<1>1. pc \in [Requests -> Places] BY DEF TypeOK
<1> QED BY <1>1 DEF Goto

(* Every step of a handler keeps the types. *)
LEMMA HandlerTyped ==
    ASSUME TypeOK, Phases, NEW r \in Requests, HandlerStep(r), ~CheckLimit(r)
    PROVE  TypeOK'
<1> USE DEF TypeOK, limiterVars, Goto, Settle, Count, Errors, Places
<1>1. CASE Arrive(r)
  <2>1. clock + 1 \in 0..MaxClock
    BY <1>1, LimiterAssumption DEF Arrive, ReadClock
  <2>2. clock' \in 0..MaxClock /\ stamp' \in [Requests -> 0..MaxClock]
    BY <1>1, <2>1 DEF Arrive, ReadClock
  <2>3. UNCHANGED <<key, entries, expiry, ran, latest, verdict, status, rows,
                    lost, active, counted, queueRejected, spoilt>>
    BY <1>1 DEF Arrive, ReadClock
  <2>4. pc' \in [Requests -> Places]
    <3>1. Goto(r, "limiting") BY <1>1 DEF Arrive
    <3> HIDE DEF TypeOK, Goto
    <3> QED BY <3>1, PlaceTyped DEF Places
  <2> QED BY <2>2, <2>3, <2>4
<1>2. CASE Refuse(r)
  BY <1>2 DEF Refuse
<1>3. CASE LogRefusal(r)
  <2> HIDE DEF TypeOK, limiterVars, Goto, Settle, Count, Errors, Places
  <2>1. /\ pc[r] = "refusing" /\ Log(r) /\ Goto(r, "answered")
        /\ UNCHANGED <<limiterVars, status, active, counted, queueRejected,
                       spoilt>>
    BY <1>3 DEF LogRefusal
  <2>2. /\ rows' \in [Requests -> Seq({200, 429} \cup Errors)]
        /\ lost' \subseteq Requests
    <3>1. status[r] # 0 BY <2>1 DEF Phases, Phase
    <3> QED BY <2>1, <3>1, RowTyped
  <2>3. pc' \in [Requests -> Places]
    BY <2>1, PlaceTyped DEF Places
  <2> QED BY <2>1, <2>2, <2>3 DEF TypeOK, limiterVars
<1>4. CASE EnterStream(r)
  BY <1>4 DEF EnterStream
<1>5. CASE EnterFails(r)
  BY <1>5 DEF EnterFails
<1>6. CASE Enter(r)
  BY <1>6 DEF Enter
<1>7. CASE Served(r)
  BY <1>7 DEF Served
<1>8. CASE Failed(r)
  <2> HIDE DEF TypeOK, limiterVars, Goto, Settle, Count, Errors, Places
  <2>1. /\ \E code \in Errors : Settle(r, code)
        /\ Count(r) /\ Goto(r, "saving")
        /\ UNCHANGED <<limiterVars, rows, lost, active, spoilt>>
    BY <1>8 DEF Failed
  <2>2. status' \in [Requests -> {0, 200, 429} \cup Errors]
    <3>1. PICK code \in {200, 429} \cup Errors : Settle(r, code) BY <2>1
    <3> QED BY <3>1, SettleTyped
  <2>3. counted' \in [Requests -> Nat] BY <2>1, CountTyped
  <2>4. pc' \in [Requests -> Places]
    BY <2>1, PlaceTyped DEF Places
  <2>5. queueRejected' \subseteq Requests BY <1>8 DEF Failed, TypeOK
  <2> QED BY <2>1, <2>2, <2>3, <2>4, <2>5 DEF TypeOK, limiterVars
<1>9. CASE Save(r)
  <2> HIDE DEF TypeOK, limiterVars, Goto, Settle, Count, Errors, Places
  <2>1. /\ pc[r] = "saving" /\ Log(r) /\ Goto(r, "answered")
        /\ Count(r) \/ UNCHANGED counted
        /\ active' = active - 1
        /\ UNCHANGED <<limiterVars, status, queueRejected, spoilt>>
    BY <1>9 DEF Save
  <2>2. /\ rows' \in [Requests -> Seq({200, 429} \cup Errors)]
        /\ lost' \subseteq Requests
    <3>1. status[r] # 0 BY <2>1 DEF Phases, Phase
    <3> QED BY <2>1, <3>1, RowTyped
  <2>3. counted' \in [Requests -> Nat]
    BY <2>1, CountTyped DEF TypeOK
  <2>4. pc' \in [Requests -> Places]
    BY <2>1, PlaceTyped DEF Places
  <2>5. active' \in Int BY <2>1 DEF TypeOK
  <2> QED BY <2>1, <2>2, <2>3, <2>4, <2>5 DEF TypeOK, limiterVars
<1>10. CASE StreamEnds(r)
  <2>1. status' \in [Requests -> {0, 200, 429} \cup Errors]
    <3>1. Settle(r, 200) \/ Settle(r, 500) BY <1>10 DEF StreamEnds
    <3>2. {200, 500} \subseteq {200, 429} \cup Errors OBVIOUS
    <3> HIDE DEF TypeOK, Settle, Errors
    <3> QED BY <3>1, <3>2, SettleTyped
  <2>2. queueRejected' \subseteq Requests BY <1>10 DEF StreamEnds
  <2> QED BY <1>10, <2>1, <2>2 DEF StreamEnds
<1>11. CASE Abandon(r)
  BY <1>11 DEF Abandon
<1>12. CASE Cancel(r)
  BY <1>12 DEF Cancel
<1>13. CASE Close(r)
  <2> HIDE DEF TypeOK, limiterVars, Goto, Settle, Count, Errors, Places
  <2>1. /\ pc[r] = "closing" /\ Log(r) /\ Goto(r, "answered")
        /\ Count(r) \/ UNCHANGED counted
        /\ UNCHANGED <<limiterVars, status, active, queueRejected, spoilt>>
    BY <1>13 DEF Close
  <2>2. /\ rows' \in [Requests -> Seq({200, 429} \cup Errors)]
        /\ lost' \subseteq Requests
    <3>1. status[r] # 0 BY <2>1 DEF Phases, Phase
    <3> QED BY <2>1, <3>1, RowTyped
  <2>3. counted' \in [Requests -> Nat]
    BY <2>1, CountTyped DEF TypeOK
  <2>4. pc' \in [Requests -> Places]
    BY <2>1, PlaceTyped DEF Places
  <2> QED BY <2>1, <2>2, <2>3, <2>4 DEF TypeOK, limiterVars
<1>14. CASE Drop(r)
  BY <1>14 DEF Drop
<1>15. CASE AnswerFails(r)
  <2> HIDE DEF TypeOK, limiterVars, Goto, Settle, Count, Errors, Places
  <2>1. /\ Log(r) /\ status[r] = 200 /\ Settle(r, 500)
        /\ counted' = [counted EXCEPT ![r] = @ + 2]
        /\ spoilt' = spoilt \cup {r}
        /\ UNCHANGED <<limiterVars, pc, active, queueRejected>>
    BY <1>15 DEF AnswerFails
  <2>2. /\ rows' \in [Requests -> Seq({200, 429} \cup Errors)]
        /\ lost' \subseteq Requests
    BY <2>1, RowTyped
  <2>3. counted' \in [Requests -> Nat]
    <3>1. counted \in [Requests -> Nat] BY DEF TypeOK
    <3>2. counted[r] + 2 \in Nat BY <3>1
    <3> QED BY <2>1, <3>1, <3>2
  <2>4. status' \in [Requests -> {0, 200, 429} \cup Errors]
    <3>1. 500 \in {200, 429} \cup Errors BY DEF Errors
    <3> QED BY <2>1, <3>1, SettleTyped
  <2>5. spoilt' \subseteq Requests BY <2>1 DEF TypeOK
  <2>6. UNCHANGED <<key, clock, stamp, entries, expiry, ran, latest, verdict,
                    pc, active, queueRejected>>
    BY <2>1 DEF limiterVars
  <2> QED BY <2>2, <2>3, <2>4, <2>5, <2>6 DEF TypeOK
<1> HIDE DEF TypeOK, limiterVars, Goto, Settle, Count, Errors, Places
<1> QED BY <1>1, <1>2, <1>3, <1>4, <1>5, <1>6, <1>7, <1>8, <1>9, <1>10, <1>11,
           <1>12, <1>13, <1>14, <1>15 DEF HandlerStep

-----------------------------------------------------------------------------
(* What Redis holds *)

(* A limiter step of Redis or of a request, as opposed to a step of a handler. *)
LimiterStep ==
    /\ UNCHANGED handlerVars
    /\ \/ \E r \in Requests : Judge(r) \/ RedisFails(r)
       \/ RedisStep

(* Running the commands of a stamped request leaves its key with entries that
   remember what matters and were all issued. *)
LEMMA CommandsRemember ==
    ASSUME TypeOK, StampsIssued, Remembered, EntriesIssued,
           NEW r \in Requests, stamp[r] > 0, Commands(r),
           UNCHANGED <<key, clock, stamp>>
    PROVE  Remembered' /\ EntriesIssued'
<1> DEFINE k == key[r]
<1>1. /\ k \in Keys /\ stamp[r] \in Int /\ clock \in Int /\ stamp[r] <= clock
      /\ latest[k] \in Int /\ Window \in Nat /\ Slack \in Nat /\ MaxDelay \in Nat
  BY LimiterAssumption DEF TypeOK, StampsIssued
<1>2. /\ entries'[k] = Trimmed(r) \cup {stamp[r]}
      /\ latest'[k] = Later(latest[k], stamp[r])
      /\ expiry'[k] = clock + Window + Slack
      /\ \A l \in Keys \ {k} : /\ entries'[l] = entries[l]
                               /\ latest'[l] = latest[l] /\ expiry'[l] = expiry[l]
      /\ ran' = ran \cup {r}
  BY <1>1 DEF Commands, TypeOK
<1>3. stamp[r] <= latest'[k] /\ latest[k] <= latest'[k]
  BY <1>1, <1>2 DEF Later
<1>4. Remembered'
  <2> SUFFICES ASSUME NEW q \in ran \cup {r}
               PROVE  \/ stamp[q] \in entries'[key[q]]
                      \/ stamp[q] + Window <= latest'[key[q]]
                      \/ stamp[q] + Window + MaxDelay <= clock
    BY <1>2 DEF Remembered
  <2>1. q \in Requests /\ key[q] \in Keys /\ stamp[q] \in Int
    BY DEF TypeOK
  <2>2. CASE q = r BY <1>2, <2>2
  <2>3. CASE q \in ran /\ key[q] # k
    BY <1>2, <2>1, <2>3 DEF Remembered
  <2>4. CASE q \in ran /\ key[q] = k
    <3>1. CASE stamp[q] \in entries[k]
      <4>1. CASE stamp[q] > stamp[r] - Window
        BY <1>2, <2>4, <3>1, <4>1 DEF Trimmed
      <4>2. CASE ~(stamp[q] > stamp[r] - Window)
        BY <1>1, <1>2, <1>3, <2>1, <2>4, <4>2 DEF Later
      <4> QED BY <4>1, <4>2
    <3>2. CASE stamp[q] + Window <= latest[k]
      BY <1>1, <1>2, <1>3, <2>1, <2>4, <3>2 DEF Later
    <3> QED BY <2>4, <3>1, <3>2 DEF Remembered
  <2> QED BY <2>2, <2>3, <2>4
<1>5. EntriesIssued'
  <2> SUFFICES ASSUME NEW l \in Keys, NEW t \in entries'[l]
               PROVE  /\ \E q \in Sent(l) : stamp[q] = t
                      /\ t + Window + Slack <= expiry'[l]
    BY DEF EntriesIssued, Sent
  <2>1. CASE l # k
    BY <1>2, <2>1 DEF EntriesIssued
  <2>2. CASE l = k
    <3>1. \E q \in Sent(k) : stamp[q] = t
      <4>1. CASE t = stamp[r] BY <4>1 DEF Sent
      <4>2. CASE t \in entries[k] BY <1>1, <4>2 DEF EntriesIssued
      <4> QED BY <1>2, <2>2, <4>1, <4>2 DEF Trimmed
    <3>2. t \in Int /\ t <= clock
      BY <3>1 DEF Sent, StampsIssued, TypeOK
    <3> QED BY <1>1, <1>2, <2>2, <3>1, <3>2
  <2> QED BY <2>1, <2>2
<1> QED BY <1>4, <1>5

(* Every step of the limiter keeps the readings, the memory and the entries
   in order. *)
LEMMA LimiterOrder ==
    ASSUME TypeOK, StampsIssued, Remembered, EntriesIssued, LimiterStep
    PROVE  StampsIssued' /\ Remembered' /\ EntriesIssued'
<1> USE DEF handlerVars
<1>1. ASSUME NEW r \in Requests, stamp[r] > 0, Commands(r), UNCHANGED <<key, clock, stamp>>
      PROVE  \A q \in ran' : stamp'[q] > 0 /\ stamp'[q] <= latest'[key'[q]]
  <2> SUFFICES ASSUME NEW q \in ran \cup {r}
               PROVE  stamp[q] > 0 /\ stamp[q] <= latest'[key[q]]
    BY <1>1 DEF Commands
  <2>1. q \in Requests /\ key[q] \in Keys /\ key[r] \in Keys
    BY DEF TypeOK
  <2>2. stamp[r] \in Int /\ stamp[q] \in Int /\ latest[key[q]] \in Int
    BY <2>1 DEF TypeOK
  <2>3. latest'[key[q]] = IF key[q] = key[r] THEN Later(latest[key[r]], stamp[r])
                          ELSE latest[key[q]]
    BY <1>1, <2>1 DEF Commands, TypeOK
  <2>4. q \in ran => stamp[q] > 0 /\ stamp[q] <= latest[key[q]]
    BY DEF StampsIssued
  <2> QED BY <1>1, <2>2, <2>3, <2>4 DEF Later
<1>2. ASSUME NEW r \in Requests, Judge(r)
      PROVE  StampsIssued' /\ Remembered' /\ EntriesIssued'
  <2>1. /\ stamp[r] > 0 /\ Commands(r) /\ UNCHANGED <<key, clock, stamp>>
        /\ ran' = ran \cup {r}
        /\ \A q \in Requests \ {r} : verdict'[q] = verdict[q]
    BY <1>2 DEF Judge, Asking, Commands, TypeOK
  <2>2. Remembered' /\ EntriesIssued' BY <2>1, CommandsRemember
  <2>3. \A q \in ran' : stamp'[q] > 0 /\ stamp'[q] <= latest'[key'[q]]
    BY <2>1, <1>1
  <2>4. \A q \in Requests : verdict'[q] \in {"granted", "rejected"} => q \in ran'
    BY <2>1 DEF StampsIssued
  <2>5. \A q \in Requests : stamp'[q] = 0 => verdict'[q] = "none"
    BY <2>1 DEF StampsIssued
  <2>6. /\ \A q \in Requests : pc'[q] = "new" <=> stamp'[q] = 0
        /\ \A q \in Requests : stamp'[q] <= clock'
        /\ \A p, q \in Requests : stamp'[p] = stamp'[q] /\ stamp'[p] > 0 => p = q
    BY <2>1, LimiterStep DEF StampsIssued, LimiterStep
  <2> QED BY <2>2, <2>3, <2>4, <2>5, <2>6 DEF StampsIssued
<1>3. ASSUME NEW r \in Requests, RedisFails(r)
      PROVE  StampsIssued' /\ Remembered' /\ EntriesIssued'
  <2>1. /\ stamp[r] > 0 /\ UNCHANGED <<key, clock, stamp, entries, expiry, ran, latest>>
        /\ \A q \in Requests : verdict'[q] = IF q = r THEN "error" ELSE verdict[q]
    BY <1>3 DEF RedisFails, Asking, TypeOK
  <2>2. StampsIssued'
    BY <2>1, LimiterStep DEF LimiterStep, StampsIssued
  <2> QED BY <2>1, <2>2 DEF Remembered, EntriesIssued, Sent
<1>4. ASSUME NEW r \in Requests, RunLate(r)
      PROVE  StampsIssued' /\ Remembered' /\ EntriesIssued'
  <2>1. /\ stamp[r] > 0 /\ Commands(r) /\ UNCHANGED <<key, clock, stamp, verdict>>
        /\ ran' = ran \cup {r}
    BY <1>4 DEF RunLate, Commands, StampsIssued, TypeOK
  <2>2. Remembered' /\ EntriesIssued' BY <2>1, CommandsRemember
  <2>3. \A q \in ran' : stamp'[q] > 0 /\ stamp'[q] <= latest'[key'[q]]
    BY <2>1, <1>1
  <2> QED BY <2>1, <2>2, <2>3, LimiterStep DEF LimiterStep, StampsIssued
<1>5. ASSUME NEW k \in Keys, Expire(k)
      PROVE  StampsIssued' /\ Remembered' /\ EntriesIssued'
  <2>1. /\ clock >= expiry[k] /\ UNCHANGED <<key, clock, stamp, expiry, ran, latest, verdict>>
        /\ entries' = [entries EXCEPT ![k] = {}]
    BY <1>5 DEF Expire
  <2>2. StampsIssued'
    BY <2>1, LimiterStep DEF LimiterStep, StampsIssued
  <2>3. EntriesIssued'
    BY <2>1 DEF EntriesIssued, Sent, TypeOK
  <2>4. Remembered'
    <3> SUFFICES ASSUME NEW q \in ran
                 PROVE  \/ stamp[q] \in entries'[key[q]]
                        \/ stamp[q] + Window <= latest[key[q]]
                        \/ stamp[q] + Window + MaxDelay <= clock
      BY <2>1 DEF Remembered
    <3>1. q \in Requests /\ key[q] \in Keys /\ stamp[q] \in Int /\ clock \in Int
      BY DEF TypeOK
    <3>2. CASE key[q] = k /\ stamp[q] \in entries[k]
      <4>1. stamp[q] + Window + Slack <= expiry[k] /\ expiry[k] \in Int
        BY <3>2 DEF EntriesIssued, TypeOK
      <4> QED BY <2>1, <3>1, <4>1, LimiterAssumption
    <3>3. CASE ~(key[q] = k /\ stamp[q] \in entries[k])
      <4>1. stamp[q] \in entries[key[q]] => stamp[q] \in entries'[key[q]]
        BY <2>1, <3>1, <3>3 DEF TypeOK
      <4> QED BY <4>1 DEF Remembered
    <3> QED BY <3>2, <3>3
  <2> QED BY <2>2, <2>3, <2>4
<1>6. ASSUME Tick
      PROVE  StampsIssued' /\ Remembered' /\ EntriesIssued'
  <2>1. /\ clock' = clock + 1 /\ clock \in Int
        /\ UNCHANGED <<key, stamp, entries, expiry, ran, latest, verdict>>
    BY <1>6 DEF Tick, TypeOK
  <2>2. StampsIssued'
    BY <2>1, LimiterStep DEF LimiterStep, StampsIssued, TypeOK
  <2>3. Remembered'
    BY <2>1, LimiterAssumption DEF Remembered, TypeOK
  <2> QED BY <2>1, <2>2, <2>3 DEF EntriesIssued, Sent
<1> QED BY <1>2, <1>3, <1>4, <1>5, <1>6 DEF LimiterStep, RedisStep

-----------------------------------------------------------------------------
(* The limits *)

(* Whatever else the commands of a granted request find in the set, every
   granted request of the window is in it, and it is within the limit. *)
LEMMA GrantWithinLimit ==
    ASSUME TypeOK, TypeOK', StampsIssued, StampsIssued', Remembered',
           NEW r \in Requests, Judge(r), verdict'[r] = "granted"
    PROVE  Cardinality(InWindow(key[r])') <= Limit[key[r]]
<1> DEFINE k == key[r]
           S == InWindow(k)'
<1>1. /\ stamp[r] \in Int /\ clock \in Int /\ clock <= stamp[r] + MaxDelay
      /\ UNCHANGED <<key, clock, stamp>> /\ k \in Keys
      /\ Window \in Nat /\ MaxDelay \in Nat
  BY LimiterAssumption DEF Judge, TypeOK
<1>2. stamp[r] <= latest'[k] /\ latest'[k] \in Int
  BY <1>1 DEF Judge, Commands, Later, TypeOK
<1>3. \A q \in S : stamp[q] \in entries'[k]
  <2> SUFFICES ASSUME NEW q \in S PROVE stamp[q] \in entries'[k]
    OBVIOUS
  <2>1. /\ q \in Requests /\ key[q] = k /\ stamp[q] \in Int
        /\ verdict'[q] = "granted" /\ stamp[q] > latest'[k] - Window
    BY <1>1 DEF InWindow, Granted, Sent, TypeOK
  <2>2. q \in ran' BY <2>1 DEF StampsIssued
  <2> QED BY <1>1, <1>2, <2>1, <2>2 DEF Remembered
<1>4. \A p, q \in S : stamp[p] = stamp[q] => p = q
  BY <1>1 DEF StampsIssued, InWindow, Granted, Sent
<1>5. IsFiniteSet(entries'[k]) /\ Cardinality(entries'[k]) \in Nat
  <2>1. IsFiniteSet(1..MaxClock) BY LimiterAssumption, FS_Interval
  <2>2. entries'[k] \in SUBSET (1..MaxClock) BY <1>1 DEF TypeOK
  <2> QED BY <2>1, <2>2, FS_Subset, FS_CardinalityType
<1>6. Cardinality(S) <= Cardinality(entries'[k])
  <2> HIDE DEF S, k
  <2> QED BY <1>3, <1>4, <1>5, Injected
<1>7. Cardinality(entries'[k]) <= Limit[k]
  <2>1. ~(Cardinality(entries'[k]) > Limit[k])
    BY <1>1 DEF Judge, TypeOK
  <2>2. k \in Keys /\ Limit[k] \in Nat
    BY LimiterAssumption DEF TypeOK
  <2> HIDE DEF k
  <2> QED BY <1>5, <2>1, <2>2
<1>8. Cardinality(S) \in Nat
  <2>1. S \in SUBSET Requests BY DEF InWindow, Granted, Sent
  <2> HIDE DEF S
  <2> QED BY <2>1, SomeRequests
<1> QED BY <1>1, <1>5, <1>6, <1>7, <1>8, LimiterAssumption

(* A window that takes no new request stays within its limit. *)
LEMMA WindowShrinks ==
    ASSUME WindowRespected, NEW k \in Keys, InWindow(k)' \subseteq InWindow(k)
    PROVE  Cardinality(InWindow(k)') <= Limit[k]
<1>1. InWindow(k) \in SUBSET Requests BY DEF InWindow, Granted, Sent
<1>2. IsFiniteSet(InWindow(k)) /\ Cardinality(InWindow(k)) \in Nat
  BY <1>1, SomeRequests
<1>3. /\ IsFiniteSet(InWindow(k)')
      /\ Cardinality(InWindow(k)') <= Cardinality(InWindow(k))
  BY <1>2, FS_Subset
<1>4. Cardinality(InWindow(k)') \in Nat BY <1>3, FS_CardinalityType
<1> QED BY <1>2, <1>3, <1>4, LimiterAssumption DEF WindowRespected

(* Commands move no window back and grant nothing. *)
LEMMA CommandsShrink ==
    ASSUME TypeOK, NEW r \in Requests, Commands(r), UNCHANGED <<key, clock, stamp>>,
           NEW k \in Keys, \A q \in Requests : key[q] = k /\ verdict'[q] = "granted"
                                             => verdict[q] = "granted"
    PROVE  InWindow(k)' \subseteq InWindow(k)
<1>1. latest'[k] >= latest[k] /\ latest'[k] \in Int /\ latest[k] \in Int
  BY DEF Commands, Later, TypeOK
<1> SUFFICES ASSUME NEW q \in InWindow(k)' PROVE q \in InWindow(k)
  OBVIOUS
<1>2. /\ q \in Requests /\ key[q] = k /\ stamp[q] > 0 /\ verdict'[q] = "granted"
      /\ stamp[q] > latest'[k] - Window /\ stamp[q] \in Int
  BY DEF InWindow, Granted, Sent, TypeOK
<1> QED BY <1>1, <1>2, LimiterAssumption DEF InWindow, Granted, Sent

(* Every step of the limiter keeps to the limits. *)
LEMMA LimiterLimits ==
    ASSUME TypeOK, TypeOK', StampsIssued, StampsIssued', Remembered',
           WindowRespected, LimiterStep
    PROVE  WindowRespected'
<1> SUFFICES ASSUME NEW k \in Keys PROVE Cardinality(InWindow(k)') <= Limit[k]
  BY DEF WindowRespected
<1>1. ASSUME NEW r \in Requests, Judge(r) PROVE Cardinality(InWindow(k)') <= Limit[k]
  <2>1. /\ Commands(r) /\ UNCHANGED <<key, clock, stamp>>
        /\ \A q \in Requests \ {r} : verdict'[q] = verdict[q]
    BY <1>1 DEF Judge, TypeOK
  <2>2. CASE verdict'[r] = "granted" /\ key[r] = k
    <3>1. Cardinality(InWindow(key[r])') <= Limit[key[r]]
      BY <1>1, <2>2, GrantWithinLimit
    <3>2. key' = key BY <2>1
    <3> QED BY <2>2, <3>1, <3>2
  <2>3. CASE ~(verdict'[r] = "granted" /\ key[r] = k)
    <3>1. InWindow(k)' \subseteq InWindow(k) BY <2>1, <2>3, CommandsShrink
    <3> QED BY <3>1, WindowShrinks
  <2> QED BY <2>2, <2>3
<1>2. ASSUME NEW r \in Requests, RedisFails(r)
      PROVE  Cardinality(InWindow(k)') <= Limit[k]
  <2>1. InWindow(k)' \subseteq InWindow(k)
    BY <1>2 DEF RedisFails, InWindow, Granted, Sent, TypeOK
  <2> QED BY <2>1, WindowShrinks
<1>3. ASSUME NEW r \in Requests, RunLate(r)
      PROVE  Cardinality(InWindow(k)') <= Limit[k]
  <2>1. Commands(r) /\ UNCHANGED <<key, clock, stamp, verdict>>
    BY <1>3 DEF RunLate
  <2>2. InWindow(k)' \subseteq InWindow(k) BY <2>1, CommandsShrink
  <2> QED BY <2>2, WindowShrinks
<1>4. ASSUME \E l \in Keys : Expire(l) PROVE Cardinality(InWindow(k)') <= Limit[k]
  <2>1. UNCHANGED <<key, clock, stamp, latest, verdict>> BY <1>4 DEF Expire
  <2>2. InWindow(k)' \subseteq InWindow(k) BY <2>1 DEF InWindow, Granted, Sent
  <2> QED BY <2>2, WindowShrinks
<1>5. ASSUME Tick PROVE Cardinality(InWindow(k)') <= Limit[k]
  <2>1. InWindow(k)' \subseteq InWindow(k)
    BY <1>5 DEF Tick, InWindow, Granted, Sent
  <2> QED BY <2>1, WindowShrinks
<1> QED BY <1>1, <1>2, <1>3, <1>4, <1>5 DEF LimiterStep, RedisStep

(* A request is rejected for entries that requests of its own key left in its
   window. *)
LEMMA RejectionDeserved ==
    ASSUME TypeOK, TypeOK', StampsIssued, EntriesIssued,
           NEW r \in Requests, Judge(r), verdict'[r] = "rejected"
    PROVE  Cardinality(SentAround(r)') > Limit[key[r]]
<1> DEFINE k == key[r]
           S == SentAround(r)'
<1>1. /\ stamp[r] \in Int /\ stamp[r] > 0 /\ clock \in Int
      /\ stamp[r] <= clock /\ clock <= stamp[r] + MaxDelay
      /\ UNCHANGED <<key, clock, stamp>> /\ k \in Keys
      /\ Window \in Nat \ {0} /\ MaxDelay \in Nat
  BY LimiterAssumption DEF Judge, Asking, TypeOK, StampsIssued
<1>2. entries'[k] = Trimmed(r) \cup {stamp[r]}
  BY <1>1 DEF Judge, Commands, TypeOK
<1>3. \A t \in entries'[k] : \E q \in S : stamp[q] = t
  <2> SUFFICES ASSUME NEW t \in entries'[k] PROVE \E q \in S : stamp[q] = t
    OBVIOUS
  <2>1. CASE t = stamp[r]
    BY <1>1, <2>1 DEF SentAround, Sent
  <2>2. CASE t \in Trimmed(r)
    <3>1. PICK q \in Sent(k) : stamp[q] = t
      BY <1>1, <2>2 DEF Trimmed, EntriesIssued
    <3>2. stamp[q] \in Int /\ stamp[q] <= clock /\ stamp[q] > stamp[r] - Window
      BY <2>2, <3>1 DEF Trimmed, Sent, TypeOK, StampsIssued
    <3>3. q \in S
      BY <1>1, <3>1, <3>2 DEF SentAround, Sent
    <3> QED BY <3>1, <3>3
  <2> QED BY <1>2, <2>1, <2>2
<1>4. S \in SUBSET Requests BY DEF SentAround, Sent
<1>5. IsFiniteSet(S) /\ Cardinality(S) \in Nat
  <2> HIDE DEF S
  <2> QED BY <1>4, SomeRequests
<1>6. Cardinality(entries'[k]) <= Cardinality(S)
  <2> HIDE DEF S, k
  <2> QED BY <1>3, <1>5, Surjected
<1>7. Cardinality(entries'[k]) > Limit[k]
  BY <1>1 DEF Judge, TypeOK
<1>8. Cardinality(entries'[k]) \in Nat
  <2>1. IsFiniteSet(1..MaxClock) BY LimiterAssumption, FS_Interval
  <2>2. entries'[k] \in SUBSET (1..MaxClock) BY <1>1 DEF TypeOK
  <2> QED BY <2>1, <2>2, FS_Subset, FS_CardinalityType
<1> QED BY <1>1, <1>5, <1>6, <1>7, <1>8, LimiterAssumption

(* Every step of the limiter keeps its rejections deserved. *)
LEMMA LimiterRejects ==
    ASSUME TypeOK, TypeOK', StampsIssued, EntriesIssued, RejectedOnlyOverLimit,
           LimiterStep
    PROVE  RejectedOnlyOverLimit'
<1> SUFFICES ASSUME NEW q \in Requests, verdict'[q] = "rejected"
             PROVE  Cardinality(SentAround(q)') > Limit[key'[q]]
  BY DEF RejectedOnlyOverLimit
<1>1. UNCHANGED <<key, stamp>>
  BY DEF LimiterStep, RedisStep, Judge, RedisFails, RunLate, Expire, Tick
<1>2. CASE verdict[q] = "rejected"
  <2>1. SentAround(q)' = SentAround(q) BY <1>1 DEF SentAround, Sent
  <2> QED BY <1>1, <1>2, <2>1 DEF RejectedOnlyOverLimit
<1>3. CASE verdict[q] # "rejected"
  <2>1. Judge(q)
    <3>1. ASSUME NEW r \in Requests, Judge(r) PROVE Judge(q)
      <4>1. CASE r = q BY <3>1, <4>1
      <4>2. CASE r # q BY <1>3, <3>1, <4>2 DEF Judge, TypeOK
      <4> QED BY <4>1, <4>2
    <3>2. ASSUME NEW r \in Requests, RedisFails(r) PROVE FALSE
      BY <1>3, <3>2 DEF RedisFails, TypeOK
    <3>3. ASSUME RedisStep PROVE FALSE
      BY <1>3, <3>3 DEF RedisStep, RunLate, Expire, Tick
    <3> QED BY <3>1, <3>2, <3>3 DEF LimiterStep
  <2> QED BY <1>1, <2>1, RejectionDeserved
<1> QED BY <1>2, <1>3

-----------------------------------------------------------------------------
(* The handlers *)

(* A new request reads the clock: it has the newest stamp, and changes nobody's
   window. *)
LEMMA ArriveOrder ==
    ASSUME TypeOK, StampsIssued, Remembered, EntriesIssued, WindowRespected,
           RejectedOnlyOverLimit, NEW r \in Requests, Arrive(r)
    PROVE  /\ StampsIssued' /\ Remembered' /\ EntriesIssued'
           /\ WindowRespected' /\ RejectedOnlyOverLimit'
<1>1. /\ clock' = clock + 1 /\ clock \in Nat
      /\ UNCHANGED <<key, entries, expiry, ran, latest, verdict>>
      /\ stamp[r] = 0 /\ verdict[r] = "none" /\ stamp'[r] = clock + 1
      /\ pc[r] = "new" /\ pc'[r] = "limiting"
      /\ \A q \in Requests \ {r} : stamp'[q] = stamp[q] /\ pc'[q] = pc[q]
  BY DEF Arrive, ReadClock, Goto, TypeOK, StampsIssued
<1>2. r \notin ran BY <1>1 DEF StampsIssued
<1>3. \A q \in Requests : stamp[q] \in Int /\ stamp[q] <= clock
  BY DEF TypeOK, StampsIssued
<1>4. StampsIssued'
  <2>1. \A q \in Requests : stamp'[q] <= clock'
    BY <1>1, <1>3
  <2>2. \A p, q \in Requests : stamp'[p] = stamp'[q] /\ stamp'[p] > 0 => p = q
    BY <1>1, <1>3 DEF StampsIssued
  <2>3. \A q \in Requests : pc'[q] = "new" <=> stamp'[q] = 0
    BY <1>1 DEF StampsIssued
  <2>4. \A q \in Requests : stamp'[q] = 0 => verdict'[q] = "none"
    BY <1>1 DEF StampsIssued
  <2>5. \A q \in ran : stamp'[q] > 0 /\ stamp'[q] <= latest[key[q]]
    <3> SUFFICES ASSUME NEW q \in ran
                 PROVE  stamp'[q] > 0 /\ stamp'[q] <= latest[key[q]]
      OBVIOUS
    <3>1. q \in Requests BY DEF TypeOK
    <3>2. stamp'[q] = stamp[q] BY <1>1, <1>2, <3>1
    <3>3. stamp[q] > 0 /\ stamp[q] <= latest[key[q]] BY DEF StampsIssued
    <3> QED BY <3>2, <3>3
  <2> QED BY <1>1, <2>1, <2>2, <2>3, <2>4, <2>5 DEF StampsIssued
<1>5. Remembered'
  <2> SUFFICES ASSUME NEW q \in ran
               PROVE  \/ stamp'[q] \in entries[key[q]]
                      \/ stamp'[q] + Window <= latest[key[q]]
                      \/ stamp'[q] + Window + MaxDelay <= clock + 1
    BY <1>1 DEF Remembered
  <2>1. q \in Requests /\ stamp'[q] = stamp[q] BY <1>1, <1>2 DEF TypeOK
  <2> QED BY <1>1, <1>3, <2>1, LimiterAssumption DEF Remembered
<1>6. \A k \in Keys : \A q \in Sent(k) : q \in Sent(k)' /\ stamp'[q] = stamp[q]
  BY <1>1 DEF Sent
<1>7. EntriesIssued'
  <2> SUFFICES ASSUME NEW k \in Keys, NEW t \in entries[k]
               PROVE  /\ \E q \in Sent(k)' : stamp'[q] = t
                      /\ t + Window + Slack <= expiry[k]
    BY <1>1 DEF EntriesIssued
  <2>1. PICK q \in Sent(k) : stamp[q] = t BY DEF EntriesIssued
  <2> QED BY <1>6, <2>1 DEF EntriesIssued
<1>8. WindowRespected'
  <2> SUFFICES ASSUME NEW k \in Keys PROVE Cardinality(InWindow(k)') <= Limit[k]
    BY DEF WindowRespected
  <2>1. InWindow(k)' \subseteq InWindow(k)
    BY <1>1 DEF InWindow, Granted, Sent
  <2> QED BY <2>1, WindowShrinks
<1>9. RejectedOnlyOverLimit'
  <2> SUFFICES ASSUME NEW q \in Requests, verdict[q] = "rejected"
               PROVE  Cardinality(SentAround(q)') > Limit[key[q]]
    BY <1>1 DEF RejectedOnlyOverLimit
  <2>1. q # r /\ stamp'[q] = stamp[q] /\ key[q] \in Keys
    BY <1>1 DEF TypeOK
  <2>2. SentAround(q) \subseteq SentAround(q)'
    BY <1>1, <1>6, <2>1 DEF SentAround, Sent
  <2>3. /\ SentAround(q) \in SUBSET Requests
        /\ SentAround(q)' \in SUBSET Requests
    BY DEF SentAround, Sent
  <2>4. IsFiniteSet(SentAround(q)') /\ Cardinality(SentAround(q)') \in Nat
    BY <2>3, SomeRequests
  <2>5. Cardinality(SentAround(q)) <= Cardinality(SentAround(q)')
    BY <2>2, <2>4, FS_Subset
  <2>6. Cardinality(SentAround(q)) \in Nat BY <2>3, SomeRequests
  <2> QED BY <2>1, <2>4, <2>5, <2>6, LimiterAssumption DEF RejectedOnlyOverLimit
<1> QED BY <1>4, <1>5, <1>7, <1>8, <1>9

(* A step that leaves the limiter alone, as all others of a handler do. *)
LEMMA LimiterIdle ==
    ASSUME Remembered, EntriesIssued, WindowRespected, RejectedOnlyOverLimit,
           UNCHANGED limiterVars
    PROVE  Remembered' /\ EntriesIssued' /\ WindowRespected' /\ RejectedOnlyOverLimit'
BY DEF limiterVars, Remembered, EntriesIssued, WindowRespected,
       RejectedOnlyOverLimit, InWindow, Granted, SentAround, Sent

(* No such step makes a request new again. *)
LEMMA HandlerStamps ==
    ASSUME TypeOK, StampsIssued, NEW r \in Requests, HandlerStep(r),
           UNCHANGED limiterVars
    PROVE  StampsIssued'
<1>1. \/ /\ pc[r] # "new" /\ pc'[r] # "new"
         /\ \A q \in Requests \ {r} : pc'[q] = pc[q]
      \/ UNCHANGED pc
  <2>1. ~Arrive(r)
    BY DEF Arrive, ReadClock, limiterVars, TypeOK
  <2> QED
    BY <2>1 DEF HandlerStep, CheckLimit, handlerVars, Refuse, LogRefusal,
                EnterStream, EnterFails, Drop, Enter, Passed, Served, Failed,
                AnswerFails, Save, StreamEnds, Abandon, Cancel, Close, Goto, TypeOK
<1> QED BY <1>1 DEF limiterVars, StampsIssued

(* Nothing of another request is touched by a step of a handler. *)
LEMMA OthersUntouched ==
    ASSUME TypeOK, NEW r \in Requests, HandlerStep(r), ~CheckLimit(r),
           NEW q \in Requests \ {r}
    PROVE  /\ pc'[q] = pc[q] /\ status'[q] = status[q] /\ rows'[q] = rows[q]
           /\ counted'[q] = counted[q] /\ (q \in lost' <=> q \in lost)
           /\ q \in spoilt' <=> q \in spoilt
<1> USE DEF TypeOK, Goto, Settle, Count, Log
<1>1. CASE Arrive(r) BY <1>1 DEF Arrive
<1>2. CASE Refuse(r) BY <1>2 DEF Refuse
<1>3. CASE LogRefusal(r) BY <1>3 DEF LogRefusal
<1>4. CASE EnterStream(r) BY <1>4 DEF EnterStream
<1>5. CASE EnterFails(r) BY <1>5 DEF EnterFails
<1>6. CASE Enter(r) BY <1>6 DEF Enter
<1>7. CASE Served(r) BY <1>7 DEF Served
<1>8. CASE Failed(r) BY <1>8 DEF Failed
<1>9. CASE Save(r) BY <1>9 DEF Save
<1>10. CASE StreamEnds(r) BY <1>10 DEF StreamEnds
<1>11. CASE Abandon(r) BY <1>11 DEF Abandon
<1>12. CASE Cancel(r) BY <1>12 DEF Cancel
<1>13. CASE Close(r) BY <1>13 DEF Close
<1>14. CASE Drop(r) BY <1>14 DEF Drop
<1>15. CASE AnswerFails(r) BY <1>15 DEF AnswerFails
<1> HIDE DEF TypeOK, Goto, Settle, Count, Log
<1> QED BY <1>1, <1>2, <1>3, <1>4, <1>5, <1>6, <1>7, <1>8, <1>9, <1>10, <1>11,
           <1>12, <1>13, <1>14, <1>15 DEF HandlerStep

(* A row is written after those that are there, or it is lost. *)
LEMMA NextRow ==
    ASSUME TypeOK, NEW r \in Requests, Log(r)
    PROVE  \/ /\ rows'[r] = Append(rows[r], status[r])
              /\ r \in lost' <=> r \in lost
           \/ rows'[r] = rows[r] /\ r \in lost'
<1>1. CASE UNCHANGED lost /\ rows' = [rows EXCEPT ![r] = Append(@, status[r])]
  <2>1. rows'[r] = Append(rows[r], status[r]) BY <1>1 DEF TypeOK
  <2> QED BY <1>1, <2>1
<1>2. CASE lost' = lost \cup {r} /\ UNCHANGED rows
  BY <1>2
<1> QED BY <1>1, <1>2 DEF Log

(* A first row. *)
LEMMA FirstRow ==
    ASSUME TypeOK, NEW r \in Requests, rows[r] = <<>>, r \notin lost, Log(r)
    PROVE  rows'[r] = IF r \in lost' THEN <<>> ELSE <<status[r]>>
<1>1. Append(<<>>, status[r]) = <<status[r]>> OBVIOUS
<1> QED BY <1>1, NextRow

(* A step of a handler that has logged no result it could not answer. *)
LEMMA WholeStep ==
    ASSUME TypeOK, NEW r \in Requests, Phase(r), r \notin spoilt,
           HandlerStep(r), ~CheckLimit(r), ~AnswerFails(r)
    PROVE  Phase(r)'
<1> USE DEF TypeOK, Goto, Settle, Count, Phase, Whole
<1>1. CASE Arrive(r) BY <1>1 DEF Arrive
<1>2. CASE Refuse(r) BY <1>2 DEF Refuse
<1>3. CASE LogRefusal(r)
  <2>1. rows[r] = <<>> /\ counted[r] = 1 /\ r \notin lost BY <1>3 DEF LogRefusal
  <2>2. rows'[r] = IF r \in lost' THEN <<>> ELSE <<status[r]>>
    BY <1>3, <2>1, FirstRow DEF LogRefusal
  <2>3. /\ pc'[r] = "answered" /\ status'[r] = status[r]
        /\ counted'[r] = counted[r] /\ r \notin spoilt'
    BY <1>3 DEF LogRefusal
  <2> QED BY <2>1, <2>2, <2>3
<1>4. CASE EnterStream(r) BY <1>4 DEF EnterStream, Passed
<1>5. CASE EnterFails(r) BY <1>5 DEF EnterFails, Passed
<1>6. CASE Enter(r) BY <1>6 DEF Enter, Passed
<1>7. CASE Served(r) BY <1>7 DEF Served
<1>8. CASE Failed(r)
  <2>1. PICK code \in Errors : Settle(r, code) BY <1>8 DEF Failed
  <2>2. status'[r] \in {500, 503} BY <2>1 DEF Errors
  <2>3. /\ counted'[r] = 1 /\ pc'[r] = "saving" /\ rows'[r] = <<>>
        /\ r \notin lost' /\ r \notin spoilt' /\ r \notin Streams
    BY <1>8 DEF Failed
  <2> QED BY <2>2, <2>3
<1>9. CASE Save(r)
  <2>1. /\ rows[r] = <<>> /\ r \notin lost
        /\ counted[r] = IF status[r] = 200 THEN 0 ELSE 1
    BY <1>9 DEF Save
  <2>2. rows'[r] = IF r \in lost' THEN <<>> ELSE <<status[r]>>
    BY <1>9, <2>1, FirstRow DEF Save
  <2>3. pc'[r] = "answered" /\ status'[r] = status[r] /\ r \notin spoilt'
    BY <1>9 DEF Save
  <2>4. counted'[r] = 1
    BY <1>9, <2>1 DEF Save
  <2> QED BY <2>2, <2>3, <2>4
<1>10. CASE StreamEnds(r)
  <2>1. status'[r] \in {200, 500} BY <1>10 DEF StreamEnds
  <2>2. /\ pc'[r] = "closing" /\ rows'[r] = <<>> /\ counted'[r] = 0
        /\ r \in Streams /\ r \notin lost' /\ r \notin spoilt'
    BY <1>10 DEF StreamEnds
  <2> QED BY <2>1, <2>2
<1>11. CASE Abandon(r) BY <1>11 DEF Abandon
<1>12. CASE Cancel(r) BY <1>12 DEF Cancel
<1>13. CASE Close(r)
  <2>1. rows[r] = <<>> /\ counted[r] = 0 /\ r \notin lost /\ r \in Streams
    BY <1>13 DEF Close
  <2>2. rows'[r] = IF r \in lost' THEN <<>> ELSE <<status[r]>>
    BY <1>13, <2>1, FirstRow DEF Close
  <2>3. pc'[r] = "answered" /\ status'[r] = status[r] /\ r \notin spoilt'
    BY <1>13 DEF Close
  <2>4. counted'[r] = IF r \in lost' THEN 0 ELSE 1
    BY <1>13, <2>1 DEF Close
  <2> QED BY <2>1, <2>2, <2>3, <2>4
<1>14. CASE Drop(r) BY <1>14 DEF Drop
<1> QED BY <1>1, <1>2, <1>3, <1>4, <1>5, <1>6, <1>7, <1>8, <1>9, <1>10, <1>11,
           <1>12, <1>13, <1>14 DEF HandlerStep

(* A result that is no answer after all has been counted and may have a row. *)
LEMMA Spoils ==
    ASSUME TypeOK, NEW r \in Requests, Phase(r), AnswerFails(r), r \notin spoilt
    PROVE  Phase(r)'
<1>1. /\ pc[r] = "saving" /\ status[r] = 200 /\ Log(r) /\ r \notin Streams
      /\ rows[r] = <<>> /\ counted[r] = 0 /\ r \notin lost
  BY DEF AnswerFails, Phase, Whole
<1>2. rows'[r] = IF r \in lost' THEN <<>> ELSE <<200>>
  BY <1>1, FirstRow
<1>3. /\ r \in spoilt' /\ pc'[r] = "saving" /\ status'[r] = 500
      /\ counted'[r] = 2
  BY <1>1 DEF AnswerFails, Settle, TypeOK
<1> QED BY <1>1, <1>2, <1>3 DEF Phase, Spoilt

(* The log of a request whose result could not be sent. *)
LEMMA SecondRow == Append(<<200>>, 500) = <<200, 500>>
<1> DEFINE s == Append(<<200>>, 500)
           t == <<200, 500>>
<1>1. s \in Seq(Int) /\ t \in Seq(Int) OBVIOUS
<1>2. Len(s) = 2 /\ Len(t) = 2 OBVIOUS
<1>3. s[1] = 200 /\ s[2] = 500 /\ t[1] = 200 /\ t[2] = 500 OBVIOUS
<1>4. \A i \in 1..2 : s[i] = t[i]
  <2> HIDE DEF s, t
  <2> QED BY <1>3
<1> HIDE DEF s, t
<1>5. s = t BY <1>1, <1>2, <1>4, SeqEqual
<1> QED BY <1>5 DEF s, t

(* Such a request is saved once more, with status 500. *)
LEMMA SpoiltStep ==
    ASSUME TypeOK, NEW r \in Requests, Phase(r), r \in spoilt,
           HandlerStep(r), ~CheckLimit(r)
    PROVE  Phase(r)'
<1>1. /\ r \notin Streams /\ status[r] = 500 /\ counted[r] = 2
      /\ pc[r] \in {"saving", "answered"}
      /\ pc[r] = "saving" => rows[r] = IF r \in lost THEN <<>> ELSE <<200>>
  BY DEF Phase, Spoilt
<1>2. Save(r)
  BY <1>1 DEF HandlerStep, Arrive, Refuse, LogRefusal, EnterStream, EnterFails,
              Drop, Enter, Passed, Served, Failed, AnswerFails, StreamEnds,
              Abandon, Cancel, Close
<1>3. /\ pc[r] = "saving" /\ pc'[r] = "answered" /\ r \in spoilt' /\ Log(r)
      /\ status'[r] = 500 /\ counted'[r] = 2
  <2>1. /\ pc[r] = "saving" /\ Log(r) /\ Goto(r, "answered")
        /\ UNCHANGED <<status, spoilt>>
    BY <1>2 DEF Save
  <2>2. UNCHANGED counted
    <3>1. status[r] # 200 BY <1>1
    <3> QED BY <1>2, <3>1 DEF Save
  <2> QED BY <1>1, <2>1, <2>2 DEF Goto, TypeOK
<1>4. Append(<<>>, 500) = <<500>> /\ Append(<<200>>, 500) = <<200, 500>>
  <2>1. Append(<<>>, 500) = <<500>> OBVIOUS
  <2> QED BY <2>1, SecondRow
<1>5. rows'[r] \in IF r \in lost' THEN {<<>>, <<200>>, <<500>>} ELSE {<<200, 500>>}
  <2>1. \/ rows'[r] = Append(rows[r], 500) /\ (r \in lost' <=> r \in lost)
        \/ rows'[r] = rows[r] /\ r \in lost'
    BY <1>1, <1>3, NextRow
  <2>2. CASE r \in lost
    <3>1. r \in lost' /\ rows'[r] \in {<<>>, <<500>>}
      BY <1>1, <1>3, <1>4, <2>1, <2>2
    <3> QED BY <3>1
  <2>3. CASE r \notin lost
    <3>1. rows'[r] = IF r \in lost' THEN <<200>> ELSE <<200, 500>>
      BY <1>1, <1>3, <1>4, <2>1, <2>3
    <3> QED BY <3>1
  <2> QED BY <2>2, <2>3
<1> QED BY <1>1, <1>3, <1>5 DEF Phase, Spoilt

(* Each step of a handler moves its request from phase to phase. *)
LEMMA PhaseStep ==
    ASSUME TypeOK, Phases, NEW r \in Requests, HandlerStep(r), ~CheckLimit(r)
    PROVE  Phases'
<1>1. Phase(r)'
  <2>1. Phase(r) BY DEF Phases
  <2> QED BY <2>1, WholeStep, Spoils, SpoiltStep
<1>2. ASSUME NEW q \in Requests \ {r} PROVE Phase(q)'
  BY <1>2, OthersUntouched DEF Phase, Phases, Spoilt, Whole
<1> QED BY <1>1, <1>2 DEF Phases

(* The gauge goes up and down with the handlers that are inside. *)
LEMMA GaugeStep ==
    ASSUME TypeOK, GaugeAccounted, NEW r \in Requests, HandlerStep(r), ~CheckLimit(r)
    PROVE  GaugeAccounted'
<1>1. Inside \in SUBSET Requests BY DEF Inside
<1>2. IsFiniteSet(Inside) /\ Cardinality(Inside) \in Nat BY <1>1, SomeRequests
<1>3. CASE Enter(r) \/ EnterFails(r)
  <2>1. /\ r \notin Inside /\ Inside' = Inside \cup {r} /\ active' = active + 1
    BY <1>3 DEF Enter, EnterFails, Passed, Goto, Inside, TypeOK
  <2> QED BY <1>2, <2>1, FS_AddElement DEF GaugeAccounted
<1>4. CASE Save(r) \/ Drop(r)
  <2>1. r \in Inside /\ Inside' = Inside \ {r} /\ active' = active - 1
    BY <1>4 DEF Save, Drop, Goto, Inside, TypeOK
  <2> QED BY <1>2, <2>1, FS_RemoveElement DEF GaugeAccounted
<1>5. CASE Inside' = Inside /\ active' = active
  BY <1>5 DEF GaugeAccounted
<1>6. CASE Served(r) \/ Failed(r)
  <2>1. /\ pc[r] = "inside" /\ Goto(r, "saving") /\ active' = active
    BY <1>6 DEF Served, Failed
  <2>2. Inside' = Inside
    BY <2>1 DEF Goto, Inside, TypeOK
  <2> QED BY <1>5, <2>1, <2>2
<1>7. CASE Arrive(r) \/ Refuse(r) \/ LogRefusal(r) \/ EnterStream(r)
  <2>1. /\ pc[r] \in {"new", "limiting", "refusing"} /\ active' = active
        /\ \E place \in {"limiting", "refusing", "answered", "streaming"} :
              Goto(r, place)
    BY <1>7 DEF Arrive, Refuse, LogRefusal, EnterStream, Passed
  <2>2. Inside' = Inside
    BY <2>1 DEF Goto, Inside, TypeOK
  <2> QED BY <1>5, <2>1, <2>2
<1>8. CASE StreamEnds(r) \/ Abandon(r) \/ Cancel(r) \/ Close(r)
  <2>1. /\ pc[r] \in {"streaming", "closing"} /\ active' = active
        /\ \E place \in {"closing", "gone", "answered"} : Goto(r, place)
    BY <1>8 DEF StreamEnds, Abandon, Cancel, Close
  <2>2. Inside' = Inside
    BY <2>1 DEF Goto, Inside, TypeOK
  <2> QED BY <1>5, <2>1, <2>2
<1>9. CASE AnswerFails(r)
  BY <1>5, <1>9 DEF AnswerFails, Inside
<1> QED BY <1>3, <1>4, <1>6, <1>7, <1>8, <1>9 DEF HandlerStep

-----------------------------------------------------------------------------
(* The theorems *)

(* The invariant holds at the start. *)
LEMMA InitInv == Init => IInv
<1> SUFFICES ASSUME Init PROVE IInv OBVIOUS
<1> USE DEF Init, LimiterInit
<1>1. TypeOK BY TypeInit
<1>2. StampsIssued BY DEF StampsIssued
<1>3. Remembered /\ EntriesIssued
  BY <1>1 DEF Remembered, EntriesIssued, TypeOK
<1>4. Phases BY DEF Phases, Phase, Whole
<1>5. \A k \in Keys : InWindow(k) = {} BY DEF InWindow, Granted, Sent
<1>6. WindowRespected
  <2>1. \A k \in Keys : Cardinality(InWindow(k)) = 0 BY <1>5, FS_EmptySet
  <2>2. \A k \in Keys : Limit[k] \in Nat BY LimiterAssumption
  <2> QED BY <2>1, <2>2 DEF WindowRespected
<1>7. RejectedOnlyOverLimit BY DEF RejectedOnlyOverLimit
<1>8. Inside = {} BY DEF Inside
<1>9. GaugeAccounted BY <1>8, FS_EmptySet DEF GaugeAccounted
<1> QED BY <1>1, <1>2, <1>3, <1>4, <1>6, <1>7, <1>9 DEF IInv

(* Every step keeps it. *)
LEMMA StepInv == IInv /\ [Next]_vars => IInv'
<1> SUFFICES ASSUME IInv, [Next]_vars PROVE IInv' OBVIOUS
<1> USE DEF IInv
<1>1. CASE LimiterStep
  <2>1. TypeOK' BY <1>1, LimiterTyped DEF LimiterStep
  <2>2. StampsIssued' /\ Remembered' /\ EntriesIssued' BY <1>1, LimiterOrder
  <2>3. WindowRespected' BY <1>1, <2>1, <2>2, LimiterLimits
  <2>4. RejectedOnlyOverLimit' BY <1>1, <2>1, LimiterRejects
  <2>5. Phases' /\ GaugeAccounted'
    BY <1>1 DEF LimiterStep, handlerVars, Phases, Phase, Spoilt, Whole,
                GaugeAccounted, Inside
  <2> QED BY <2>1, <2>2, <2>3, <2>4, <2>5
<1>2. ASSUME NEW r \in Requests, HandlerStep(r), ~CheckLimit(r) PROVE IInv'
  <2>1. TypeOK' /\ Phases' /\ GaugeAccounted'
    BY <1>2, HandlerTyped, PhaseStep, GaugeStep
  <2>2. CASE Arrive(r) BY <2>1, <2>2, ArriveOrder
  <2>3. CASE ~Arrive(r)
    <3>1. UNCHANGED limiterVars
      BY <1>2, <2>3 DEF HandlerStep, Refuse, LogRefusal, EnterStream, EnterFails,
                        Drop, Enter, Served, Failed, AnswerFails, Save,
                        StreamEnds, Abandon, Cancel, Close
    <3>2. StampsIssued' BY <1>2, <3>1, HandlerStamps
    <3> QED BY <2>1, <3>1, <3>2, LimiterIdle
  <2> QED BY <2>2, <2>3
<1>3. CASE UNCHANGED vars
  <2>1. UNCHANGED limiterVars /\ UNCHANGED handlerVars BY <1>3 DEF vars
  <2>2. TypeOK' BY <2>1 DEF TypeOK, limiterVars, handlerVars
  <2>3. StampsIssued' BY <2>1 DEF StampsIssued, limiterVars, handlerVars
  <2>4. Phases' /\ GaugeAccounted'
    BY <2>1 DEF handlerVars, Phases, Phase, Spoilt, Whole, GaugeAccounted,
                Inside
  <2> QED BY <2>1, <2>2, <2>3, <2>4, LimiterIdle
<1>4. CASE Next
  <2>1. ASSUME NEW r \in Requests, CheckLimit(r) PROVE LimiterStep
    BY <2>1 DEF CheckLimit, LimiterStep
  <2> QED BY <1>1, <1>2, <1>4, <2>1 DEF Next, LimiterStep
<1> QED BY <1>3, <1>4

(* So it is an invariant. *)
LEMMA Invariance == Spec => []IInv
BY InitInv, StepInv, PTL DEF Spec

(* All variables keep their types. *)
THEOREM HandlerTypes == Spec => []TypeOK
BY Invariance, PTL DEF IInv

(* rate_limiter.py: no user is granted more than the limit of a pool within
   the current window, in whatever order and however late Redis runs the
   commands, as long as they are answered within the slack of EXPIRE. *)
THEOREM WindowCorrect == Spec => []WindowRespected
BY Invariance, PTL DEF IInv

(* rate_limiter.py: a 429 is backed by more requests than the limit, of the
   same user to the same pool. *)
THEOREM RejectionCorrect == Spec => []RejectedOnlyOverLimit
BY Invariance, PTL DEF IInv

(* chat.py: the gauge counts the handlers inside the try clause. *)
THEOREM GaugeCorrect == Spec => []GaugeAccounted
BY Invariance, PTL DEF IInv

(* What a request can have in the log. *)
LEMMA RowLengths ==
    ASSUME NEW a, NEW b
    PROVE  Len(<<>>) = 0 /\ Len(<<a>>) = 1 /\ Len(<<a, b>>) = 2
OBVIOUS

(* A log no longer than another. *)
LEMMA Shorter ==
    ASSUME NEW m, NEW n \in {1, 2}, m \in 0..n
    PROVE  m <= n /\ (m # n => m < n)
OBVIOUS

(* chat.py: a row for each outcome of a request, in their order, but for lost
   ones: a second one only for a result that was logged before it turned out
   that it cannot be sent. *)
THEOREM LogCorrect == Spec => []RowsAccounted
<1>1. IInv => RowsAccounted
  <2> SUFFICES ASSUME IInv, NEW r \in Requests
               PROVE  /\ Len(rows[r]) <= Len(Outcomes(r))
                      /\ pc[r] = "answered" =>
                            IF r \in lost THEN Len(rows[r]) < Len(Outcomes(r))
                                          ELSE rows[r] = Outcomes(r)
    BY DEF RowsAccounted
  <2>1. Phase(r) BY DEF IInv, Phases
  <2>2. CASE r \in spoilt
    <3>1. Spoilt(r) /\ Outcomes(r) = <<200, 500>>
      BY <2>1, <2>2 DEF Phase, Spoilt, Outcomes
    <3>2. Len(Outcomes(r)) = 2 BY <3>1, RowLengths
    <3>3. rows[r] \in {<<>>, <<200>>, <<500>>, <<200, 500>>}
      BY <3>1 DEF Spoilt
    <3>4. Len(rows[r]) \in {0, 1, 2} BY <3>3, RowLengths
    <3>5. pc[r] = "answered" /\ r \in lost => Len(rows[r]) \in {0, 1}
      <4>1. SUFFICES ASSUME pc[r] = "answered", r \in lost
                     PROVE  Len(rows[r]) \in {0, 1}
        OBVIOUS
      <4>2. rows[r] \in {<<>>, <<200>>, <<500>>} BY <3>1, <4>1 DEF Spoilt
      <4> QED BY <4>2, RowLengths
    <3>6. pc[r] = "answered" /\ r \notin lost => rows[r] = Outcomes(r)
      BY <3>1 DEF Spoilt
    <3>7. Len(rows[r]) <= Len(Outcomes(r))
      <4>1. Len(rows[r]) \in 0..2 BY <3>4
      <4> QED BY <3>2, <4>1, Shorter
    <3>8. pc[r] = "answered" /\ r \in lost => Len(rows[r]) < Len(Outcomes(r))
      <4>1. Len(rows[r]) \in {0, 1} => Len(rows[r]) \in 0..2 /\ Len(rows[r]) # 2
        OBVIOUS
      <4> QED BY <3>2, <3>5, <4>1, Shorter
    <3> QED BY <3>6, <3>7, <3>8
  <2>3. CASE r \notin spoilt
    <3>1. Whole(r) /\ Outcomes(r) = <<status[r]>>
      BY <2>1, <2>3 DEF Phase, Outcomes
    <3>2. Len(Outcomes(r)) = 1 BY <3>1, RowLengths
    <3>3. rows[r] = <<>> \/ (rows[r] = Outcomes(r) /\ r \notin lost)
      BY <3>1 DEF Whole
    <3>4. pc[r] = "answered" /\ r \notin lost => rows[r] = Outcomes(r)
      BY <3>1 DEF Whole
    <3>5. rows[r] = <<>> => Len(rows[r]) = 0 BY RowLengths
    <3>6. pc[r] = "answered" /\ r \in lost => rows[r] = <<>>
      BY <3>1 DEF Whole
    <3>7. Len(rows[r]) <= Len(Outcomes(r))
      <4>1. CASE rows[r] = <<>> BY <3>2, <3>5, <4>1
      <4>2. CASE rows[r] = Outcomes(r)
        <5>1. Len(rows[r]) = 1 BY <3>2, <4>2
        <5> QED BY <3>2, <5>1, Shorter
      <4> QED BY <3>3, <4>1, <4>2
    <3>8. pc[r] = "answered" /\ r \in lost => Len(rows[r]) < Len(Outcomes(r))
      BY <3>2, <3>5, <3>6
    <3> QED BY <3>4, <3>7, <3>8
  <2> QED BY <2>2, <2>3
<1> QED BY <1>1, Invariance, PTL

(* chat.py: the outcomes of a request are counted once each, but for streams
   whose row was lost. *)
THEOREM CountCorrect == Spec => []CountsAccounted
<1>1. IInv => CountsAccounted
  <2> SUFFICES ASSUME IInv, NEW r \in Requests
               PROVE  /\ counted[r] <= Len(Outcomes(r))
                      /\ pc[r] = "answered" /\ (r \in lost => r \notin Streams)
                            => counted[r] = Len(Outcomes(r))
    BY DEF CountsAccounted
  <2>1. Phase(r) /\ pc[r] \in Places BY DEF IInv, Phases, TypeOK
  <2>2. CASE r \in spoilt
    <3>1. counted[r] = 2 BY <2>1, <2>2 DEF Phase, Spoilt
    <3>2. Len(Outcomes(r)) = 2 BY <2>2, RowLengths DEF Outcomes
    <3> QED BY <3>1, <3>2
  <2>3. CASE r \notin spoilt
    <3>1. Len(Outcomes(r)) = 1 BY <2>3, RowLengths DEF Outcomes
    <3>2. /\ counted[r] \in {0, 1}
          /\ pc[r] = "answered" /\ (r \in lost => r \notin Streams)
                => counted[r] = 1
      BY <2>1, <2>3 DEF Phase, Whole, Places
    <3> QED BY <3>1, <3>2
  <2> QED BY <2>2, <2>3
<1> QED BY <1>1, Invariance, PTL

(* chat.py: row, gauge and counter, whichever way a request takes. *)
THEOREM AccountsCorrect == Spec => []Accounted
BY LogCorrect, GaugeCorrect, CountCorrect, PTL DEF Accounted

-----------------------------------------------------------------------------
(* Every window *)

(* Redis has seen no stamp that the clock has not shown. *)
LatestIssued == \A k \in Keys : latest[k] <= clock

(* Only commands raise what Redis has seen, to the stamp they carry. *)
LEMMA LatestStep == IInv /\ LatestIssued /\ [Next]_vars => LatestIssued'
<1> SUFFICES ASSUME IInv, LatestIssued, [Next]_vars, NEW k \in Keys
             PROVE  latest'[k] <= clock'
  BY DEF LatestIssued
<1>1. /\ clock \in Nat /\ latest[k] \in Nat /\ latest[k] <= clock
      /\ \A r \in Requests : stamp[r] \in Nat /\ stamp[r] <= clock
  BY LimiterAssumption DEF IInv, TypeOK, StampsIssued, LatestIssued
<1>2. ASSUME NEW r \in Requests, Commands(r), UNCHANGED clock
      PROVE  latest'[k] <= clock'
  BY <1>1, <1>2 DEF Commands, Later, IInv, TypeOK
<1>3. CASE UNCHANGED latest /\ clock' \in {clock, clock + 1}
  BY <1>1, <1>3
<1>4. ASSUME NEW r \in Requests, HandlerStep(r) PROVE latest'[k] <= clock'
  BY <1>2, <1>3, <1>4
     DEF HandlerStep, Arrive, ReadClock, CheckLimit, Judge, RedisFails, Refuse,
         LogRefusal, EnterStream, EnterFails, Drop, Enter, Served, Failed,
         AnswerFails, Save, StreamEnds, Abandon, Cancel, Close, limiterVars
<1>5. CASE RedisStep
  BY <1>2, <1>3, <1>5 DEF RedisStep, RunLate, Expire, Tick
<1>6. CASE UNCHANGED vars
  BY <1>3, <1>6 DEF vars, limiterVars
<1> QED BY <1>4, <1>5, <1>6 DEF Next

(* What the commands of a granted request do not find was trimmed by a stamp
   no later than the clock, and is therefore outside the short window. *)
LEMMA GrantInShortWindow ==
    ASSUME TypeOK, TypeOK', StampsIssued', Remembered', LatestIssued',
           NEW r \in Requests, Judge(r), verdict'[r] = "granted",
           NEW t \in 0..MaxClock, stamp[r] <= t
    PROVE  Cardinality(InShortWindow(key[r], t)') <= Limit[key[r]]
<1> DEFINE k == key[r]
           S == InShortWindow(k, t)'
<1>1. /\ stamp[r] \in Int /\ clock \in Int /\ clock <= stamp[r] + MaxDelay
      /\ UNCHANGED <<key, clock, stamp>> /\ k \in Keys
      /\ Window \in Nat /\ MaxDelay \in Nat /\ t \in Int
  BY LimiterAssumption DEF Judge, TypeOK
<1>2. latest'[k] <= clock /\ latest'[k] \in Int
  BY <1>1 DEF LatestIssued, TypeOK
<1>3. \A q \in S : stamp[q] \in entries'[k]
  <2> SUFFICES ASSUME NEW q \in S PROVE stamp[q] \in entries'[k]
    OBVIOUS
  <2>1. /\ q \in Requests /\ key[q] = k /\ stamp[q] \in Int
        /\ verdict'[q] = "granted" /\ stamp[q] > t - Window + MaxDelay
    BY <1>1 DEF InShortWindow, Granted, Sent, TypeOK
  <2>2. q \in ran' BY <2>1 DEF StampsIssued
  <2>3. ~(stamp[q] + Window <= latest'[k])
    BY <1>1, <1>2, <2>1
  <2>4. ~(stamp[q] + Window + MaxDelay <= clock)
    BY <1>1, <2>1
  <2> QED BY <1>1, <2>1, <2>2, <2>3, <2>4 DEF Remembered
<1>4. \A p, q \in S : stamp[p] = stamp[q] => p = q
  BY <1>1 DEF StampsIssued, InShortWindow, Granted, Sent
<1>5. IsFiniteSet(entries'[k]) /\ Cardinality(entries'[k]) \in Nat
  <2>1. IsFiniteSet(1..MaxClock) BY LimiterAssumption, FS_Interval
  <2>2. entries'[k] \in SUBSET (1..MaxClock) BY <1>1 DEF TypeOK
  <2> QED BY <2>1, <2>2, FS_Subset, FS_CardinalityType
<1>6. Cardinality(S) <= Cardinality(entries'[k])
  <2> HIDE DEF S, k
  <2> QED BY <1>3, <1>4, <1>5, Injected
<1>7. Cardinality(entries'[k]) <= Limit[k]
  <2>1. ~(Cardinality(entries'[k]) > Limit[k])
    BY <1>1 DEF Judge, TypeOK
  <2>2. k \in Keys /\ Limit[k] \in Nat
    BY LimiterAssumption DEF TypeOK
  <2> HIDE DEF k
  <2> QED BY <1>5, <2>1, <2>2
<1>8. Cardinality(S) \in Nat
  <2>1. S \in SUBSET Requests BY DEF InShortWindow, Granted, Sent
  <2> HIDE DEF S
  <2> QED BY <2>1, SomeRequests
<1> QED BY <1>1, <1>5, <1>6, <1>7, <1>8, LimiterAssumption

(* A request is granted by its own verdict only, and keeps its stamp. *)
LEMMA GrantsKept ==
    ASSUME IInv, [Next]_vars, NEW k \in Keys, NEW t,
           ~\E r \in Requests :
                /\ Judge(r) /\ verdict'[r] = "granted"
                /\ key[r] = k /\ stamp[r] <= t
    PROVE  InShortWindow(k, t)' \subseteq InShortWindow(k, t)
<1>1. CASE UNCHANGED <<key, stamp, verdict>>
  BY <1>1 DEF InShortWindow, Granted, Sent
<1>2. ASSUME NEW r \in Requests, Arrive(r)
      PROVE  InShortWindow(k, t)' \subseteq InShortWindow(k, t)
  <2>1. verdict[r] = "none"
    BY <1>2 DEF Arrive, IInv, StampsIssued
  <2> QED BY <1>2, <2>1
          DEF Arrive, ReadClock, InShortWindow, Granted, Sent, IInv, TypeOK
<1>3. ASSUME NEW r \in Requests, Judge(r)
      PROVE  InShortWindow(k, t)' \subseteq InShortWindow(k, t)
  <2>1. /\ UNCHANGED <<key, stamp>>
        /\ \A q \in Requests \ {r} : verdict'[q] = verdict[q]
    BY <1>3 DEF Judge, IInv, TypeOK
  <2>2. r \notin InShortWindow(k, t)'
    BY <1>3, <2>1 DEF InShortWindow, Granted, Sent
  <2> QED BY <2>1, <2>2 DEF InShortWindow, Granted, Sent
<1>4. ASSUME NEW r \in Requests, RedisFails(r)
      PROVE  InShortWindow(k, t)' \subseteq InShortWindow(k, t)
  BY <1>4 DEF RedisFails, InShortWindow, Granted, Sent, IInv, TypeOK
<1>5. ASSUME NEW r \in Requests, HandlerStep(r), ~Arrive(r), ~CheckLimit(r)
      PROVE  UNCHANGED <<key, stamp, verdict>>
  BY <1>5
     DEF HandlerStep, Refuse, LogRefusal, EnterStream, EnterFails, Drop,
         Enter, Served, Failed, AnswerFails, Save, StreamEnds, Abandon, Cancel, Close, limiterVars
<1>6. CASE RedisStep \/ UNCHANGED vars
  BY <1>1, <1>6 DEF RedisStep, RunLate, Expire, Tick, vars, limiterVars
<1> QED BY <1>1, <1>2, <1>3, <1>4, <1>5, <1>6 DEF Next, CheckLimit

(* Every step keeps the limit of every short window. *)
LEMMA EveryWindowStep ==
    ASSUME IInv, IInv', LatestIssued', EveryWindowRespected, [Next]_vars
    PROVE  EveryWindowRespected'
<1> SUFFICES ASSUME NEW k \in Keys, NEW t \in 0..MaxClock
             PROVE  Cardinality(InShortWindow(k, t)') <= Limit[k]
  BY DEF EveryWindowRespected
<1>1. CASE \E r \in Requests :
              /\ Judge(r) /\ verdict'[r] = "granted"
              /\ key[r] = k /\ stamp[r] <= t
  <2>1. PICK r \in Requests :
            /\ Judge(r) /\ verdict'[r] = "granted"
            /\ key[r] = k /\ stamp[r] <= t
    BY <1>1
  <2>2. Cardinality(InShortWindow(key[r], t)') <= Limit[key[r]]
    BY <2>1, GrantInShortWindow DEF IInv
  <2>3. key' = key
    BY <2>1 DEF Judge
  <2> QED BY <2>1, <2>2, <2>3
<1>2. CASE ~\E r \in Requests :
              /\ Judge(r) /\ verdict'[r] = "granted"
              /\ key[r] = k /\ stamp[r] <= t
  <2>1. InShortWindow(k, t)' \subseteq InShortWindow(k, t)
    BY <1>2, GrantsKept
  <2>2. InShortWindow(k, t) \in SUBSET Requests
    BY DEF InShortWindow, Granted, Sent
  <2>3. IsFiniteSet(InShortWindow(k, t))
        /\ Cardinality(InShortWindow(k, t)) \in Nat
    BY <2>2, SomeRequests
  <2>4. /\ IsFiniteSet(InShortWindow(k, t)')
        /\ Cardinality(InShortWindow(k, t)') <= Cardinality(InShortWindow(k, t))
    BY <2>1, <2>3, FS_Subset
  <2>5. Cardinality(InShortWindow(k, t)') \in Nat
    BY <2>4, FS_CardinalityType
  <2>6. Cardinality(InShortWindow(k, t)) <= Limit[k] /\ Limit[k] \in Nat
    BY LimiterAssumption DEF EveryWindowRespected
  <2> QED BY <2>3, <2>4, <2>5, <2>6
<1> QED BY <1>1, <1>2

(* rate_limiter.py: wherever a window ends, no user is granted more than the
   limit in it, if it is shorter than the real one by the time a pipeline may
   take: being overtaken gains a client no more than that. *)
THEOREM EveryWindowCorrect == Spec => []EveryWindowRespected
<1>1. Init => LatestIssued
  BY DEF Init, LimiterInit, LatestIssued
<1>2. Init => EveryWindowRespected
  <2> SUFFICES ASSUME Init, NEW k \in Keys, NEW t \in 0..MaxClock
               PROVE  Cardinality(InShortWindow(k, t)) <= Limit[k]
    BY DEF EveryWindowRespected
  <2>1. InShortWindow(k, t) = {}
    BY DEF Init, LimiterInit, InShortWindow, Granted, Sent
  <2> QED BY <2>1, FS_EmptySet, LimiterAssumption
<1> QED BY <1>1, <1>2, LatestStep, EveryWindowStep, Invariance, PTL DEF Spec

(* Both together: what the limiter promises of its windows. *)
THEOREM LimitCorrect == Spec => []LimitRespected
BY WindowCorrect, EveryWindowCorrect, PTL DEF LimitRespected
=============================================================================

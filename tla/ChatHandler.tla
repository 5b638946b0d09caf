----------------------------- MODULE ChatHandler -----------------------------
(***************************************************************************)
(* gateway/routers/chat.py: the handler of /v1/chat/completions, from the  *)
(* rate limiter to the row in request_logs.  What the pool makes of a      *)
(* request (module Gateway) is an outcome here.  A handler runs alone      *)
(* between two awaits: of Redis, of the pool, of the database.             *)
(***************************************************************************)
EXTENDS RateLimiter, Sequences

CONSTANT Streams  \* requests with stream=True

ASSUME HandlerAssumption == IsFiniteSet(Requests) /\ Streams \subseteq Requests

VARIABLES pc,             \* where the handler of a request is
          status,         \* the status it has settled on; 0 before
          rows,           \* the rows of request_logs, by request
          lost,           \* history: requests one of whose rows was not written
          spoilt,         \* history: results that were logged and not answered
          active,         \* ACTIVE_REQUESTS
          counted,        \* REQUEST_COUNT, by the request that raised it
          queueRejected   \* QUEUE_REJECTED, the requests that raised it

handlerVars ==
    <<pc, status, rows, lost, spoilt, active, counted, queueRejected>>
vars == <<limiterVars, handlerVars>>

\* 500 stands for any status or exception other than the pool's 503.
Errors == {500, 503}

Init ==
    /\ LimiterInit
    /\ pc = [r \in Requests |-> "new"]
    /\ status = [r \in Requests |-> 0]
    /\ rows = [r \in Requests |-> <<>>]
    /\ lost = {} /\ spoilt = {}
    /\ active = 0
    /\ counted = [r \in Requests |-> 0] /\ queueRejected = {}

Goto(r, place) == pc' = [pc EXCEPT ![r] = place]
Settle(r, code) == status' = [status EXCEPT ![r] = code]
Count(r) == counted' = [counted EXCEPT ![r] = @ + 1]

-----------------------------------------------------------------------------
(* Up to the pool *)

Arrive(r) ==
    /\ pc[r] = "new" /\ Goto(r, "limiting")
    /\ ReadClock(r)
    /\ UNCHANGED <<status, rows, lost, active, counted, queueRejected, spoilt>>

CheckLimit(r) ==
    /\ pc[r] = "limiting" /\ (Judge(r) \/ RedisFails(r))
    /\ UNCHANGED handlerVars

\* Faulty variant: the row gets no status.
RefuseUnsettled(r) ==
    /\ pc[r] = "limiting" /\ verdict[r] = "rejected"
    /\ Goto(r, "refusing")
    /\ Count(r)
    /\ UNCHANGED <<limiterVars, status, rows, lost, active,
                   queueRejected, spoilt>>

Refuse(r) ==
    /\ pc[r] = "limiting" /\ verdict[r] = "rejected"
    /\ Goto(r, "refusing") /\ Settle(r, 429)
    /\ Count(r)
    /\ UNCHANGED <<limiterVars, rows, lost, active, queueRejected, spoilt>>

Passed(r) == pc[r] = "limiting" /\ verdict[r] \in {"granted", "error"}

\* A StreamingResponse is returned at once: inc and dec in one step.
EnterStream(r) ==
    /\ Passed(r) /\ r \in Streams
    /\ Goto(r, "streaming")
    /\ UNCHANGED <<limiterVars, status, rows, lost, active, counted,
                   queueRejected, spoilt>>

Enter(r) ==
    /\ Passed(r) /\ r \notin Streams
    /\ Goto(r, "inside") /\ active' = active + 1
    /\ UNCHANGED <<limiterVars, status, rows, lost, counted,
                   queueRejected, spoilt>>

\* The prompt has a part whose text is null: its tokens cannot be estimated,
\* now or for the row.
EnterFails(r) ==
    /\ Passed(r) /\ r \in Streams
    /\ Goto(r, "dropping") /\ Settle(r, 500)
    /\ active' = active + 1 /\ Count(r)
    /\ UNCHANGED <<limiterVars, rows, lost, queueRejected, spoilt>>

Drop(r) ==
    /\ pc[r] = "dropping" /\ Goto(r, "answered")
    /\ lost' = lost \cup {r} /\ active' = active - 1
    /\ UNCHANGED <<limiterVars, status, rows, counted, queueRejected, spoilt>>

-----------------------------------------------------------------------------
(* submit_inference has returned or raised *)

Served(r) ==
    /\ pc[r] = "inside"
    /\ Goto(r, "saving") /\ Settle(r, 200)
    /\ UNCHANGED <<limiterVars, rows, lost, active, counted,
                   queueRejected, spoilt>>

Failed(r) ==
    /\ pc[r] = "inside"
    /\ \E code \in Errors :
          /\ Settle(r, code)
          /\ queueRejected' = IF code = 503 THEN queueRejected \cup {r}
                                          ELSE queueRejected
    /\ Count(r) /\ Goto(r, "saving")
    /\ UNCHANGED <<limiterVars, rows, lost, active, spoilt>>

\* The row is written, or it cannot be built or written.
Log(r) ==
    \/ rows' = [rows EXCEPT ![r] = Append(@, status[r])] /\ UNCHANGED lost
    \/ lost' = lost \cup {r} /\ UNCHANGED rows

\* Faulty variant: the refusal is logged and not raised again.
LogRefusalOn(r) ==
    /\ pc[r] = "refusing" /\ Log(r)
    /\ pc' = [pc EXCEPT ![r] = IF r \in Streams THEN "streaming" ELSE "inside"]
    /\ active' = active + (IF r \in Streams THEN 0 ELSE 1)
    /\ UNCHANGED <<limiterVars, status, counted, queueRejected, spoilt>>

LogRefusal(r) ==
    /\ pc[r] = "refusing" /\ Log(r)
    /\ Goto(r, "answered")
    /\ UNCHANGED <<limiterVars, status, active, counted, queueRejected, spoilt>>

\* Faulty variants: the gauge is lowered on success only; every request is
\* counted here, the failed ones once more.
SaveNoFinally(r) ==
    /\ pc[r] = "saving" /\ Log(r)
    /\ IF status[r] = 200 THEN Count(r) ELSE UNCHANGED counted
    /\ active' = active - (IF status[r] = 200 THEN 1 ELSE 0)
    /\ Goto(r, "answered")
    /\ UNCHANGED <<limiterVars, status, queueRejected, spoilt>>
SaveCountsAll(r) ==
    /\ pc[r] = "saving" /\ Log(r)
    /\ Count(r)
    /\ active' = active - 1
    /\ Goto(r, "answered")
    /\ UNCHANGED <<limiterVars, status, queueRejected, spoilt>>

\* A result is logged and counted, and then it is no answer: a token count
\* below zero, a NaN or a lone surrogate raises, and except Exception counts
\* and logs the request once more.
AnswerFails(r) ==
    /\ pc[r] = "saving" /\ status[r] = 200 /\ Log(r)
    /\ counted' = [counted EXCEPT ![r] = @ + 2] /\ Settle(r, 500)
    /\ spoilt' = spoilt \cup {r}
    /\ UNCHANGED <<limiterVars, pc, active, queueRejected>>

\* Logging a result, a refusal of the pool or an exception; finally: dec.
Save(r) ==
    /\ pc[r] = "saving" /\ Log(r)
    /\ IF status[r] = 200 THEN Count(r) ELSE UNCHANGED counted
    /\ active' = active - 1
    /\ Goto(r, "answered")
    /\ UNCHANGED <<limiterVars, status, queueRejected, spoilt>>

-----------------------------------------------------------------------------
(* event_stream *)

StreamEnds(r) ==
    /\ pc[r] = "streaming"
    /\ \/ Settle(r, 200) /\ UNCHANGED queueRejected
       \/ Settle(r, 500) /\ UNCHANGED queueRejected
       \/ Settle(r, 500) /\ queueRejected' = queueRejected \cup {r}
    /\ Goto(r, "closing")
    /\ UNCHANGED <<limiterVars, rows, lost, active, counted, spoilt>>

\* The caller leaves while a line is on its way to it: the generator stays at
\* its yield until the event loop closes it, in a task of its own.
Abandon(r) ==
    /\ pc[r] = "streaming"
    /\ Goto(r, "closing") /\ Settle(r, 200)
    /\ UNCHANGED <<limiterVars, rows, lost, active, counted,
                   queueRejected, spoilt>>

\* The caller leaves at any other await: the cancellation strikes again at the
\* await of the database.
Cancel(r) ==
    /\ pc[r] \in {"streaming", "closing"}
    /\ Goto(r, "gone") /\ lost' = lost \cup {r}
    /\ UNCHANGED <<limiterVars, status, rows, active, counted,
                   queueRejected, spoilt>>

\* A row that cannot be written raises past the counters.
Close(r) ==
    /\ pc[r] = "closing" /\ Log(r)
    /\ IF r \in lost' THEN UNCHANGED counted ELSE Count(r)
    /\ Goto(r, "answered")
    /\ UNCHANGED <<limiterVars, status, active, queueRejected, spoilt>>

-----------------------------------------------------------------------------
HandlerStep(r) ==
    \/ Arrive(r) \/ CheckLimit(r) \/ Refuse(r) \/ LogRefusal(r)
    \/ EnterStream(r) \/ EnterFails(r) \/ Drop(r) \/ Enter(r)
    \/ Served(r) \/ Failed(r) \/ AnswerFails(r) \/ Save(r)
    \/ StreamEnds(r) \/ Abandon(r) \/ Cancel(r) \/ Close(r)

Next ==
    \/ \E r \in Requests : HandlerStep(r)
    \/ RedisStep /\ UNCHANGED handlerVars

Spec == Init /\ [][Next]_vars

-----------------------------------------------------------------------------
Sent(k) == {r \in Requests : key[r] = k /\ stamp[r] > 0}
Granted(k) == {r \in Sent(k) : verdict[r] = "granted"}
InWindow(k) == {r \in Granted(k) : stamp[r] > latest[k] - Window}
InShortWindow(k, t) == {r \in Granted(k) : /\ stamp[r] > t - Window + MaxDelay
                                           /\ stamp[r] <= t}
SentAround(r) == {q \in Sent(key[r]) :
                     /\ stamp[q] > stamp[r] - Window
                     /\ stamp[q] <= stamp[r] + MaxDelay}
Inside == {r \in Requests : pc[r] \in {"inside", "saving", "dropping"}}

Places == {"new", "limiting", "refusing", "inside", "saving", "dropping",
           "streaming", "closing", "answered", "gone"}

(* Types of all variables. *)
TypeOK ==
    /\ key \in [Requests -> Keys]
    /\ clock \in 0..MaxClock
    /\ stamp \in [Requests -> 0..MaxClock]
    /\ entries \in [Keys -> SUBSET (1..MaxClock)]
    /\ expiry \in [Keys -> Nat]
    /\ ran \subseteq Requests
    /\ latest \in [Keys -> 0..MaxClock]
    /\ verdict \in [Requests -> {"none", "granted", "rejected", "error"}]
    /\ pc \in [Requests -> Places]
    /\ status \in [Requests -> {0, 200, 429} \cup Errors]
    /\ rows \in [Requests -> Seq({200, 429} \cup Errors)]
    /\ lost \subseteq Requests /\ spoilt \subseteq Requests
    /\ active \in Int /\ counted \in [Requests -> Nat]
    /\ queueRejected \subseteq Requests

(* In the window that ends with the newest stamp Redis has seen, no user has
   been granted more than the limit of the pool, though commands arrive out of
   order, arrive after their request has given up, and keys expire. *)
WindowRespected == \A k \in Keys : Cardinality(InWindow(k)) <= Limit[k]

(* Nor in any other window, wherever it ends: a pipeline that another one has
   overtaken finds a set that was trimmed too far, but never by more than the
   time it may be late, so that a window shorter by that is within the limit. *)
EveryWindowRespected ==
    \A k \in Keys, t \in 0..MaxClock :
        Cardinality(InShortWindow(k, t)) <= Limit[k]
LimitRespected == WindowRespected /\ EveryWindowRespected

(* A 429 is deserved: the user really has sent more requests than the limit to
   this pool, within the window before the request and the delay of its
   commands.  What the user sends to the other pool does not count. *)
RejectedOnlyOverLimit ==
    \A r \in Requests :
        verdict[r] = "rejected" => Cardinality(SentAround(r)) > Limit[key[r]]

(* The statuses a request has been settled with, one after the other. *)
Outcomes(r) == IF r \in spoilt THEN <<200, status[r]>> ELSE <<status[r]>>

(* The log: a finished request has a row for each of its outcomes, in that
   order, and fewer if one was lost; the last one is what the caller got. *)
RowsAccounted ==
    \A r \in Requests :
        /\ Len(rows[r]) <= Len(Outcomes(r))
        /\ pc[r] = "answered" =>
              IF r \in lost THEN Len(rows[r]) < Len(Outcomes(r))
                            ELSE rows[r] = Outcomes(r)

(* ACTIVE_REQUESTS counts the handlers that are inside: every path out of the
   try clause lowers it once.  (A stream leaves it before it begins, so the
   gauge is none of "in-flight requests", docs/code_overview.md:214.) *)
GaugeAccounted == active = Cardinality(Inside)

(* REQUEST_COUNT: failures are counted when they are known, results when they
   are logged, streams with their row; no outcome is counted twice, and every
   one of a finished request is, but for a stream whose row was lost. *)
CountsAccounted ==
    \A r \in Requests :
        /\ counted[r] <= Len(Outcomes(r))
        /\ pc[r] = "answered" /\ (r \in lost => r \notin Streams)
              => counted[r] = Len(Outcomes(r))

(* Whichever way a request leaves the handler, log, gauge and counter have
   accounted for it. *)
Accounted == RowsAccounted /\ GaugeAccounted /\ CountsAccounted
=============================================================================

----------------------------- MODULE RateLimiter -----------------------------
(***************************************************************************)
(* gateway/rate_limiter.py: a sliding window for each user and pool, kept  *)
(* in Redis as a sorted set of time stamps.  A request reads the gateway's *)
(* clock first and sends its commands later, so that pipelines reach Redis *)
(* out of the order of their stamps, late, or not at all; redis-py runs a  *)
(* pipeline as one transaction.  Two readings of time.time() in one        *)
(* process differ, and Redis's clock runs with the gateway's.              *)
(***************************************************************************)
EXTENDS Integers, FiniteSets

CONSTANTS Requests,
          Keys,      \* "rl:user:<id>:<pool>"
          Limit,     \* TEXT_RATE_LIMIT or MULTIMODAL_RATE_LIMIT, by key
          Window,    \* window_sec
          Slack,     \* what EXPIRE adds to the window: 1 s
          MaxDelay,  \* what may pass until Redis runs the commands of a request
                     \* that gets its reply: connecting, waiting for replies
                     \* (0.2 s each at most) and the event loop; it is assumed
                     \* to be within the slack
          MaxClock   \* bound: the last instant

ASSUME LimiterAssumption ==
    /\ Limit \in [Keys -> Nat]
    /\ Window \in Nat \ {0} /\ MaxClock \in Nat
    /\ Slack \in Nat /\ MaxDelay \in 0..Slack

VARIABLES key,      \* the key of each request, by its user and content
          clock,    \* time
          stamp,    \* now, of each request; 0 before it was read
          entries,  \* the sorted set of each key
          expiry,   \* when Redis drops the key
          ran,      \* history: requests whose commands Redis has run
          latest,   \* history: the newest stamp Redis has seen, by key
          verdict   \* how check_rate_limit ended: a return, the 429, an error

limiterVars == <<key, clock, stamp, entries, expiry, ran, latest, verdict>>

LimiterInit ==
    /\ key \in [Requests -> Keys]
    /\ clock = 0
    /\ stamp = [r \in Requests |-> 0]
    /\ entries = [k \in Keys |-> {}]
    /\ expiry = [k \in Keys |-> 0]
    /\ ran = {}
    /\ latest = [k \in Keys |-> 0]
    /\ verdict = [r \in Requests |-> "none"]

Later(s, t) == IF s > t THEN s ELSE t

-----------------------------------------------------------------------------
(* The commands of one request, as Redis runs them *)

Trimmed(r) == {t \in entries[key[r]] : t > stamp[r] - Window}

\* Faulty variant: the user's pools share one key.
CommandsShared(r) ==
    /\ entries' = [k \in Keys |->
                      {t \in entries[k] : t > stamp[r] - Window} \cup {stamp[r]}]
    /\ expiry' = [k \in Keys |-> clock + Window + Slack]
    /\ ran' = ran \cup {r}
    /\ latest' = [latest EXCEPT ![key[r]] = Later(@, stamp[r])]

Commands(r) ==
    LET k == key[r]
    IN  /\ entries' = [entries EXCEPT ![k] = Trimmed(r) \cup {stamp[r]}]
        /\ expiry' = [expiry EXCEPT ![k] = clock + Window + Slack]
        /\ ran' = ran \cup {r}
        /\ latest' = [latest EXCEPT ![k] = Later(@, stamp[r])]

-----------------------------------------------------------------------------
(* check_rate_limit *)

Asking(r) == stamp[r] > 0 /\ verdict[r] = "none"

ReadClock(r) ==
    /\ clock < MaxClock
    /\ clock' = clock + 1 /\ stamp' = [stamp EXCEPT ![r] = clock + 1]
    /\ UNCHANGED <<key, entries, expiry, ran, latest, verdict>>

Judge(r) ==
    /\ Asking(r)
    /\ clock <= stamp[r] + MaxDelay
    /\ Commands(r)
    /\ verdict' = [verdict EXCEPT ![r] =
                      IF Cardinality(entries'[key[r]]) > Limit[key[r]]
                      THEN "rejected" ELSE "granted"]
    /\ UNCHANGED <<key, clock, stamp>>

\* No connection, no reply in time or an error reply: RedisError.  The handler
\* lets the request through, which is not a grant of the limiter.
RedisFails(r) ==
    /\ Asking(r)
    /\ verdict' = [verdict EXCEPT ![r] = "error"]
    /\ UNCHANGED <<key, clock, stamp, entries, expiry, ran, latest>>

-----------------------------------------------------------------------------
(* Redis by itself, and time *)

\* Commands whose request is no longer waiting for the reply.
RunLate(r) ==
    /\ verdict[r] = "error" /\ r \notin ran
    /\ Commands(r)
    /\ UNCHANGED <<key, clock, stamp, verdict>>

\* Faulty variant: EXPIRE without the second on top of the window.
ExpireEarly(k) ==
    /\ entries[k] # {} /\ clock >= expiry[k] - Slack
    /\ entries' = [entries EXCEPT ![k] = {}]
    /\ UNCHANGED <<key, clock, stamp, expiry, ran, latest, verdict>>

Expire(k) ==
    /\ entries[k] # {} /\ clock >= expiry[k]
    /\ entries' = [entries EXCEPT ![k] = {}]
    /\ UNCHANGED <<key, clock, stamp, expiry, ran, latest, verdict>>

Tick ==
    /\ clock < MaxClock /\ clock' = clock + 1
    /\ UNCHANGED <<key, stamp, entries, expiry, ran, latest, verdict>>

RedisStep == Tick \/ (\E r \in Requests : RunLate(r)) \/ (\E k \in Keys : Expire(k))
=============================================================================

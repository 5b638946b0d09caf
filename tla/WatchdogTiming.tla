---------------------------- MODULE WatchdogTiming ----------------------------
(***************************************************************************)
(* scripts/llama_watchdog.sh in time: how long the loop of one node leaves *)
(* a dead server alone, and whether a slow one is ever given the time to   *)
(* load.  A unit of time is POLL_INTERVAL, 30 s.                           *)
(***************************************************************************)
EXTENDS Integers, Sequences

CONSTANTS Poll,        \* POLL_INTERVAL
          Wait,        \* RESTART_WAIT: what wait_for_health sleeps in all
          LongestWait, \* what it takes if every curl runs into its timeout
          Command,     \* what a failing curl and ssh take at most
          Backoffs,    \* FAILURE_BACKOFFS_SECONDS
          LoadTimes,   \* what a node may take from nohup to /health
          Budget,      \* the schedule added up: Budget[k] is a poll, k backoffs
                       \* and k + 1 attempts of the longest duration
          MaxCrashes,  \* bound: times the server dies by itself
          MaxRefused   \* bound: restart commands that fail

ASSUME TimingAssumption ==
    /\ Poll \in Nat \ {0} /\ Wait \in Nat \ {0} /\ Command \in Nat
    /\ LongestWait \in Nat /\ LongestWait >= Wait
    /\ Backoffs \in Seq(Nat \ {0}) /\ Backoffs # <<>>
    /\ LoadTimes \subseteq Nat \ {0}
    /\ MaxCrashes \in Nat /\ MaxRefused \in Nat

Longest == Len(Backoffs)

ASSUME BudgetAssumption ==
    /\ Budget \in [0..Longest -> Nat]
    /\ Budget[0] = Poll + Command + LongestWait
    /\ \A k \in 1..Longest :
          Budget[k] = Budget[k - 1] + Backoffs[k] + Command + LongestWait

VARIABLES server,   \* "down", "loading" or "ready"
          load,     \* what this node takes to load
          age,      \* time since the server was launched, while it loads
          loop,     \* "asleep" in monitor_node, "restarting" or "waiting" in
                    \* check_and_restart
          timer,    \* time left of the sleep, the command or the wait
          failures, \* consecutive_failures, which counts on past Len(Backoffs)
          late,     \* restart commands on the node whose ssh was given up
          downFor,  \* history: time since the server was last ready
          waited,   \* history: the server was launched by a command that
                    \* returned, and wait_for_health followed
          crashes, refused

vars == <<server, load, age, loop, timer, failures, late, downFor, waited,
          crashes, refused>>

\* start_linux.sh has launched the server before it starts the watchdog.
Init ==
    /\ load \in LoadTimes
    /\ server = "loading" /\ age = 0
    /\ loop = "asleep" /\ timer = 0 /\ failures = 0 /\ late = 0
    /\ downFor = 0 /\ waited = FALSE /\ crashes = 0 /\ refused = 0

-----------------------------------------------------------------------------
(* check_and_restart and monitor_node *)

Sleep(time) == loop' = "asleep" /\ timer' = time

\* Faulty variants: the counter is raised before it is used; every failure
\* gets the first backoff.
FailedLate ==
    /\ failures' = IF failures < Longest THEN failures + 1 ELSE failures
    /\ Sleep(Backoffs[IF failures' < Longest THEN failures' + 1 ELSE Longest])
FailedFlat ==
    /\ failures' = IF failures < Longest THEN failures + 1 ELSE failures
    /\ Sleep(Backoffs[1])

\* Bash counts from 0 and clamps the index; past the last entry the count
\* makes no difference and stops here.
Failed ==
    /\ failures' = IF failures < Longest THEN failures + 1 ELSE failures
    /\ Sleep(Backoffs[IF failures < Longest THEN failures + 1 ELSE Longest])

Succeeded == failures' = 0 /\ Sleep(Poll)

Check == loop = "asleep" /\ timer = 0

CheckOk ==
    /\ Check /\ server = "ready"
    /\ Succeeded
    /\ UNCHANGED <<server, load, age, late, downFor, waited, crashes, refused>>

\* The probe fails and the command is sent, which may take its time.
CheckFails ==
    /\ Check /\ server # "ready"
    /\ loop' = "restarting" /\ timer' \in 0..Command
    /\ UNCHANGED <<server, load, age, failures, late, downFor, waited, crashes,
                   refused>>

\* Whatever runs is killed and a new server is launched.
Launch == server' = "loading" /\ age' = 0

\* The sleeps of wait_for_health add up to RESTART_WAIT, its curls come on top.
Restart ==
    /\ loop = "restarting" /\ timer = 0
    /\ Launch /\ waited' = TRUE
    /\ loop' = "waiting" /\ timer' \in Wait..LongestWait
    /\ UNCHANGED <<load, failures, late, downFor, crashes, refused>>

\* ssh fails or is given up; the command may be under way on the node.
RestartFails ==
    /\ loop = "restarting" /\ timer = 0 /\ refused < MaxRefused
    /\ refused' = refused + 1 /\ late' \in {late, late + 1}
    /\ Failed
    /\ UNCHANGED <<server, load, age, downFor, waited, crashes>>

Recovered ==
    /\ loop = "waiting" /\ timer > 0 /\ server = "ready"
    /\ Succeeded
    /\ UNCHANGED <<server, load, age, late, downFor, waited, crashes, refused>>

\* The loop of wait_for_health ends without a last look.
NotRecovered ==
    /\ loop = "waiting" /\ timer = 0
    /\ Failed
    /\ UNCHANGED <<server, load, age, late, downFor, waited, crashes, refused>>

-----------------------------------------------------------------------------
(* Time and the server *)

\* Bound: the history stops counting past every budget.
MaxDown == Budget[Longest]

Tick ==
    /\ timer > 0 /\ ~(loop = "waiting" /\ server = "ready")
    /\ timer' = timer - 1
    /\ LET loaded == server = "loading" /\ age + 1 = load
       IN  /\ server' = IF loaded THEN "ready" ELSE server
           /\ age' = IF server = "loading" /\ ~loaded THEN age + 1 ELSE 0
           /\ downFor' = IF loaded \/ server = "ready" THEN 0
                         ELSE IF downFor < MaxDown THEN downFor + 1 ELSE downFor
    /\ UNCHANGED <<load, loop, failures, late, waited, crashes, refused>>

Crash ==
    /\ server # "down" /\ crashes < MaxCrashes
    /\ server' = "down" /\ age' = 0 /\ crashes' = crashes + 1
    /\ UNCHANGED <<load, loop, timer, failures, late, downFor, waited, refused>>

\* A command whose ssh was given up gets to the launch, whatever runs by then.
LateLaunch ==
    /\ late > 0 /\ late' = late - 1
    /\ Launch /\ waited' = FALSE
    /\ UNCHANGED <<load, loop, timer, failures, downFor, crashes, refused>>

LoopStep ==
    CheckOk \/ CheckFails \/ Restart \/ RestartFails \/ Recovered \/ NotRecovered

Next == LoopStep \/ Tick \/ Crash \/ LateLaunch

Spec == Init /\ [][Next]_vars

\* Time passes and the loop goes on; crashes and failing commands, late or
\* not, need not happen.
FairSpec == Spec /\ WF_vars(Tick) /\ WF_vars(LoopStep)

-----------------------------------------------------------------------------
(* Types; no sleep, command or wait is longer than the constants allow. *)
TypeOK ==
    /\ server \in {"down", "loading", "ready"}
    /\ load \in LoadTimes /\ age \in 0..(load - 1)
    /\ age > 0 => server = "loading"
    /\ loop \in {"asleep", "restarting", "waiting"}
    /\ timer \in Nat
    /\ loop = "restarting" => timer <= Command
    /\ loop = "waiting" => timer <= LongestWait
    /\ failures \in 0..Longest /\ downFor \in 0..MaxDown
    /\ waited \in BOOLEAN
    /\ crashes \in 0..MaxCrashes /\ refused \in 0..MaxRefused
    /\ late \in 0..refused

(* Downtime is bounded by the schedule: after k failed attempts since the
   server was last seen healthy it has been down for no longer than a poll, k
   backoffs and k + 1 attempts, each with the timeouts of its curls and its
   ssh. *)
DowntimeBounded == failures < Longest => downFor <= Budget[failures]

(* A check that finds a load of the watchdog's own under way, and kills it,
   comes after an attempt that failed; and the check kills no load that
   RESTART_WAIT and the backoff of the attempts so far suffice for, whatever
   commands failed meanwhile.  A command that gets to the launch late kills what
   runs and begins a load the loop did not wait for: of such a load nothing is
   said. *)
LoadNotCutShort ==
    Check /\ server = "loading" /\ waited =>
        failures > 0 /\ load > Wait + Backoffs[failures]

(* A restart interrupts a load that is still under way.  The growing backoff
   is what lets a slow node finish: one that loads within the wait and the
   longest backoff is up for good once crashes and failing commands stop. *)
LongestBackoff == Backoffs[Longest]
SlowNodesRecover == load <= Wait + LongestBackoff => <>[](server = "ready")
=============================================================================

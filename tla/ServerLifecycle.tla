--------------------------- MODULE ServerLifecycle ---------------------------
(***************************************************************************)
(* The llama-server of one node under the scripts that act on it: the      *)
(* node's loop in scripts/llama_watchdog.sh, startup_scripts/start_linux.sh *)
(* with scripts/start_linux_worker.sh, and startup_scripts/stop_linux.sh.  *)
(* Each acts on what it saw a moment ago, over ssh, and a command that runs *)
(* on the node outlives the script that sent it.                           *)
(***************************************************************************)
EXTENDS Integers, FiniteSets

CONSTANTS Servers,    \* bound: llama-server processes that may exist at once
          Shells,     \* bound: restart commands that may run at once
          NoShell,
          MaxRounds,  \* rounds of KILL_WAIT_LOOP
          MaxCrashes, \* bound: times a server dies by itself
          Starts,     \* runs of start_linux.sh
          Faults      \* of {"stuck", "slow", "again", "beside"}, see below

\* stuck: a killed process may outlive all rounds; slow: ssh and curl may time
\* out on a node that is there; again: start_linux.sh may be run on a platform
\* that is up; beside: it may be run, and stop_linux.sh too, while one of them
\* is still at work.
ASSUME LifecycleAssumption ==
    /\ NoShell \notin Shells
    /\ MaxRounds \in Nat \ {0} /\ MaxCrashes \in Nat
    /\ Faults \subseteq {"stuck", "slow", "again", "beside"}

VARIABLES proc,     \* the llama-server processes on the node
          shell,    \* restart commands running on the node
          rounds,   \* rounds of their kill loops so far
          wd,       \* what the loop for the node is doing in the watchdog
                    \* that a start launched
          awaited,  \* the command that loop waits for
          starter,  \* what the runs of start_linux.sh are doing
          stopper,  \* what stop_linux.sh is doing
          stopped,  \* history: the stop since the last start: it found nobody
                    \* at work (clean), a restart command under way or a start
                    \* (busy), or did not reach the node (missed)
          struck,   \* history: the faults that have happened
          crashes

scriptVars == <<starter, stopper, stopped>>
vars == <<proc, shell, rounds, wd, awaited, scriptVars, struck, crashes>>

Init ==
    /\ proc = [p \in Servers |-> "none"]
    /\ shell = [s \in Shells |-> "none"]
    /\ rounds = [s \in Shells |-> 0]
    /\ wd = [i \in Starts |-> "off"] /\ awaited = [i \in Starts |-> NoShell]
    /\ starter = [i \in Starts |-> "new"]
    /\ stopper = "off" /\ stopped = "never"
    /\ struck = {} /\ crashes = 0

\* A fault the instance allows happens.
Strike(f) == f \in Faults /\ struck' = struck \cup {f}

-----------------------------------------------------------------------------
(* The processes on the node *)

Present == {p \in Servers : proc[p] # "none"}
Alive == {p \in Present : proc[p] # "dying"}
Healthy == \E p \in Servers : proc[p] = "ready"
Running == {s \in Shells : shell[s] # "none"}

\* pkill -9: the process is gone once the kernel has torn it down.
Kill == proc' = [p \in Servers |-> IF p \in Present THEN "dying" ELSE "none"]

Launch == \E p \in Servers \ Present : proc' = [proc EXCEPT ![p] = "loading"]

Loaded(p) ==
    /\ proc[p] = "loading"
    /\ proc' = [proc EXCEPT ![p] = "ready"]
    /\ UNCHANGED <<shell, rounds, wd, awaited, scriptVars, struck, crashes>>

Exit(p) ==
    /\ proc[p] = "dying"
    /\ proc' = [proc EXCEPT ![p] = "none"]
    /\ UNCHANGED <<shell, rounds, wd, awaited, scriptVars, struck, crashes>>

Crash(p) ==
    /\ p \in Alive /\ crashes < MaxCrashes
    /\ proc' = [proc EXCEPT ![p] = "none"] /\ crashes' = crashes + 1
    /\ UNCHANGED <<shell, rounds, wd, awaited, scriptVars, struck>>

-----------------------------------------------------------------------------
(* A restart command on the node: KILL_WAIT_LOOP, mv, nohup *)

\* Faulty variant: pkill alone, and the respawn right after it.
KillRoundOnce(s) ==
    /\ shell[s] = "killing"
    /\ shell' = [shell EXCEPT ![s] = "spawning"] /\ Kill
    /\ UNCHANGED <<rounds, wd, awaited, scriptVars, struck, crashes>>

KillRound(s) ==
    /\ shell[s] = "killing"
    /\ \/ /\ Present = {}
          /\ shell' = [shell EXCEPT ![s] = "spawning"]
          /\ UNCHANGED <<proc, rounds>>
       \/ /\ Present # {} /\ rounds[s] < MaxRounds
          /\ rounds' = [rounds EXCEPT ![s] = @ + 1] /\ Kill
          /\ UNCHANGED shell
    /\ UNCHANGED <<wd, awaited, scriptVars, struck, crashes>>

\* All rounds are over and the command goes on, whatever pgrep would say.
RoundsOver(s) ==
    /\ shell[s] = "killing" /\ rounds[s] = MaxRounds /\ Strike("stuck")
    /\ shell' = [shell EXCEPT ![s] = "spawning"]
    /\ UNCHANGED <<proc, rounds, wd, awaited, scriptVars, crashes>>

Respawn(s) ==
    /\ shell[s] = "spawning" /\ Launch
    /\ shell' = [shell EXCEPT ![s] = "none"]
    /\ rounds' = [rounds EXCEPT ![s] = 0]
    /\ UNCHANGED <<wd, awaited, scriptVars, struck, crashes>>

-----------------------------------------------------------------------------
(* The loop for the node in the watchdog that a start launched *)

Loops == {i \in Starts : wd[i] # "off"}

\* check_and_restart finds the server down and sends the command.
CheckFails(i) ==
    /\ wd[i] = "asleep" /\ (~Healthy \/ "slow" \in Faults)
    /\ \E s \in Shells \ (Running \cup {awaited[j] : j \in Loops}) :
          /\ shell' = [shell EXCEPT ![s] = "killing"]
          /\ awaited' = [awaited EXCEPT ![i] = s]
    /\ wd' = [wd EXCEPT ![i] = "restarting"]
    /\ UNCHANGED <<proc, rounds, scriptVars, struck, crashes>>

RestartReturns(i) ==
    /\ wd[i] = "restarting" /\ shell[awaited[i]] = "none"
    /\ wd' = [wd EXCEPT ![i] = "waiting"]
    /\ awaited' = [awaited EXCEPT ![i] = NoShell]
    /\ UNCHANGED <<proc, shell, rounds, scriptVars, struck, crashes>>

\* timeout(1) ends ssh after SSH_TIMEOUT; the command goes on on the node.
RestartTimesOut(i) ==
    /\ wd[i] = "restarting" /\ Strike("slow")
    /\ wd' = [wd EXCEPT ![i] = "asleep"]
    /\ awaited' = [awaited EXCEPT ![i] = NoShell]
    /\ UNCHANGED <<proc, shell, rounds, scriptVars, crashes>>

\* wait_for_health sees the server or runs out of time; monitor_node sleeps.
WaitEnds(i) ==
    /\ wd[i] = "waiting" /\ wd' = [wd EXCEPT ![i] = "asleep"]
    /\ UNCHANGED <<proc, shell, rounds, awaited, scriptVars, struck, crashes>>

\* pkill -f llama_watchdog.sh: every loop of every watchdog.
KillWatchdogs ==
    /\ wd' = [i \in Starts |-> "off"]
    /\ awaited' = [i \in Starts |-> NoShell]

-----------------------------------------------------------------------------
(* start_linux.sh, with start_linux_worker.sh for the node *)

AtWork ==
    {i \in Starts :
        starter[i] \in {"checking", "launching", "verifying", "enabling"}}

\* What an operator who starts and stops in turn waits for.
Alone == AtWork = {} /\ stopper = "off"
Down == Alone /\ Loops = {} /\ Present = {} /\ Running = {}

Proceed(i, from, to) ==
    starter[i] = from /\ starter' = [starter EXCEPT ![i] = to]

Start(i) ==
    /\ Proceed(i, "new", "checking")
    /\ \/ Down /\ UNCHANGED struck
       \/ Alone /\ ~Down /\ Strike("again")
       \/ ~Alone /\ Strike("beside")
    /\ stopped' = "never"
    /\ UNCHANGED <<proc, shell, rounds, wd, awaited, stopper, crashes>>

StartChecks(i) ==
    /\ Proceed(i, "checking", IF Healthy THEN "verifying" ELSE "launching")
    /\ UNCHANGED <<proc, shell, rounds, wd, awaited, stopper, stopped, struck,
                   crashes>>

StartLaunches(i) ==
    /\ Proceed(i, "launching", "verifying") /\ Launch
    /\ UNCHANGED <<shell, rounds, wd, awaited, stopper, stopped, struck, crashes>>

\* Faulty variant: the old watchdog is left.
StartVerifiesOnly(i) ==
    /\ Proceed(i, "verifying", "enabling")
    /\ UNCHANGED <<proc, shell, rounds, wd, awaited, stopper, stopped, struck,
                   crashes>>

\* The health of the nodes is only reported; old watchdogs are killed.
StartVerifies(i) ==
    /\ Proceed(i, "verifying", "enabling") /\ KillWatchdogs
    /\ UNCHANGED <<proc, shell, rounds, stopper, stopped, struck, crashes>>

StartEnables(i) ==
    /\ Proceed(i, "enabling", "up")
    /\ wd' = [wd EXCEPT ![i] = "asleep"]
    /\ UNCHANGED <<proc, shell, rounds, awaited, stopper, stopped, struck, crashes>>

\* NGINX does not answer within 30 s: wait_for_http exits, with the servers
\* launched and no watchdog, or an old one, running.
StartDies(i) ==
    /\ Proceed(i, "verifying", "dead")
    /\ UNCHANGED <<proc, shell, rounds, wd, awaited, stopper, stopped, struck,
                   crashes>>

-----------------------------------------------------------------------------
(* stop_linux.sh *)

StopAllowed ==
    /\ stopper = "off" /\ \E i \in Starts : starter[i] # "new"
    /\ \/ AtWork = {} /\ UNCHANGED struck
       \/ AtWork # {} /\ Strike("beside")

\* Faulty variants: only the parent of the loops dies, by its pid file; the
\* loops are killed and their bookkeeping left.
StopParent ==
    /\ StopAllowed
    /\ stopper' = "killing"
    /\ UNCHANGED <<proc, shell, rounds, wd, awaited, starter, stopped, crashes>>
StopLeaving ==
    /\ StopAllowed
    /\ wd' = [i \in Starts |-> "off"] /\ stopper' = "killing"
    /\ UNCHANGED <<proc, shell, rounds, awaited, starter, stopped, crashes>>

Stop ==
    /\ StopAllowed
    /\ KillWatchdogs
    /\ stopper' = "killing"
    /\ UNCHANGED <<proc, shell, rounds, starter, stopped, crashes>>

\* pkill, a second, pkill -9: nobody waits for the process to be gone.
StopKills ==
    /\ stopper = "killing" /\ Kill
    /\ stopper' = "off"
    /\ stopped' = IF Running = {} /\ "beside" \notin struck
                   THEN "clean" ELSE "busy"
    /\ UNCHANGED <<shell, rounds, wd, awaited, starter, struck, crashes>>

\* The node cannot be reached: a warning, and the platform is down elsewhere.
StopMisses ==
    /\ "slow" \in Faults /\ stopper = "killing"
    /\ stopper' = "off" /\ stopped' = "missed"
    /\ UNCHANGED <<proc, shell, rounds, wd, awaited, starter, struck, crashes>>

-----------------------------------------------------------------------------
ServerStep == \E p \in Servers : Loaded(p) \/ Exit(p) \/ Crash(p)
ShellStep == \E s \in Shells : KillRound(s) \/ RoundsOver(s) \/ Respawn(s)
WatchdogStep ==
    \E i \in Starts :
        CheckFails(i) \/ RestartReturns(i) \/ RestartTimesOut(i) \/ WaitEnds(i)
StartStep ==
    \E i \in Starts :
        \/ Start(i) \/ StartChecks(i) \/ StartLaunches(i)
        \/ StartVerifies(i) \/ StartEnables(i) \/ StartDies(i)
StopStep == Stop \/ StopKills \/ StopMisses

Next == ServerStep \/ ShellStep \/ WatchdogStep \/ StartStep \/ StopStep

Spec == Init /\ [][Next]_vars

-----------------------------------------------------------------------------
(* Types; a watchdog is that of a start that is through, and waits for a
   command exactly while it restarts. *)
TypeOK ==
    /\ proc \in [Servers -> {"none", "loading", "ready", "dying"}]
    /\ shell \in [Shells -> {"none", "killing", "spawning"}]
    /\ rounds \in [Shells -> 0..MaxRounds]
    /\ wd \in [Starts -> {"off", "asleep", "restarting", "waiting"}]
    /\ awaited \in [Starts -> Shells \cup {NoShell}]
    /\ \A i \in Starts : wd[i] = "restarting" <=> awaited[i] # NoShell
    /\ starter \in [Starts -> {"new", "checking", "launching", "verifying",
                               "enabling", "up", "dead"}]
    /\ \A i \in Loops : starter[i] = "up"
    /\ stopper \in {"off", "killing"}
    /\ stopped \in {"never", "clean", "busy", "missed"}
    /\ struck \subseteq Faults
    /\ crashes \in 0..MaxCrashes

(* llama_watchdog.sh:65-72, "a second llama-server can start while the first
   is still alive ... a poll-until-dead loop closes that race": no node runs
   two servers. *)
SingleServer == \A p, q \in Present : p = q

(* What the loop achieves: starts, crashes, restarts that interrupt a load, and
   stops never give the node two servers, as long as killed processes exit in
   time, no ssh gives up on a running command and the operator waits for one
   script to end and starts only what is down.  A process that does not exit in
   time gets at most one living server beside it, however many restarts
   follow. *)
SingleUnlessStruck ==
    /\ struck = {} => SingleServer
    /\ struck \subseteq {"stuck"} => \A p, q \in Alive : p = q

(* A server is started only by somebody who is still in charge: a stop that
   found no restart command under way is final until the next start, also on
   a node where processes outlive kills, commands outlive their ssh, and the
   platform was started again while it was up. *)
StopIsFinal == stopped = "clean" => Alive = {}

(* However often the platform is started, up or down, and whatever restart is
   under way, one watchdog looks after the node: two would each take the
   other's load for a failure.  It takes two starts at once to get two. *)
OneWatchdog == "beside" \notin struck => \A i, j \in Loops : i = j

(* stop_linux.sh:28-31, "it will race us and bring processes back up
   mid-shutdown": after a stop, unless two scripts ran at once, nobody sends a
   restart command any more, and a server comes back only by a command that was
   on the node already, which ends with it. *)
OnlyLateCommandsRevive ==
    [][(stopped \in {"clean", "busy"} /\ stopped' = stopped
            /\ "beside" \notin struck') =>
           /\ Running' \subseteq Running
           /\ Alive' \subseteq Alive \/ Running' # Running]_vars
=============================================================================

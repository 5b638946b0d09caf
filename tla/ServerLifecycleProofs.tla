------------------------ MODULE ServerLifecycleProofs ------------------------
(***************************************************************************)
(* Proofs about the scripts that act on a llama-server, for any number of  *)
(* processes, commands, crashes, runs of the scripts and kill rounds.      *)
(***************************************************************************)
EXTENDS ServerLifecycle, TLAPS

-----------------------------------------------------------------------------
(* The processes *)

(* pkill leaves the processes where they are until they exit. *)
LEMMA KillKeeps ==
    ASSUME TypeOK, Kill PROVE Present' = Present /\ Alive' = {}
BY DEF TypeOK, Kill, Present, Alive

(* nohup on a node where nothing lives gives one living process. *)
LEMMA LaunchAlone ==
    ASSUME TypeOK, Launch, Alive = {}
    PROVE  /\ \A p, q \in Alive' : p = q
           /\ Present = {} => SingleServer'
<1>1. PICK p \in Servers \ Present : proc' = [proc EXCEPT ![p] = "loading"]
  BY DEF Launch
<1>2. Alive' = {p} /\ Present' = Present \cup {p}
  BY <1>1 DEF TypeOK, Present, Alive
<1> QED BY <1>2 DEF SingleServer

(* Only faults the instance allows happen. *)
LEMMA StrikeFits ==
    ASSUME TypeOK, NEW f, Strike(f) PROVE struck' \subseteq Faults
BY Zenon DEF TypeOK, Strike

(* Every step keeps the types. *)
LEMMA TypeStep == TypeOK /\ [Next]_vars => TypeOK'
<1> SUFFICES ASSUME TypeOK, [Next]_vars PROVE TypeOK'
  OBVIOUS
<1> USE LifecycleAssumption DEF TypeOK
<1>1. CASE ServerStep
  <2>1. ASSUME NEW p \in Servers, Loaded(p) PROVE TypeOK'
    BY <2>1 DEF Loaded, scriptVars, Loops
  <2>2. ASSUME NEW p \in Servers, Exit(p) PROVE TypeOK'
    BY <2>2 DEF Exit, scriptVars, Loops
  <2>3. ASSUME NEW p \in Servers, Crash(p) PROVE TypeOK'
    BY <2>3 DEF Crash, scriptVars, Loops
  <2> QED BY <1>1, <2>1, <2>2, <2>3 DEF ServerStep
<1>2. ASSUME NEW s \in Shells, KillRound(s) PROVE TypeOK'
  <2>1. CASE Present = {} /\ shell' = [shell EXCEPT ![s] = "spawning"]
                          /\ UNCHANGED <<proc, rounds>>
    BY <1>2, <2>1 DEF KillRound, scriptVars, Loops
  <2>2. CASE /\ Present # {} /\ rounds[s] < MaxRounds
             /\ rounds' = [rounds EXCEPT ![s] = @ + 1] /\ Kill
             /\ UNCHANGED shell
    <3>1. proc' \in [Servers -> {"none", "loading", "ready", "dying"}]
      BY <2>2 DEF Kill
    <3>2. rounds' \in [Shells -> 0..MaxRounds]
      BY <2>2
    <3> QED BY <1>2, <2>2, <3>1, <3>2 DEF KillRound, scriptVars, Loops
  <2> QED BY <1>2, <2>1, <2>2 DEF KillRound
<1>3. ASSUME NEW s \in Shells, RoundsOver(s) PROVE TypeOK'
  BY <1>3 DEF RoundsOver, Strike, scriptVars, Loops
<1>4. ASSUME NEW s \in Shells, Respawn(s) PROVE TypeOK'
  BY <1>4 DEF Respawn, Launch, scriptVars, Loops
<1>5. ASSUME NEW i \in Starts, CheckFails(i) PROVE TypeOK'
  <2>1. PICK s \in Shells :
            /\ shell' = [shell EXCEPT ![s] = "killing"]
            /\ awaited' = [awaited EXCEPT ![i] = s]
    BY <1>5 DEF CheckFails
  <2>2. wd' = [wd EXCEPT ![i] = "restarting"]
    BY <1>5 DEF CheckFails
  <2>3. \A k \in Starts : wd'[k] = "restarting" <=> awaited'[k] # NoShell
    BY <2>1, <2>2
  <2>4. Loops' \subseteq Loops
    BY <1>5, <2>2 DEF CheckFails, Loops
  <2> QED BY <1>5, <2>1, <2>2, <2>3, <2>4 DEF CheckFails, scriptVars
<1>6. ASSUME NEW i \in Starts,
             RestartReturns(i) \/ RestartTimesOut(i) \/ WaitEnds(i)
      PROVE  TypeOK'
  <2>1. struck' \subseteq Faults
    BY <1>6, StrikeFits DEF RestartReturns, RestartTimesOut, WaitEnds
  <2>2. PICK to \in {"waiting", "asleep"} : wd' = [wd EXCEPT ![i] = to]
    BY <1>6 DEF RestartReturns, RestartTimesOut, WaitEnds
  <2>3. \/ awaited' = [awaited EXCEPT ![i] = NoShell]
        \/ awaited' = awaited /\ wd[i] = "waiting"
    BY <1>6 DEF RestartReturns, RestartTimesOut, WaitEnds
  <2>4. \A k \in Starts : wd'[k] = "restarting" <=> awaited'[k] # NoShell
    BY <2>2, <2>3
  <2>5. awaited' \in [Starts -> Shells \cup {NoShell}]
    BY <2>3
  <2>6. Loops' \subseteq Loops
    BY <1>6 DEF RestartReturns, RestartTimesOut, WaitEnds, Loops
  <2>7. UNCHANGED <<proc, shell, rounds, starter, stopper, stopped, crashes>>
    BY <1>6 DEF RestartReturns, RestartTimesOut, WaitEnds, scriptVars
  <2>8. wd' \in [Starts -> {"off", "asleep", "restarting", "waiting"}]
    BY <2>2
  <2> QED BY <2>1, <2>4, <2>5, <2>6, <2>7, <2>8
<1>7. ASSUME NEW i \in Starts, Start(i) PROVE TypeOK'
  <2>1. struck' \subseteq Faults
    BY <1>7, StrikeFits DEF Start
  <2> QED BY <1>7, <2>1 DEF Start, Proceed, Loops
<1>8. ASSUME NEW i \in Starts, StartChecks(i) \/ StartDies(i) PROVE TypeOK'
  <2>1. CASE StartChecks(i)
    BY <2>1 DEF StartChecks, Proceed, Loops
  <2>2. CASE StartDies(i)
    BY <2>2 DEF StartDies, Proceed, Loops
  <2> QED BY <1>8, <2>1, <2>2
<1>9. ASSUME NEW i \in Starts, StartVerifies(i) \/ StartEnables(i)
      PROVE  TypeOK'
  <2>1. CASE StartVerifies(i)
    BY <2>1 DEF StartVerifies, Proceed, KillWatchdogs, Loops
  <2>2. CASE StartEnables(i)
    <3>1. wd[i] = "off" /\ awaited[i] = NoShell
      BY <2>2 DEF StartEnables, Proceed, Loops
    <3> QED BY <2>2, <3>1 DEF StartEnables, Proceed, Loops
  <2> QED BY <1>9, <2>1, <2>2
<1>10. ASSUME NEW i \in Starts, StartLaunches(i) PROVE TypeOK'
  BY <1>10 DEF StartLaunches, Launch, Proceed, Loops
<1>11. CASE Stop
  <2>1. struck' \subseteq Faults
    BY <1>11, StrikeFits DEF Stop, StopAllowed
  <2> QED BY <1>11, <2>1 DEF Stop, KillWatchdogs, Loops
<1>12. CASE StopKills \/ StopMisses
  <2>1. CASE StopKills
    BY <2>1 DEF StopKills, Kill, Loops
  <2>2. CASE StopMisses
    BY <2>2 DEF StopMisses, Loops
  <2> QED BY <1>12, <2>1, <2>2
<1>13. CASE UNCHANGED vars
  BY <1>13 DEF vars, scriptVars, Loops
<1> QED
  BY <1>1, <1>2, <1>3, <1>4, <1>5, <1>6, <1>7, <1>8, <1>9, <1>10, <1>11,
     <1>12, <1>13
  DEF Next, ShellStep, WatchdogStep, StartStep, StopStep

(* The scripts have not been run. *)
LEMMA TypeInit == Init => TypeOK
BY LifecycleAssumption DEF Init, TypeOK, Loops

(* All variables keep their types, and a watchdog waits for a command exactly
   while it restarts. *)
THEOREM LifecycleTypes == Spec => []TypeOK
BY TypeInit, TypeStep, PTL DEF Spec

-----------------------------------------------------------------------------
(* One server *)

(* What has struck stays recorded. *)
LEMMA StruckGrows == [Next]_vars => struck \subseteq struck'
<1> SUFFICES ASSUME [Next]_vars PROVE struck \subseteq struck'
  OBVIOUS
<1>1. CASE ServerStep \/ ShellStep \/ WatchdogStep
  BY <1>1 DEF ServerStep, ShellStep, WatchdogStep, Loaded, Exit, Crash,
              KillRound, RoundsOver, Respawn, CheckFails, RestartReturns,
              RestartTimesOut, WaitEnds, Strike
<1>2. CASE StartStep
  BY <1>2, Zenon DEF StartStep, Start, StartChecks, StartLaunches,
              StartVerifies, StartEnables, StartDies, Strike
<1>3. CASE StopStep
  BY <1>3, Zenon DEF StopStep, Stop, StopAllowed, StopKills, StopMisses, Strike
<1>4. CASE UNCHANGED vars
  BY <1>4 DEF vars
<1> QED BY <1>1, <1>2, <1>3, <1>4 DEF Next

-----------------------------------------------------------------------------
(* One script, one watchdog *)

(* Scripts and watchdogs come one at a time; who is about to launch a watchdog
   has killed the old one, and so has a stop. *)
OneScript ==
    /\ \A i, j \in AtWork : i = j
    /\ \A i, j \in Loops : i = j
    /\ \A i \in Starts : starter[i] = "enabling" => Loops = {}
    /\ stopper = "killing" => AtWork = {} /\ Loops = {}

LoneInv == TypeOK /\ ("beside" \notin struck => OneScript)

(* A script that goes on keeps the others out. *)
LEMMA ProceedAlone ==
    ASSUME TypeOK, NEW i \in Starts, NEW from, NEW to, Proceed(i, from, to)
    PROVE  /\ \A k \in Starts \ {i} : starter'[k] = starter[k]
           /\ starter'[i] = to
           /\ AtWork' \subseteq AtWork \cup {i}
           /\ AtWork \subseteq AtWork' \cup {i}
BY DEF TypeOK, Proceed, AtWork

(* Every step keeps one script at work, until two overlap. *)
LEMMA LoneStep ==
    ASSUME LoneInv, [Next]_vars PROVE LoneInv'
<1> SUFFICES ASSUME "beside" \notin struck' PROVE OneScript'
  BY TypeStep DEF LoneInv
<1> "beside" \notin struck /\ OneScript
  BY StruckGrows DEF LoneInv
<1> USE DEF LoneInv
<1>1. CASE ServerStep \/ ShellStep
  BY <1>1 DEF ServerStep, Loaded, Exit, Crash, ShellStep, KillRound,
              RoundsOver, Respawn, scriptVars, OneScript, AtWork, Loops
<1>2. ASSUME NEW i \in Starts,
             \/ CheckFails(i) \/ RestartReturns(i)
             \/ RestartTimesOut(i) \/ WaitEnds(i)
      PROVE  OneScript'
  <2>1. Loops' = Loops
    BY <1>2 DEF CheckFails, RestartReturns, RestartTimesOut, WaitEnds, Loops,
                TypeOK
  <2> QED BY <1>2, <2>1 DEF CheckFails, RestartReturns, RestartTimesOut,
             WaitEnds, scriptVars, OneScript, AtWork
<1>3. ASSUME NEW i \in Starts, Start(i) PROVE OneScript'
  <2>1. Alone
    BY <1>3 DEF Start, Down, Strike
  <2>2. AtWork' \subseteq {i} /\ stopper' # "killing"
    BY <1>3, <2>1, ProceedAlone DEF Start, Alone
  <2>3. \A k \in Starts : starter'[k] # "enabling"
    BY <1>3, <2>1 DEF Start, Proceed, Alone, AtWork, TypeOK
  <2> QED BY <1>3, <2>2, <2>3 DEF Start, OneScript, Loops
<1>4. ASSUME NEW i \in Starts,
             \/ StartChecks(i) \/ StartLaunches(i)
             \/ StartVerifies(i) \/ StartDies(i)
      PROVE  OneScript'
  <2>1. i \in AtWork /\ stopper' # "killing"
    BY <1>4 DEF StartChecks, StartLaunches, StartVerifies, StartDies, Proceed,
                AtWork, OneScript, TypeOK
  <2>2. AtWork' \subseteq {i}
    BY <1>4, <2>1, ProceedAlone DEF StartChecks, StartLaunches, StartVerifies,
                StartDies, OneScript
  <2>3. Loops' \subseteq Loops
    BY <1>4 DEF StartChecks, StartLaunches, StartVerifies, StartDies,
                KillWatchdogs, Loops
  <2>4. \A k \in Starts : starter'[k] = "enabling" => Loops' = {}
    BY <1>4, <2>3, ProceedAlone DEF StartChecks, StartLaunches, StartVerifies,
                StartDies, KillWatchdogs, Loops, OneScript
  <2> QED BY <2>1, <2>2, <2>3, <2>4 DEF OneScript
<1>5. ASSUME NEW i \in Starts, StartEnables(i) PROVE OneScript'
  <2>1. i \in AtWork /\ Loops = {} /\ stopper' # "killing"
    BY <1>5 DEF StartEnables, Proceed, AtWork, OneScript, TypeOK
  <2>2. Loops' \subseteq {i}
    BY <1>5, <2>1 DEF StartEnables, Loops, TypeOK
  <2>3. AtWork' = {}
    BY <1>5, <2>1 DEF StartEnables, Proceed, AtWork, OneScript, TypeOK
  <2> QED BY <2>1, <2>2, <2>3 DEF OneScript, AtWork
<1>6. CASE StopStep
  <2>1. Stop => AtWork = {}
    BY DEF Stop, StopAllowed, Strike
  <2> QED BY <1>6, <2>1 DEF StopStep, Stop, StopKills, StopMisses,
             KillWatchdogs, OneScript, AtWork, Loops
<1>7. CASE UNCHANGED vars
  BY <1>7 DEF vars, scriptVars, OneScript, AtWork, Loops
<1> QED BY <1>1, <1>2, <1>3, <1>4, <1>5, <1>6, <1>7
        DEF Next, WatchdogStep, StartStep

(* The scripts have not been run. *)
LEMMA LoneInit == Init => LoneInv
BY TypeInit DEF Init, LoneInv, OneScript, AtWork, Loops

(* LoneInv holds at all times. *)
LEMMA Lone == Spec => []LoneInv
BY LoneInit, LoneStep, PTL DEF Spec

(* However often the platform is started, on a platform that is up too, one
   watchdog looks after a node, unless two scripts ran at once. *)
THEOREM LoneWatchdog == Spec => []OneWatchdog
<1>1. LoneInv => OneWatchdog
  BY DEF LoneInv, OneScript, OneWatchdog
<1> QED BY <1>1, Lone, PTL

-----------------------------------------------------------------------------
(* One server *)

(* Who may launch a server is alone and has seen that there is none. *)
OneInCharge ==
    /\ \A s, t \in Running : s = t
    /\ \A s \in Shells :
          shell[s] = "spawning" => Alive = {} /\ (struck = {} => Present = {})
    /\ \A s \in Shells : rounds[s] > 0 => s \in Running /\ Alive = {}
    /\ \A i \in Starts : starter[i] \in {"checking", "launching"} => Present = {}
    /\ AtWork # {} => Running = {} /\ Loops = {}
    /\ \A i \in Starts : wd[i] \in {"asleep", "waiting"} => Running = {}
    /\ \A i \in Starts : wd[i] = "restarting" => Running \subseteq {awaited[i]}

OneAlive ==
    /\ \A p, q \in Alive : p = q
    /\ struck = {} => SingleServer

SoleInv == LoneInv /\ (struck \subseteq {"stuck"} => OneInCharge /\ OneAlive)

(* Nothing is launched: one living server stays one. *)
LEMMA FewerServers ==
    ASSUME OneAlive, Present' \subseteq Present, Alive' \subseteq Alive,
           struck \subseteq struck'
    PROVE  OneAlive'
BY DEF OneAlive, SingleServer

(* Until a fault strikes other than a process that does not exit, every step
   keeps one launcher in charge and one living server on the node. *)
LEMMA SoleStep ==
    ASSUME SoleInv, [Next]_vars PROVE SoleInv'
<1> SUFFICES ASSUME struck' \subseteq {"stuck"}
             PROVE  OneInCharge' /\ OneAlive'
  BY LoneStep DEF SoleInv
<1> /\ struck \subseteq struck' /\ OneInCharge /\ OneAlive
    /\ OneScript /\ TypeOK
  BY StruckGrows DEF SoleInv, LoneInv
<1>none. ASSUME UNCHANGED proc PROVE OneAlive'
  BY <1>none, FewerServers DEF Present, Alive
<1> USE LifecycleAssumption
<1>1. CASE ServerStep
  <2>1. Present' \subseteq Present /\ Alive' \subseteq Alive
    BY <1>1 DEF ServerStep, Loaded, Exit, Crash, Alive, Present, TypeOK
  <2>2. OneAlive'
    BY <2>1, FewerServers
  <2> QED BY <1>1, <2>1, <2>2 DEF ServerStep, Loaded, Exit, Crash, scriptVars,
             OneInCharge, Running, AtWork, Loops
<1>2. ASSUME NEW s \in Shells, KillRound(s) PROVE OneInCharge' /\ OneAlive'
  <2>1. CASE Present = {} /\ shell' = [shell EXCEPT ![s] = "spawning"]
                          /\ UNCHANGED <<proc, rounds>>
    <3>1. Running' = Running /\ Present' = {} /\ Alive' = {}
      BY <1>2, <2>1 DEF KillRound, Running, Present, Alive, TypeOK
    <3> QED BY <1>2, <2>1, <3>1, <1>none DEF KillRound, scriptVars,
               OneInCharge, AtWork, Loops
  <2>2. CASE /\ rounds' = [rounds EXCEPT ![s] = @ + 1] /\ Kill
             /\ UNCHANGED shell
    <3>1. Present' = Present /\ Alive' = {} /\ Running' = Running
      BY <2>2, KillKeeps DEF Running
    <3>2. OneAlive'
      BY <3>1, FewerServers
    <3>3. s \in Running /\ \A t \in Shells \ {s} : rounds'[t] = rounds[t]
      BY <1>2, <2>2 DEF KillRound, Running, TypeOK
    <3> QED BY <1>2, <2>2, <3>1, <3>2, <3>3 DEF KillRound, scriptVars,
               OneInCharge, AtWork, Loops
  <2> QED BY <1>2, <2>1, <2>2 DEF KillRound
<1>3. ASSUME NEW s \in Shells, Respawn(s) PROVE OneInCharge' /\ OneAlive'
  <2>1. Alive = {} /\ s \in Running /\ (struck = {} => Present = {})
    BY <1>3 DEF Respawn, OneInCharge, Running
  <2>2. Running' = {} /\ \A t \in Shells : shell'[t] = "none" /\ rounds'[t] = 0
    BY <1>3, <2>1 DEF Respawn, OneInCharge, Running, TypeOK
  <2>3. OneAlive'
    BY <1>3, <2>1, LaunchAlone DEF Respawn, OneAlive
  <2>4. AtWork' = {} /\ Loops' = Loops
    BY <1>3, <2>1 DEF Respawn, OneInCharge, AtWork, Loops, scriptVars
  <2> QED BY <1>3, <2>1, <2>2, <2>3, <2>4 DEF Respawn, OneInCharge, AtWork
<1>4. ASSUME NEW i \in Starts, CheckFails(i) PROVE OneInCharge' /\ OneAlive'
  <2>1. PICK s \in Shells :
            /\ shell' = [shell EXCEPT ![s] = "killing"]
            /\ awaited' = [awaited EXCEPT ![i] = s]
    BY <1>4 DEF CheckFails
  <2>2. wd[i] = "asleep" /\ wd' = [wd EXCEPT ![i] = "restarting"]
        /\ Running = {} /\ i \in Loops
    BY <1>4 DEF CheckFails, OneInCharge, Loops
  <2>3. Running' = {s} /\ \A t \in Shells : shell'[t] # "spawning"
    BY <2>1, <2>2 DEF Running, TypeOK
  <2>4. AtWork' = {}
    BY <1>4, <2>2 DEF CheckFails, OneInCharge, AtWork, scriptVars
  <2>5. \A k \in Starts \ {i} : wd'[k] = "off"
    BY <2>2 DEF OneScript, Loops, TypeOK
  <2>6. wd'[i] = "restarting" /\ awaited'[i] = s
    BY <2>1, <2>2 DEF TypeOK
  <2>7. OneAlive'
    BY <1>4, <1>none DEF CheckFails
  <2>8. \A k \in Starts : starter'[k] \notin {"checking", "launching"}
    BY <2>4 DEF AtWork
  <2>9. \A t \in Shells : ~(rounds'[t] > 0)
    BY <1>4, <2>2 DEF CheckFails, OneInCharge
  <2> QED BY <2>3, <2>4, <2>5, <2>6, <2>7, <2>8, <2>9 DEF OneInCharge
<1>5. ASSUME NEW i \in Starts, RestartReturns(i) \/ WaitEnds(i)
      PROVE  OneInCharge' /\ OneAlive'
  <2>1. Running = {} /\ UNCHANGED <<proc, shell, rounds, starter>>
    BY <1>5 DEF RestartReturns, WaitEnds, OneInCharge, Running, scriptVars
  <2>2. Loops' = Loops
    BY <1>5 DEF RestartReturns, WaitEnds, Loops, TypeOK
  <2> QED BY <2>1, <2>2, <1>none DEF OneInCharge, Running, Present, AtWork
<1>6. ASSUME NEW i \in Starts, Start(i) PROVE OneInCharge' /\ OneAlive'
  <2>1. Down /\ UNCHANGED <<proc, shell, rounds, wd, awaited>>
    BY <1>6 DEF Start, Strike
  <2> QED BY <2>1, <1>none DEF Down, OneInCharge, Running, Present, Loops
<1>7. ASSUME NEW i \in Starts, StartChecks(i) \/ StartVerifies(i) \/ StartDies(i)
      PROVE  OneInCharge' /\ OneAlive'
  <2>1. i \in AtWork /\ UNCHANGED <<proc, shell, rounds>>
    BY <1>7 DEF StartChecks, StartVerifies, StartDies, Proceed, AtWork
  <2>2. Running = {} /\ Loops' = {}
    BY <1>7, <2>1 DEF StartChecks, StartVerifies, StartDies, KillWatchdogs,
                      OneInCharge, Loops
  <2>3. \A k \in Starts : starter'[k] \in {"checking", "launching"} =>
            starter[k] \in {"checking", "launching"}
    BY <1>7, ProceedAlone DEF StartChecks, StartVerifies, StartDies, Proceed
  <2> QED BY <2>1, <2>2, <2>3, <1>none DEF OneInCharge, Running, Present, Loops
<1>8. ASSUME NEW i \in Starts, StartEnables(i) PROVE OneInCharge' /\ OneAlive'
  <2>1. i \in AtWork /\ UNCHANGED <<proc, shell, rounds>>
    BY <1>8 DEF StartEnables, Proceed, AtWork
  <2>2. Running = {} /\ AtWork' = {}
    BY <1>8, <2>1 DEF StartEnables, Proceed, AtWork, OneInCharge, OneScript,
                      TypeOK
  <2> QED BY <2>1, <2>2, <1>none DEF OneInCharge, Running, Present, AtWork
<1>9. ASSUME NEW i \in Starts, StartLaunches(i)
      PROVE  OneInCharge' /\ OneAlive'
  <2>1. i \in AtWork /\ Present = {} /\ Running = {} /\ Loops = {}
    BY <1>9 DEF StartLaunches, Proceed, AtWork, OneInCharge
  <2>2. OneAlive'
    BY <1>9, <2>1, LaunchAlone DEF StartLaunches, OneAlive, Alive
  <2>3. Running' = {} /\ Loops' = {} /\ \A t \in Shells : ~(rounds'[t] > 0)
    BY <1>9, <2>1 DEF StartLaunches, Running, Loops, OneInCharge
  <2>4. \A k \in Starts : starter'[k] \notin {"checking", "launching"}
    BY <1>9, <2>1, ProceedAlone DEF StartLaunches, OneScript, AtWork, TypeOK
  <2> QED BY <2>2, <2>3, <2>4 DEF OneInCharge, Running, Loops
<1>10. CASE Stop
  <2>1. AtWork' = {} /\ Loops' = {} /\ UNCHANGED <<proc, shell, rounds>>
    BY <1>10 DEF Stop, StopAllowed, Strike, KillWatchdogs, AtWork, Loops
  <2> QED BY <2>1, <1>none DEF OneInCharge, Running, Present, Alive, AtWork,
             Loops
<1>11. CASE StopKills
  <2>1. Present' = Present /\ Alive' = {}
    BY <1>11, KillKeeps DEF StopKills
  <2>2. OneAlive'
    BY <2>1, FewerServers
  <2> QED BY <1>11, <2>1, <2>2 DEF StopKills, OneInCharge, Running, AtWork, Loops
<1>12. CASE StopMisses \/ UNCHANGED vars
  BY <1>12, <1>none DEF StopMisses, vars, scriptVars, OneInCharge, Running,
              Present, Alive, AtWork, Loops
<1>13. ASSUME NEW s \in Shells, RoundsOver(s) PROVE OneInCharge' /\ OneAlive'
  <2>1. /\ UNCHANGED <<proc, rounds>> /\ struck' # {}
        /\ Running' = Running /\ Present' = Present
    BY <1>13 DEF RoundsOver, Strike, Running, Present, TypeOK
  <2>2. Alive' = {}
    BY <1>13 DEF RoundsOver, OneInCharge, Alive, Present
  <2> QED BY <1>13, <2>1, <2>2, <1>none DEF RoundsOver, scriptVars, OneInCharge,
             AtWork, Loops
<1>14. ~(\E i \in Starts : RestartTimesOut(i))
  BY DEF RestartTimesOut, Strike
<1> QED
  BY <1>1, <1>2, <1>3, <1>4, <1>5, <1>6, <1>7, <1>8, <1>9, <1>10, <1>11,
     <1>12, <1>13, <1>14
  DEF Next, ShellStep, WatchdogStep, StartStep, StopStep

(* Starts, crashes, restarts and stops never give a node two llama-server
   processes until a process outlives the rounds of the kill loop, ssh gives
   up on a running command, or the operator starts what is not down; if
   nothing but the first happens they never give it two that live. *)
THEOREM OneServer == Spec => []SingleUnlessStruck
<1>1. Init => SoleInv
  BY LoneInit DEF Init, SoleInv, OneInCharge, OneAlive, SingleServer, Running,
                  Alive, Present, AtWork, Loops
<1>2. SoleInv /\ [Next]_vars => SoleInv'
  BY SoleStep
<1>3. SoleInv => SingleUnlessStruck
  BY DEF SoleInv, OneAlive, SingleUnlessStruck
<1> QED BY <1>1, <1>2, <1>3, PTL DEF Spec

-----------------------------------------------------------------------------
(* A stop *)

(* Nobody is left who would start a server. *)
QuietInv ==
    /\ LoneInv
    /\ stopped = "clean" => Alive = {} /\ Running = {} /\ Loops = {} /\ AtWork = {}

(* Every step keeps a stopped node quiet. *)
LEMMA QuietStep ==
    ASSUME QuietInv, [Next]_vars PROVE QuietInv'
<1> SUFFICES ASSUME stopped' = "clean"
             PROVE  Alive' = {} /\ Running' = {} /\ Loops' = {} /\ AtWork' = {}
  BY LoneStep DEF QuietInv
<1> TypeOK
  BY DEF QuietInv, LoneInv
<1>1. CASE StopKills
  BY <1>1, KillKeeps DEF StopKills, QuietInv, LoneInv, OneScript, Running, Loops,
                         AtWork
<1>2. CASE ~StopKills
  <2>1. stopped = "clean"
    BY <1>2 DEF Next, vars, scriptVars, ServerStep, Loaded, Exit, Crash,
                ShellStep, KillRound, RoundsOver, Respawn, WatchdogStep,
                CheckFails, RestartReturns, RestartTimesOut, WaitEnds,
                StartStep, Start, StartChecks, StartLaunches, StartVerifies,
                StartEnables, StartDies, StopStep, Stop, StopMisses
  <2>2. Alive = {} /\ Running = {} /\ Loops = {} /\ AtWork = {}
    BY <2>1 DEF QuietInv
  <2>3. ~ShellStep /\ ~WatchdogStep
    BY <2>2 DEF ShellStep, KillRound, RoundsOver, Respawn, WatchdogStep,
                CheckFails, RestartReturns, RestartTimesOut, WaitEnds,
                Running, Loops
  <2>4. ~StartStep
    BY <2>2 DEF StartStep, Start, StartChecks, StartLaunches, StartVerifies,
                StartEnables, StartDies, Proceed, AtWork
  <2>5. CASE ServerStep
    BY <2>2, <2>5 DEF ServerStep, Loaded, Exit, Crash, scriptVars, Alive,
                Present, Running, Loops, AtWork, TypeOK
  <2>6. CASE StopStep \/ UNCHANGED vars
    BY <1>2, <2>2, <2>6 DEF StopStep, Stop, StopMisses, KillWatchdogs, vars,
                scriptVars, Alive, Present, Running, Loops, AtWork
  <2> QED BY <2>3, <2>4, <2>5, <2>6 DEF Next
<1> QED BY <1>1, <1>2

(* After a stop that found no restart command under way no server runs until
   the next start, also where processes survive kills, ssh times out, nodes are
   missed and starts were repeated. *)
THEOREM StopFinal == Spec => []StopIsFinal
<1>1. Init => QuietInv
  BY LoneInit DEF Init, QuietInv
<1>2. QuietInv /\ [Next]_vars => QuietInv'
  BY QuietStep
<1>3. QuietInv => StopIsFinal
  BY DEF QuietInv, StopIsFinal
<1> QED BY <1>1, <1>2, <1>3, PTL DEF Spec

(* With the watchdog gone nobody is left who would send a command. *)
HushInv ==
    /\ LoneInv
    /\ stopped \in {"clean", "busy"} /\ "beside" \notin struck
          => Loops = {} /\ AtWork = {}

(* Every step keeps it so, until the next start. *)
LEMMA HushStep ==
    ASSUME HushInv, [Next]_vars PROVE HushInv'
<1> SUFFICES ASSUME stopped' \in {"clean", "busy"}, "beside" \notin struck'
             PROVE  Loops' = {} /\ AtWork' = {}
  BY LoneStep DEF HushInv
<1> "beside" \notin struck /\ TypeOK /\ OneScript
  BY StruckGrows DEF HushInv, LoneInv
<1>1. CASE StopKills
  BY <1>1 DEF StopKills, OneScript, Loops, AtWork
<1>2. CASE ~StopKills
  <2>1. stopped' = stopped /\ \A i \in Starts : ~Start(i)
    BY <1>2 DEF Next, vars, scriptVars, ServerStep, Loaded, Exit, Crash,
                ShellStep, KillRound, RoundsOver, Respawn, WatchdogStep,
                CheckFails, RestartReturns, RestartTimesOut, WaitEnds,
                StartStep, Start, StartChecks, StartLaunches, StartVerifies,
                StartEnables, StartDies, StopStep, Stop, StopMisses
  <2>2. Loops = {} /\ AtWork = {}
    BY <2>1 DEF HushInv
  <2>3. ~WatchdogStep /\ ~StartStep
    BY <2>1, <2>2 DEF WatchdogStep, CheckFails, RestartReturns,
                RestartTimesOut, WaitEnds, StartStep, StartChecks,
                StartLaunches, StartVerifies, StartEnables, StartDies, Proceed,
                Loops, AtWork
  <2>4. CASE ServerStep \/ ShellStep
    BY <2>2, <2>4 DEF ServerStep, Loaded, Exit, Crash, ShellStep, KillRound,
                RoundsOver, Respawn, scriptVars, Loops, AtWork
  <2>5. CASE StopStep \/ UNCHANGED vars
    BY <1>2, <2>2, <2>5 DEF StopStep, Stop, StopMisses, KillWatchdogs, vars,
                scriptVars, Loops, AtWork
  <2> QED BY <2>3, <2>4, <2>5 DEF Next
<1> QED BY <1>1, <1>2

(* After a stop no restart command is sent, and a server comes back only by one
   that was on the node already and ends with it, unless two scripts ran at
   once. *)
THEOREM LateCommandsOnly == Spec => OnlyLateCommandsRevive
<1>1. Init => HushInv
  BY LoneInit DEF Init, HushInv
<1>2. HushInv /\ [Next]_vars => HushInv'
  BY HushStep
<1>3. ASSUME HushInv, [Next]_vars,
             stopped \in {"clean", "busy"}, stopped' = stopped,
             "beside" \notin struck'
      PROVE  Running' \subseteq Running /\ (Alive' \subseteq Alive \/ Running' # Running)
  <2>1. TypeOK /\ Loops = {} /\ AtWork = {}
    BY <1>3, StruckGrows DEF HushInv, LoneInv
  <2>2. \A i \in Starts : ~Start(i)
    BY <1>3 DEF Start
  <2>3. ~WatchdogStep /\ ~StartStep
    BY <2>1, <2>2 DEF WatchdogStep, CheckFails, RestartReturns,
                RestartTimesOut, WaitEnds, StartStep, StartChecks,
                StartLaunches, StartVerifies, StartEnables, StartDies, Proceed,
                Loops, AtWork
  <2>4. CASE ServerStep
    BY <2>1, <2>4 DEF ServerStep, Loaded, Exit, Crash, Alive, Present, Running,
                TypeOK
  <2>5. ASSUME NEW s \in Shells, KillRound(s) \/ RoundsOver(s)
        PROVE  Running' \subseteq Running /\ Alive' \subseteq Alive
    BY <2>1, <2>5, KillKeeps DEF KillRound, RoundsOver, Running, Alive, Present,
                TypeOK
  <2>6. ASSUME NEW s \in Shells, Respawn(s)
        PROVE  Running' = Running \ {s} /\ s \in Running
    BY <2>1, <2>6 DEF Respawn, Running, TypeOK
  <2>7. CASE StopStep \/ UNCHANGED vars
    <3>1. UNCHANGED shell /\ (UNCHANGED proc \/ Kill)
      BY <2>7 DEF StopStep, Stop, StopKills, StopMisses, vars
    <3>2. Alive' \subseteq Alive
      BY <2>1, <3>1, KillKeeps DEF Alive, Present
    <3> QED BY <3>1, <3>2 DEF Running
  <2>8. CASE ShellStep
    <3>1. PICK s \in Shells : KillRound(s) \/ RoundsOver(s) \/ Respawn(s)
      BY <2>8 DEF ShellStep
    <3>2. CASE Respawn(s)
      <4>1. Running' = Running \ {s} /\ s \in Running
        BY <3>2, <2>6
      <4> QED BY <4>1
    <3> QED BY <3>1, <3>2, <2>5
  <2> QED BY <1>3, <2>3, <2>4, <2>7, <2>8 DEF Next
<1>4. HushInv /\ [Next]_vars =>
          [(stopped \in {"clean", "busy"} /\ stopped' = stopped
              /\ "beside" \notin struck') =>
             /\ Running' \subseteq Running
             /\ Alive' \subseteq Alive \/ Running' # Running]_vars
  BY <1>3
<1> QED BY <1>1, <1>2, <1>4, PTL DEF Spec, OnlyLateCommandsRevive
=============================================================================

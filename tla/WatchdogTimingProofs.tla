------------------------- MODULE WatchdogTimingProofs -------------------------
(***************************************************************************)
(* Proofs, for every schedule of waits and backoffs, that the watchdog's   *)
(* loop bounds the downtime of a node as WatchdogTiming states.            *)
(***************************************************************************)
EXTENDS WatchdogTiming, TLAPS

(* A node that is up has not been down. *)
ReadyIsUp == server = "ready" => downFor = 0

(* What is left of the sleep, the command or the wait, and what comes after it
   in the attempt, are still to be paid from the budget of the failures so
   far. *)
Due == CASE loop = "asleep"     -> Command + LongestWait
         [] loop = "restarting" -> LongestWait
         [] OTHER               -> 0
BudgetKept == failures < Longest => downFor + timer + Due <= Budget[failures]

IInv == TypeOK /\ ReadyIsUp /\ BudgetKept

(* The constants are numbers. *)
LEMMA ConstantTypes ==
    /\ Poll \in Nat \ {0} /\ Wait \in Nat \ {0} /\ Command \in Nat
    /\ LongestWait \in Nat /\ LongestWait >= Wait
    /\ MaxCrashes \in Nat /\ MaxRefused \in Nat
    /\ Longest \in Nat \ {0}
    /\ \A k \in 1..Longest : Backoffs[k] \in Nat \ {0}
    /\ \A k \in 0..Longest : Budget[k] \in Nat
    /\ MaxDown \in Nat
<1>1. Backoffs \in Seq(Nat \ {0}) /\ Backoffs # <<>>
  BY TimingAssumption
<1>2. Longest \in Nat \ {0} /\ \A k \in 1..Longest : Backoffs[k] \in Nat \ {0}
  BY <1>1 DEF Longest
<1> QED BY <1>2, TimingAssumption, BudgetAssumption DEF MaxDown

(* A load time is a positive number. *)
LEMMA LoadTypes == TypeOK => load \in Nat \ {0} /\ load \in LoadTimes
BY TimingAssumption DEF TypeOK

(* The launch of the server starts with the first budget. *)
LEMMA IInvInit == Init => IInv
<1> SUFFICES ASSUME Init PROVE IInv
  OBVIOUS
<1>1. load \in Nat \ {0}
  BY TimingAssumption DEF Init
<1>2. TypeOK
  <2>1. /\ 0 \in 0..(load - 1) /\ 0 \in 0..Longest /\ 0 \in 0..MaxDown
        /\ 0 \in 0..MaxCrashes /\ 0 \in 0..MaxRefused
    BY <1>1, ConstantTypes
  <2>2. timer = 0 /\ refused = 0 /\ late = 0
    BY DEF Init
  <2>3. timer \in Nat /\ late \in 0..refused
    BY <2>2
  <2>4. loop = "asleep" /\ server = "loading" /\ waited \in BOOLEAN
    BY DEF Init
  <2> QED BY <2>1, <2>3, <2>4 DEF Init, TypeOK
<1>3. ReadyIsUp
  BY DEF Init, ReadyIsUp
<1>4. BudgetKept
  BY ConstantTypes, BudgetAssumption DEF Init, BudgetKept, Due
<1> QED BY <1>2, <1>3, <1>4 DEF IInv

(* One more failure is paid for by its backoff and an attempt. *)
LEMMA FailedKeeps ==
    ASSUME TypeOK, Failed, UNCHANGED downFor,
           failures < Longest => downFor <= Budget[failures]
    PROVE  /\ failures' \in 0..Longest /\ timer' \in Nat /\ loop' = "asleep"
           /\ BudgetKept'
<1> DEFINE entry == IF failures < Longest THEN failures + 1 ELSE Longest
<1>1. failures \in 0..Longest /\ downFor \in Nat
  BY ConstantTypes DEF TypeOK
<1>2. entry \in 1..Longest
  BY <1>1, ConstantTypes
<1>3. /\ failures' = IF failures < Longest THEN failures + 1 ELSE failures
      /\ loop' = "asleep" /\ timer' = Backoffs[entry]
  BY DEF Failed, Sleep
<1>4. Backoffs[entry] \in Nat
  BY <1>2, ConstantTypes
<1>5. ASSUME failures' < Longest
      PROVE  downFor' + timer' + Due' <= Budget[failures']
  <2>1. entry = failures + 1 /\ failures' = failures + 1 /\ failures < Longest
    BY <1>1, <1>3, <1>5
  <2>2. Budget[entry] =
            Budget[entry - 1] + Backoffs[entry] + Command + LongestWait
    BY <1>2, BudgetAssumption
  <2>3. Budget[entry] = Budget[failures] + Backoffs[entry] + Command + LongestWait
    BY <1>1, <2>1, <2>2
  <2>4. downFor' <= Budget[failures] /\ downFor' \in Nat
    BY <1>1, <2>1
  <2>5. Due' = Command + LongestWait
    BY <1>3 DEF Due
  <2>6. Budget[failures] \in Nat /\ Command \in Nat /\ LongestWait \in Nat
    BY <1>1, ConstantTypes
  <2> HIDE DEF entry
  <2> QED BY <1>3, <1>4, <2>1, <2>3, <2>4, <2>5, <2>6
<1>6. failures' \in 0..Longest
  BY <1>1, <1>3, ConstantTypes
<1> QED BY <1>3, <1>4, <1>5, <1>6 DEF BudgetKept

(* A healthy answer starts the schedule anew. *)
LEMMA SucceededKeeps ==
    ASSUME TypeOK, ReadyIsUp, Succeeded, server = "ready", UNCHANGED downFor
    PROVE  /\ failures' \in 0..Longest /\ timer' \in Nat /\ loop' = "asleep"
           /\ BudgetKept'
BY ConstantTypes, BudgetAssumption
   DEF TypeOK, ReadyIsUp, Succeeded, Sleep, BudgetKept, Due

(* Time that passes is taken from what is left of a sleep or a wait. *)
LEMMA TickKeeps ==
    ASSUME IInv, Tick
    PROVE  IInv'
<1> DEFINE loaded == server = "loading" /\ age + 1 = load
<1>1. /\ timer' = timer - 1 /\ timer > 0
      /\ server' = IF loaded THEN "ready" ELSE server
      /\ age' = IF server = "loading" /\ ~loaded THEN age + 1 ELSE 0
      /\ downFor' = IF loaded \/ server = "ready" THEN 0
                    ELSE IF downFor < MaxDown THEN downFor + 1 ELSE downFor
      /\ UNCHANGED <<load, loop, failures, late, waited, crashes, refused>>
  BY DEF Tick
<1>2. /\ load \in Nat \ {0} /\ age \in 0..(load - 1)
      /\ timer \in Nat /\ downFor \in 0..MaxDown /\ MaxDown \in Nat
      /\ failures \in 0..Longest
  BY LoadTypes, ConstantTypes DEF IInv, TypeOK
<1>3. downFor' \in 0..MaxDown /\ downFor' <= downFor + 1
  BY <1>1, <1>2
<1>4. age' \in 0..(load - 1) /\ (age' > 0 => server' = "loading")
  BY <1>1, <1>2
<1>5. server' \in {"down", "loading", "ready"} /\ timer' \in Nat
  BY <1>1, <1>2 DEF IInv, TypeOK
<1>6. /\ loop' = "restarting" => timer' <= Command
      /\ loop' = "waiting" => timer' <= LongestWait
  BY <1>1, <1>2, ConstantTypes DEF IInv, TypeOK
<1>7. TypeOK'
  BY <1>1, <1>3, <1>4, <1>5, <1>6 DEF IInv, TypeOK
<1>8. ReadyIsUp'
  BY <1>1 DEF ReadyIsUp
<1>9. Due' = Due /\ Due \in Nat
  BY <1>1, ConstantTypes DEF Due
<1>10. failures < Longest => downFor' + timer' + Due' <= Budget[failures]
  <2>1. failures < Longest => Budget[failures] \in Nat
    BY <1>2, ConstantTypes
  <2> HIDE DEF loaded
  <2> QED BY <1>1, <1>2, <1>3, <1>9, <2>1 DEF IInv, BudgetKept
<1>11. BudgetKept'
  BY <1>1, <1>10 DEF BudgetKept
<1> QED BY <1>7, <1>8, <1>11 DEF IInv

(* Every step keeps the budget. *)
LEMMA IInvStep == IInv /\ [Next]_vars => IInv'
<1> SUFFICES ASSUME IInv, [Next]_vars PROVE IInv'
  OBVIOUS
<1> USE DEF IInv
<1>0. /\ failures \in 0..Longest /\ timer \in Nat /\ downFor \in Nat
      /\ \A k \in 0..Longest : Budget[k] \in Nat
      /\ Wait \in Nat /\ LongestWait \in Nat /\ Command \in Nat
  BY ConstantTypes DEF TypeOK
<1>1. CASE CheckOk
  <2>1. ReadyIsUp'
    BY <1>1 DEF CheckOk, ReadyIsUp
  <2> QED BY <1>1, <2>1, SucceededKeeps DEF CheckOk, Check, TypeOK
<1>2. CASE CheckFails
  <2>1. loop = "asleep" /\ timer = 0 /\ timer' \in 0..Command
        /\ loop' = "restarting"
    BY <1>2 DEF CheckFails, Check
  <2>2. TypeOK'
    BY <1>0, <1>2, <2>1 DEF CheckFails, TypeOK
  <2>3. Due = Command + LongestWait /\ Due' = LongestWait
    BY <2>1 DEF Due
  <2>4. BudgetKept'
    BY <1>0, <1>2, <2>1, <2>3 DEF CheckFails, BudgetKept
  <2> QED BY <1>2, <2>2, <2>4 DEF CheckFails, ReadyIsUp
<1>3. CASE Restart
  <2>1. loop = "restarting" /\ timer = 0 /\ loop' = "waiting"
        /\ timer' \in Wait..LongestWait
    BY <1>3 DEF Restart
  <2>2. TypeOK'
    BY <1>0, <1>3, <2>1, LoadTypes DEF Restart, Launch, TypeOK
  <2>3. Due = LongestWait /\ Due' = 0
    BY <2>1 DEF Due
  <2>4. BudgetKept'
    BY <1>0, <1>3, <2>1, <2>3 DEF Restart, BudgetKept
  <2> QED BY <1>3, <2>2, <2>4 DEF Restart, Launch, ReadyIsUp
<1>4. CASE RestartFails
  <2>1. failures < Longest => downFor <= Budget[failures]
    BY <1>0, <1>4 DEF RestartFails, BudgetKept, Due
  <2>2. refused' \in 0..MaxRefused /\ late' \in 0..refused'
    BY <1>4, ConstantTypes DEF RestartFails, TypeOK
  <2>3. ReadyIsUp'
    BY <1>4 DEF RestartFails, ReadyIsUp
  <2> QED BY <1>4, <2>1, <2>2, <2>3, FailedKeeps DEF RestartFails, TypeOK
<1>5. CASE Recovered
  <2>1. ReadyIsUp'
    BY <1>5 DEF Recovered, ReadyIsUp
  <2> QED BY <1>5, <2>1, SucceededKeeps DEF Recovered, TypeOK
<1>6. CASE NotRecovered
  <2>1. failures < Longest => downFor <= Budget[failures]
    BY <1>0, <1>6 DEF NotRecovered, BudgetKept, Due
  <2>2. ReadyIsUp'
    BY <1>6 DEF NotRecovered, ReadyIsUp
  <2> QED BY <1>6, <2>1, <2>2, FailedKeeps DEF NotRecovered, TypeOK
<1>7. CASE Tick
  BY <1>7, TickKeeps
<1>8. CASE Crash
  <2>1. TypeOK'
    BY <1>8, LoadTypes, ConstantTypes DEF Crash, TypeOK
  <2> QED BY <1>8, <2>1 DEF Crash, ReadyIsUp, BudgetKept, Due
<1>9. CASE LateLaunch
  <2>1. TypeOK'
    <3>1. /\ late' \in 0..refused' /\ refused' \in 0..MaxRefused
          /\ server' = "loading" /\ age' = 0 /\ waited' = FALSE
          /\ UNCHANGED <<load, loop, timer, failures, downFor, crashes>>
      BY <1>9, ConstantTypes DEF LateLaunch, Launch, TypeOK
    <3>2. 0 \in 0..(load - 1)
      BY LoadTypes
    <3> QED BY <3>1, <3>2 DEF TypeOK
  <2> QED BY <1>9, <2>1 DEF LateLaunch, Launch, ReadyIsUp, BudgetKept, Due
<1>10. CASE UNCHANGED vars
  BY <1>10 DEF vars, TypeOK, ReadyIsUp, BudgetKept, Due
<1> QED BY <1>1, <1>2, <1>3, <1>4, <1>5, <1>6, <1>7, <1>8, <1>9, <1>10
        DEF Next, LoopStep

(* The loop keeps its accounts of the downtime. *)
THEOREM Invariance == Spec => []IInv
BY IInvInit, IInvStep, PTL DEF Spec

(* The variables keep their types; no command or wait is longer than its
   timeouts allow. *)
THEOREM TypeCorrect == Spec => []TypeOK
<1>1. IInv => TypeOK
  BY DEF IInv
<1> QED BY <1>1, Invariance, PTL

(* For every poll interval, list of backoffs, load time, and timeouts of curl
   and ssh, and however often servers die and commands fail or come late: after
   k failed attempts a node has been down no longer than the schedule adds up
   to. *)
THEOREM DowntimeCorrect == Spec => []DowntimeBounded
<1>1. IInv => DowntimeBounded
  <2>1. ASSUME IInv, failures < Longest
        PROVE  downFor <= Budget[failures]
    <3>1. /\ failures \in 0..Longest /\ timer \in Nat /\ downFor \in Nat
          /\ Budget[failures] \in Nat /\ Due \in Nat
      BY <2>1, ConstantTypes DEF IInv, TypeOK, Due
    <3> QED BY <2>1, <3>1 DEF IInv, BudgetKept
  <2> QED BY <2>1 DEF DowntimeBounded
<1> QED BY <1>1, Invariance, PTL
-----------------------------------------------------------------------------
(* Loads *)

(* The age of a load and what is left of the wait it began with. *)
WaitKept ==
    loop = "waiting" /\ server = "loading" /\ waited => age + timer >= Wait

(* A sleep or a command that a load goes on in comes after the whole wait and
   the backoff of the attempts so far. *)
Asleep == IF loop = "asleep" THEN timer ELSE 0
SleepKept ==
    loop # "waiting" /\ server = "loading" /\ waited =>
        failures > 0 /\ age + Asleep >= Wait + Backoffs[failures]

LoadsKept == WaitKept /\ SleepKept

(* The launch of the start script has not been waited for. *)
LEMMA LoadsInit == Init => LoadsKept
BY DEF Init, LoadsKept, WaitKept, SleepKept

(* A failure is followed by its backoff. *)
LEMMA FailedLoads ==
    ASSUME TypeOK, Failed, UNCHANGED <<server, age, waited>>,
           server = "loading" /\ waited => age >= Wait
    PROVE  LoadsKept'
<1> DEFINE entry == IF failures < Longest THEN failures + 1 ELSE Longest
<1>1. /\ failures' = IF failures < Longest THEN failures + 1 ELSE failures
      /\ loop' = "asleep" /\ timer' = Backoffs[entry]
  BY DEF Failed, Sleep
<1>2. /\ failures \in 0..Longest /\ age' = age
      /\ Wait \in Nat /\ Longest \in Nat \ {0}
  BY ConstantTypes DEF TypeOK
<1>3. entry = failures' /\ failures' \in 1..Longest
  BY <1>1, <1>2
<1>4. timer' = Backoffs[failures'] /\ Backoffs[failures'] \in Nat
  BY <1>1, <1>3, ConstantTypes
<1>5. age \in Nat /\ Asleep' = timer'
  BY <1>1, LoadTypes DEF TypeOK, Asleep
<1> HIDE DEF entry
<1>6. ASSUME server = "loading", waited
      PROVE  failures' > 0 /\ age' + Asleep' >= Wait + Backoffs[failures']
  BY <1>2, <1>3, <1>4, <1>5, <1>6
<1> QED BY <1>1, <1>6 DEF LoadsKept, WaitKept, SleepKept

(* While time passes a load ages as fast as the timer runs down. *)
LEMMA TickLoads == ASSUME TypeOK, LoadsKept, Tick PROVE LoadsKept'
<1>1. timer \in Nat /\ age \in Nat /\ timer > 0 /\ Wait \in Nat
  BY LoadTypes, ConstantTypes DEF TypeOK, Tick
<1>2. UNCHANGED <<loop, failures, waited>>
  BY DEF Tick
<1>3. server' = "loading" =>
        server = "loading" /\ age' = age + 1 /\ timer' = timer - 1
  BY <1>1 DEF Tick
<1>4. failures > 0 => Backoffs[failures] \in Nat
  BY ConstantTypes DEF TypeOK
<1>5. WaitKept'
  BY <1>1, <1>2, <1>3 DEF LoadsKept, WaitKept
<1>6. SleepKept'
  BY <1>1, <1>2, <1>3, <1>4 DEF LoadsKept, SleepKept, Asleep
<1> QED BY <1>5, <1>6 DEF LoadsKept

(* A wait that begins with a launch covers RESTART_WAIT by itself. *)
LEMMA LaunchedNow ==
    ASSUME NEW begun, begun = 0, NEW time \in Int, NEW wait \in Nat, time >= wait
    PROVE  begun + time >= wait
  OBVIOUS

(* Every step keeps what loads are promised. *)
LEMMA LoadsStep == TypeOK /\ LoadsKept /\ [Next]_vars => LoadsKept'
<1> SUFFICES ASSUME TypeOK, LoadsKept, [Next]_vars PROVE LoadsKept'
  OBVIOUS
<1>0. /\ timer \in Nat /\ age \in Nat /\ Wait \in Nat /\ LongestWait \in Nat
      /\ failures > 0 => Backoffs[failures] \in Nat
  BY LoadTypes, ConstantTypes DEF TypeOK
<1>1. CASE CheckOk \/ Recovered
  BY <1>1 DEF CheckOk, Recovered, Succeeded, Sleep,
              LoadsKept, WaitKept, SleepKept
<1>2. CASE CheckFails
  BY <1>0, <1>2 DEF CheckFails, Check, LoadsKept, WaitKept, SleepKept, Asleep
<1>3. CASE Restart
  <2>1. loop' = "waiting" /\ age' = 0 /\ timer' \in Wait..LongestWait
    BY <1>3 DEF Restart, Launch
  <2>2. age' + timer' >= Wait
    <3>1. timer' \in Int /\ timer' >= Wait
      BY <1>0, <2>1
    <3> QED BY <1>0, <2>1, <3>1, LaunchedNow
  <2>3. WaitKept'
    BY <2>2 DEF WaitKept
  <2>4. SleepKept'
    BY <2>1 DEF SleepKept
  <2> QED BY <2>3, <2>4 DEF LoadsKept
<1>4. CASE RestartFails
  <2>1. server = "loading" /\ waited => age >= Wait
    BY <1>0, <1>4 DEF RestartFails, LoadsKept, SleepKept, Asleep
  <2> QED BY <1>4, <2>1, FailedLoads DEF RestartFails
<1>5. CASE NotRecovered
  <2>1. server = "loading" /\ waited => age >= Wait
    BY <1>0, <1>5 DEF NotRecovered, LoadsKept, WaitKept
  <2> QED BY <1>5, <2>1, FailedLoads DEF NotRecovered
<1>6. CASE Tick
  BY <1>6, TickLoads
<1>7. CASE Crash \/ LateLaunch
  BY <1>7 DEF Crash, LateLaunch, LoadsKept, WaitKept, SleepKept
<1>8. CASE UNCHANGED vars
  BY <1>8 DEF vars, LoadsKept, WaitKept, SleepKept, Asleep
<1> QED BY <1>1, <1>2, <1>3, <1>4, <1>5, <1>6, <1>7, <1>8 DEF Next, LoopStep

(* For every schedule, and with commands that fail, launch late or take their
   time: no load the watchdog has begun is killed that the wait and the backoff
   of the attempts so far suffice for. *)
THEOREM LoadsFinish == Spec => []LoadNotCutShort
<1>1. TypeOK /\ LoadsKept => LoadNotCutShort
  <2> SUFFICES ASSUME TypeOK, LoadsKept, Check, server = "loading", waited
               PROVE  failures > 0 /\ load > Wait + Backoffs[failures]
    BY DEF LoadNotCutShort
  <2>1. failures > 0 /\ age + Asleep >= Wait + Backoffs[failures]
    BY DEF Check, LoadsKept, SleepKept
  <2>2. Backoffs[failures] \in Nat /\ Asleep = 0
    BY <2>1, ConstantTypes DEF TypeOK, Check, Asleep
  <2>3. age \in Nat /\ age < load /\ load \in Nat /\ Wait \in Nat
    BY LoadTypes, ConstantTypes DEF TypeOK
  <2> QED BY <2>1, <2>2, <2>3
<1> QED BY <1>1, LoadsInit, LoadsStep, TypeCorrect, PTL DEF Spec
=============================================================================

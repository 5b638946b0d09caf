--------------------------- MODULE LlamaSyncProofs ---------------------------
(***************************************************************************)
(* The change detection of the sync job, for any nodes, files, overlapping *)
(* runs and number of edits and failures.  The properties are not          *)
(* inductive: what a transfer and a build have done so far has to be       *)
(* related to the build of the node and to the other runs that are there.  *)
(***************************************************************************)
EXTENDS LlamaSync, FiniteSetTheorems, TLAPS

(* What the build of a node misses, and what a compiler has not read: files cut
   off in their transfer will be sent again. *)
Differs(n) == \E f \in Compiled : tree[n][f] \notin {built[n][f], Torn}
Unread(j, n) == \E f \in Compiled : tree[n][f] \notin {seen[j][f], Torn}
Matches == \A n \in Nodes \ owed : Differs(n) => \E j \in Jobs : InCharge(j, n)

(* source_changed is set between rsync and the end of the visit, and a run
   that validates or builds has it set. *)
Committed ==
    \A j \in Jobs :
        /\ phase[j] \in {"validating", "building", "compiling"} => changed[j]
        /\ changed[j] => phase[j] \in {"syncing", "validating", "building",
                                      "compiling"}

(* Two runs on one node have met. *)
Meeting == \A j, k \in Jobs : j # k /\ cur[j] = cur[k] /\ cur[j] # NoNode => j \in met

(* Of two runs that compile on one node, the second has left it owed. *)
OneCompiler ==
    \A j, k \in Jobs :
        j # k /\ cur[j] = cur[k] /\ phase[j] = "compiling" /\ phase[k] = "compiling"
            => cur[j] \in owed

(* A compiler alone on its node started from nothing, and if files were sent
   after it had read them, who sent them is going to build. *)
Compiling ==
    \A j \in Jobs, n \in Nodes \ owed :
        phase[j] = "compiling" /\ cur[j] = n =>
            /\ built[n] = NoBuild
            /\ Unread(j, n) =>
                  \E k \in Jobs : InCharge(k, n) /\ phase[k] # "compiling"

IInv == /\ TypeOK /\ Committed /\ Meeting /\ OneCompiler
        /\ Compiling /\ Matches

(* The sources of a tree differ from others iff some compiled file does. *)
LEMMA DiffersByFile ==
    ASSUME NEW t, NEW b \in [Compiled -> Nat]
    PROVE  Sources(t) # b <=> \E f \in Compiled : t[f] # b[f]
BY DEF Sources

-----------------------------------------------------------------------------
(* Types *)

(* No run has started, and no node has sources or a build. *)
LEMMA TypeInit == Init => TypeOK
<1> SUFFICES ASSUME Init PROVE TypeOK
  OBVIOUS
<1> USE SyncAssumption DEF Init
<1>1. /\ tree \in [Nodes -> [Files -> Nat]]
      /\ built \in [Nodes -> [Compiled -> Nat]]
      /\ seen \in [Jobs -> [Compiled -> Nat]]
      /\ touched \in [Nodes -> SUBSET Files]
  BY DEF NoBuild, Sources, Absent
<1>2. source \in [Files -> 0..(MaxChanges + 1)]
  OBVIOUS
<1>3. changes \in 0..MaxChanges /\ failures \in 0..MaxFailures
  OBVIOUS
<1>4. /\ phase \in [Jobs -> Phases] /\ cur \in [Jobs -> Nodes \cup {NoNode}]
      /\ active \in [Jobs -> SUBSET Nodes] /\ unsent \in [Jobs -> SUBSET Files]
      /\ changed \in [Jobs -> BOOLEAN]
  BY DEF Phases
<1> QED BY <1>1, <1>2, <1>3, <1>4 DEF TypeOK

(* What a build can leave behind. *)
LEMMA ResultTypes ==
    ASSUME TypeOK, NEW j \in Jobs, cur[j] \in Nodes, NEW b \in Results(j)
    PROVE  b \in [Compiled -> Nat]
<1>0. /\ seen[j] \in [Compiled -> Nat] /\ tree[cur[j]] \in [Files -> Nat]
      /\ built[cur[j]] \in [Compiled -> Nat] /\ Compiled \subseteq Files
  BY SyncAssumption DEF TypeOK
<1>1. /\ \A f \in Compiled : seen[j][f] \in Nat /\ tree[cur[j]][f] \in Nat
      /\ \A f \in Compiled : built[cur[j]][f] \in Nat
  BY <1>0
<1>2. /\ b \in [Compiled -> {seen[j][f] : f \in Compiled}
                             \cup {tree[cur[j]][f] : f \in Compiled}
                             \cup {built[cur[j]][f] : f \in Compiled}]
  BY DEF Results
<1> QED BY <1>1, <1>2

(* The end of a visit keeps the types of the run's own variables. *)
LEMMA LeaveTypes ==
    ASSUME TypeOK, NEW j \in Jobs, NEW next \in {"idle", "picking"},
           NEW left \in SUBSET Nodes, next = "idle" => left = {},
           Leave(j, next, left)
    PROVE  /\ phase' \in [Jobs -> Phases] /\ cur' \in [Jobs -> Nodes \cup {NoNode}]
           /\ active' \in [Jobs -> SUBSET Nodes]
           /\ \A k \in Jobs :
                 /\ cur'[k] = NoNode <=> phase'[k] \in {"idle", "picking"}
                 /\ phase'[k] = "idle" => active'[k] = {}
           /\ unsent' \in [Jobs -> SUBSET Files] /\ changed' \in [Jobs -> BOOLEAN]
           /\ seen' \in [Jobs -> [Compiled -> Nat]]
           /\ met' \subseteq Jobs
<1>1. NoBuild \in [Compiled -> Nat]
  BY SyncAssumption DEF NoBuild, Sources, Absent
<1> QED BY <1>1 DEF Leave, TypeOK, Phases

(* A run that goes on keeps its types. *)
LEMMA GoOnTypes ==
    ASSUME TypeOK, NEW j \in Jobs,
           phase[j] \notin {"idle", "picking"},
           NEW next \in Phases \ {"idle", "picking"}, GoOn(j, next)
    PROVE  /\ phase' \in [Jobs -> Phases] /\ cur' \in [Jobs -> Nodes \cup {NoNode}]
           /\ active' \in [Jobs -> SUBSET Nodes]
           /\ \A k \in Jobs :
                 /\ cur'[k] = NoNode <=> phase'[k] \in {"idle", "picking"}
                 /\ phase'[k] = "idle" => active'[k] = {}
           /\ met' \subseteq Jobs
BY DEF GoOn, TypeOK, Phases

(* What one file of one node more or less means for the trees. *)
LEMMA FileSet ==
    ASSUME TypeOK, NEW n \in Nodes, NEW f \in Files, NEW v \in Nat,
           tree' = [tree EXCEPT ![n][f] = v]
    PROVE  /\ tree' \in [Nodes -> [Files -> Nat]] /\ tree'[n][f] = v
           /\ \A m \in Nodes \ {n} : tree'[m] = tree[m]
           /\ \A g \in Files \ {f} : tree'[n][g] = tree[n][g]
BY DEF TypeOK

(* A file that was sent is the source node's. *)
LEMMA SendTree ==
    ASSUME TypeOK, NEW j \in Jobs, NEW f \in Files, SendFile(j, f)
    PROVE  /\ cur[j] \in Nodes /\ source[f] \in Nat
           /\ tree' = [tree EXCEPT ![cur[j]][f] = source[f]]
<1>1. source[f] \in Nat
  <2>1. source[f] \in 0..(MaxChanges + 1)
    BY DEF TypeOK
  <2> QED BY <2>1, SyncAssumption
<1> QED BY <1>1 DEF SendFile, Compare, TypeOK

(* A file is cut off only if it differed. *)
LEMMA CutTree ==
    ASSUME TypeOK, NEW j \in Jobs, SyncFails(j)
    PROVE  /\ tree' \in [Nodes -> [Files -> Nat]]
           /\ \A m \in Nodes : m # cur[j] => tree'[m] = tree[m]
           /\ \A m \in Nodes, f \in Files :
                 \/ tree'[m][f] = tree[m][f]
                 \/ /\ tree'[m][f] = Torn
                    /\ tree[m][f] # source[f] \/ f \in touched[m]
<1>1. cur[j] \in Nodes /\ Torn \in Nat /\ unsent[j] \subseteq Files
  BY SyncAssumption DEF SyncFails, TypeOK, Torn
<1>2. CASE UNCHANGED tree
  BY <1>2 DEF TypeOK
<1>3. CASE CutOff(j)
  <2>1. PICK g \in Files : /\ tree[cur[j]][g] # source[g] \/ g \in touched[cur[j]]
                           /\ tree' = [tree EXCEPT ![cur[j]][g] = Torn]
    BY <1>1, <1>3 DEF CutOff, Differing
  <2>2. /\ tree' \in [Nodes -> [Files -> Nat]] /\ tree'[cur[j]][g] = Torn
        /\ \A m \in Nodes \ {cur[j]} : tree'[m] = tree[m]
        /\ \A h \in Files \ {g} : tree'[cur[j]][h] = tree[cur[j]][h]
    BY <1>1, <2>1, FileSet
  <2> QED BY <1>1, <2>1, <2>2
<1> QED BY <1>2, <1>3 DEF SyncFails

(* Every step keeps the types. *)
LEMMA TypeStep == TypeOK /\ [Next]_vars => TypeOK'
<1> SUFFICES ASSUME TypeOK, [Next]_vars PROVE TypeOK'
  OBVIOUS
<1> USE SyncAssumption
<1>0. \A j \in Jobs : /\ active[j] \in SUBSET Nodes
                      /\ phase[j] \notin {"idle", "picking"} => cur[j] \in Nodes
  BY DEF TypeOK
<1>1. ASSUME NEW j \in Jobs, StartJob(j) PROVE TypeOK'
  <2>1. PICK reached \in SUBSET Nodes :
            /\ failures + Cardinality(Nodes \ reached) <= MaxFailures
            /\ failures' = failures + Cardinality(Nodes \ reached)
            /\ active' = [active EXCEPT ![j] = reached]
            /\ phase' = [phase EXCEPT
                            ![j] = IF reached = {} THEN "idle" ELSE "picking"]
    BY <1>1 DEF StartJob
  <2>2. Cardinality(Nodes \ reached) \in Nat
    BY FS_Difference, FS_CardinalityType
  <2>3. failures' \in 0..MaxFailures
    BY <2>1, <2>2 DEF TypeOK
  <2>4. /\ phase' \in [Jobs -> Phases] /\ active' \in [Jobs -> SUBSET Nodes]
        /\ \A k \in Jobs :
              /\ cur[k] = NoNode <=> phase'[k] \in {"idle", "picking"}
              /\ phase'[k] = "idle" => active'[k] = {}
    BY <1>1, <2>1 DEF StartJob, TypeOK, Phases
  <2> QED BY <1>1, <2>3, <2>4 DEF StartJob, TypeOK, nodeVars, visitVars
<1>2. ASSUME NEW j \in Jobs, EndJob(j) PROVE TypeOK'
  BY <1>2 DEF EndJob, TypeOK, Phases, nodeVars, visitVars, bounds
<1>3. ASSUME NEW j \in Jobs, NEW n \in Nodes, PickNode(j, n) PROVE TypeOK'
  <2>1. met' \subseteq Jobs
    BY <1>3 DEF PickNode, At, TypeOK
  <2> QED BY <1>3, <2>1
          DEF PickNode, TypeOK, Phases, nodeVars, visitVars, bounds
<1>4. ASSUME NEW j \in Jobs, Prepare(j) PROVE TypeOK'
  <2>1. unsent' \in [Jobs -> SUBSET Files]
    BY <1>4 DEF Prepare, TypeOK
  <2> QED BY <1>4, <2>1, GoOnTypes DEF Prepare, TypeOK, Phases, nodeVars, bounds
<1>5. ASSUME NEW j \in Jobs, PrepareFails(j) PROVE TypeOK'
  <2>1. failures' \in 0..MaxFailures /\ changes' = changes
    BY <1>5 DEF PrepareFails, Fail, TypeOK
  <2>2. CASE Continue(j)
    BY <1>0, <1>5, <2>1, <2>2, LeaveTypes
       DEF PrepareFails, Continue, TypeOK, nodeVars
  <2>3. CASE Abort(j)
    BY <1>5, <2>1, <2>3, LeaveTypes DEF PrepareFails, Abort, TypeOK, nodeVars
  <2> QED BY <1>5, <2>2, <2>3 DEF PrepareFails
<1>6. ASSUME NEW j \in Jobs, NEW f \in Files, SendFile(j, f) PROVE TypeOK'
  <2>1. /\ cur[j] \in Nodes /\ source[f] \in Nat
        /\ tree' = [tree EXCEPT ![cur[j]][f] = source[f]]
    BY <1>6, SendTree
  <2>2. tree' \in [Nodes -> [Files -> Nat]]
    BY <2>1, FileSet
  <2>3. (changed[j] \/ (f \in Matched /\ Differing(j, f))) \in BOOLEAN
    BY DEF TypeOK
  <2>4. changed' \in [Jobs -> BOOLEAN]
    BY <1>6, <2>3 DEF SendFile, Compare, TypeOK
  <2>5. unsent' \in [Jobs -> SUBSET Files]
    BY <1>6 DEF SendFile, Compare, TypeOK
  <2>6. touched' \in [Nodes -> SUBSET Files]
    BY <1>6 DEF SendFile, Compare, TypeOK
  <2> QED BY <1>6, <2>2, <2>4, <2>5, <2>6 DEF SendFile, Compare, TypeOK, bounds
<1>7. ASSUME NEW j \in Jobs, EndSync(j) PROVE TypeOK'
  <2>1. CASE changed[j] /\ GoOn(j, "validating") /\ UNCHANGED visitVars
    BY <1>7, <2>1, GoOnTypes
       DEF EndSync, TypeOK, Phases, nodeVars, visitVars, bounds
  <2>2. CASE Continue(j)
    BY <1>0, <1>7, <2>2, LeaveTypes DEF EndSync, Continue, TypeOK, nodeVars, bounds
  <2> QED BY <1>7, <2>1, <2>2 DEF EndSync
<1>8. ASSUME NEW j \in Jobs, SyncFails(j) PROVE TypeOK'
  <2>1. failures' \in 0..MaxFailures /\ changes' = changes
    BY <1>8 DEF SyncFails, Fail, TypeOK
  <2>2. owed' \subseteq Nodes
    BY <1>0, <1>8 DEF SyncFails, Interrupt, TypeOK
  <2>3. tree' \in [Nodes -> [Files -> Nat]]
    BY <1>8, CutTree
  <2> QED BY <1>0, <1>8, <2>1, <2>2, <2>3, LeaveTypes
          DEF SyncFails, Continue, TypeOK
<1>9. ASSUME NEW j \in Jobs, Validate(j) PROVE TypeOK'
  <2>1. CASE GoOn(j, "building") /\ UNCHANGED <<visitVars, owed>>
    BY <1>9, <2>1, GoOnTypes
       DEF Validate, TypeOK, Phases, nodeVars, visitVars, bounds
  <2>2. CASE Continue(j) /\ Interrupt(j)
    <3>1. owed' \subseteq Nodes
      BY <1>0, <1>9, <2>2 DEF Validate, Interrupt, TypeOK
    <3> QED BY <1>0, <1>9, <2>2, <3>1, LeaveTypes
            DEF Validate, Continue, TypeOK, nodeVars, bounds
  <2> QED BY <1>9, <2>1, <2>2 DEF Validate
<1>10. ASSUME NEW j \in Jobs, ValidateFails(j) PROVE TypeOK'
  <2>1. failures' \in 0..MaxFailures /\ changes' = changes
    BY <1>10 DEF ValidateFails, Fail, TypeOK
  <2>2. owed' \subseteq Nodes
    BY <1>0, <1>10 DEF ValidateFails, Interrupt, TypeOK
  <2>3. CASE Continue(j)
    BY <1>0, <1>10, <2>1, <2>2, <2>3, LeaveTypes
       DEF ValidateFails, Continue, TypeOK, nodeVars
  <2>4. CASE Abort(j)
    BY <1>10, <2>1, <2>2, <2>4, LeaveTypes
       DEF ValidateFails, Abort, TypeOK, nodeVars
  <2> QED BY <1>10, <2>3, <2>4 DEF ValidateFails
<1>11. ASSUME NEW j \in Jobs, StartBuild(j) PROVE TypeOK'
  <2>1. cur[j] \in Nodes
    BY <1>0, <1>11 DEF StartBuild
  <2>2. NoBuild \in [Compiled -> Nat] /\ Sources(tree[cur[j]]) \in [Compiled -> Nat]
    <3>1. tree[cur[j]] \in [Files -> Nat]
      BY <2>1 DEF TypeOK
    <3> QED BY <3>1 DEF NoBuild, Sources, Absent
  <2>3. /\ built' \in [Nodes -> [Compiled -> Nat]]
        /\ seen' \in [Jobs -> [Compiled -> Nat]]
        /\ owed' \subseteq Nodes
    BY <1>11, <2>1, <2>2 DEF StartBuild, TypeOK
  <2> QED BY <1>11, <2>3, GoOnTypes DEF StartBuild, TypeOK, Phases, bounds
<1>12. ASSUME NEW j \in Jobs, EndBuild(j) PROVE TypeOK'
  <2>1. cur[j] \in Nodes
    BY <1>0, <1>12 DEF EndBuild
  <2>2. PICK b \in Results(j) :
            /\ built' = [built EXCEPT ![cur[j]] = b]
            /\ owed' \subseteq owed
    BY <1>12 DEF EndBuild
  <2>3. built' \in [Nodes -> [Compiled -> Nat]] /\ owed' \subseteq Nodes
    BY <2>1, <2>2, ResultTypes DEF TypeOK
  <2> QED BY <1>0, <1>12, <2>3, LeaveTypes DEF EndBuild, Continue, TypeOK, bounds
<1>13. ASSUME NEW j \in Jobs, BuildFails(j) PROVE TypeOK'
  <2>1. failures' \in 0..MaxFailures /\ changes' = changes
    BY <1>13 DEF BuildFails, Fail, TypeOK
  <2>2. cur[j] \in Nodes
    BY <1>0, <1>13 DEF BuildFails
  <2>3. owed' \subseteq Nodes
    BY <1>13, <2>2 DEF BuildFails, Interrupt, TypeOK
  <2>4. \/ built' = built
        \/ \E b \in Results(j) : built' = [built EXCEPT ![cur[j]] = b]
    BY <1>13 DEF BuildFails
  <2>5. built' \in [Nodes -> [Compiled -> Nat]]
    BY <2>2, <2>4, ResultTypes DEF TypeOK
  <2> QED BY <1>0, <1>13, <2>1, <2>3, <2>5, LeaveTypes
          DEF BuildFails, Continue, TypeOK
<1>14. ASSUME NEW f \in Files, Change(f) \/ Touch(f) PROVE TypeOK'
  <2>1. CASE Change(f)
    <3>1. PICK v \in {0, changes + 2} : source' = [source EXCEPT ![f] = v]
      BY <2>1 DEF Change
    <3>2. v \in 0..(MaxChanges + 1)
      BY <2>1 DEF Change, TypeOK
    <3>3. source' \in [Files -> 0..(MaxChanges + 1)]
      BY <3>1, <3>2 DEF TypeOK
    <3> QED BY <2>1, <3>3 DEF Change, TypeOK, jobVars, visitVars
  <2>2. CASE Touch(f)
    <3>1. touched' \in [Nodes -> SUBSET Files]
      BY <2>2 DEF Touch, TypeOK
    <3> QED BY <2>2, <3>1 DEF Touch, TypeOK, jobVars, visitVars
  <2> QED BY <1>14, <2>1, <2>2
<1>15. CASE UNCHANGED vars
  BY <1>15 DEF vars, nodeVars, jobVars, visitVars, bounds, TypeOK
<1> QED
  BY <1>1, <1>2, <1>3, <1>4, <1>5, <1>6, <1>7, <1>8, <1>9, <1>10, <1>11,
     <1>12, <1>13, <1>14, <1>15 DEF Next, JobStep, Failure

-----------------------------------------------------------------------------
(* The invariant is inductive *)

(* No run has started, and every node has the build of its tree: none. *)
LEMMA InvInit == Init => IInv
<1> SUFFICES ASSUME Init PROVE IInv
  OBVIOUS
<1>1. Committed /\ Meeting /\ OneCompiler /\ Compiling
  BY DEF Init, Committed, Meeting, OneCompiler, Compiling
<1>2. Matches
  BY SyncAssumption DEF Init, Matches, Differs, NoBuild, Sources, Absent
<1> QED BY <1>1, <1>2, TypeInit DEF IInv

(* A run that leaves a node, after an interrupted visit or one that found
   nothing, leaves every part of the invariant as it is: it was not in charge
   of the node, or the node is owed a build from now on. *)
LEMMA LeaveStep ==
    ASSUME IInv, NEW j \in Jobs, cur[j] \in Nodes,
           NEW next \in {"idle", "picking"}, NEW left, Leave(j, next, left),
           \A n \in Nodes, f \in Compiled : tree'[n][f] \in {tree[n][f], Torn},
           owed \subseteq owed', changed[j] => cur[j] \in owed',
           \A n \in Nodes : built'[n] = built[n] \/ (n = cur[j] /\ n \in owed')
    PROVE  /\ Committed' /\ Meeting' /\ OneCompiler'
           /\ Compiling' /\ Matches'
<1> USE SyncAssumption DEF IInv
<1>1. /\ phase'[j] = next /\ cur'[j] = NoNode /\ changed'[j] = FALSE
      /\ met' = met \ {j}
      /\ \A k \in Jobs \ {j} :
            /\ phase'[k] = phase[k] /\ cur'[k] = cur[k]
            /\ changed'[k] = changed[k] /\ seen'[k] = seen[k]
            /\ unsent'[k] = unsent[k]
  BY DEF Leave, TypeOK
<1>2. \A n \in Nodes \ owed' : n \notin owed /\ built'[n] = built[n]
  OBVIOUS
<1>3. Committed'
  BY <1>1 DEF Committed
<1>4. Meeting'
  BY <1>1 DEF Meeting
<1>5. OneCompiler'
  BY <1>1 DEF OneCompiler
<1>6. \A n \in Nodes \ owed' : \A k \in Jobs : InCharge(k, n) => InCharge(k, n)'
  BY <1>1 DEF InCharge
<1>7. Compiling'
  <2> SUFFICES ASSUME NEW i \in Jobs, NEW n \in Nodes \ owed',
                      phase'[i] = "compiling", cur'[i] = n
               PROVE  /\ built'[n] = NoBuild
                      /\ Unread(i, n)' =>
                            \E k \in Jobs : /\ InCharge(k, n)'
                                           /\ phase'[k] # "compiling"
    BY DEF Compiling
  <2>1. /\ i # j /\ phase[i] = "compiling" /\ cur[i] = n
        /\ n \notin owed /\ seen'[i] = seen[i]
    BY <1>1
  <2>2. built'[n] = NoBuild
    BY <1>2, <2>1 DEF Compiling
  <2>3. ASSUME Unread(i, n)'
        PROVE  \E k \in Jobs : InCharge(k, n)' /\ phase'[k] # "compiling"
    <3>0. Unread(i, n)
      BY <2>1, <2>3 DEF Unread, Torn
    <3>1. PICK k \in Jobs : InCharge(k, n) /\ phase[k] # "compiling"
      BY <2>1, <3>0 DEF Compiling
    <3>2. k # j
      BY <3>1 DEF InCharge
    <3> QED BY <1>1, <3>1, <3>2 DEF InCharge
  <2> QED BY <2>2, <2>3
<1>8. Matches'
  <2> SUFFICES ASSUME NEW n \in Nodes \ owed', Differs(n)'
               PROVE  \E k \in Jobs : InCharge(k, n)'
    BY DEF Matches
  <2>1. Differs(n)
    BY <1>2 DEF Differs, Torn
  <2> QED BY <1>2, <1>6, <2>1 DEF Matches
<1> QED BY <1>3, <1>4, <1>5, <1>7, <1>8

(* What stays true when no node, no history and no visit changes. *)
LEMMA RestStep ==
    ASSUME IInv, UNCHANGED <<tree, built, owed, met, cur, visitVars>>,
           \A j \in Jobs : phase'[j] = phase[j] \/ cur[j] = NoNode,
           \A j \in Jobs : cur[j] = NoNode => phase'[j] \in {"idle", "picking"}
    PROVE  /\ Committed' /\ Meeting' /\ OneCompiler'
           /\ Compiling' /\ Matches'
<1> USE SyncAssumption DEF IInv, visitVars
<1>1. Committed'
  BY DEF Committed, TypeOK
<1>2. Meeting'
  BY DEF Meeting
<1>3. OneCompiler'
  BY DEF OneCompiler, TypeOK
<1>4. \A k \in Jobs, n \in Nodes : InCharge(k, n) <=> InCharge(k, n)'
  BY DEF InCharge
<1>5. \A k \in Jobs, n \in Nodes : cur[k] = n => phase'[k] = phase[k]
  OBVIOUS
<1>6. Compiling'
  BY <1>4, <1>5 DEF Compiling, InCharge, Unread, Torn
<1>7. Matches'
  BY <1>4 DEF Matches, Differs, Torn
<1> QED BY <1>1, <1>2, <1>3, <1>6, <1>7

(* Who comes to a node finds it settled, or meets who is in charge of it. *)
LEMMA PickStep ==
    ASSUME IInv, NEW j \in Jobs, NEW n \in Nodes, PickNode(j, n)
    PROVE  /\ Committed' /\ Meeting' /\ OneCompiler'
           /\ Compiling' /\ Matches'
<1> USE SyncAssumption DEF IInv
<1>1. /\ phase[j] = "picking" /\ cur[j] = NoNode /\ ~changed[j]
      /\ phase'[j] = "preparing" /\ cur'[j] = n
      /\ \A k \in Jobs \ {j} : phase'[k] = phase[k] /\ cur'[k] = cur[k]
      /\ UNCHANGED <<tree, built, owed, changed, seen, unsent>>
      /\ met' = IF At(n) = {} THEN met ELSE met \cup At(n) \cup {j}
  BY DEF PickNode, TypeOK, Committed, nodeVars, visitVars
<1>2. Committed'
  BY <1>1 DEF Committed
<1>3. Meeting'
  BY <1>1 DEF Meeting, At
<1>4. OneCompiler'
  BY <1>1 DEF OneCompiler
<1>5. \A k \in Jobs, m \in Nodes : InCharge(k, m) <=> InCharge(k, m)'
  BY <1>1 DEF InCharge
<1>6. Compiling'
  <2> SUFFICES ASSUME NEW i \in Jobs, NEW m \in Nodes \ owed,
                      phase'[i] = "compiling", cur'[i] = m
               PROVE  /\ built[m] = NoBuild
                      /\ Unread(i, m) =>
                            \E k \in Jobs : /\ InCharge(k, m)'
                                           /\ phase'[k] # "compiling"
    BY <1>1 DEF Compiling, Unread, Torn
  <2>1. i # j /\ phase[i] = "compiling" /\ cur[i] = m
    BY <1>1
  <2>2. /\ built[m] = NoBuild
        /\ Unread(i, m) =>
              \E k \in Jobs : InCharge(k, m) /\ phase[k] # "compiling"
    BY <2>1 DEF Compiling
  <2>3. \A k \in Jobs : InCharge(k, m) /\ phase[k] # "compiling" =>
                          InCharge(k, m)' /\ phase'[k] # "compiling"
    BY <1>1 DEF InCharge
  <2> QED BY <2>2, <2>3
<1>7. Matches'
  BY <1>1, <1>5 DEF Matches, Differs, Torn
<1> QED BY <1>2, <1>3, <1>4, <1>6, <1>7

(* A run that goes on with what it knows, or starts to compare files. *)
LEMMA GoOnStep ==
    ASSUME IInv, NEW j \in Jobs, cur[j] # NoNode,
           NEW next \in {"syncing", "validating", "building"}, GoOn(j, next),
           phase[j] \in {"preparing", "syncing", "validating"},
           changed[j] \/ next = "syncing",
           UNCHANGED <<tree, built, changed, seen, owed>>
    PROVE  /\ Committed' /\ Meeting' /\ OneCompiler'
           /\ Compiling' /\ Matches'
<1> USE DEF IInv
<1>1. /\ phase'[j] = next
      /\ \A k \in Jobs \ {j} : phase'[k] = phase[k]
      /\ UNCHANGED <<tree, built, owed, cur, met, changed, seen>>
  BY DEF GoOn, TypeOK
<1>2. Committed'
  BY <1>1 DEF Committed
<1>3. Meeting' /\ OneCompiler'
  BY <1>1 DEF Meeting, OneCompiler
<1>4. \A k \in Jobs, m \in Nodes : InCharge(k, m) <=> InCharge(k, m)'
  BY <1>1 DEF InCharge
<1>5. Compiling'
  <2> SUFFICES ASSUME NEW i \in Jobs, NEW m \in Nodes \ owed,
                      phase'[i] = "compiling", cur[i] = m
               PROVE  /\ built[m] = NoBuild
                      /\ Unread(i, m) =>
                            \E k \in Jobs : /\ InCharge(k, m)'
                                           /\ phase'[k] # "compiling"
    BY <1>1 DEF Compiling, Unread, Torn
  <2>1. i # j /\ phase[i] = "compiling"
    BY <1>1
  <2>2. /\ built[m] = NoBuild
        /\ Unread(i, m) =>
              \E k \in Jobs : InCharge(k, m) /\ phase[k] # "compiling"
    BY <2>1 DEF Compiling
  <2>3. \A k \in Jobs : phase[k] # "compiling" => phase'[k] # "compiling"
    BY <1>1
  <2> QED BY <1>4, <2>2, <2>3
<1>6. Matches'
  BY <1>1, <1>4 DEF Matches, Differs, Torn
<1> QED BY <1>2, <1>3, <1>5, <1>6

(* A file that is sent makes the run that sends it in charge of the node. *)
LEMMA SendStep ==
    ASSUME IInv, NEW j \in Jobs, NEW f \in Files, SendFile(j, f)
    PROVE  /\ Committed' /\ Meeting' /\ OneCompiler'
           /\ Compiling' /\ Matches'
<1> USE SyncAssumption DEF IInv
<1> DEFINE n == cur[j]
           Counts == f \in Matched /\ Differing(j, f)
<1>1. /\ phase[j] = "syncing" /\ n \in Nodes
      /\ UNCHANGED <<phase, cur, built, owed, met, seen>>
      /\ changed'[j] = (changed[j] \/ Counts)
      /\ \A k \in Jobs \ {j} : changed'[k] = changed[k]
  BY DEF SendFile, Compare, TypeOK
<1>2. /\ tree'[n][f] = source[f]
      /\ \A g \in Files \ {f} : tree'[n][g] = tree[n][g]
      /\ \A m \in Nodes \ {n} : tree'[m] = tree[m]
  <2>1. tree' = [tree EXCEPT ![n][f] = source[f]]
    BY DEF SendFile, Compare
  <2>2. tree \in [Nodes -> [Files -> Nat]]
    BY DEF TypeOK
  <2> HIDE DEF n, Counts
  <2> QED BY <1>1, <2>1, <2>2
<1>3. Committed'
  BY <1>1 DEF Committed
<1>4. Meeting' /\ OneCompiler'
  BY <1>1 DEF Meeting, OneCompiler
<1>5. \A k \in Jobs : changed[k] => changed'[k]
  BY <1>1
<1>6. ASSUME NEW m \in Nodes, m # n \/ ~Counts
      PROVE  \A g \in Compiled : tree'[m][g] = tree[m][g]
  BY <1>1, <1>2, <1>6 DEF Differing
<1>7. Counts => cur'[j] = n /\ changed'[j] /\ phase'[j] # "compiling"
  BY <1>1
<1> HIDE DEF Counts
<1>8. Compiling'
  <2> SUFFICES ASSUME NEW i \in Jobs, NEW m \in Nodes \ owed,
                      phase[i] = "compiling", cur[i] = m
               PROVE  /\ built[m] = NoBuild
                      /\ Unread(i, m)' =>
                            \E k \in Jobs : /\ InCharge(k, m)'
                                           /\ phase'[k] # "compiling"
    BY <1>1 DEF Compiling
  <2>1. /\ built[m] = NoBuild
        /\ Unread(i, m) =>
              \E k \in Jobs : InCharge(k, m) /\ phase[k] # "compiling"
    BY DEF Compiling
  <2>2. CASE m # n \/ ~Counts
    <3>1. Unread(i, m)' => Unread(i, m)
      BY <1>1, <1>6, <2>2 DEF Unread, Torn
    <3>2. \A k \in Jobs : cur'[k] = cur[k] /\ phase'[k] = phase[k]
      BY <1>1
    <3> QED BY <1>5, <2>1, <3>1, <3>2 DEF InCharge
  <2>3. CASE m = n /\ Counts
    <3>1. cur'[j] = m /\ changed'[j] /\ phase'[j] # "compiling"
      BY <1>7, <2>3
    <3> QED BY <2>1, <3>1 DEF InCharge
  <2> QED BY <2>2, <2>3
<1>9. ASSUME NEW m \in Nodes \ owed, Differs(m)'
      PROVE  \E k \in Jobs : InCharge(k, m)'
  <2>1. CASE m # n \/ ~Counts
    <3>1. Differs(m)
      BY <1>1, <1>6, <1>9, <2>1 DEF Differs, Torn
    <3>2. PICK k \in Jobs : InCharge(k, m)
      BY <1>9, <3>1 DEF Matches
    <3>3. cur' = cur
      BY <1>1
    <3> QED BY <1>5, <3>2, <3>3 DEF InCharge
  <2>2. CASE m = n /\ Counts
    <3>1. cur'[j] = m /\ changed'[j]
      BY <1>7, <2>2
    <3> QED BY <3>1 DEF InCharge
  <2> QED BY <2>1, <2>2
<1>10. Matches'
  BY <1>1, <1>9 DEF Matches
<1> QED BY <1>3, <1>4, <1>8, <1>10

(* A build that starts alone starts from nothing; one that starts beside
   another leaves the node owed. *)
LEMMA StartBuildStep ==
    ASSUME IInv, NEW j \in Jobs, StartBuild(j)
    PROVE  /\ Committed' /\ Meeting' /\ OneCompiler'
           /\ Compiling' /\ Matches'
<1> USE SyncAssumption DEF IInv
<1> DEFINE n == cur[j]
<1>1. /\ phase[j] = "building" /\ phase'[j] = "compiling" /\ n \in Nodes
      /\ changed[j] /\ seen'[j] = Sources(tree[n]) /\ built'[n] = NoBuild
      /\ \A k \in Jobs \ {j} : phase'[k] = phase[k] /\ seen'[k] = seen[k]
      /\ \A m \in Nodes \ {n} : built'[m] = built[m]
      /\ UNCHANGED <<cur, met, tree, unsent, changed>>
      /\ owed' = IF Compilers(n) = {} THEN owed ELSE owed \cup {n}
  BY DEF StartBuild, GoOn, TypeOK, Committed
<1>2. \A m \in Nodes \ owed' : m \notin owed
  BY <1>1
<1>3. n \notin owed' => \A k \in Jobs : cur[k] = n => phase[k] # "compiling"
  BY <1>1 DEF Compilers, At
<1>4. Committed'
  BY <1>1 DEF Committed
<1>5. Meeting'
  BY <1>1 DEF Meeting
<1>6. OneCompiler'
  <2> SUFFICES ASSUME NEW i \in Jobs, NEW k \in Jobs, i # k, cur[i] = cur[k],
                      phase'[i] = "compiling", phase'[k] = "compiling"
               PROVE  cur[i] \in owed'
    BY <1>1 DEF OneCompiler
  <2>1. CASE i # j /\ k # j
    BY <1>1, <2>1 DEF OneCompiler
  <2>2. CASE i = j \/ k = j
    BY <1>1, <1>3, <2>2
  <2> QED BY <2>1, <2>2
<1>7. InCharge(j, n)
  BY <1>1 DEF InCharge
<1>8. Compiling'
  <2> SUFFICES ASSUME NEW i \in Jobs, NEW m \in Nodes \ owed',
                      phase'[i] = "compiling", cur[i] = m
               PROVE  /\ built'[m] = NoBuild
                      /\ Unread(i, m)' =>
                            \E k \in Jobs : /\ InCharge(k, m)'
                                           /\ phase'[k] # "compiling"
    BY <1>1 DEF Compiling
  <2>1. CASE i = j
    <3>1. ~Unread(i, m)'
      BY <1>1, <2>1 DEF Unread, Sources
    <3> QED BY <1>1, <2>1, <3>1
  <2>2. CASE i # j
    <3>1. m # n /\ phase[i] = "compiling" /\ m \notin owed
      BY <1>1, <1>2, <1>3, <2>2
    <3>2. /\ built[m] = NoBuild
          /\ Unread(i, m) =>
                \E k \in Jobs : InCharge(k, m) /\ phase[k] # "compiling"
      BY <3>1 DEF Compiling
    <3>3. Unread(i, m)' => Unread(i, m)
      BY <1>1, <2>2 DEF Unread, Torn
    <3> QED BY <1>1, <3>1, <3>2, <3>3 DEF InCharge
  <2> QED BY <2>1, <2>2
<1>9. Matches'
  <2> SUFFICES ASSUME NEW m \in Nodes \ owed', Differs(m)'
               PROVE  \E k \in Jobs : InCharge(k, m)
    BY <1>1 DEF Matches, InCharge
  <2>1. CASE m = n
    BY <1>7, <2>1
  <2>2. CASE m # n
    <3>1. Differs(m)
      BY <1>1, <2>2 DEF Differs, Torn
    <3> QED BY <1>2, <3>1 DEF Matches
  <2> QED BY <2>1, <2>2
<1> QED BY <1>4, <1>5, <1>6, <1>8, <1>9

(* A build that ends alone built the tree, unless a run that is in charge of
   the node sent files meanwhile or one was cut off. *)
LEMMA EndBuildStep ==
    ASSUME IInv, NEW j \in Jobs, EndBuild(j)
    PROVE  /\ Committed' /\ Meeting' /\ OneCompiler'
           /\ Compiling' /\ Matches'
<1> USE SyncAssumption DEF IInv
<1> DEFINE n == cur[j]
<1>1. /\ phase[j] = "compiling" /\ phase'[j] = "picking" /\ n \in Nodes
      /\ cur'[j] = NoNode /\ changed'[j] = FALSE /\ tree' = tree
      /\ met' = met \ {j}
      /\ \A k \in Jobs \ {j} :
            /\ phase'[k] = phase[k] /\ cur'[k] = cur[k] /\ seen'[k] = seen[k]
            /\ changed'[k] = changed[k] /\ unsent'[k] = unsent[k]
  BY DEF EndBuild, Continue, Leave, TypeOK
<1>2. PICK b \in Results(j) :
          /\ built' = [built EXCEPT ![n] = b]
          /\ owed' = IF Compilers(n) = {j} /\ b = Sources(tree[n])
                     THEN owed \ {n} ELSE owed
  BY DEF EndBuild
<1>3. \A m \in Nodes \ {n} : built'[m] = built[m] /\ (m \in owed' <=> m \in owed)
  BY <1>2 DEF TypeOK
<1>4. built'[n] = b
  BY <1>1, <1>2 DEF TypeOK
<1>5. ASSUME NEW k \in Jobs, k # j, cur[k] = n, phase[k] = "compiling"
      PROVE  n \in owed'
  <2>1. n \in owed
    BY <1>1, <1>5 DEF OneCompiler
  <2>2. k \in Compilers(n)
    BY <1>5 DEF Compilers, At
  <2> QED BY <1>2, <1>5, <2>1, <2>2
<1>6. ASSUME n \notin owed', NEW f \in Compiled, tree[n][f] \notin {b[f], Torn}
      PROVE  \E k \in Jobs \ {j} : cur[k] = n /\ changed[k]
  <2>1. n \notin owed
    <3>1. b # Sources(tree[n])
      BY <1>6 DEF Sources
    <3> QED BY <1>2, <1>6, <3>1
  <2>2. built[n] = NoBuild
    BY <1>1, <2>1 DEF Compiling
  <2>3. NoBuild[f] = 0
    BY DEF NoBuild, Sources, Absent
  <2>4. b[f] \in {seen[j][f], tree[n][f]}
    BY <2>2, <2>3 DEF Results
  <2>5. Unread(j, n)
    BY <1>6, <2>4 DEF Unread
  <2>6. PICK k \in Jobs : InCharge(k, n) /\ phase[k] # "compiling"
    BY <1>1, <2>1, <2>5 DEF Compiling
  <2> QED BY <1>1, <2>6 DEF InCharge
<1>7. Committed'
  BY <1>1 DEF Committed
<1>8. Meeting'
  BY <1>1 DEF Meeting
<1>9. OneCompiler'
  <2> SUFFICES ASSUME NEW i \in Jobs, NEW k \in Jobs, i # k, cur'[i] = cur'[k],
                      phase'[i] = "compiling", phase'[k] = "compiling"
               PROVE  cur'[i] \in owed'
    BY DEF OneCompiler
  <2>1. i # j /\ k # j
    BY <1>1
  <2>2. cur[i] \in owed /\ cur[i] \in Nodes
    BY <1>1, <2>1 DEF OneCompiler, TypeOK
  <2> QED BY <1>1, <1>3, <1>5, <2>1, <2>2
<1>10. Compiling'
  <2> SUFFICES ASSUME NEW i \in Jobs, NEW m \in Nodes \ owed',
                      phase'[i] = "compiling", cur'[i] = m
               PROVE  /\ built'[m] = NoBuild
                      /\ Unread(i, m)' =>
                            \E k \in Jobs : /\ InCharge(k, m)'
                                           /\ phase'[k] # "compiling"
    BY DEF Compiling
  <2>1. i # j /\ phase[i] = "compiling" /\ cur[i] = m
    BY <1>1
  <2>2. m # n /\ m \notin owed
    BY <1>3, <1>5, <2>1
  <2>3. /\ built[m] = NoBuild
        /\ Unread(i, m) =>
              \E k \in Jobs : InCharge(k, m) /\ phase[k] # "compiling"
    BY <2>1, <2>2 DEF Compiling
  <2>4. Unread(i, m)' => Unread(i, m)
    BY <1>1, <2>1 DEF Unread, Torn
  <2>5. \A k \in Jobs : InCharge(k, m) /\ phase[k] # "compiling" =>
                          InCharge(k, m)' /\ phase'[k] # "compiling"
    BY <1>1, <2>2 DEF InCharge
  <2> QED BY <1>3, <2>2, <2>3, <2>4, <2>5
<1>11. ASSUME NEW m \in Nodes \ owed', Differs(m)'
       PROVE  \E k \in Jobs : InCharge(k, m)'
  <2>1. PICK f \in Compiled : tree[m][f] \notin {built'[m][f], Torn}
    BY <1>1, <1>11 DEF Differs, Torn
  <2>2. CASE m = n
    <3>1. PICK k \in Jobs \ {j} : cur[k] = n /\ changed[k]
      BY <1>4, <1>6, <2>1, <2>2
    <3> QED BY <1>1, <2>2, <3>1 DEF InCharge
  <2>3. CASE m # n
    <3>1. m \notin owed /\ Differs(m)
      BY <1>3, <2>1, <2>3 DEF Differs
    <3>2. PICK k \in Jobs : InCharge(k, m)
      BY <3>1 DEF Matches
    <3> QED BY <1>1, <2>3, <3>2 DEF InCharge
  <2> QED BY <2>2, <2>3
<1>12. Matches'
  BY <1>11 DEF Matches
<1> QED BY <1>7, <1>8, <1>9, <1>10, <1>12

(* Every step keeps the invariant. *)
LEMMA InvStep == IInv /\ [Next]_vars => IInv'
<1> SUFFICES ASSUME IInv, [Next]_vars PROVE IInv'
  OBVIOUS
<1> USE SyncAssumption
<1> DEFINE Goal == /\ Committed' /\ Meeting' /\ OneCompiler'
                   /\ Compiling' /\ Matches'
<1>1. TypeOK /\ TypeOK'
  BY TypeStep DEF IInv
<1>2. \A j \in Jobs : phase[j] \notin {"idle", "picking"} => cur[j] \in Nodes
  BY <1>1 DEF TypeOK
<1>3. \A j \in Jobs : phase[j] \in {"idle", "picking"} => cur[j] = NoNode
  BY <1>1 DEF TypeOK
<1>4. \A j \in Jobs : /\ phase[j] = "preparing" => ~changed[j]
                      /\ phase[j] \in {"validating", "building", "compiling"}
                            => changed[j]
  BY DEF IInv, Committed
<1>5. ASSUME NEW j \in Jobs, StartJob(j) \/ EndJob(j) PROVE Goal
  <2>1. /\ phase[j] \in {"idle", "picking"} /\ phase'[j] \in {"idle", "picking"}
        /\ \A k \in Jobs \ {j} : phase'[k] = phase[k]
        /\ UNCHANGED <<tree, built, owed, met, cur, visitVars>>
    BY <1>1, <1>5 DEF StartJob, EndJob, TypeOK, nodeVars
  <2> QED BY <1>1, <1>3, <2>1, RestStep DEF TypeOK
<1>6. ASSUME NEW f \in Files, Change(f) \/ Touch(f) PROVE Goal
  BY <1>1, <1>6, RestStep DEF Change, Touch, jobVars, TypeOK
<1>7. ASSUME UNCHANGED vars PROVE Goal
  BY <1>1, <1>7, RestStep DEF vars, nodeVars, jobVars, TypeOK
<1>8. ASSUME NEW j \in Jobs, NEW n \in Nodes, PickNode(j, n) PROVE Goal
  BY <1>8, PickStep
<1>9. ASSUME NEW j \in Jobs, Prepare(j) PROVE Goal
  <2>1. /\ cur[j] # NoNode /\ phase[j] = "preparing" /\ GoOn(j, "syncing")
        /\ UNCHANGED <<tree, built, changed, seen, owed>>
    BY <1>1, <1>9 DEF Prepare, TypeOK, nodeVars
  <2> QED BY <2>1, GoOnStep
<1>10. ASSUME NEW j \in Jobs, NEW f \in Files, SendFile(j, f) PROVE Goal
  BY <1>10, SendStep
<1>11. ASSUME NEW j \in Jobs, StartBuild(j) PROVE Goal
  BY <1>11, StartBuildStep
<1>12. ASSUME NEW j \in Jobs, EndBuild(j) PROVE Goal
  BY <1>12, EndBuildStep
<1>13. ASSUME NEW j \in Jobs, PrepareFails(j) PROVE Goal
  <2>1. cur[j] \in Nodes /\ ~changed[j] /\ UNCHANGED <<tree, built, owed>>
    BY <1>2, <1>4, <1>13 DEF PrepareFails, nodeVars
  <2>2. PICK next \in {"idle", "picking"}, left \in {active[j], {}} :
            Leave(j, next, left)
    BY <1>13 DEF PrepareFails, Continue, Abort
  <2> QED BY <2>1, <2>2, LeaveStep
<1>14. ASSUME NEW j \in Jobs, EndSync(j) PROVE Goal
  <2>1. CASE changed[j]
    <3>1. /\ cur[j] # NoNode /\ phase[j] = "syncing" /\ GoOn(j, "validating")
          /\ UNCHANGED <<tree, built, changed, seen, owed>>
      BY <1>1, <1>14, <2>1 DEF EndSync, TypeOK, nodeVars, visitVars
    <3> QED BY <2>1, <3>1, GoOnStep
  <2>2. CASE ~changed[j]
    <3>1. /\ cur[j] \in Nodes /\ UNCHANGED <<tree, built, owed>>
          /\ Leave(j, "picking", active[j])
      BY <1>2, <1>14, <2>2 DEF EndSync, Continue, nodeVars
    <3> QED BY <2>2, <3>1, LeaveStep
  <2> QED BY <2>1, <2>2
<1>15. ASSUME NEW j \in Jobs, SyncFails(j) PROVE Goal
  <2>1. /\ cur[j] \in Nodes /\ UNCHANGED built
        /\ owed \subseteq owed' /\ (changed[j] => cur[j] \in owed')
        /\ Leave(j, "picking", active[j])
    BY <1>2, <1>15 DEF SyncFails, Interrupt, Continue
  <2>2. \A n \in Nodes, f \in Compiled : tree'[n][f] \in {tree[n][f], Torn}
    BY <1>1, <1>15, CutTree
  <2> QED BY <2>1, <2>2, LeaveStep
<1>16. ASSUME NEW j \in Jobs, Validate(j) PROVE Goal
  <2>1. /\ cur[j] \in Nodes /\ changed[j] /\ phase[j] = "validating"
        /\ UNCHANGED nodeVars
    BY <1>2, <1>4, <1>16 DEF Validate
  <2>2. CASE GoOn(j, "building") /\ UNCHANGED <<visitVars, owed>>
    <3>1. cur[j] # NoNode /\ UNCHANGED <<tree, built, changed, seen, owed>>
      BY <1>1, <2>1, <2>2 DEF TypeOK, nodeVars, visitVars
    <3> QED BY <2>1, <2>2, <3>1, GoOnStep
  <2>3. CASE Continue(j) /\ Interrupt(j)
    <3>1. /\ UNCHANGED <<tree, built>> /\ owed \subseteq owed'
          /\ cur[j] \in owed' /\ Leave(j, "picking", active[j])
      BY <2>1, <2>3 DEF Interrupt, Continue, nodeVars
    <3> QED BY <2>1, <3>1, LeaveStep
  <2> QED BY <1>16, <2>2, <2>3 DEF Validate
<1>17. ASSUME NEW j \in Jobs, ValidateFails(j) PROVE Goal
  <2>1. /\ cur[j] \in Nodes /\ UNCHANGED <<tree, built>>
        /\ owed \subseteq owed' /\ (changed[j] => cur[j] \in owed')
    BY <1>2, <1>17 DEF ValidateFails, Interrupt, nodeVars
  <2>2. PICK next \in {"idle", "picking"}, left \in {active[j], {}} :
            Leave(j, next, left)
    BY <1>17 DEF ValidateFails, Continue, Abort
  <2> QED BY <2>1, <2>2, LeaveStep
<1>18. ASSUME NEW j \in Jobs, BuildFails(j) PROVE Goal
  <2>1. /\ cur[j] \in Nodes /\ UNCHANGED tree
        /\ owed' = owed \cup {cur[j]} /\ Leave(j, "picking", active[j])
    BY <1>2, <1>4, <1>18 DEF BuildFails, Interrupt, Continue
  <2>2. \A n \in Nodes : built'[n] = built[n] \/ n = cur[j]
    BY <1>1, <1>18 DEF BuildFails, TypeOK
  <2> QED BY <2>1, <2>2, LeaveStep
<1> QED
  <2>1. Goal
    BY <1>5, <1>6, <1>7, <1>8, <1>9, <1>10, <1>11, <1>12, <1>13, <1>14, <1>15,
       <1>16, <1>17, <1>18 DEF Next, JobStep, Failure
  <2> QED BY <1>1, <2>1 DEF IInv

-----------------------------------------------------------------------------
(* Theorems *)

(* The inductive invariant. *)
THEOREM Invariant == Spec => []IInv
<1>1. Init => IInv
  BY InvInit
<1>2. IInv /\ [Next]_vars => IInv'
  BY InvStep
<1> QED BY <1>1, <1>2, PTL DEF Spec

(* main works on a node exactly between PickNode and the end of the visit. *)
THEOREM SyncTypes == Spec => []TypeOK
<1>1. IInv => TypeOK
  BY DEF IInv
<1> QED BY <1>1, Invariant, PTL

(* A node that is not owed a build runs that of its tree, or a run that will
   build it is still there: however many runs overlap, and whatever fails. *)
THEOREM BuildsCurrent == Spec => []BuildMatchesTree
<1>1. IInv => BuildMatchesTree
  BY DEF IInv, Matches, Differs, BuildMatchesTree
<1> QED BY <1>1, Invariant, PTL

(* A step that leaves the tree of a node alone, and a visit there where it is,
   keeps what the visit has checked. *)
LEMMA CheckedKept ==
    ASSUME NEW j \in Jobs, j \notin met,
           phase[j] \in {"building", "compiling"} => Valid(tree[cur[j]]),
           phase[j] = "compiling" => seen[j] = Sources(tree[cur[j]]),
           phase'[j] = phase[j], cur'[j] = cur[j], seen'[j] = seen[j],
           phase[j] \in {"building", "compiling"} => tree'[cur[j]] = tree[cur[j]]
    PROVE  /\ phase'[j] \in {"building", "compiling"} => Valid(tree'[cur'[j]])
           /\ phase'[j] = "compiling" => seen'[j] = Sources(tree'[cur'[j]])
OBVIOUS

(* The steps of a run itself: it builds what it has just checked, and reads
   what it builds. *)
LEMMA CheckedByRun ==
    ASSUME IInv, BuildsWhatWasChecked, NEW j \in Jobs,
           JobStep(j) \/ Failure(j), j \notin met'
    PROVE  /\ phase'[j] \in {"building", "compiling"} => Valid(tree'[cur'[j]])
           /\ phase'[j] = "compiling" => seen'[j] = Sources(tree'[cur'[j]])
<1> USE DEF IInv, TypeOK
<1>1. CASE Validate(j)
  <2>1. CASE Valid(tree[cur[j]]) /\ GoOn(j, "building")
    BY <1>1, <2>1 DEF Validate, GoOn, nodeVars
  <2>2. CASE Continue(j)
    BY <2>2 DEF Continue, Leave
  <2> QED BY <1>1, <2>1, <2>2 DEF Validate
<1>2. CASE StartBuild(j)
  <2>1. Valid(tree[cur[j]]) /\ j \notin met
    BY <1>2 DEF StartBuild, GoOn, BuildsWhatWasChecked
  <2> QED BY <1>2, <2>1 DEF StartBuild, GoOn
<1>3. CASE \/ StartJob(j) \/ EndJob(j) \/ Prepare(j) \/ EndSync(j)
           \/ \E n \in Nodes : PickNode(j, n)
           \/ \E f \in Files : SendFile(j, f)
  BY <1>3 DEF StartJob, EndJob, Prepare, EndSync, PickNode, SendFile, Compare,
              GoOn, Continue, Leave
<1>4. CASE EndBuild(j) \/ Failure(j)
  <2>1. PICK next \in {"idle", "picking"} : phase' = [phase EXCEPT ![j] = next]
    BY <1>4 DEF EndBuild, Failure, PrepareFails, SyncFails, ValidateFails,
                BuildFails, Continue, Abort, Leave
  <2> QED BY <2>1
<1> QED BY <1>1, <1>2, <1>3, <1>4 DEF JobStep

(* A run leaves the visits of the others alone. *)
LEMMA OthersStay ==
    ASSUME TypeOK, NEW k \in Jobs, JobStep(k) \/ Failure(k), NEW j \in Jobs \ {k}
    PROVE  /\ phase'[j] = phase[j] /\ cur'[j] = cur[j]
           /\ unsent'[j] = unsent[j] /\ changed'[j] = changed[j]
           /\ seen'[j] = seen[j] /\ (j \in met => j \in met')
<1> USE DEF TypeOK, GoOn, Continue, Abort, Leave, visitVars
<1>1. CASE StartJob(k) \/ EndJob(k) \/ \E n \in Nodes : PickNode(k, n)
  BY <1>1 DEF StartJob, EndJob, PickNode
<1>2. CASE Prepare(k) \/ EndSync(k) \/ \E f \in Files : SendFile(k, f)
  BY <1>2 DEF Prepare, EndSync, SendFile, Compare
<1>3. CASE Validate(k) \/ StartBuild(k) \/ EndBuild(k)
  BY <1>3 DEF Validate, StartBuild, EndBuild
<1>4. CASE Failure(k)
  BY <1>4 DEF Failure, PrepareFails, SyncFails, ValidateFails, BuildFails
<1> QED BY <1>1, <1>2, <1>3, <1>4 DEF JobStep

(* The steps of another run: one that sends files to the node has come upon
   this one. *)
LEMMA CheckedByOthers ==
    ASSUME IInv, BuildsWhatWasChecked, NEW j \in Jobs, NEW k \in Jobs \ {j},
           JobStep(k) \/ Failure(k), j \notin met'
    PROVE  /\ phase'[j] \in {"building", "compiling"} => Valid(tree'[cur'[j]])
           /\ phase'[j] = "compiling" => seen'[j] = Sources(tree'[cur'[j]])
<1>1. /\ phase'[j] = phase[j] /\ cur'[j] = cur[j] /\ seen'[j] = seen[j]
      /\ j \notin met
  BY OthersStay DEF IInv
<1>2. ASSUME phase[j] \in {"building", "compiling"}
      PROVE  tree'[cur[j]] = tree[cur[j]]
  <2>1. cur[j] # NoNode
    BY <1>2 DEF IInv, TypeOK
  <2>2. CASE SyncFails(k) \/ \E f \in Files : SendFile(k, f)
    <3>1. cur[k] # cur[j]
      BY <1>1, <2>1 DEF IInv, Meeting
    <3>2. cur[j] \in Nodes /\ TypeOK
      BY <2>1 DEF IInv, TypeOK
    <3>3. CASE SyncFails(k)
      BY <3>1, <3>2, <3>3, CutTree
    <3>4. ASSUME NEW f \in Files, SendFile(k, f) PROVE tree'[cur[j]] = tree[cur[j]]
      <4>1. /\ cur[k] \in Nodes /\ source[f] \in Nat
            /\ tree' = [tree EXCEPT ![cur[k]][f] = source[f]]
        BY <3>2, <3>4, SendTree
      <4> QED BY <3>1, <3>2, <4>1, FileSet
    <3> QED BY <2>2, <3>3, <3>4
  <2>3. CASE ~SyncFails(k) /\ ~\E f \in Files : SendFile(k, f)
    BY <2>3 DEF JobStep, Failure, StartJob, EndJob, PickNode, Prepare, EndSync,
                Validate, StartBuild, EndBuild, PrepareFails,
                ValidateFails, BuildFails, nodeVars
  <2> QED BY <2>2, <2>3
<1> QED BY <1>1, <1>2, CheckedKept DEF BuildsWhatWasChecked

(* What was checked is what is built, on every node and in every run that no
   other came upon. *)
THEOREM BuildsChecked == Spec => []BuildsWhatWasChecked
<1>1. Init => BuildsWhatWasChecked
  BY DEF Init, BuildsWhatWasChecked
<1>2. IInv /\ BuildsWhatWasChecked /\ [Next]_vars => BuildsWhatWasChecked'
  <2> SUFFICES ASSUME IInv, BuildsWhatWasChecked, [Next]_vars,
                      NEW j \in Jobs, j \notin met'
               PROVE  /\ phase'[j] \in {"building", "compiling"} =>
                             Valid(tree'[cur'[j]])
                      /\ phase'[j] = "compiling" =>
                             seen'[j] = Sources(tree'[cur'[j]])
    BY DEF BuildsWhatWasChecked, Valid
  <2>1. CASE \E k \in Jobs : JobStep(k) \/ Failure(k)
    BY <2>1, CheckedByRun, CheckedByOthers
  <2>2. CASE \E f \in Files : Change(f) \/ Touch(f)
    BY <2>2 DEF Change, Touch, jobVars, visitVars, BuildsWhatWasChecked
  <2>3. CASE UNCHANGED vars
    BY <2>3 DEF vars, nodeVars, jobVars, visitVars, BuildsWhatWasChecked
  <2> QED BY <2>1, <2>2, <2>3, SyncAssumption DEF Next
<1> QED BY <1>1, <1>2, Invariant, PTL DEF Spec

-----------------------------------------------------------------------------
(* What a visit brings *)

(* A run that validates or builds has compared all files. *)
Compared ==
    \A j \in Jobs :
        phase[j] \in {"validating", "building", "compiling"} => unsent[j] = {}

(* Who leaves a node has neither files to send nor changes any more. *)
LEMMA LeftClean ==
    ASSUME TypeOK, NEW j \in Jobs, NEW next, NEW left, Leave(j, next, left)
    PROVE  /\ phase'[j] = next /\ cur'[j] = NoNode
           /\ unsent'[j] = {} /\ changed'[j] = FALSE
BY DEF Leave, TypeOK

LEMMA ComparedStep == TypeOK /\ Compared /\ [Next]_vars => Compared'
<1> SUFFICES ASSUME TypeOK, Compared, [Next]_vars, NEW j \in Jobs,
                    phase'[j] \in {"validating", "building", "compiling"}
             PROVE  unsent'[j] = {}
  BY DEF Compared
<1>1. ASSUME NEW k \in Jobs, JobStep(k) \/ Failure(k), k # j PROVE unsent'[j] = {}
  BY <1>1, OthersStay DEF Compared
<1>2. ASSUME JobStep(j) \/ Failure(j) PROVE unsent'[j] = {}
  <2>1. CASE \E next \in {"idle", "picking"}, left \in {active[j], {}} :
                 Leave(j, next, left)
    BY <2>1, LeftClean
  <2>2. CASE \/ StartJob(j) \/ EndJob(j) \/ Prepare(j)
             \/ \E n \in Nodes : PickNode(j, n)
             \/ \E f \in Files : SendFile(j, f)
    BY <2>2 DEF StartJob, EndJob, Prepare, PickNode, SendFile, Compare, GoOn, TypeOK
  <2>3. CASE EndSync(j) \/ Validate(j) \/ StartBuild(j)
    <3>1. CASE Continue(j)
      BY <2>1, <3>1 DEF Continue
    <3>2. CASE ~Continue(j)
      <4>1. unsent'[j] = unsent[j]
        BY <2>3, <3>2 DEF EndSync, Validate, StartBuild, visitVars
      <4>2. phase[j] \in {"validating", "building"} \/ unsent[j] = {}
        BY <2>3 DEF EndSync, Validate, StartBuild
      <4> QED BY <4>1, <4>2 DEF Compared
    <3> QED BY <3>1, <3>2
  <2>4. CASE EndBuild(j) \/ Failure(j)
    BY <2>1, <2>4 DEF EndBuild, Failure, PrepareFails, SyncFails, ValidateFails,
                      BuildFails, Continue, Abort
  <2> QED BY <1>2, <2>2, <2>3, <2>4 DEF JobStep
<1>3. CASE UNCHANGED vars \/ \E f \in Files : Change(f) \/ Touch(f)
  BY <1>3 DEF vars, jobVars, visitVars, Change, Touch, Compared
<1> QED BY <1>1, <1>2, <1>3, SyncAssumption DEF Next

(* A file of a node is as it was, or as on the source node, or cut off, and cut
   off is only one that differed, *)
LEMMA TreeStep ==
    ASSUME TypeOK, [Next]_vars, NEW n \in Nodes, NEW f \in Files,
           tree'[n][f] \notin {tree[n][f], source[f]}
    PROVE  tree[n][f] # source[f] \/ f \in touched[n]
<1>1. ~\E j \in Jobs, g \in Files : SendFile(j, g)
  <2> SUFFICES ASSUME NEW j \in Jobs, NEW g \in Files, SendFile(j, g) PROVE FALSE
    OBVIOUS
  <2>1. /\ cur[j] \in Nodes /\ source[g] \in Nat
        /\ tree' = [tree EXCEPT ![cur[j]][g] = source[g]]
    BY SendTree
  <2>2. /\ tree'[cur[j]][g] = source[g]
        /\ \A m \in Nodes \ {cur[j]} : tree'[m] = tree[m]
        /\ \A h \in Files \ {g} : tree'[cur[j]][h] = tree[cur[j]][h]
    BY <2>1, FileSet
  <2> QED BY <2>1, <2>2
<1>2. tree' # tree
  OBVIOUS
<1>3. PICK j \in Jobs : SyncFails(j)
  BY <1>1, <1>2
     DEF Next, JobStep, Failure, StartJob, EndJob, PickNode, Prepare, EndSync,
         Validate, StartBuild, EndBuild, PrepareFails, ValidateFails,
         BuildFails, Change, Touch, vars, nodeVars
<1> QED BY <1>3, CutTree

(* and while nobody touches files, nothing but a transfer concerns times. *)
LEMMA TouchedStep ==
    ASSUME TypeOK, [Next]_vars, changes' = changes
    PROVE  source' = source /\ \A n \in Nodes : touched'[n] \subseteq touched[n]
<1>1. CASE \E j \in Jobs, g \in Files : SendFile(j, g)
  BY <1>1 DEF SendFile, Compare, TypeOK
<1>2. CASE ~\E j \in Jobs, g \in Files : SendFile(j, g)
  <2>1. ~\E f \in Files : Change(f)
    BY DEF Change, TypeOK
  <2>2. ~\E f \in Touches : Touch(f)
    BY DEF Touch, TypeOK
  <2>3. UNCHANGED <<source, touched>>
    BY <1>2, <2>1, <2>2
       DEF Next, JobStep, Failure, StartJob, EndJob, PickNode, Prepare, EndSync,
           Validate, StartBuild, EndBuild, PrepareFails, SyncFails, ValidateFails,
           BuildFails, vars, nodeVars
  <2> QED BY <2>3
<1> QED BY <1>1, <1>2

(* A run takes a file off its list by making it the same. *)
LEMMA UnsentStep ==
    ASSUME TypeOK, [Next]_vars, NEW j \in Jobs, cur[j] # NoNode, cur'[j] = cur[j],
           NEW f \in unsent[j] \ unsent'[j]
    PROVE  tree'[cur[j]][f] = source[f] /\ f \notin touched'[cur[j]]
<1>1. cur[j] \in Nodes /\ f \in Files
  BY DEF TypeOK
<1>2. unsent'[j] # unsent[j]
  OBVIOUS
<1>3. JobStep(j) \/ Failure(j)
  BY <1>2, OthersStay DEF Next, Change, Touch, vars, jobVars, visitVars
<1>4. ~\E next \in {"idle", "picking"}, left \in {active[j], {}} : Leave(j, next, left)
  BY LeftClean
<1>5. CASE \E g \in Files : SendFile(j, g)
  BY <1>1, <1>5 DEF SendFile, Compare, TypeOK
<1>6. CASE Prepare(j)
  BY <1>1, <1>6 DEF Prepare, TypeOK
<1>7. CASE ~Prepare(j) /\ ~\E g \in Files : SendFile(j, g)
  <2>1. unsent' = unsent
    BY <1>3, <1>4, <1>7
       DEF JobStep, Failure, StartJob, EndJob, PickNode, EndSync, Validate, StartBuild,
           EndBuild, PrepareFails, SyncFails, ValidateFails, BuildFails, Continue, Abort,
           visitVars
  <2> QED BY <1>2, <2>1
<1> QED BY <1>5, <1>6, <1>7

LEMMA Fresh ==
    ASSUME TypeOK, [Next]_vars, changes' = changes, NEW j \in Jobs
    PROVE  StaysFresh(j)
<1> SUFFICES ASSUME cur[j] # NoNode, cur'[j] = cur[j], NEW f \in Files \ unsent'[j],
                    tree'[cur[j]][f] # source'[f] \/ f \in touched'[cur[j]]
             PROVE  /\ f \notin unsent[j]
                    /\ tree[cur[j]][f] # source[f] \/ f \in touched[cur[j]]
  BY DEF StaysFresh, Outdated, Differing
<1>1. cur[j] \in Nodes
  BY DEF TypeOK
<1>2. source' = source /\ touched'[cur[j]] \subseteq touched[cur[j]]
  BY <1>1, TouchedStep
<1> QED BY <1>1, <1>2, TreeStep, UnsentStep

(* A tree without a file that differs is that of the source node. *)
LEMMA SameTree ==
    ASSUME TypeOK, NEW n \in Nodes, \A f \in Files : tree[n][f] = source[f]
    PROVE  tree[n] = source
BY DEF TypeOK

(* A visit that ends undisturbed brings the node up to date. *)
LEMMA Delivered ==
    ASSUME IInv, BuildsWhatWasChecked, Compared, [Next]_vars, changes' = changes,
           NEW j \in Jobs, NEW n \in Nodes
    PROVE  Delivers(j, n)
<1> SUFFICES ASSUME cur[j] = n, n \notin owed, j \notin met, failures' = failures,
                    Outdated(j) = {}, Valid(source), cur'[j] # n
             PROVE  /\ tree'[n] = source /\ touched'[n] = {}
                    /\ built'[n] = Sources(source)
  <2>1. source' = source
    BY TouchedStep DEF IInv
  <2> QED BY <2>1 DEF Delivers, Undisturbed, UpToDate, Sources
<1>1. TypeOK /\ failures \in Nat /\ n # NoNode
  BY SyncAssumption DEF IInv, TypeOK
<1>2. JobStep(j)
  <2>1. ~Failure(j)
    BY <1>1 DEF Failure, PrepareFails, SyncFails, ValidateFails, BuildFails, Fail
  <2> QED BY <1>1, <2>1, OthersStay DEF Next, Change, Touch, vars, jobVars
<1>3. \/ EndSync(j) /\ ~changed[j]
      \/ Validate(j) /\ ~Valid(tree[n])
      \/ EndBuild(j)
  BY <1>1, <1>2 DEF JobStep, StartJob, EndJob, PickNode, Prepare, SendFile, Compare,
     EndSync, Validate, StartBuild, GoOn, TypeOK
<1>4. unsent[j] = {} /\ tree' = tree /\ touched' = touched
  BY <1>3 DEF EndSync, Validate, EndBuild, Compared, nodeVars
<1>5. tree[n] = source /\ touched[n] = {}
  <2>1. \A f \in Files : tree[n][f] = source[f] /\ f \notin touched[n]
    BY <1>4 DEF Outdated, Differing
  <2> QED BY <1>1, <2>1, SameTree DEF TypeOK
<1>6. CASE EndSync(j) /\ ~changed[j]
  <2>1. built' = built /\ phase[j] = "syncing"
    BY <1>6 DEF EndSync, nodeVars
  <2>2. \A k \in Jobs : cur[k] = n => k = j
    BY <1>1 DEF IInv, Meeting
  <2>3. ~Differs(n)
    BY <1>6, <2>2 DEF IInv, Matches, InCharge
  <2>4. \A f \in Compiled : tree[n][f] = built[n][f]
    <3>1. \A f \in Compiled : tree[n][f] # Torn
      BY <1>1, <1>5, SyncAssumption DEF TypeOK, Torn
    <3> QED BY <2>3, <3>1 DEF Differs
  <2>5. Sources(tree[n]) = built[n]
    BY <1>1, <2>4, DiffersByFile DEF TypeOK
  <2> QED BY <1>4, <1>5, <2>1, <2>5
<1>7. CASE Validate(j) /\ ~Valid(tree[n])
  BY <1>5, <1>7
<1>8. CASE EndBuild(j)
  <2>1. PICK b \in Results(j) : built' = [built EXCEPT ![n] = b]
    BY <1>8 DEF EndBuild
  <2>2. phase[j] = "compiling" /\ built[n] = NoBuild /\ seen[j] = Sources(tree[n])
    BY <1>8 DEF EndBuild, IInv, Compiling, BuildsWhatWasChecked
  <2>3. b \in [Compiled -> Nat] /\ built'[n] = b
    BY <1>1, <2>1, ResultTypes DEF TypeOK
  <2>4. \A f \in Compiled : NoBuild[f] = 0 /\ seen[j][f] = tree[n][f]
    <3>1. \A f \in Compiled : NoBuild[f] = 0
      BY SyncAssumption DEF NoBuild, Sources, Absent
    <3>2. \A f \in Compiled : Sources(tree[n])[f] = tree[n][f]
      BY DEF Sources
    <3> QED BY <2>2, <3>1, <3>2
  <2>5. \A f \in Compiled : tree[n][f] = b[f]
    BY <2>2, <2>4 DEF Results
  <2>6. Sources(tree[n]) = b
    BY <2>3, <2>5, DiffersByFile
  <2> QED BY <1>4, <1>5, <2>3, <2>6
<1> QED BY <1>3, <1>6, <1>7, <1>8

(* A node at rest stays at rest. *)
LEMMA RestKept ==
    ASSUME IInv, [Next]_vars, changes' = changes, NEW n \in Nodes, AtRest(n)
    PROVE  AtRest(n)'
<1>1. /\ TypeOK /\ tree[n] = source /\ touched[n] = {}
      /\ built[n] = Sources(source) /\ n # NoNode
      /\ \A j \in Jobs : cur[j] = n => ~changed[j]
  BY SyncAssumption DEF IInv, AtRest, UpToDate, At
<1>2. source' = source /\ touched'[n] = {}
  BY <1>1, TouchedStep
<1>3. tree'[n] = source
  <2>1. \A f \in Files : tree'[n][f] = source[f]
    BY <1>1, TreeStep
  <2>2. TypeOK'
    BY <1>1, TypeStep
  <2> QED BY <1>1, <2>1, <2>2 DEF TypeOK
<1>4. ASSUME NEW j \in Jobs, phase[j] \in {"building", "compiling"} PROVE cur[j] # n
  BY <1>1, <1>4 DEF IInv, Committed
<1>5. built'[n] = built[n]
  <2>1. CASE \E j \in Jobs : StartBuild(j) \/ EndBuild(j) \/ BuildFails(j)
    BY <1>1, <1>4, <2>1 DEF StartBuild, EndBuild, BuildFails, TypeOK
  <2>2. CASE ~\E j \in Jobs : StartBuild(j) \/ EndBuild(j) \/ BuildFails(j)
    BY <2>2 DEF Next, JobStep, Failure, StartJob, EndJob, PickNode, Prepare, SendFile,
                Compare, EndSync, Validate, PrepareFails, SyncFails, ValidateFails,
                Change, Touch, vars, nodeVars
  <2> QED BY <2>1, <2>2
<1>6. ASSUME NEW j \in Jobs, cur'[j] = n PROVE ~changed'[j]
  <2>1. CASE UNCHANGED vars \/ \E f \in Files : Change(f) \/ Touch(f)
    BY <1>1, <1>6, <2>1 DEF vars, jobVars, visitVars, Change, Touch
  <2>2. CASE \E k \in Jobs \ {j} : JobStep(k) \/ Failure(k)
    BY <1>1, <1>6, <2>2, OthersStay
  <2>3. CASE JobStep(j) \/ Failure(j)
    <3>1. ~\E next \in {"idle", "picking"}, left \in {active[j], {}} : Leave(j, next, left)
      BY <1>1, <1>6, LeftClean
    <3>2. CASE \E m \in Nodes : PickNode(j, m)
      BY <3>2 DEF PickNode, visitVars, IInv, Committed
    <3>3. CASE \E f \in Files : SendFile(j, f)
      BY <1>1, <1>6, <3>3 DEF SendFile, Compare, Differing, TypeOK
    <3>4. CASE ~(\E m \in Nodes : PickNode(j, m)) /\ ~\E f \in Files : SendFile(j, f)
      <4>1. cur' = cur /\ changed' = changed
        BY <2>3, <3>1, <3>4
           DEF JobStep, Failure, StartJob, EndJob, Prepare, EndSync, Validate, StartBuild,
               EndBuild, PrepareFails, SyncFails, ValidateFails, BuildFails, GoOn,
               Continue, Abort, visitVars
      <4> QED BY <1>1, <1>6, <4>1
    <3> QED BY <3>2, <3>3, <3>4
  <2> QED BY <2>1, <2>2, <2>3, SyncAssumption DEF Next
<1> QED BY <1>1, <1>3, <1>5, <1>6, <1>2 DEF AtRest, UpToDate, At, Sources

(* While nobody edits, visits bring nodes up to date, whatever other runs do
   and however often some fail, and no run takes that back. *)
THEOREM VisitsDeliver == Spec => VisitsBringUpToDate
<1> DEFINE A == changes' = changes =>
                   /\ \A j \in Jobs : StaysFresh(j) /\ \A n \in Nodes : Delivers(j, n)
                   /\ \A n \in Nodes : AtRest(n) => AtRest(n)'
<1>1. Init => Compared
  BY DEF Init, Compared
<1>2. Spec => []Compared
  <2>1. IInv => TypeOK
    BY DEF IInv
  <2> QED BY <1>1, <2>1, ComparedStep, Invariant, PTL DEF Spec
<1>3. IInv /\ BuildsWhatWasChecked /\ Compared /\ [Next]_vars => [A]_vars
  BY Fresh, Delivered, RestKept DEF IInv
<1> QED BY <1>2, <1>3, Invariant, BuildsChecked, PTL DEF Spec, VisitsBringUpToDate
=============================================================================

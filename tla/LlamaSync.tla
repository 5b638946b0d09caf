------------------------------ MODULE LlamaSync ------------------------------
(***************************************************************************)
(* cron/llama_cpp_sync.py: the periodic job that copies the llama.cpp      *)
(* sources of the source node to every reachable node and rebuilds there   *)
(* what has changed.  A run is sequential, but cron may start one while    *)
(* another is still at work; what a run does over ssh and rsync may fail   *)
(* at any point, and the sources may change under it.                      *)
(***************************************************************************)
EXTENDS Integers, FiniteSets

CONSTANTS Nodes,       \* places in the list ALL_NODE_IPS
          Files,       \* files of the tree that rsync does not exclude
          Compiled,    \* those a build reads
          Matched,     \* those whose path a changed_extensions entry occurs in
          Touches,     \* files whose time or mode alone may change
          Required,    \* those validate_required_files looks for
          Jobs,        \* bound: runs that may be under way at once
          NoNode,
          MaxChanges,  \* bound: edits and touches of the source node's files
          MaxFailures  \* bound: probes and commands that fail

ASSUME SyncAssumption ==
    /\ Nodes \subseteq Nat /\ IsFiniteSet(Nodes) /\ NoNode \notin Nodes
    /\ Compiled \subseteq Matched /\ Matched \subseteq Files
    /\ Required \subseteq Files /\ Touches \subseteq Files
    /\ MaxChanges \in Nat /\ MaxFailures \in Nat

VARIABLES source,   \* version of each file on the source node, 0 if absent
          tree,     \* the same on each node, Torn if the transfer was cut off
          touched,  \* files whose time or mode differs from the source node's
          built,    \* versions of the compiled files in a node's build
          phase,    \* what main is doing, per run
          cur,      \* the node it is doing it on
          active,   \* the reachable nodes it has still to visit
          unsent,   \* files its rsync has not compared yet
          changed,  \* its source_changed
          seen,     \* the sources its compiler may have read by now
          owed,     \* history: nodes left without the build they need
          met,      \* history: runs that met another on the node they visit
          changes, failures

nodeVars == <<source, tree, touched, built>>
visitVars == <<unsent, changed, seen>>
jobVars == <<phase, cur, active, visitVars>>
bounds == <<changes, failures>>
vars == <<nodeVars, jobVars, owed, met, bounds>>

Torn == MaxChanges + 2
Absent == [f \in Files |-> 0]
Sources(t) == [f \in Compiled |-> t[f]]
NoBuild == Sources(Absent)

Init ==
    /\ source = [f \in Files |-> 1]
    /\ tree = [n \in Nodes |-> Absent]
    /\ touched = [n \in Nodes |-> {}]
    /\ built = [n \in Nodes |-> NoBuild]
    /\ phase = [j \in Jobs |-> "idle"]
    /\ cur = [j \in Jobs |-> NoNode]
    /\ active = [j \in Jobs |-> {}]
    /\ unsent = [j \in Jobs |-> {}]
    /\ changed = [j \in Jobs |-> FALSE]
    /\ seen = [j \in Jobs |-> NoBuild]
    /\ owed = {} /\ met = {}
    /\ changes = 0 /\ failures = 0

\* Someone edits, adds or deletes a file on the source node.
Change(f) ==
    /\ changes < MaxChanges
    /\ changes' = changes + 1
    /\ \E v \in {0, changes + 2} : source' = [source EXCEPT ![f] = v]
    /\ UNCHANGED <<tree, touched, built, jobVars, owed, met, failures>>

\* Someone checks it out again or changes its mode.
Touch(f) ==
    /\ source[f] # 0 /\ changes < MaxChanges
    /\ changes' = changes + 1
    /\ touched' = [n \in Nodes |-> touched[n] \cup {f}]
    /\ UNCHANGED <<source, tree, built, jobVars, owed, met, failures>>

Fail == failures < MaxFailures /\ failures' = failures + 1 /\ UNCHANGED changes

-----------------------------------------------------------------------------
(* The job and its visits *)

\* Cron starts a run, which probes all nodes first; a reachable node that is
\* missed counts as a failure.  Without active nodes main returns.
StartJob(j) ==
    /\ phase[j] = "idle"
    /\ \E reached \in SUBSET Nodes :
          /\ failures + Cardinality(Nodes \ reached) <= MaxFailures
          /\ failures' = failures + Cardinality(Nodes \ reached)
          /\ active' = [active EXCEPT ![j] = reached]
          /\ phase' = [phase EXCEPT
                          ![j] = IF reached = {} THEN "idle" ELSE "picking"]
    /\ UNCHANGED <<nodeVars, cur, visitVars, owed, met, changes>>

At(n) == {j \in Jobs : cur[j] = n}

\* The nodes are visited in the order of the list; nothing looks whether
\* another run is there.
PickNode(j, n) ==
    /\ phase[j] = "picking" /\ n \in active[j]
    /\ \A m \in active[j] : n <= m
    /\ cur' = [cur EXCEPT ![j] = n]
    /\ active' = [active EXCEPT ![j] = @ \ {n}]
    /\ phase' = [phase EXCEPT ![j] = "preparing"]
    /\ met' = IF At(n) = {} THEN met ELSE met \cup At(n) \cup {j}
    /\ UNCHANGED <<nodeVars, visitVars, owed, bounds>>

EndJob(j) ==
    /\ phase[j] = "picking" /\ active[j] = {}
    /\ phase' = [phase EXCEPT ![j] = "idle"]
    /\ UNCHANGED <<nodeVars, cur, active, visitVars, owed, met, bounds>>

\* The visit is over, its local variables are gone.
Leave(j, next, left) ==
    /\ phase' = [phase EXCEPT ![j] = next]
    /\ cur' = [cur EXCEPT ![j] = NoNode]
    /\ active' = [active EXCEPT ![j] = left]
    /\ unsent' = [unsent EXCEPT ![j] = {}]
    /\ changed' = [changed EXCEPT ![j] = FALSE]
    /\ seen' = [seen EXCEPT ![j] = NoBuild]
    /\ met' = met \ {j}

\* main goes on with the next node.
Continue(j) == Leave(j, "picking", active[j])

\* Faulty variant: the remaining nodes are kept.
AbortHolding(j) == Leave(j, "idle", active[j])

\* A TimeoutExpired nobody catches: the remaining nodes are not visited.
Abort(j) == Leave(j, "idle", {})

GoOn(j, next) ==
    /\ phase' = [phase EXCEPT ![j] = next]
    /\ UNCHANGED <<cur, active, met>>

\* The visit stops before a build: if compiled sources have already reached
\* the node, no later run will notice.
Interrupt(j) == owed' = IF changed[j] THEN owed \cup {cur[j]} ELSE owed

-----------------------------------------------------------------------------
(* ensure_dependencies and ensure_remote_repo_structure *)

Prepare(j) ==
    /\ phase[j] = "preparing"
    /\ GoOn(j, "syncing")
    /\ unsent' = [unsent EXCEPT ![j] = Files]
    /\ UNCHANGED <<nodeVars, changed, seen, owed, bounds>>

PrepareFails(j) ==
    /\ phase[j] = "preparing" /\ Fail
    /\ Continue(j) \/ Abort(j)
    /\ UNCHANGED <<nodeVars, owed>>

-----------------------------------------------------------------------------
(* rsync_llama_cpp *)

\* -a compares times and modes too, and itemizes a file that differs in them.
Differing(j, f) == tree[cur[j]][f] # source[f] \/ f \in touched[cur[j]]

Compare(j, f, verdict) ==
    /\ phase[j] = "syncing" /\ f \in unsent[j]
    /\ unsent' = [unsent EXCEPT ![j] = @ \ {f}]
    /\ changed' = [changed EXCEPT ![j] = verdict]
    /\ tree' = [tree EXCEPT ![cur[j]][f] = source[f]]
    /\ touched' = [touched EXCEPT ![cur[j]] = @ \ {f}]
    /\ UNCHANGED <<source, built, phase, cur, active, seen, owed, met, bounds>>

\* Faulty variant: the last file decides.
SendFileLastDecides(j, f) == Compare(j, f, f \in Matched /\ Differing(j, f))

\* One file is compared and, if it differs, sent or deleted; its line in the
\* itemized output counts as a change if one of the extensions occurs in it.
SendFile(j, f) ==
    Compare(j, f, changed[j] \/ (f \in Matched /\ Differing(j, f)))

\* Faulty variant: nodes without a build are skipped.
EndSyncKnown(j) ==
    /\ phase[j] = "syncing" /\ unsent[j] = {}
    /\ IF changed[j] /\ built[cur[j]] # NoBuild
       THEN GoOn(j, "validating") /\ UNCHANGED visitVars
       ELSE Continue(j)
    /\ UNCHANGED <<nodeVars, owed, bounds>>

\* rsync ends well: skip the build or go on.
EndSync(j) ==
    /\ phase[j] = "syncing" /\ unsent[j] = {}
    /\ \/ changed[j] /\ GoOn(j, "validating") /\ UNCHANGED visitVars
       \/ ~changed[j] /\ Continue(j)
    /\ UNCHANGED <<nodeVars, owed, bounds>>

\* --partial keeps what has arrived of the file under way.
CutOff(j) ==
    \E f \in unsent[j] :
        /\ Differing(j, f) /\ source[f] # 0
        /\ tree' = [tree EXCEPT ![cur[j]][f] = Torn]

\* rsync fails or times out: (False, False), and what was sent stays sent.
SyncFails(j) ==
    /\ phase[j] = "syncing" /\ Fail
    /\ Interrupt(j)
    /\ UNCHANGED tree \/ CutOff(j)
    /\ Continue(j)
    /\ UNCHANGED <<source, touched, built>>

-----------------------------------------------------------------------------
(* validate_required_files *)

Valid(t) == \A f \in Required : t[f] # 0

\* Faulty variant: the files are not looked at.
ValidateBlindly(j) ==
    /\ phase[j] = "validating"
    /\ GoOn(j, "building")
    /\ UNCHANGED <<nodeVars, visitVars, owed, bounds>>

Validate(j) ==
    /\ phase[j] = "validating"
    /\ \/ /\ Valid(tree[cur[j]])
          /\ GoOn(j, "building") /\ UNCHANGED <<visitVars, owed>>
       \/ /\ ~Valid(tree[cur[j]])
          /\ Continue(j) /\ Interrupt(j)
    /\ UNCHANGED <<nodeVars, bounds>>

ValidateFails(j) ==
    /\ phase[j] = "validating" /\ Fail
    /\ Interrupt(j)
    /\ Continue(j) \/ Abort(j)
    /\ UNCHANGED nodeVars

-----------------------------------------------------------------------------
(* build_remote *)

Compilers(n) == {j \in At(n) : phase[j] = "compiling"}

\* rm -rf build, under the feet of whoever is building there.
StartBuild(j) ==
    /\ phase[j] = "building"
    /\ GoOn(j, "compiling")
    /\ built' = [built EXCEPT ![cur[j]] = NoBuild]
    /\ seen' = [seen EXCEPT ![j] = Sources(tree[cur[j]])]
    /\ owed' = IF Compilers(cur[j]) = {} THEN owed ELSE owed \cup {cur[j]}
    /\ UNCHANGED <<source, tree, touched, unsent, changed, bounds>>

\* A file was compiled as it was when the build began or as it is by now; what
\* another run has put into the directory may stay.
Results(j) ==
    {b \in [Compiled -> {seen[j][f] : f \in Compiled}
                          \cup {tree[cur[j]][f] : f \in Compiled}
                          \cup {built[cur[j]][f] : f \in Compiled}] :
        \A f \in Compiled :
            \/ b[f] \in {seen[j][f], tree[cur[j]][f]}
            \/ b[f] = built[cur[j]][f] /\ b[f] # 0}

EndBuild(j) ==
    /\ phase[j] = "compiling"
    /\ \E b \in Results(j) :
          /\ built' = [built EXCEPT ![cur[j]] = b]
          /\ owed' = IF Compilers(cur[j]) = {j} /\ b = Sources(tree[cur[j]])
                     THEN owed \ {cur[j]} ELSE owed
    /\ Continue(j)
    /\ UNCHANGED <<source, tree, touched, bounds>>

\* The command never ran, or failed after rm -rf build, or ends on the node
\* after the run has stopped waiting for it.
BuildFails(j) ==
    /\ phase[j] \in {"building", "compiling"} /\ Fail
    /\ Interrupt(j)
    /\ \/ UNCHANGED built
       \/ /\ phase[j] = "compiling"
          /\ \E b \in Results(j) : built' = [built EXCEPT ![cur[j]] = b]
    /\ Continue(j)
    /\ UNCHANGED <<source, tree, touched>>

-----------------------------------------------------------------------------
JobStep(j) ==
    \/ StartJob(j) \/ EndJob(j)
    \/ \E n \in Nodes : PickNode(j, n)
    \/ Prepare(j) \/ EndSync(j) \/ Validate(j) \/ StartBuild(j) \/ EndBuild(j)
    \/ \E f \in Files : SendFile(j, f)

Failure(j) ==
    PrepareFails(j) \/ SyncFails(j) \/ ValidateFails(j) \/ BuildFails(j)

Next ==
    \/ \E j \in Jobs : JobStep(j) \/ Failure(j)
    \/ \E f \in Files : Change(f)
    \/ \E f \in Touches : Touch(f)

Spec == Init /\ [][Next]_vars

\* Cron starts runs again and again, each is a process of its own, and each
\* command ends or times out; edits and failures need not happen.
FairSpec == Spec /\ \A j \in Jobs : WF_vars(JobStep(j))

-----------------------------------------------------------------------------
Phases == {"idle", "picking", "preparing", "syncing", "validating",
           "building", "compiling"}

(* Types; main works on a node exactly between PickNode and the visit's end,
   and has nodes left to visit only while it runs. *)
TypeOK ==
    /\ source \in [Files -> 0..(MaxChanges + 1)]
    /\ tree \in [Nodes -> [Files -> Nat]]
    /\ touched \in [Nodes -> SUBSET Files]
    /\ built \in [Nodes -> [Compiled -> Nat]]
    /\ phase \in [Jobs -> Phases] /\ cur \in [Jobs -> Nodes \cup {NoNode}]
    /\ active \in [Jobs -> SUBSET Nodes]
    /\ \A j \in Jobs :
          /\ cur[j] = NoNode <=> phase[j] \in {"idle", "picking"}
          /\ phase[j] = "idle" => active[j] = {}
    /\ unsent \in [Jobs -> SUBSET Files] /\ changed \in [Jobs -> BOOLEAN]
    /\ seen \in [Jobs -> [Compiled -> Nat]]
    /\ owed \subseteq Nodes /\ met \subseteq Jobs
    /\ changes \in 0..MaxChanges /\ failures \in 0..MaxFailures

(* What the change detection is for, also when runs overlap: unless a run
   stopped on a node after it had sent compiled sources and before it had
   built them, or two builds of the node overlapped, its build is that of its
   tree, or a run that knows of the difference is still on the node, or the
   file was cut off in its transfer, and the next rsync will send it again.
   That two runs send files to a node at once, or one while the other builds,
   does no harm. *)
InCharge(j, n) == cur[j] = n /\ changed[j]
BuildMatchesTree ==
    \A n \in Nodes \ owed : \A f \in Compiled :
        tree[n][f] \notin {built[n][f], Torn} => \E j \in Jobs : InCharge(j, n)

(* What validate_required_files has found is still so when the build uses it,
   however long the compiler takes and whatever happens to the source tree: a
   run no other came upon compiles one complete version of the tree. *)
BuildsWhatWasChecked ==
    \A j \in Jobs \ met :
        /\ phase[j] \in {"building", "compiling"} => Valid(tree[cur[j]])
        /\ phase[j] = "compiling" => seen[j] = Sources(tree[cur[j]])

(* Once edits stop, every node runs a build of the current sources or is one
   an interrupted run or overlapping builds left behind: nodes that were down
   for whole runs, runs that were aborted and edits made during a transfer
   are all caught up. *)
NodesCatchUp ==
    \A n \in Nodes : <>[](n \in owed \/ built[n] = Sources(source))

(* How runs bring a node up to date while nobody edits or touches files: what a
   run has compared becomes outdated by no step of it or of another run; a visit
   that is neither interrupted nor met by another run, and has nothing outdated
   when it ends, leaves the node with the current files and their build; and a
   node that has them, with no run there that would build, keeps them, whatever
   runs come, overlap and fail. *)
Outdated(j) == {f \in Files \ unsent[j] : Differing(j, f)}
UpToDate(n) ==
    tree[n] = source /\ touched[n] = {} /\ built[n] = Sources(source)
AtRest(n) == UpToDate(n) /\ \A j \in At(n) : ~changed[j]

StaysFresh(j) == cur[j] # NoNode /\ cur'[j] = cur[j]
                     => Outdated(j)' \subseteq Outdated(j)
Undisturbed(j, n) ==
    /\ cur[j] = n /\ n \notin owed /\ j \notin met /\ failures' = failures
    /\ Outdated(j) = {} /\ Valid(source)
Delivers(j, n) == Undisturbed(j, n) /\ cur'[j] # n => UpToDate(n)'
VisitsBringUpToDate ==
    [][changes' = changes =>
          /\ \A j \in Jobs : StaysFresh(j) /\ \A n \in Nodes : Delivers(j, n)
          /\ \A n \in Nodes : AtRest(n) => AtRest(n)']_vars

(* The docstring's "Detect source changes", "Build only when required": once
   edits stop with all required files there, every node gets their build.  A
   run that fails between rsync and the end of the build is not made up for:
   the next rsync finds nothing to send. *)
EveryNodeUpToDate ==
    \A n \in Nodes : <>[](Valid(source) => built[n] = Sources(source))
=============================================================================

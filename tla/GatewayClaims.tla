---------------------------- MODULE GatewayClaims ----------------------------
(***************************************************************************)
(* What comments and documents of the repository say of the pool and what  *)
(* its code does not keep, refuted by runs, and what it comes down to.     *)
(***************************************************************************)
EXTENDS Gateway

(* router.py:27-29, "The pool itself is full ... real demand exceeds real
   capacity": a request is turned away only while every node it could go to
   runs parallel requests.  A stream whose caller went away is counted in
   in_flight for ever, though nothing runs for it. *)
FullMeansDemand ==
    [][\A r \in Requests :
          pc[r] # "full" /\ pc'[r] = "full" =>
              \A n \in Relevant(excluded[r]) :
                  Cardinality(RunningAt(n)) >= Parallel]_vars

(* router.py:104-106, "Blocks (queued) if every node is currently at
   `parallel` capacity": nobody sleeps in the queue while a node it may be
   given has a free slot.  The monitor marks a node healthy, or the last
   healthy one down, without notifying the waiters. *)
QueuedOnlyAtCapacity == \A r \in parked : ~HasAlternate(excluded[r])

(* What the claim comes down to: it is broken by nothing but the monitor as it
   applies a round's answers.  Slots that are given back, evictions, waiters
   that find their node gone, cancellations and late comers all keep it. *)
BrokenByMonitorOnly ==
    [][QueuedOnlyAtCapacity /\ ~QueuedOnlyAtCapacity' => Apply]_vars
=============================================================================

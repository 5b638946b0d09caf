---------------------------- MODULE AccountsProofs ----------------------------
(***************************************************************************)
(* Proofs about users, keys and authentication, for any number of chats,   *)
(* creations, scripts and connections.                                     *)
(***************************************************************************)
EXTENDS Accounts, FiniteSetTheorems, TLAPS

-----------------------------------------------------------------------------
(* The inductive invariant *)

\* Where the code of each client can be.
Roles ==
    /\ \A c \in Chats : pc[c] \in {"new", "looking", "touching", "rereading",
                                   "serving", "logging", "served", "refused", "error"}
    /\ \A u \in Creators : pc[u] \in {"new", "inserting", "committing", "refreshing",
                                      "created", "conflict", "refused", "error"}
    /\ \A k \in Keyers : pc[k] \in {"new", "finding", "issuing", "answering",
                                    "issued", "missing", "refused", "error"}
    /\ \A b \in Bootstraps : pc[b] \in {"new", "probing", "inserting", "keying",
                                        "answering", "bootstrapped", "present", "error"}

\* Rows are in their table as far as their maker has come, an INSERT has been
\* checked against committed and uncommitted rows, and no key has an owner
\* that is not committed.
Committed == {"refreshing", "created", "answering", "bootstrapped"}
Rows ==
    /\ fresh = {m \in Makers : pc[m] \in {"committing", "keying"}}
    /\ \A m \in users : pc[m] \in Committed \cup {"error"}
    /\ \A m \in Makers : pc[m] \in Committed => m \in users
    /\ BootstrapWhole
Unique == \A m, n \in users \cup fresh : ~Clash(m, n)
Reported ==
    /\ \A m \in Makers : pc[m] = "conflict" => \E u \in users : Clash(u, m)
    /\ \A b \in Bootstraps : pc[b] = "present" => \E u \in users : name[u] = Admin
Owners ==
    /\ \A k \in KeyMakers : keys[k] \in users \cup {Nobody}
    /\ \A b \in Bootstraps : keys[b] \in {b, Nobody}
    /\ \A k \in Keyers :
          /\ keys[k] # Nobody => pc[k] \in {"answering", "issued", "error"}
          /\ pc[k] \in {"answering", "issued"} =>
                keys[k] \in users /\ name[keys[k]] = name[k]

\* What a chat request knows of its key stays true: nothing is turned on again.
Barred(c) == \/ uses[c] \in revoked
             \/ uses[c] \in KeyMakers /\ keys[uses[c]] \in off
Judged ==
    /\ \A c \in barred : Barred(c)
    /\ \A c \in good : uses[c] \in KeyMakers /\ keys[uses[c]] \in users
    /\ \A c \in good : pc[c] = "refused" => Barred(c)
    /\ \A c \in Chats : pc[c] = "touching" => uses[c] \in KeyMakers /\ c \notin barred
    /\ \A c \in Accepted : uses[c] \in used /\ c \notin barred

Inv == TypeOK /\ Roles /\ Rows /\ Unique /\ Reported /\ Owners /\ Judged

-----------------------------------------------------------------------------
(* The pool *)

(* Giving connections back leaves the pool within its limit. *)
LEMMA FewerHeld ==
    ASSUME TypeOK, NEW S \in SUBSET conn PROVE Cardinality(S \ Scripts) <= Capacity
<1>1. IsFiniteSet(conn \ Scripts)
  BY FS_Subset, AccountsAssumption DEF TypeOK
<1>2. Cardinality(S \ Scripts) <= Cardinality(conn \ Scripts)
  BY <1>1, FS_Subset
<1>3. /\ Cardinality(S \ Scripts) \in Nat /\ Cardinality(conn \ Scripts) \in Nat
      /\ Capacity \in Nat
  BY <1>1, FS_Subset, FS_CardinalityType, AccountsAssumption
<1> QED BY <1>2, <1>3 DEF TypeOK

(* A connection is taken only from a pool that has one left. *)
LEMMA OneMoreHeld ==
    ASSUME TypeOK, NEW c \in Clients, Checkout(c)
    PROVE  Cardinality(conn' \ Scripts) <= Capacity
<1>1. CASE c \in Scripts
  <2>1. conn' \ Scripts = conn \ Scripts
    BY <1>1 DEF Checkout
  <2> QED BY <2>1 DEF TypeOK
<1>2. CASE c \notin Scripts
  <2>1. conn' \ Scripts = (conn \ Scripts) \cup {c} /\ c \notin conn \ Scripts
    BY <1>2 DEF Checkout
  <2>2. IsFiniteSet(conn \ Scripts)
    BY FS_Subset, AccountsAssumption DEF TypeOK
  <2>3. Cardinality(conn' \ Scripts) = Cardinality(conn \ Scripts) + 1
    BY <2>1, <2>2, FS_AddElement
  <2>4. Cardinality(conn \ Scripts) \in Nat /\ Capacity \in Nat
    BY <2>2, FS_CardinalityType, AccountsAssumption
  <2>5. Cardinality(conn \ Scripts) < Capacity
    BY <1>2 DEF Checkout
  <2> QED BY <2>3, <2>4, <2>5
<1> QED BY <1>1, <1>2

-----------------------------------------------------------------------------
(* Steps *)

(* Every step keeps the types and the pool. *)
LEMMA TypeStep == Inv /\ [Next]_vars => TypeOK'
<1> SUFFICES ASSUME Inv, [Next]_vars PROVE TypeOK'
  OBVIOUS
<1> USE AccountsAssumption DEF Clients, Makers, KeyMakers, Inv, TypeOK, Roles, Rows,
       Committed, DbSteps, Ends
<1>1. ASSUME NEW c \in Clients, Checkout(c) PROVE TypeOK'
  <2>1. Cardinality(conn' \ Scripts) <= Capacity
    BY <1>1, OneMoreHeld
  <2> QED BY <1>1, <2>1 DEF Checkout, asked, tables, seen
<1>2. ASSUME NEW c \in Clients, Fail(c) PROVE TypeOK'
  <2>1. conn' \subseteq conn
    BY <1>2 DEF Fail, Goto, GiveBack
  <2> QED BY <1>2, <2>1, FewerHeld DEF Fail, Goto, GiveBack, asked, tables, seen
<1>3. ASSUME NEW c \in Clients, ChatArrives(c) PROVE TypeOK'
  <2>1. conn' \subseteq conn
    BY <1>3 DEF ChatArrives, Goto, Live
  <2> QED BY <1>3, <2>1, FewerHeld DEF ChatArrives, Goto, Live, asked, tables, seen
<1>4. ASSUME NEW c \in Clients, Look(c) PROVE TypeOK'
  <2>1. conn' \subseteq conn
    BY <1>4 DEF Look, Goto, GiveBack, At, Live
  <2>2. Cardinality(conn' \ Scripts) <= Capacity
    BY <2>1, FewerHeld
  <2> QED BY <1>4, <2>1, <2>2 DEF Look, Goto, GiveBack, At, Live, asked, tables,
           seen
<1>5. ASSUME NEW c \in Clients, Touch(c) PROVE TypeOK'
  <2>1. conn' \subseteq conn
    BY <1>5 DEF Touch, Goto, GiveBack, At
  <2>2. Cardinality(conn' \ Scripts) <= Capacity
    BY <2>1, FewerHeld
  <2>3. uses[c] \in KeyMakers
    BY <1>5 DEF Touch, At, Judged
  <2> QED BY <1>5, <2>1, <2>2, <2>3 DEF Touch, Goto, GiveBack, At, asked, tables,
           seen
<1>6. ASSUME NEW c \in Clients, Reread(c) PROVE TypeOK'
  <2>1. conn' \subseteq conn
    BY <1>6 DEF Reread, Goto, GiveBack, At
  <2> QED BY <1>6, <2>1, FewerHeld DEF Reread, Goto, GiveBack, At, asked, tables,
           seen
<1>7. ASSUME NEW c \in Clients, Infer(c) PROVE TypeOK'
  <2>1. conn' \subseteq conn
    BY <1>7 DEF Infer, Goto
  <2> QED BY <1>7, <2>1, FewerHeld DEF Infer, Goto, asked, tables, seen
<1>8. ASSUME NEW c \in Clients, LogRow(c) PROVE TypeOK'
  <2>1. conn' \subseteq conn
    BY <1>8 DEF LogRow, Goto, GiveBack, At
  <2> QED BY <1>8, <2>1, FewerHeld DEF LogRow, Goto, GiveBack, At, asked, tables,
           seen
<1>9. ASSUME NEW c \in Clients, Enter(c) PROVE TypeOK'
  <2>1. conn' \subseteq conn
    BY <1>9 DEF Enter, Goto
  <2> QED BY <1>9, <2>1, FewerHeld DEF Enter, Goto, asked, tables, seen
<1>10. ASSUME NEW c \in Clients, Probe(c) PROVE TypeOK'
  <2>1. conn' \subseteq conn
    BY <1>10 DEF Probe, Goto, GiveBack, At
  <2>2. Cardinality(conn' \ Scripts) <= Capacity
    BY <2>1, FewerHeld
  <2> QED BY <1>10, <2>1, <2>2 DEF Probe, Goto, GiveBack, At, asked, tables, seen
<1>11. ASSUME NEW c \in Clients, Insert(c) PROVE TypeOK'
  <2>1. conn' \subseteq conn
    BY <1>11 DEF Insert, Goto, At
  <2>2. Cardinality(conn' \ Scripts) <= Capacity
    BY <2>1, FewerHeld
  <2> QED BY <1>11, <2>1, <2>2 DEF Insert, Goto, At, asked, tables, seen
<1>12. ASSUME NEW c \in Clients, Duplicate(c) PROVE TypeOK'
  <2>1. conn' \subseteq conn
    BY <1>12 DEF Duplicate, Goto, GiveBack, At
  <2> QED BY <1>12, <2>1, FewerHeld DEF Duplicate, Goto, GiveBack, At, asked,
           tables, seen
<1>13. ASSUME NEW c \in Clients, CommitUser(c) PROVE TypeOK'
  <2>1. conn' \subseteq conn
    BY <1>13 DEF CommitUser, Goto, GiveBack, At
  <2>2. Cardinality(conn' \ Scripts) <= Capacity
    BY <2>1, FewerHeld
  <2>3. c \in Makers
    BY <1>13 DEF CommitUser, At, Roles
  <2> QED BY <1>13, <2>1, <2>2, <2>3 DEF CommitUser, Goto, GiveBack, At, asked,
           tables, seen
<1>14. ASSUME NEW c \in Clients, Refresh(c) PROVE TypeOK'
  <2>1. conn' \subseteq conn
    BY <1>14 DEF Refresh, Goto, GiveBack, At
  <2> QED BY <1>14, <2>1, FewerHeld DEF Refresh, Goto, GiveBack, At, asked, tables,
           seen
<1>15. ASSUME NEW c \in Clients, CommitAdmin(c) PROVE TypeOK'
  <2>1. conn' \subseteq conn
    BY <1>15 DEF CommitAdmin, Goto, GiveBack, At
  <2>2. Cardinality(conn' \ Scripts) <= Capacity
    BY <2>1, FewerHeld
  <2> QED BY <1>15, <2>1, <2>2 DEF CommitAdmin, Goto, GiveBack, At, asked, tables,
           seen
<1>16. ASSUME NEW c \in Clients, Find(c) PROVE TypeOK'
  <2>1. conn' \subseteq conn
    BY <1>16 DEF Find, Goto, GiveBack, At
  <2>2. Cardinality(conn' \ Scripts) <= Capacity
    BY <2>1, FewerHeld
  <2> QED BY <1>16, <2>1, <2>2 DEF Find, Goto, GiveBack, At, asked, tables, seen
<1>17. ASSUME NEW c \in Clients, Issue(c) PROVE TypeOK'
  <2>1. conn' \subseteq conn
    BY <1>17 DEF Issue, Goto, GiveBack, At
  <2>2. Cardinality(conn' \ Scripts) <= Capacity
    BY <2>1, FewerHeld
  <2> QED BY <1>17, <2>1, <2>2 DEF Issue, Goto, GiveBack, At, asked, tables, seen
<1>18. ASSUME NEW c \in Clients, Answer(c) PROVE TypeOK'
  <2>1. conn' \subseteq conn
    BY <1>18 DEF Answer, Goto
  <2> QED BY <1>18, <2>1, FewerHeld DEF Answer, Goto, asked, tables, seen
<1>19. ASSUME NEW u \in Makers, Deactivate(u) PROVE TypeOK'
  BY <1>19 DEF Deactivate, asked, tables, seen
<1>20. ASSUME NEW k \in KeyMakers, Revoke(k) PROVE TypeOK'
  BY <1>20 DEF Revoke, asked, tables, seen
<1>21. CASE UNCHANGED vars
  BY <1>21 DEF vars, asked, tables, seen
<1> QED
  BY <1>1, <1>2, <1>3, <1>4, <1>5, <1>6, <1>7, <1>8, <1>9, <1>10, <1>11, <1>12,
     <1>13, <1>14, <1>15, <1>16, <1>17, <1>18, <1>19, <1>20, <1>21
     DEF Next, ClientStep, DbStep

(* Every step leaves a client in its own code. *)
LEMMA RolesStep == Inv /\ [Next]_vars => Roles'
<1> SUFFICES ASSUME Inv, [Next]_vars PROVE Roles'
  OBVIOUS
<1> USE AccountsAssumption DEF Clients, Makers, KeyMakers, Inv, DbSteps, TypeOK,
       Roles
<1>1. ASSUME NEW c \in Clients, Checkout(c) PROVE Roles'
  BY <1>1 DEF Checkout, asked, tables, seen
<1>2. ASSUME NEW c \in Clients, Fail(c) PROVE Roles'
  BY <1>2 DEF Fail, Goto, GiveBack, asked, tables, seen
<1>3. ASSUME NEW c \in Clients, ChatArrives(c) PROVE Roles'
  BY <1>3 DEF ChatArrives, Goto, Live, asked, tables, seen
<1>4. ASSUME NEW c \in Clients, Look(c) PROVE Roles'
  BY <1>4 DEF Look, Goto, GiveBack, At, Live, asked, tables, seen
<1>5. ASSUME NEW c \in Clients, Touch(c) PROVE Roles'
  BY <1>5 DEF Touch, Goto, GiveBack, At, asked, tables, seen
<1>6. ASSUME NEW c \in Clients, Reread(c) PROVE Roles'
  BY <1>6 DEF Reread, Goto, GiveBack, At, asked, tables, seen
<1>7. ASSUME NEW c \in Clients, Infer(c) PROVE Roles'
  BY <1>7 DEF Infer, Goto, asked, tables, seen
<1>8. ASSUME NEW c \in Clients, LogRow(c) PROVE Roles'
  BY <1>8 DEF LogRow, Goto, GiveBack, At, asked, tables, seen
<1>9. ASSUME NEW c \in Clients, Enter(c) PROVE Roles'
  BY <1>9 DEF Enter, Goto, asked, tables, seen
<1>10. ASSUME NEW c \in Clients, Probe(c) PROVE Roles'
  BY <1>10 DEF Probe, Goto, GiveBack, At, asked, tables, seen
<1>11. ASSUME NEW c \in Clients, Insert(c) PROVE Roles'
  BY <1>11 DEF Insert, Goto, At, asked, tables, seen
<1>12. ASSUME NEW c \in Clients, Duplicate(c) PROVE Roles'
  BY <1>12 DEF Duplicate, Goto, GiveBack, At, asked, tables, seen
<1>13. ASSUME NEW c \in Clients, CommitUser(c) PROVE Roles'
  BY <1>13 DEF CommitUser, Goto, GiveBack, At, asked, tables, seen
<1>14. ASSUME NEW c \in Clients, Refresh(c) PROVE Roles'
  BY <1>14 DEF Refresh, Goto, GiveBack, At, asked, tables, seen
<1>15. ASSUME NEW c \in Clients, CommitAdmin(c) PROVE Roles'
  BY <1>15 DEF CommitAdmin, Goto, GiveBack, At, asked, tables, seen
<1>16. ASSUME NEW c \in Clients, Find(c) PROVE Roles'
  BY <1>16 DEF Find, Goto, GiveBack, At, asked, tables, seen
<1>17. ASSUME NEW c \in Clients, Issue(c) PROVE Roles'
  BY <1>17 DEF Issue, Goto, GiveBack, At, asked, tables, seen
<1>18. ASSUME NEW c \in Clients, Answer(c) PROVE Roles'
  BY <1>18 DEF Answer, Goto, asked, tables, seen
<1>19. ASSUME NEW u \in Makers, Deactivate(u) PROVE Roles'
  BY <1>19 DEF Deactivate, asked, tables, seen
<1>20. ASSUME NEW k \in KeyMakers, Revoke(k) PROVE Roles'
  BY <1>20 DEF Revoke, asked, tables, seen
<1>21. CASE UNCHANGED vars
  BY <1>21 DEF vars, asked, tables, seen
<1> QED
  BY <1>1, <1>2, <1>3, <1>4, <1>5, <1>6, <1>7, <1>8, <1>9, <1>10, <1>11, <1>12,
     <1>13, <1>14, <1>15, <1>16, <1>17, <1>18, <1>19, <1>20, <1>21
     DEF Next, ClientStep, DbStep

(* Every step keeps rows and code in step. *)
LEMMA RowsStep == Inv /\ [Next]_vars => Rows'
<1> SUFFICES ASSUME Inv, [Next]_vars PROVE Rows'
  OBVIOUS
<1> USE AccountsAssumption DEF Clients, Makers, KeyMakers, Inv, DbSteps, TypeOK,
       Roles, Rows, Committed, BootstrapWhole
<1>1. ASSUME NEW c \in Clients, Checkout(c) PROVE Rows'
  BY <1>1 DEF Checkout, asked, tables, seen
<1>2. ASSUME NEW c \in Clients, Fail(c) PROVE Rows'
  BY <1>2 DEF Fail, Goto, GiveBack, asked, tables, seen
<1>3. ASSUME NEW c \in Clients, ChatArrives(c) PROVE Rows'
  BY <1>3 DEF ChatArrives, Goto, Live, asked, tables, seen
<1>4. ASSUME NEW c \in Clients, Look(c) PROVE Rows'
  BY <1>4 DEF Look, Goto, GiveBack, At, Live, asked, tables, seen
<1>5. ASSUME NEW c \in Clients, Touch(c) PROVE Rows'
  BY <1>5 DEF Touch, Goto, GiveBack, At, asked, tables, seen
<1>6. ASSUME NEW c \in Clients, Reread(c) PROVE Rows'
  BY <1>6 DEF Reread, Goto, GiveBack, At, asked, tables, seen
<1>7. ASSUME NEW c \in Clients, Infer(c) PROVE Rows'
  BY <1>7 DEF Infer, Goto, asked, tables, seen
<1>8. ASSUME NEW c \in Clients, LogRow(c) PROVE Rows'
  BY <1>8 DEF LogRow, Goto, GiveBack, At, asked, tables, seen
<1>9. ASSUME NEW c \in Clients, Enter(c) PROVE Rows'
  BY <1>9 DEF Enter, Goto, asked, tables, seen
<1>10. ASSUME NEW c \in Clients, Probe(c) PROVE Rows'
  BY <1>10 DEF Probe, Goto, GiveBack, At, asked, tables, seen
<1>11. ASSUME NEW c \in Clients, Insert(c) PROVE Rows'
  BY <1>11 DEF Insert, Goto, At, asked, tables, seen
<1>12. ASSUME NEW c \in Clients, Duplicate(c) PROVE Rows'
  BY <1>12 DEF Duplicate, Goto, GiveBack, At, asked, tables, seen
<1>13. ASSUME NEW c \in Clients, CommitUser(c) PROVE Rows'
  BY <1>13 DEF CommitUser, Goto, GiveBack, At, asked, tables, seen
<1>14. ASSUME NEW c \in Clients, Refresh(c) PROVE Rows'
  BY <1>14 DEF Refresh, Goto, GiveBack, At, asked, tables, seen
<1>15. ASSUME NEW c \in Clients, CommitAdmin(c) PROVE Rows'
  BY <1>15 DEF CommitAdmin, Goto, GiveBack, At, asked, tables, seen
<1>16. ASSUME NEW c \in Clients, Find(c) PROVE Rows'
  BY <1>16 DEF Find, Goto, GiveBack, At, asked, tables, seen
<1>17. ASSUME NEW c \in Clients, Issue(c) PROVE Rows'
  BY <1>17 DEF Issue, Goto, GiveBack, At, asked, tables, seen
<1>18. ASSUME NEW c \in Clients, Answer(c) PROVE Rows'
  BY <1>18 DEF Answer, Goto, asked, tables, seen
<1>19. ASSUME NEW u \in Makers, Deactivate(u) PROVE Rows'
  BY <1>19 DEF Deactivate, asked, tables, seen
<1>20. ASSUME NEW k \in KeyMakers, Revoke(k) PROVE Rows'
  BY <1>20 DEF Revoke, asked, tables, seen
<1>21. CASE UNCHANGED vars
  BY <1>21 DEF vars, asked, tables, seen
<1> QED
  BY <1>1, <1>2, <1>3, <1>4, <1>5, <1>6, <1>7, <1>8, <1>9, <1>10, <1>11, <1>12,
     <1>13, <1>14, <1>15, <1>16, <1>17, <1>18, <1>19, <1>20, <1>21
     DEF Next, ClientStep, DbStep

(* Every step keeps the rows unique. *)
LEMMA UniqueStep == Inv /\ [Next]_vars => Unique'
<1> SUFFICES ASSUME Inv, [Next]_vars PROVE Unique'
  OBVIOUS
<1> USE AccountsAssumption DEF Clients, Makers, KeyMakers, Inv, TypeOK, Roles, Rows,
       Clash, Unique
<1>1. ASSUME NEW c \in Clients, Checkout(c) PROVE Unique'
  BY <1>1 DEF Checkout, asked, tables, seen
<1>2. ASSUME NEW c \in Clients, Fail(c) PROVE Unique'
  BY <1>2 DEF Fail, Goto, GiveBack, asked, tables, seen
<1>3. ASSUME NEW c \in Clients, ChatArrives(c) PROVE Unique'
  BY <1>3 DEF ChatArrives, Goto, Live, asked, tables, seen
<1>4. ASSUME NEW c \in Clients, Look(c) PROVE Unique'
  BY <1>4 DEF Look, Goto, GiveBack, At, Live, asked, tables, seen
<1>5. ASSUME NEW c \in Clients, Touch(c) PROVE Unique'
  BY <1>5 DEF Touch, Goto, GiveBack, At, asked, tables, seen
<1>6. ASSUME NEW c \in Clients, Reread(c) PROVE Unique'
  BY <1>6 DEF Reread, Goto, GiveBack, At, asked, tables, seen
<1>7. ASSUME NEW c \in Clients, Infer(c) PROVE Unique'
  BY <1>7 DEF Infer, Goto, asked, tables, seen
<1>8. ASSUME NEW c \in Clients, LogRow(c) PROVE Unique'
  BY <1>8 DEF LogRow, Goto, GiveBack, At, asked, tables, seen
<1>9. ASSUME NEW c \in Clients, Enter(c) PROVE Unique'
  BY <1>9 DEF Enter, Goto, asked, tables, seen
<1>10. ASSUME NEW c \in Clients, Probe(c) PROVE Unique'
  BY <1>10 DEF Probe, Goto, GiveBack, At, asked, tables, seen
<1>11. ASSUME NEW c \in Clients, Insert(c) PROVE Unique'
  BY <1>11 DEF Insert, Goto, At, asked, tables, seen
<1>12. ASSUME NEW c \in Clients, Duplicate(c) PROVE Unique'
  BY <1>12 DEF Duplicate, Goto, GiveBack, At, asked, tables, seen
<1>13. ASSUME NEW c \in Clients, CommitUser(c) PROVE Unique'
  BY <1>13 DEF CommitUser, Goto, GiveBack, At, asked, tables, seen
<1>14. ASSUME NEW c \in Clients, Refresh(c) PROVE Unique'
  BY <1>14 DEF Refresh, Goto, GiveBack, At, asked, tables, seen
<1>15. ASSUME NEW c \in Clients, CommitAdmin(c) PROVE Unique'
  BY <1>15 DEF CommitAdmin, Goto, GiveBack, At, asked, tables, seen
<1>16. ASSUME NEW c \in Clients, Find(c) PROVE Unique'
  BY <1>16 DEF Find, Goto, GiveBack, At, asked, tables, seen
<1>17. ASSUME NEW c \in Clients, Issue(c) PROVE Unique'
  BY <1>17 DEF Issue, Goto, GiveBack, At, asked, tables, seen
<1>18. ASSUME NEW c \in Clients, Answer(c) PROVE Unique'
  BY <1>18 DEF Answer, Goto, asked, tables, seen
<1>19. ASSUME NEW u \in Makers, Deactivate(u) PROVE Unique'
  BY <1>19 DEF Deactivate, asked, tables, seen
<1>20. ASSUME NEW k \in KeyMakers, Revoke(k) PROVE Unique'
  BY <1>20 DEF Revoke, asked, tables, seen
<1>21. CASE UNCHANGED vars
  BY <1>21 DEF vars, asked, tables, seen
<1> QED
  BY <1>1, <1>2, <1>3, <1>4, <1>5, <1>6, <1>7, <1>8, <1>9, <1>10, <1>11, <1>12,
     <1>13, <1>14, <1>15, <1>16, <1>17, <1>18, <1>19, <1>20, <1>21
     DEF Next, ClientStep, DbStep

(* Every step keeps what a refused creation has found. *)
LEMMA ReportedStep == Inv /\ [Next]_vars => Reported'
<1> SUFFICES ASSUME Inv, [Next]_vars PROVE Reported'
  OBVIOUS
<1> USE AccountsAssumption DEF Clients, Makers, KeyMakers, Inv, DbSteps, TypeOK,
       Roles, Clash, Reported
<1>1. ASSUME NEW c \in Clients, Checkout(c) PROVE Reported'
  BY <1>1 DEF Checkout, asked, tables, seen
<1>2. ASSUME NEW c \in Clients, Fail(c) PROVE Reported'
  BY <1>2 DEF Fail, Goto, GiveBack, asked, tables, seen
<1>3. ASSUME NEW c \in Clients, ChatArrives(c) PROVE Reported'
  BY <1>3 DEF ChatArrives, Goto, Live, asked, tables, seen
<1>4. ASSUME NEW c \in Clients, Look(c) PROVE Reported'
  BY <1>4 DEF Look, Goto, GiveBack, At, Live, asked, tables, seen
<1>5. ASSUME NEW c \in Clients, Touch(c) PROVE Reported'
  BY <1>5 DEF Touch, Goto, GiveBack, At, asked, tables, seen
<1>6. ASSUME NEW c \in Clients, Reread(c) PROVE Reported'
  BY <1>6 DEF Reread, Goto, GiveBack, At, asked, tables, seen
<1>7. ASSUME NEW c \in Clients, Infer(c) PROVE Reported'
  BY <1>7 DEF Infer, Goto, asked, tables, seen
<1>8. ASSUME NEW c \in Clients, LogRow(c) PROVE Reported'
  BY <1>8 DEF LogRow, Goto, GiveBack, At, asked, tables, seen
<1>9. ASSUME NEW c \in Clients, Enter(c) PROVE Reported'
  BY <1>9 DEF Enter, Goto, asked, tables, seen
<1>10. ASSUME NEW c \in Clients, Probe(c) PROVE Reported'
  BY <1>10 DEF Probe, Goto, GiveBack, At, asked, tables, seen
<1>11. ASSUME NEW c \in Clients, Insert(c) PROVE Reported'
  BY <1>11 DEF Insert, Goto, At, asked, tables, seen
<1>12. ASSUME NEW c \in Clients, Duplicate(c) PROVE Reported'
  BY <1>12 DEF Duplicate, Goto, GiveBack, At, asked, tables, seen
<1>13. ASSUME NEW c \in Clients, CommitUser(c) PROVE Reported'
  BY <1>13 DEF CommitUser, Goto, GiveBack, At, asked, tables, seen
<1>14. ASSUME NEW c \in Clients, Refresh(c) PROVE Reported'
  BY <1>14 DEF Refresh, Goto, GiveBack, At, asked, tables, seen
<1>15. ASSUME NEW c \in Clients, CommitAdmin(c) PROVE Reported'
  BY <1>15 DEF CommitAdmin, Goto, GiveBack, At, asked, tables, seen
<1>16. ASSUME NEW c \in Clients, Find(c) PROVE Reported'
  BY <1>16 DEF Find, Goto, GiveBack, At, asked, tables, seen
<1>17. ASSUME NEW c \in Clients, Issue(c) PROVE Reported'
  BY <1>17 DEF Issue, Goto, GiveBack, At, asked, tables, seen
<1>18. ASSUME NEW c \in Clients, Answer(c) PROVE Reported'
  BY <1>18 DEF Answer, Goto, asked, tables, seen
<1>19. ASSUME NEW u \in Makers, Deactivate(u) PROVE Reported'
  BY <1>19 DEF Deactivate, asked, tables, seen
<1>20. ASSUME NEW k \in KeyMakers, Revoke(k) PROVE Reported'
  BY <1>20 DEF Revoke, asked, tables, seen
<1>21. CASE UNCHANGED vars
  BY <1>21 DEF vars, asked, tables, seen
<1> QED
  BY <1>1, <1>2, <1>3, <1>4, <1>5, <1>6, <1>7, <1>8, <1>9, <1>10, <1>11, <1>12,
     <1>13, <1>14, <1>15, <1>16, <1>17, <1>18, <1>19, <1>20, <1>21
     DEF Next, ClientStep, DbStep

(* Every step leaves a key with its owner. *)
LEMMA OwnersStep == Inv /\ [Next]_vars => Owners'
<1> SUFFICES ASSUME Inv, [Next]_vars PROVE Owners'
  OBVIOUS
<1> USE AccountsAssumption DEF Clients, Makers, KeyMakers, Inv, DbSteps, TypeOK,
       Roles, Owners
<1>1. ASSUME NEW c \in Clients, Checkout(c) PROVE Owners'
  BY <1>1 DEF Checkout, asked, tables, seen
<1>2. ASSUME NEW c \in Clients, Fail(c) PROVE Owners'
  BY <1>2 DEF Fail, Goto, GiveBack, asked, tables, seen
<1>3. ASSUME NEW c \in Clients, ChatArrives(c) PROVE Owners'
  BY <1>3 DEF ChatArrives, Goto, Live, asked, tables, seen
<1>4. ASSUME NEW c \in Clients, Look(c) PROVE Owners'
  BY <1>4 DEF Look, Goto, GiveBack, At, Live, asked, tables, seen
<1>5. ASSUME NEW c \in Clients, Touch(c) PROVE Owners'
  BY <1>5 DEF Touch, Goto, GiveBack, At, asked, tables, seen
<1>6. ASSUME NEW c \in Clients, Reread(c) PROVE Owners'
  BY <1>6 DEF Reread, Goto, GiveBack, At, asked, tables, seen
<1>7. ASSUME NEW c \in Clients, Infer(c) PROVE Owners'
  BY <1>7 DEF Infer, Goto, asked, tables, seen
<1>8. ASSUME NEW c \in Clients, LogRow(c) PROVE Owners'
  BY <1>8 DEF LogRow, Goto, GiveBack, At, asked, tables, seen
<1>9. ASSUME NEW c \in Clients, Enter(c) PROVE Owners'
  BY <1>9 DEF Enter, Goto, asked, tables, seen
<1>10. ASSUME NEW c \in Clients, Probe(c) PROVE Owners'
  BY <1>10 DEF Probe, Goto, GiveBack, At, asked, tables, seen
<1>11. ASSUME NEW c \in Clients, Insert(c) PROVE Owners'
  BY <1>11 DEF Insert, Goto, At, asked, tables, seen
<1>12. ASSUME NEW c \in Clients, Duplicate(c) PROVE Owners'
  BY <1>12 DEF Duplicate, Goto, GiveBack, At, asked, tables, seen
<1>13. ASSUME NEW c \in Clients, CommitUser(c) PROVE Owners'
  BY <1>13 DEF CommitUser, Goto, GiveBack, At, asked, tables, seen
<1>14. ASSUME NEW c \in Clients, Refresh(c) PROVE Owners'
  BY <1>14 DEF Refresh, Goto, GiveBack, At, asked, tables, seen
<1>15. ASSUME NEW c \in Clients, CommitAdmin(c) PROVE Owners'
  BY <1>15 DEF CommitAdmin, Goto, GiveBack, At, asked, tables, seen
<1>16. ASSUME NEW c \in Clients, Find(c) PROVE Owners'
  BY <1>16 DEF Find, Goto, GiveBack, At, asked, tables, seen
<1>17. ASSUME NEW c \in Clients, Issue(c) PROVE Owners'
  BY <1>17 DEF Issue, Goto, GiveBack, At, asked, tables, seen
<1>18. ASSUME NEW c \in Clients, Answer(c) PROVE Owners'
  BY <1>18 DEF Answer, Goto, asked, tables, seen
<1>19. ASSUME NEW u \in Makers, Deactivate(u) PROVE Owners'
  BY <1>19 DEF Deactivate, asked, tables, seen
<1>20. ASSUME NEW k \in KeyMakers, Revoke(k) PROVE Owners'
  BY <1>20 DEF Revoke, asked, tables, seen
<1>21. CASE UNCHANGED vars
  BY <1>21 DEF vars, asked, tables, seen
<1> QED
  BY <1>1, <1>2, <1>3, <1>4, <1>5, <1>6, <1>7, <1>8, <1>9, <1>10, <1>11, <1>12,
     <1>13, <1>14, <1>15, <1>16, <1>17, <1>18, <1>19, <1>20, <1>21
     DEF Next, ClientStep, DbStep

(* Every step keeps what a request knows of its key. *)
LEMMA JudgedStep == Inv /\ [Next]_vars => Judged'
<1> SUFFICES ASSUME Inv, [Next]_vars PROVE Judged'
  OBVIOUS
<1> USE AccountsAssumption DEF Clients, Makers, KeyMakers, Inv, DbSteps, TypeOK,
       Roles, Rows, Committed, BootstrapWhole, Owners, Judged, Accepted,
       Barred
<1>1. ASSUME NEW c \in Clients, Checkout(c) PROVE Judged'
  BY <1>1 DEF Checkout, asked, tables, seen
<1>2. ASSUME NEW c \in Clients, Fail(c) PROVE Judged'
  BY <1>2 DEF Fail, Goto, GiveBack, asked, tables, seen
<1>3. ASSUME NEW c \in Clients, ChatArrives(c) PROVE Judged'
  BY <1>3 DEF ChatArrives, Goto, Live, asked, tables, seen
<1>4. ASSUME NEW c \in Clients, Look(c) PROVE Judged'
  BY <1>4 DEF Look, Goto, GiveBack, At, Live, asked, tables, seen
<1>5. ASSUME NEW c \in Clients, Touch(c) PROVE Judged'
  BY <1>5 DEF Touch, Goto, GiveBack, At, asked, tables, seen
<1>6. ASSUME NEW c \in Clients, Reread(c) PROVE Judged'
  BY <1>6 DEF Reread, Goto, GiveBack, At, asked, tables, seen
<1>7. ASSUME NEW c \in Clients, Infer(c) PROVE Judged'
  BY <1>7 DEF Infer, Goto, asked, tables, seen
<1>8. ASSUME NEW c \in Clients, LogRow(c) PROVE Judged'
  BY <1>8 DEF LogRow, Goto, GiveBack, At, asked, tables, seen
<1>9. ASSUME NEW c \in Clients, Enter(c) PROVE Judged'
  BY <1>9 DEF Enter, Goto, asked, tables, seen
<1>10. ASSUME NEW c \in Clients, Probe(c) PROVE Judged'
  BY <1>10 DEF Probe, Goto, GiveBack, At, asked, tables, seen
<1>11. ASSUME NEW c \in Clients, Insert(c) PROVE Judged'
  BY <1>11 DEF Insert, Goto, At, asked, tables, seen
<1>12. ASSUME NEW c \in Clients, Duplicate(c) PROVE Judged'
  BY <1>12 DEF Duplicate, Goto, GiveBack, At, asked, tables, seen
<1>13. ASSUME NEW c \in Clients, CommitUser(c) PROVE Judged'
  BY <1>13 DEF CommitUser, Goto, GiveBack, At, asked, tables, seen
<1>14. ASSUME NEW c \in Clients, Refresh(c) PROVE Judged'
  BY <1>14 DEF Refresh, Goto, GiveBack, At, asked, tables, seen
<1>15. ASSUME NEW c \in Clients, CommitAdmin(c) PROVE Judged'
  BY <1>15 DEF CommitAdmin, Goto, GiveBack, At, asked, tables, seen
<1>16. ASSUME NEW c \in Clients, Find(c) PROVE Judged'
  BY <1>16 DEF Find, Goto, GiveBack, At, asked, tables, seen
<1>17. ASSUME NEW c \in Clients, Issue(c) PROVE Judged'
  BY <1>17 DEF Issue, Goto, GiveBack, At, asked, tables, seen
<1>18. ASSUME NEW c \in Clients, Answer(c) PROVE Judged'
  BY <1>18 DEF Answer, Goto, asked, tables, seen
<1>19. ASSUME NEW u \in Makers, Deactivate(u) PROVE Judged'
  BY <1>19 DEF Deactivate, asked, tables, seen
<1>20. ASSUME NEW k \in KeyMakers, Revoke(k) PROVE Judged'
  BY <1>20 DEF Revoke, asked, tables, seen
<1>21. CASE UNCHANGED vars
  BY <1>21 DEF vars, asked, tables, seen
<1> QED
  BY <1>1, <1>2, <1>3, <1>4, <1>5, <1>6, <1>7, <1>8, <1>9, <1>10, <1>11, <1>12,
     <1>13, <1>14, <1>15, <1>16, <1>17, <1>18, <1>19, <1>20, <1>21
     DEF Next, ClientStep, DbStep

-----------------------------------------------------------------------------
(* Theorems *)

(* The invariant holds at the start. *)
LEMMA InvInit == Init => Inv
<1> SUFFICES ASSUME Init PROVE Inv
  OBVIOUS
<1> USE AccountsAssumption DEF Clients, Makers, KeyMakers, Init
<1>1. Cardinality(conn \ Scripts) <= Capacity
  <2>1. conn \ Scripts = {}
    OBVIOUS
  <2> QED BY <2>1, FS_EmptySet
<1>2. TypeOK
  BY <1>1 DEF TypeOK
<1>3. Roles /\ Rows
  BY DEF Roles, Rows, Committed, BootstrapWhole
<1>4. Unique /\ Reported
  BY DEF Unique, Reported
<1>5. Owners /\ Judged
  BY DEF Owners, Judged, Accepted
<1> QED BY <1>2, <1>3, <1>4, <1>5 DEF Inv

(* It holds for ever. *)
LEMMA InvAlways == Spec => []Inv
<1>1. Inv /\ [Next]_vars => Inv'
  BY TypeStep, RolesStep, RowsStep, UniqueStep, ReportedStep, OwnersStep,
     JudgedStep DEF Inv
<1> QED BY InvInit, <1>1, PTL DEF Spec

(* However many clients and connections there are, the gateway never holds
   more than its pool has and nobody holds one outside a session. *)
THEOREM AccountTypes == Spec => []TypeOK
<1>1. Inv => TypeOK
  BY DEF Inv
<1> QED BY <1>1, InvAlways, PTL

(* Whatever creations, bootstraps and failures interleave, users stay unique
   and every answer says what the tables hold. *)
THEOREM AnswersCorrect == Spec => []AnswersHold
<1>1. Inv => AnswersHold
  <2> SUFFICES ASSUME Inv PROVE AnswersHold
    OBVIOUS
  <2>1. UsersUnique
    BY DEF Inv, Unique, UsersUnique
  <2>2. ASSUME NEW m \in Makers
        PROVE  /\ pc[m] = "created" => m \in users
               /\ pc[m] = "conflict" => m \notin users /\ \E u \in users : Clash(u, m)
               /\ pc[m] = "present" => \E u \in users : name[u] = Admin
    <3>1. pc[m] = "present" => m \in Bootstraps
      BY <2>2 DEF Inv, Roles, Makers
    <3> QED BY <2>2, <3>1 DEF Inv, Rows, Committed, Reported
  <2>3. ASSUME NEW k \in Keyers, pc[k] = "issued"
        PROVE  keys[k] \in users /\ name[keys[k]] = name[k]
    BY <2>3 DEF Inv, Owners
  <2> QED BY <2>1, <2>2, <2>3 DEF AnswersHold
<1> QED BY <1>1, InvAlways, PTL

(* No failure and no interleaving leaves an administrator without a key. *)
THEOREM BootstrapCorrect == Spec => []BootstrapWhole
<1>1. Inv => BootstrapWhole
  BY DEF Inv, Rows
<1> QED BY <1>1, InvAlways, PTL

(* Nobody is served on a key that was turned off before the request came, and
   nobody is refused on one that stays valid. *)
THEOREM KeysCorrect == Spec => []KeysCurrent
<1>1. Inv => KeysCurrent
  BY DEF Inv, Judged, Barred, KeysCurrent, Live
<1> QED BY <1>1, InvAlways, PTL
-----------------------------------------------------------------------------
(* Waiting *)

(* Whoever holds a connection goes on, or waits for a row whose session does. *)
LEMMA HolderProceeds ==
    ASSUME Inv, NEW c \in conn
    PROVE  \E d \in Clients : Proceeds(d)
<1>1. c \in Clients /\ pc[c] \in DbSteps
  BY DEF Inv, TypeOK
<1>2. CASE Proceeds(c)
  BY <1>1, <1>2
<1>3. CASE ~Proceeds(c)
  <2>1. PICK u \in fresh : Clash(u, c)
    BY <1>1, <1>3 DEF Proceeds
  <2>2. u \in conn /\ u \in Clients /\ pc[u] \in {"committing", "keying"}
    BY DEF Inv, TypeOK, Rows
  <2>3. Proceeds(u)
    BY <2>2 DEF Proceeds, DbSteps
  <2> QED BY <2>2, <2>3
<1> QED BY <1>2, <1>3

(* Neither the pool nor the rows can bring every session to a halt. *)
THEOREM DeadlockFree == Spec => []NoDeadlock
<1>1. Inv => NoDeadlock
  <2> SUFFICES ASSUME Inv, NEW c \in Clients, pc[c] \in DbSteps
               PROVE  \E d \in Clients : Proceeds(d)
    BY DEF NoDeadlock
  <2>1. CASE conn = {}
    <3>1. conn \ Scripts = {}
      BY <2>1
    <3>2. Cardinality(conn \ Scripts) < Capacity
      BY <3>1, FS_EmptySet, AccountsAssumption
    <3> QED BY <2>1, <3>2 DEF Proceeds
  <2>2. CASE conn # {}
    BY <2>2, HolderProceeds
  <2> QED BY <2>1, <2>2
<1> QED BY <1>1, InvAlways, PTL

-----------------------------------------------------------------------------
(* The registry *)

(* A client that moves without an answer changes nothing but its place. *)
LEMMA AnswerKept ==
    ASSUME TypeOK, NEW c \in Clients, NEW place, Goto(c, place),
           \/ pc[c] \notin Ends /\ place \notin Ends
           \/ pc[c] = place,
           pc[c] \in {"touching", "rereading", "serving", "logging"}
               <=> place \in {"touching", "rereading", "serving", "logging"}
    PROVE  \A d \in Clients : answerOf(d)' = answerOf(d)
BY DEF Goto, TypeOK, answerOf

(* A client that is told something is the only one that is. *)
LEMMA AnswerTold ==
    ASSUME TypeOK, NEW c \in Clients, NEW place, Goto(c, place),
           NEW what, what = IF place \in Ends THEN place ELSE "admitted",
           place \in Ends \cup {"touching", "rereading", "serving", "logging"}
    PROVE  [d \in Clients |-> answerOf(d)]'
               = [[d \in Clients |-> answerOf(d)] EXCEPT ![c] = what]
<1>1. pc' = [pc EXCEPT ![c] = place]
  BY DEF Goto
<1>2. answerOf(c)' = what
  BY <1>1 DEF TypeOK, answerOf, Ends
<1>3. \A d \in Clients \ {c} : answerOf(d)' = answerOf(d)
  BY <1>1 DEF TypeOK, answerOf
<1> QED BY <1>2, <1>3

(* The two modules agree on who the clients are and what they ask of rows. *)
LEMMA SameClients ==
    /\ Abstract!Clients = Clients /\ Abstract!Makers = Makers
    /\ Abstract!KeyMakers = KeyMakers
    /\ \A m, n : Abstract!Clash(m, n) <=> Clash(m, n)
    /\ \A key : Abstract!Live(key) <=> Live(key)
BY DEF Abstract!Clients, Abstract!Makers, Abstract!KeyMakers, Abstract!Clash,
       Abstract!Live, Clients, Makers, KeyMakers, Clash, Live

(* A step that tells nobody anything and leaves the tables alone. *)
LEMMA RegistryKept ==
    ASSUME UNCHANGED <<asked, users, keys, off, revoked>>,
           \A d \in Clients : answerOf(d)' = answerOf(d)
    PROVE  UNCHANGED Abstract!vars
BY DEF Abstract!vars, Abstract!asked, asked

(* A failure may befall anybody. *)
LEMMA FailImplements ==
    ASSUME Inv, NEW c \in Clients,
           pc[c] \notin Ends, Goto(c, "error"),
           UNCHANGED <<asked, users, keys, off, revoked>>
    PROVE  Abstract!Next
<1>1. answerOf(c) \in {"none", "admitted"}
  BY DEF answerOf
<1>2. Abstract!Break(c)
  BY <1>1, AnswerTold DEF Abstract!Break, Abstract!asked, asked, Ends, Inv
<1> QED BY <1>2, SameClients DEF Abstract!Next

(* An answer to one client that leaves the tables alone. *)
LEMMA TellImplements ==
    ASSUME Inv, NEW c \in Clients, answerOf(c) = "none",
           NEW place, Goto(c, place),
           place \in Ends \cup {"touching"},
           NEW what, what = IF place \in Ends THEN place ELSE "admitted",
           UNCHANGED <<asked, users, keys, off, revoked>>
    PROVE  Abstract!Tell(c, what)
<1>1. [d \in Clients |-> answerOf(d)]'
          = [[d \in Clients |-> answerOf(d)] EXCEPT ![c] = what]
  BY AnswerTold DEF Inv
<1> QED BY <1>1 DEF Abstract!Tell, Abstract!asked, asked

(* A commit registers the user, and an administrator with the key. *)
LEMMA CommitImplements ==
    ASSUME Inv, NEW m \in Clients, CommitUser(m) \/ CommitAdmin(m)
    PROVE  Abstract!Register(m)
<1>1. m \in Makers /\ m \in fresh /\ m \notin users
  BY DEF CommitUser, CommitAdmin, At, Inv, TypeOK, Roles, Rows, Clients, Makers
<1>2. ~\E u \in users : Abstract!Clash(u, m)
  BY <1>1, SameClients DEF Inv, Unique
<1>3. \A d \in Clients : answerOf(d)' = answerOf(d)
  BY AnswerKept DEF CommitUser, CommitAdmin, At, Inv, Ends
<1>4. keys' = IF m \in Bootstraps THEN [keys EXCEPT ![m] = m] ELSE keys
  <2>1. CASE CommitUser(m)
    <3>1. m \notin Bootstraps
      BY <2>1 DEF CommitUser, At, Inv, Roles
    <3> QED BY <2>1, <3>1 DEF CommitUser
  <2>2. CASE CommitAdmin(m)
    <3>1. m \in Bootstraps
      BY <1>1, <2>2 DEF CommitAdmin, At, Inv, Roles, Makers
    <3> QED BY <2>2, <3>1 DEF CommitAdmin
  <2> QED BY <2>1, <2>2
<1>5. answerOf(m) = "none"
  BY DEF CommitUser, CommitAdmin, At, answerOf, Ends
<1>6. users' = users \cup {m} /\ UNCHANGED <<asked, off, revoked>>
  BY DEF CommitUser, CommitAdmin
<1> QED BY <1>1, <1>2, <1>3, <1>4, <1>5, <1>6, SameClients
        DEF Abstract!Register, Abstract!asked, asked

(* What a client is told is what the registry holds. *)
LEMMA AnswerImplements ==
    ASSUME Inv, NEW c \in Clients,
           Look(c) \/ Duplicate(c) \/ Refresh(c) \/ Probe(c) \/ Find(c)
             \/ Answer(c) \/ Enter(c)
    PROVE  Abstract!Next \/ UNCHANGED Abstract!vars
<1> USE SameClients DEF Inv
<1>1. CASE Look(c)
  <2>1. c \in Chats /\ answerOf(c) = "none"
    BY <1>1 DEF Look, At, Roles, Clients, Makers, answerOf, Ends
  <2>2. CASE Live(uses[c])
    <3>1. Abstract!Tell(c, "admitted")
      BY <1>1, <2>1, <2>2, TellImplements DEF Look, Ends, tables
    <3> QED BY <2>1, <2>2, <3>1 DEF Abstract!Admit, Abstract!Next
  <2>3. CASE ~Live(uses[c])
    <3>1. Abstract!Tell(c, "refused")
      BY <1>1, <2>1, <2>3, TellImplements DEF Look, Ends, tables
    <3> QED BY <2>1, <2>3, <3>1 DEF Abstract!Deny, Abstract!Next
  <2> QED BY <2>2, <2>3
<1>2. CASE Duplicate(c)
  <2>1. c \in Makers \ users /\ answerOf(c) = "none"
    BY <1>2 DEF Duplicate, At, Roles, Rows, Committed, Clients, Makers,
                answerOf, Ends
  <2>2. CASE c \in Creators
    <3>1. Abstract!Tell(c, "conflict")
      BY <1>2, <2>1, <2>2, TellImplements DEF Duplicate, Ends, tables
    <3> QED BY <1>2, <2>1, <2>2, <3>1
            DEF Duplicate, Abstract!Reject, Abstract!Next
  <2>3. CASE c \notin Creators
    BY <1>2, <2>3, FailImplements DEF Duplicate, At, Ends, tables
  <2> QED BY <2>2, <2>3
<1>3. CASE Refresh(c)
  <2>1. c \in Creators /\ c \in users /\ answerOf(c) = "none"
    BY <1>3, AccountsAssumption
       DEF Refresh, At, Roles, Rows, Committed, Clients, Makers, answerOf, Ends
  <2>2. Abstract!Tell(c, "created")
    BY <1>3, <2>1, TellImplements DEF Refresh, Ends, tables
  <2> QED BY <2>1, <2>2 DEF Abstract!Confirm, Abstract!Next
<1>4. CASE Probe(c)
  <2>1. c \in Bootstraps /\ c \notin users /\ answerOf(c) = "none"
    BY <1>4 DEF Probe, At, Roles, Rows, Committed, Clients, Makers,
                answerOf, Ends
  <2>2. CASE \E u \in users : name[u] = Admin
    <3>1. Abstract!Tell(c, "present")
      BY <1>4, <2>1, <2>2, TellImplements DEF Probe, Ends, tables
    <3> QED BY <2>1, <2>2, <3>1 DEF Abstract!Found, Abstract!Next
  <2>3. CASE ~\E u \in users : name[u] = Admin
    BY <1>4, <2>3, AnswerKept, RegistryKept DEF Probe, At, Ends, tables
  <2> QED BY <2>2, <2>3
<1>5. CASE Find(c)
  <2>1. c \in Keyers /\ answerOf(c) = "none"
    BY <1>5 DEF Find, At, Roles, Clients, Makers, answerOf, Ends
  <2>2. CASE \E u \in users : name[u] = name[c]
    BY <1>5, <2>2, AnswerKept, RegistryKept DEF Find, At, Ends, tables
  <2>3. CASE ~\E u \in users : name[u] = name[c]
    <3>1. Abstract!Tell(c, "missing")
      BY <1>5, <2>1, <2>3, TellImplements DEF Find, Ends, tables
    <3> QED BY <2>1, <2>3, <3>1 DEF Abstract!NoUser, Abstract!Next
  <2> QED BY <2>2, <2>3
<1>6. CASE Answer(c)
  <2>1. answerOf(c) = "none"
    BY <1>6 DEF Answer, answerOf, Ends
  <2>2. CASE c \in Bootstraps
    <3>1. c \in users /\ c \notin Creators
      BY <1>6, <2>2, AccountsAssumption
         DEF Answer, Rows, Committed, Makers, KeyMakers
    <3>2. Abstract!Tell(c, "bootstrapped")
      BY <1>6, <2>1, <2>2, TellImplements DEF Answer, Ends, tables
    <3> QED BY <3>1, <3>2 DEF Abstract!Confirm, Abstract!Next
  <2>3. CASE c \notin Bootstraps
    <3>1. c \in Keyers /\ keys[c] \in users
      BY <1>6, <2>3 DEF Answer, Roles, Owners, Clients, Makers
    <3>2. keys[c] # Nobody
      BY <3>1, AccountsAssumption DEF TypeOK, Clients, Makers
    <3>3. Abstract!Tell(c, "issued")
      BY <1>6, <2>1, <2>3, TellImplements DEF Answer, Ends, tables
    <3> QED BY <3>1, <3>2, <3>3 DEF Abstract!Show, Abstract!Next
  <2> QED BY <2>2, <2>3
<1>7. CASE Enter(c)
  <2>1. answerOf(c) = "none"
    BY <1>7 DEF Enter, answerOf, Ends
  <2>2. PICK place \in {"inserting", "probing", "finding", "refused"} :
           Goto(c, place) /\ (place = "refused" => c \notin Chats \cup Scripts)
    BY <1>7 DEF Enter
  <2>3. CASE place = "refused"
    <3>1. Abstract!Tell(c, "refused")
      BY <1>7, <2>1, <2>2, <2>3, TellImplements DEF Enter, Ends, tables
    <3> QED BY <2>2, <2>3, <3>1 DEF Abstract!TurnAway, Abstract!Next
  <2>4. CASE place # "refused"
    <3>1. \A d \in Clients : answerOf(d)' = answerOf(d)
      BY <1>7, <2>2, <2>4, AnswerKept DEF Enter, Ends
    <3> QED BY <1>7, <3>1, RegistryKept DEF Enter, tables
  <2> QED BY <2>3, <2>4
<1> QED BY <1>1, <1>2, <1>3, <1>4, <1>5, <1>6, <1>7

(* Every step is one of the registry or none. *)
LEMMA RegistryStep ==
    ASSUME Inv, [Next]_vars
    PROVE  Abstract!Next \/ UNCHANGED Abstract!vars
<1> USE DEF Inv
<1>1. ASSUME NEW c \in Clients, Checkout(c) \/ Insert(c) \/ Touch(c)
             \/ Reread(c) \/ Infer(c) \/ ChatArrives(c)
      PROVE  UNCHANGED Abstract!vars
  <2>1. UNCHANGED <<asked, users, keys, off, revoked>>
    BY <1>1 DEF Checkout, Insert, Touch, Reread, Infer, ChatArrives, tables
  <2>2. \A d \in Clients : answerOf(d)' = answerOf(d)
    <3>1. CASE Checkout(c)
      BY <3>1 DEF Checkout, answerOf
    <3>2. CASE Insert(c)
      BY <3>2, AnswerKept DEF Insert, At, Ends
    <3>3. CASE Touch(c) \/ Reread(c) \/ Infer(c) \/ ChatArrives(c)
      BY <3>3, AnswerKept DEF Touch, Reread, Infer, ChatArrives, At, Ends
    <3> QED BY <1>1, <3>1, <3>2, <3>3
  <2> QED BY <2>1, <2>2, RegistryKept
<1>2. ASSUME NEW c \in Clients, LogRow(c)
      PROVE  Abstract!Next
  <2>1. answerOf(c) = "admitted"
    BY <1>2 DEF LogRow, At, answerOf, Ends
  <2>2. Abstract!Serve(c)
    BY <1>2, <2>1, AnswerTold
       DEF LogRow, Ends, tables, Abstract!Serve, Abstract!asked, asked
  <2> QED BY <2>2, SameClients DEF Abstract!Next
<1>3. ASSUME NEW c \in Clients, Issue(c)
      PROVE  Abstract!Next
  <2>1. c \in Keyers /\ keys[c] = Nobody /\ answerOf(c) = "none"
    BY <1>3 DEF Issue, At, Roles, Owners, Clients, Makers, answerOf, Ends
  <2>2. \A d \in Clients : answerOf(d)' = answerOf(d)
    BY <1>3, AnswerKept DEF Issue, At, Ends
  <2>3. Abstract!IssueKey(c)
    BY <1>3, <2>1, <2>2 DEF Issue, Abstract!IssueKey, Abstract!asked, asked
  <2> QED BY <2>3, SameClients DEF Abstract!Next
<1>4. ASSUME NEW c \in Clients, Fail(c)
      PROVE  Abstract!Next
  BY <1>4, FailImplements DEF Fail, DbSteps, Ends
<1>5. ASSUME NEW u \in Makers, Deactivate(u)
      PROVE  Abstract!Next
  <2>1. \A d \in Clients : answerOf(d)' = answerOf(d)
    BY <1>5 DEF Deactivate, answerOf
  <2> QED BY <1>5, <2>1, SameClients
          DEF Deactivate, tables, asked, Abstract!Deactivate, Abstract!asked,
              Abstract!Next
<1>6. ASSUME NEW k \in KeyMakers, Revoke(k)
      PROVE  Abstract!Next
  <2>1. \A d \in Clients : answerOf(d)' = answerOf(d)
    BY <1>6 DEF Revoke, answerOf
  <2> QED BY <1>6, <2>1, SameClients
          DEF Revoke, tables, asked, Abstract!Revoke, Abstract!asked,
              Abstract!Next
<1>7. CASE UNCHANGED vars
  <2>1. \A d \in Clients : answerOf(d)' = answerOf(d)
    BY <1>7 DEF vars, answerOf
  <2> QED BY <1>7, <2>1, RegistryKept DEF vars, tables
<1>8. ASSUME NEW c \in Clients, ClientStep(c)
      PROVE  Abstract!Next \/ UNCHANGED Abstract!vars
  <2>1. CASE CommitUser(c) \/ CommitAdmin(c)
    BY <2>1, CommitImplements, SameClients DEF Abstract!Next
  <2>2. CASE ~(CommitUser(c) \/ CommitAdmin(c))
    BY <1>1, <1>2, <1>3, <1>4, <1>8, <2>2, AnswerImplements
       DEF ClientStep, DbStep
  <2> QED BY <2>1, <2>2
<1> QED BY <1>5, <1>6, <1>7, <1>8 DEF Next

(* Both begin with nobody registered and nobody answered. *)
LEMMA RegistryInit == Init => Abstract!Init
<1> SUFFICES ASSUME Init PROVE Abstract!Init
  OBVIOUS
<1>1. [c \in Clients |-> answerOf(c)] = [c \in Clients |-> "none"]
  BY DEF Init, answerOf, Ends
<1>2. \A b \in Bootstraps : name[b] = Admin /\ mail[b] = Admin
  BY DEF Init
<1> QED BY <1>1, <1>2, SameClients
        DEF Init, Abstract!Init, Makers, KeyMakers

(* For any number of clients and connections: whatever the transactions of
   users, keys and requests do to each other, every client is answered as by a
   registry that does one thing at a time. *)
THEOREM RegistryImplemented == Spec => ImplementsRegistry
<1>1. Inv /\ [Next]_vars => [Abstract!Next]_(Abstract!vars)
  BY RegistryStep
<1> QED BY RegistryInit, <1>1, InvAlways, PTL
        DEF Spec, Abstract!Spec, ImplementsRegistry
=============================================================================

------------------------------- MODULE Accounts -------------------------------
(***************************************************************************)
(* Users and API keys: routers/admin.py, auth/service.py with              *)
(* auth/middleware.py, scripts/init_db.py and scripts/generate_api_key.py, *)
(* on the tables of gateway/models.py.  The gateway's sessions share the   *)
(* connections of gateway/database.py and hold one from their first        *)
(* statement to their commit, rollback or end; a script has its own.       *)
(* Postgres runs READ COMMITTED, and an INSERT that meets a row another    *)
(* transaction has not committed yet waits for that transaction's end.     *)
(***************************************************************************)
EXTENDS Integers, FiniteSets

CONSTANTS Chats,       \* requests of /v1/chat/completions
          Creators,    \* requests of POST /admin/users
          Keyers,      \* of POST /admin/users/{username}/keys, and runs of
                       \* generate_api_key.py
          Bootstraps,  \* runs of init_db.py
          Scripts,     \* those that are processes of their own
          Names,       \* usernames, and the addresses that go with them
          Admin,       \* the name init_db.py looks for
          Nobody,      \* no user, or no such key
          Capacity     \* pool_size + max_overflow

Clients == Chats \cup Creators \cup Keyers \cup Bootstraps
Makers == Creators \cup Bootstraps     \* a user is named for who inserts it
KeyMakers == Keyers \cup Bootstraps    \* so is a key

ASSUME AccountsAssumption ==
    /\ IsFiniteSet(Clients) /\ Nobody \notin Clients
    /\ Chats \cap (Makers \cup Keyers) = {} /\ Creators \cap KeyMakers = {}
    /\ Keyers \cap Bootstraps = {}
    /\ Bootstraps \subseteq Scripts /\ Scripts \subseteq KeyMakers
    /\ Admin \in Names /\ Capacity \in Nat \ {0}

VARIABLES name,      \* the username a client inserts or asks for
          mail,      \* the address of a new user
          uses,      \* the key a chat request presents
          pc,        \* where a client is
          conn,      \* clients that hold a connection
          fresh,     \* users inserted and not committed
          users,     \* committed users
          keys,      \* owners of the committed keys
          used,      \* keys with a last_used_at
          off,       \* users that are not is_active
          revoked,   \* keys that are not is_active
          good,      \* history: chats whose key was valid when they arrived
          barred     \* history: chats whose key had been turned off by then

asked == <<name, mail, uses>>
tables == <<fresh, users, keys, used>>
seen == <<good, barred>>
vars == <<asked, pc, conn, tables, off, revoked, seen>>

\* At these places a client needs a connection.
DbSteps == {"looking", "touching", "rereading", "logging", "inserting",
            "committing", "refreshing", "finding", "issuing", "probing", "keying"}
Ends == {"refused", "served", "created", "conflict", "missing", "issued",
         "present", "bootstrapped", "error"}

Init ==
    /\ name \in {f \in [Makers \cup Keyers -> Names] :
                    \A b \in Bootstraps : f[b] = Admin}
    /\ mail \in {f \in [Makers -> Names] : \A b \in Bootstraps : f[b] = Admin}
    /\ uses \in [Chats -> KeyMakers \cup {Nobody}]
    /\ pc = [c \in Clients |-> "new"]
    /\ conn = {} /\ fresh = {} /\ users = {} /\ used = {}
    /\ off = {} /\ revoked = {} /\ keys = [k \in KeyMakers |-> Nobody]
    /\ good = {} /\ barred = {}

Goto(c, place) == pc' = [pc EXCEPT ![c] = place]
GiveBack(c) == conn' = conn \ {c}
Live(key) == /\ key \in KeyMakers /\ keys[key] \in users
             /\ key \notin revoked /\ keys[key] \notin off

\* unique=True on username and on email.
Clash(m, n) == m # n /\ (name[m] = name[n] \/ mail[m] = mail[n])

-----------------------------------------------------------------------------
(* Sessions *)

\* The session's first statement takes a connection from the pool.
Checkout(c) ==
    /\ pc[c] \in DbSteps /\ c \notin conn
    /\ c \in Scripts \/ Cardinality(conn \ Scripts) < Capacity
    /\ conn' = conn \cup {c}
    /\ UNCHANGED <<asked, pc, tables, off, revoked, seen>>

\* pool_timeout, an error of the database, a killed script, a caller who does
\* not get the answer: what is not committed is rolled back.
Fail(c) ==
    /\ pc[c] \in DbSteps \cup {"answering"}
    /\ Goto(c, "error")
    /\ GiveBack(c) /\ fresh' = fresh \ {c}
    /\ UNCHANGED <<asked, users, keys, used, off, revoked, seen>>

At(c, place) == pc[c] = place /\ c \in conn

-----------------------------------------------------------------------------
(* require_api_key, the request, its row *)

ChatArrives(c) ==
    /\ c \in Chats /\ pc[c] = "new" /\ Goto(c, "looking")
    /\ good' = IF Live(uses[c]) THEN good \cup {c} ELSE good
    /\ barred' = IF \/ uses[c] \in revoked
                    \/ uses[c] \in KeyMakers /\ keys[uses[c]] \in off
                 THEN barred \cup {c} ELSE barred
    /\ UNCHANGED <<asked, conn, tables, off, revoked>>

\* Faulty variant: the owner's is_active is not looked at.
LookKeyOnly(c) ==
    /\ At(c, "looking")
    /\ IF uses[c] \in KeyMakers \ revoked /\ keys[uses[c]] \in users
       THEN Goto(c, "touching") /\ UNCHANGED conn
       ELSE Goto(c, "refused") /\ GiveBack(c)
    /\ UNCHANGED <<asked, tables, off, revoked, seen>>

\* Two SELECTs; nothing is turned on again, so one look stands for both.
Look(c) ==
    /\ At(c, "looking")
    /\ IF Live(uses[c])
       THEN Goto(c, "touching") /\ UNCHANGED conn
       ELSE Goto(c, "refused") /\ GiveBack(c)
    /\ UNCHANGED <<asked, tables, off, revoked, seen>>

Touch(c) ==
    /\ At(c, "touching") /\ Goto(c, "rereading")
    /\ GiveBack(c) /\ used' = used \cup {uses[c]}
    /\ UNCHANGED <<asked, fresh, users, keys, off, revoked, seen>>

\* Faulty variant: the request keeps its session.
RereadHolding(c) ==
    /\ At(c, "rereading") /\ Goto(c, "serving")
    /\ UNCHANGED <<asked, conn, tables, off, revoked, seen>>

\* The session is closed before inference starts.
Reread(c) ==
    /\ At(c, "rereading") /\ Goto(c, "serving")
    /\ GiveBack(c)
    /\ UNCHANGED <<asked, tables, off, revoked, seen>>

Infer(c) ==
    /\ pc[c] = "serving" /\ Goto(c, "logging")
    /\ UNCHANGED <<asked, conn, tables, off, revoked, seen>>

LogRow(c) ==
    /\ At(c, "logging") /\ Goto(c, "served")
    /\ GiveBack(c)
    /\ UNCHANGED <<asked, tables, off, revoked, seen>>

-----------------------------------------------------------------------------
(* New users: create_user, and init_db.py with the user's first key *)

Enter(c) ==
    /\ pc[c] = "new"
    /\ \/ c \in Creators /\ Goto(c, "inserting")
       \/ c \in Bootstraps /\ Goto(c, "probing")
       \/ c \in Keyers /\ Goto(c, "finding")
       \/ c \notin Chats \cup Scripts /\ Goto(c, "refused")  \* require_admin_secret
    /\ UNCHANGED <<asked, conn, tables, off, revoked, seen>>

Probe(b) ==
    /\ At(b, "probing")
    /\ IF \E u \in users : name[u] = Admin
       THEN Goto(b, "present") /\ GiveBack(b)
       ELSE Goto(b, "inserting") /\ UNCHANGED conn
    /\ UNCHANGED <<asked, tables, off, revoked, seen>>

\* Faulty variant: uniqueness by a query for committed users.
InsertQueried(m) ==
    /\ At(m, "inserting") /\ ~\E u \in users : Clash(u, m)
    /\ fresh' = fresh \cup {m}
    /\ Goto(m, IF m \in Creators THEN "committing" ELSE "keying")
    /\ UNCHANGED <<asked, conn, users, keys, used, off, revoked, seen>>

Insert(m) ==
    /\ At(m, "inserting") /\ ~\E u \in users \cup fresh : Clash(u, m)
    /\ fresh' = fresh \cup {m}
    /\ Goto(m, IF m \in Creators THEN "committing" ELSE "keying")
    /\ UNCHANGED <<asked, conn, users, keys, used, off, revoked, seen>>

\* IntegrityError: 409, or the end of init_db.py.
Duplicate(m) ==
    /\ At(m, "inserting") /\ \E u \in users : Clash(u, m)
    /\ Goto(m, IF m \in Creators THEN "conflict" ELSE "error")
    /\ GiveBack(m)
    /\ UNCHANGED <<asked, tables, off, revoked, seen>>

CommitUser(m) ==
    /\ At(m, "committing") /\ Goto(m, "refreshing")
    /\ users' = users \cup {m} /\ fresh' = fresh \ {m}
    /\ GiveBack(m)
    /\ UNCHANGED <<asked, keys, used, off, revoked, seen>>

\* Faulty variant: the request's session is never closed.
RefreshOpen(m) ==
    /\ At(m, "refreshing") /\ Goto(m, "created")
    /\ UNCHANGED <<asked, conn, tables, off, revoked, seen>>

Refresh(m) ==
    /\ At(m, "refreshing") /\ Goto(m, "created")
    /\ GiveBack(m)
    /\ UNCHANGED <<asked, tables, off, revoked, seen>>

CommitAdmin(b) ==
    /\ At(b, "keying") /\ Goto(b, "answering")
    /\ users' = users \cup {b} /\ fresh' = fresh \ {b}
    /\ keys' = [keys EXCEPT ![b] = b]
    /\ GiveBack(b)
    /\ UNCHANGED <<asked, used, off, revoked, seen>>

-----------------------------------------------------------------------------
(* New keys: create_api_key and generate_api_key.py *)

Find(k) ==
    /\ At(k, "finding")
    /\ IF \E u \in users : name[u] = name[k]
       THEN Goto(k, "issuing") /\ UNCHANGED conn
       ELSE Goto(k, "missing") /\ GiveBack(k)
    /\ UNCHANGED <<asked, tables, off, revoked, seen>>

Issue(k) ==
    /\ At(k, "issuing") /\ Goto(k, "answering")
    /\ \E u \in users : name[u] = name[k] /\ keys' = [keys EXCEPT ![k] = u]
    /\ GiveBack(k)
    /\ UNCHANGED <<asked, fresh, users, used, off, revoked, seen>>

\* The key is shown, once.
Answer(k) ==
    /\ pc[k] = "answering"
    /\ Goto(k, IF k \in Bootstraps THEN "bootstrapped" ELSE "issued")
    /\ UNCHANGED <<asked, conn, tables, off, revoked, seen>>

\* No code clears is_active: an operator does, in the database.
Deactivate(u) ==
    /\ u \in users \ off /\ off' = off \cup {u}
    /\ UNCHANGED <<asked, pc, conn, tables, revoked, seen>>
Revoke(k) ==
    /\ k \notin revoked /\ keys[k] # Nobody /\ revoked' = revoked \cup {k}
    /\ UNCHANGED <<asked, pc, conn, tables, off, seen>>

-----------------------------------------------------------------------------
DbStep(c) ==
    \/ Checkout(c)
    \/ Look(c) \/ Touch(c) \/ Reread(c) \/ LogRow(c)
    \/ Probe(c) \/ Insert(c) \/ Duplicate(c) \/ CommitUser(c) \/ Refresh(c)
    \/ CommitAdmin(c) \/ Find(c) \/ Issue(c)

ClientStep(c) ==
    \/ ChatArrives(c) \/ Enter(c) \/ Infer(c) \/ Answer(c)
    \/ DbStep(c) \/ Fail(c)

Next ==
    \/ \E c \in Clients : ClientStep(c)
    \/ \E u \in Makers : Deactivate(u)
    \/ \E k \in KeyMakers : Revoke(k)

Spec == Init /\ [][Next]_vars

\* The database answers and asyncio hands a free connection on; nothing has to
\* arrive, and an inference may take for ever.
FairSpec == Spec /\ \A c \in Clients : WF_vars(DbStep(c))

-----------------------------------------------------------------------------
(* Types; the gateway never holds more connections than its pool has, nobody
   holds one outside a session, and only a session has uncommitted rows. *)
TypeOK ==
    /\ name \in [Makers \cup Keyers -> Names] /\ mail \in [Makers -> Names]
    /\ uses \in [Chats -> KeyMakers \cup {Nobody}]
    /\ pc \in [Clients -> {"new", "serving", "answering"} \cup DbSteps \cup Ends]
    /\ conn \subseteq {c \in Clients : pc[c] \in DbSteps}
    /\ Cardinality(conn \ Scripts) <= Capacity
    /\ fresh \subseteq conn \cap Makers /\ users \subseteq Makers \ fresh
    /\ keys \in [KeyMakers -> Makers \cup {Nobody}]
    /\ used \subseteq KeyMakers /\ off \subseteq Makers /\ revoked \subseteq KeyMakers
    /\ good \subseteq Chats /\ barred \subseteq Chats

(* docs/create_api.md:22-52, "identified by a unique username and email", 409
   "if the username or email already exists": whatever creations, bootstraps
   and failures run beside each other, users stay unique, and every answer
   says what the tables hold. *)
UsersUnique == \A m, n \in users : ~Clash(m, n)
AnswersHold ==
    /\ UsersUnique
    /\ \A m \in Makers :
          /\ pc[m] = "created" => m \in users
          /\ pc[m] = "conflict" => m \notin users /\ \E u \in users : Clash(u, m)
          /\ pc[m] = "present" => \E u \in users : name[u] = Admin
    /\ \A k \in Keyers :
          pc[k] = "issued" => keys[k] \in users /\ name[keys[k]] = name[k]

(* init_db.py: an administrator is never left without a key, wherever the
   script dies and however many run; the next run would not make one up. *)
BootstrapWhole == \A b \in Bootstraps : b \in users <=> keys[b] = b

(* Keys count as they are: a request that arrives after its key or the owner
   was turned off is never served, one whose key is valid from before its
   arrival on is never refused, and a key that was accepted is marked used. *)
Accepted == {c \in Chats : pc[c] \in {"rereading", "serving", "logging", "served"}}
KeysCurrent ==
    /\ Accepted \cap barred = {}
    /\ \A c \in good : pc[c] = "refused" => ~Live(uses[c])
    /\ \A c \in Accepted : uses[c] \in used

(* Every answer is one an atomic registry could have given between the request
   and the answer: the key that is touched after it was looked at, the row that
   waits for its commit and the key that is added to a user found before make
   no difference to anybody. *)
answerOf(c) ==
    IF pc[c] \in Ends THEN pc[c]
    ELSE IF pc[c] \in {"touching", "rereading", "serving", "logging"}
         THEN "admitted" ELSE "none"
Abstract == INSTANCE Registry WITH answer <- [c \in Clients |-> answerOf(c)]
ImplementsRegistry == Abstract!Spec

(* Sessions wait for two things, connections and each other's rows, and a
   session that waits for a row holds a connection.  Yet as long as anybody is
   about to use the database, somebody can: what NobodyStarves rests on. *)
Proceeds(c) ==
    /\ pc[c] \in DbSteps
    /\ IF c \in conn
       THEN \/ pc[c] # "inserting"
            \/ \E u \in users : Clash(u, c)
            \/ ~\E u \in fresh : Clash(u, c)
       ELSE c \in Scripts \/ Cardinality(conn \ Scripts) < Capacity
NoDeadlock ==
    (\E c \in Clients : pc[c] \in DbSteps) => \E c \in Clients : Proceeds(c)

(* auth/middleware.py:21, "DB connection released before inference starts":
   whoever needs a connection gets through, though inferences that run never
   end, and nobody who holds a connection or a row waits for another one. *)
NobodyStarves == \A c \in Clients : pc[c] \in DbSteps ~> pc[c] \notin DbSteps
=============================================================================

------------------------------- MODULE Registry -------------------------------
(***************************************************************************)
(* What the gateway promises about users and keys, whatever its sessions,  *)
(* transactions and scripts: each request takes effect at once, between    *)
(* its arrival and its answer.  A user is registered only beside users it  *)
(* does not clash with, an administrator together with the first key; a    *)
(* key is issued to a user there is; a chat is admitted or denied as its   *)
(* key is at that moment, and never denied once it is admitted.            *)
(***************************************************************************)
CONSTANTS Chats, Creators, Keyers, Bootstraps, Scripts, Names, Admin, Nobody

VARIABLES name, mail, uses,  \* what the clients ask for
          users,             \* registered users, named for who registers them
          keys,              \* owners of the keys
          off, revoked,      \* users and keys that are turned off
          answer             \* what a client has been told

asked == <<name, mail, uses>>
vars == <<asked, users, keys, off, revoked, answer>>

Makers == Creators \cup Bootstraps
KeyMakers == Keyers \cup Bootstraps
Clients == Chats \cup Makers \cup Keyers

Init ==
    /\ name \in [Makers \cup Keyers -> Names] /\ mail \in [Makers -> Names]
    /\ \A b \in Bootstraps : name[b] = Admin /\ mail[b] = Admin
    /\ uses \in [Chats -> KeyMakers \cup {Nobody}]
    /\ users = {} /\ off = {} /\ revoked = {}
    /\ keys = [k \in KeyMakers |-> Nobody]
    /\ answer = [c \in Clients |-> "none"]

Live(key) == /\ key \in KeyMakers /\ keys[key] \in users
             /\ key \notin revoked /\ keys[key] \notin off
Clash(m, n) == m # n /\ (name[m] = name[n] \/ mail[m] = mail[n])

Tell(c, what) ==
    /\ answer[c] = "none" /\ answer' = [answer EXCEPT ![c] = what]
    /\ UNCHANGED <<asked, users, keys, off, revoked>>

Admit(c) == c \in Chats /\ Live(uses[c]) /\ Tell(c, "admitted")
Deny(c) == c \in Chats /\ ~Live(uses[c]) /\ Tell(c, "refused")
TurnAway(c) == c \notin Chats \cup Scripts /\ Tell(c, "refused")

Serve(c) ==
    /\ answer[c] = "admitted" /\ answer' = [answer EXCEPT ![c] = "served"]
    /\ UNCHANGED <<asked, users, keys, off, revoked>>

Register(m) ==
    /\ m \in Makers \ users /\ answer[m] = "none"
    /\ ~\E u \in users : Clash(u, m)
    /\ users' = users \cup {m}
    /\ keys' = IF m \in Bootstraps THEN [keys EXCEPT ![m] = m] ELSE keys
    /\ UNCHANGED <<asked, off, revoked, answer>>

Confirm(m) ==
    /\ m \in users
    /\ Tell(m, IF m \in Creators THEN "created" ELSE "bootstrapped")
Reject(m) ==
    /\ m \in Creators \ users /\ \E u \in users : Clash(u, m)
    /\ Tell(m, "conflict")
Found(b) ==
    /\ b \in Bootstraps \ users /\ \E u \in users : name[u] = Admin
    /\ Tell(b, "present")

IssueKey(k) ==
    /\ k \in Keyers /\ answer[k] = "none" /\ keys[k] = Nobody
    /\ \E u \in users : name[u] = name[k] /\ keys' = [keys EXCEPT ![k] = u]
    /\ UNCHANGED <<asked, users, off, revoked, answer>>

Show(k) == k \in Keyers /\ keys[k] # Nobody /\ Tell(k, "issued")
NoUser(k) ==
    /\ k \in Keyers /\ ~\E u \in users : name[u] = name[k]
    /\ Tell(k, "missing")

\* A client may be left without its answer, its request done or not.
Break(c) ==
    /\ answer[c] \in {"none", "admitted"}
    /\ answer' = [answer EXCEPT ![c] = "error"]
    /\ UNCHANGED <<asked, users, keys, off, revoked>>

Deactivate(u) ==
    /\ u \in users /\ off' = off \cup {u}
    /\ UNCHANGED <<asked, users, keys, revoked, answer>>
Revoke(k) ==
    /\ keys[k] # Nobody /\ revoked' = revoked \cup {k}
    /\ UNCHANGED <<asked, users, keys, off, answer>>

Next ==
    \/ \E c \in Clients :
          \/ Admit(c) \/ Deny(c) \/ TurnAway(c) \/ Serve(c)
          \/ Register(c) \/ Confirm(c) \/ Reject(c) \/ Found(c)
          \/ IssueKey(c) \/ Show(c) \/ NoUser(c) \/ Break(c)
    \/ \E u \in Makers : Deactivate(u)
    \/ \E k \in KeyMakers : Revoke(k)

Spec == Init /\ [][Next]_vars
=============================================================================

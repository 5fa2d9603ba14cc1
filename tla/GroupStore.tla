----------------------------- MODULE GroupStore -----------------------------
(***************************************************************************)
(* A proxy group that draws its members from a subscription: its record    *)
(* and the subscription's nodes in the database, the objects the running   *)
(* matcher routes with, and everyone who writes the record: admin          *)
(* requests, which hold the server's lock for the write (one of them reads *)
(* before it locks), the periodic health check, which writes back the      *)
(* object it captured at startup, and the refresh of the subscription.     *)
(* The last two take no lock.  A writer's change notification runs in the  *)
(* writer, after the write.                                                *)
(***************************************************************************)
EXTENDS Naturals, FiniteSets

CONSTANTS Nodes,      \* nodes a subscription may offer
          Urls,       \* addresses a subscription may have
          Admins,     \* concurrent admin requests
          MaxEdits,   \* bound: admin changes of the group
          MaxRounds   \* bound: health checks plus refreshes

Nobody == "nobody"

ASSUME GroupAssumption ==
    /\ Urls # {} /\ Nodes # {} /\ MaxEdits \in Nat /\ MaxRounds \in Nat
    /\ Admins \intersect {"health", "refresh", "test", Nobody} = {}

Absent == [edit |-> 0, active |-> "absent"]
First == [edit |-> 0, active |-> Nobody]
Home == CHOOSE u \in Urls : TRUE
Contents == [edit : 0..MaxEdits, active : Nodes \union {Nobody}] \union {Absent}
NoPool == [set |-> {}, from |-> Home]
Idle_ == [pc |-> "idle", op |-> "-", copy |-> Absent, edit |-> 0, pool |-> NoPool]
Threads == Admins \union {"health", "refresh", "test"}

VARIABLES group,     \* the stored record
          nodes,     \* the stored nodes of the subscription, and where they came from
          url,       \* the stored subscription's address
          routing,   \* the content of the group object the matcher routes with
          captured,  \* the matcher still routes with the object of startup
          health,    \* what the checks recorded in the object of startup
          offered,   \* the nodes the matcher's subscription has
          at,        \* per thread: where it is and what it read
          lock,      \* who holds the admin server's lock
          edits, rounds,
          latest     \* what the last finished admin change asked for

groupVars == <<group, nodes, url, routing, captured, health, offered, at, lock, edits, rounds, latest>>

GroupInit ==
    /\ group = First /\ routing = First /\ captured = TRUE /\ latest = First
    /\ url = Home /\ nodes = [set |-> Nodes, from |-> Home] /\ offered = nodes
    /\ health = [n \in Nodes |-> "new"]
    /\ at = [t \in Threads |-> Idle_]
    /\ lock = Nobody /\ edits = 0 /\ rounds = 0

Go(t, pc) == at' = [at EXCEPT ![t].pc = pc]

-----------------------------------------------------------------------------
(* The matcher's side of a notification, in the thread that wrote.  A put  *)
(* is read again from the database, a delete is taken as it is.            *)

PutSeen(t) ==
    IF group = Absent THEN UNCHANGED <<routing, captured>>
    ELSE routing' = group /\ captured' = FALSE

DeleteSeen == routing' = Absent /\ captured' = FALSE

NodesSeen_Never == UNCHANGED offered

NodesSeen == offered' = nodes

\* A change of the subscription reloads the stored nodes too.
OnConfigChange(t) ==
    /\ at[t].pc \in {"put", "delete", "nodes"}
    /\ \/ at[t].pc = "put" /\ PutSeen(t) /\ UNCHANGED offered
       \/ at[t].pc = "delete" /\ DeleteSeen /\ UNCHANGED offered
       \/ at[t].pc = "nodes" /\ NodesSeen /\ UNCHANGED <<routing, captured>>
    /\ at' = [at EXCEPT ![t] = IF t = "refresh" /\ at[t].pc = "nodes" THEN [@ EXCEPT !.pc = "write"] ELSE Idle_]
    /\ lock' = IF lock = t THEN Nobody ELSE lock
    /\ UNCHANGED <<group, nodes, url, health, edits, rounds, latest>>

-----------------------------------------------------------------------------
(* Admin requests.                                                         *)

\* A save, a switch on or off and a choice of member all write the record
\* they read.  The choice (PUT subscription) reads it before it locks.
ReadGroup(a, op) ==
    /\ at[a].pc = "idle" /\ edits < MaxEdits
    /\ op \in {"save", "toggle"} => lock = Nobody
    /\ op # "save" => group # Absent
    /\ at' = [at EXCEPT ![a] = [pc |-> "read", op |-> op, copy |-> group, edit |-> edits + 1, pool |-> NoPool]]
    /\ lock' = IF op = "choose" THEN lock ELSE a
    /\ edits' = edits + 1
    /\ UNCHANGED <<group, nodes, url, routing, captured, health, offered, rounds, latest>>

\* A saved group keeps the active member unless it names another.
Written(a, n) ==
    [edit |-> at[a].edit, active |-> IF at[a].op = "choose" THEN n
                                ELSE IF at[a].copy = Absent THEN Nobody ELSE at[a].copy.active]

WriteGroup(a, n) ==
    /\ at[a].pc = "read" /\ lock \in {a, Nobody}
    /\ at[a].op # "choose" => n = Nobody
    /\ group' = Written(a, n) /\ latest' = group'
    /\ at' = [at EXCEPT ![a].pc = "put", ![a].copy = group']
    /\ lock' = a
    /\ UNCHANGED <<nodes, url, routing, captured, health, offered, edits, rounds>>

DeleteGroup(a) ==
    /\ at[a].pc = "idle" /\ lock = Nobody /\ edits < MaxEdits /\ group # Absent
    /\ group' = Absent /\ latest' = Absent
    /\ Go(a, "delete")
    /\ lock' = a
    /\ edits' = edits + 1
    /\ UNCHANGED <<nodes, url, routing, captured, health, offered, rounds>>

\* The nodes just read are stored again when the address is the same; when it
\* is not, the new, empty pool is not stored.
PostSubscription(a, u) ==
    /\ at[a].pc = "idle" /\ lock = Nobody /\ edits < MaxEdits
    /\ url' = u
    /\ at' = [at EXCEPT ![a].pc = IF u = url THEN "restore" ELSE "nodes", ![a].pool = IF u = url THEN nodes ELSE NoPool]
    /\ lock' = a
    /\ edits' = edits + 1
    /\ UNCHANGED <<group, nodes, routing, captured, health, offered, rounds, latest>>

RestoreNodes(a) ==
    /\ at[a].pc = "restore"
    /\ nodes' = at[a].pool
    /\ at' = [at EXCEPT ![a].pc = "nodes", ![a].pool = NoPool]
    /\ UNCHANGED <<group, url, routing, captured, health, offered, lock, edits, rounds, latest>>

-----------------------------------------------------------------------------
(* The health check: the members of the object of startup are tested, the  *)
(* results recorded in it, and the object stored.                          *)

CheckGroupHealth ==
    /\ at["health"].pc = "idle" /\ rounds < MaxRounds
    /\ \E r \in [offered.set -> {"up", "down"}] :
          health' = [n \in Nodes |-> IF n \in offered.set THEN r[n] ELSE health[n]]
    /\ Go("health", "write")
    /\ rounds' = rounds + 1
    /\ UNCHANGED <<group, nodes, url, routing, captured, offered, lock, edits, latest>>

PersistGroup ==
    /\ at["health"].pc = "write"
    /\ group' = First
    /\ at' = [at EXCEPT !["health"].pc = "put", !["health"].copy = First]
    /\ UNCHANGED <<nodes, url, routing, captured, health, offered, lock, edits, rounds, latest>>

\* A test an administrator asks for works on a copy of the stored group, whose
\* members it cannot resolve, and stores that copy again, without the lock.
CheckGroupTest ==
    /\ at["test"].pc = "idle" /\ rounds < MaxRounds /\ group # Absent
    /\ at' = [at EXCEPT !["test"].pc = "write", !["test"].copy = group]
    /\ rounds' = rounds + 1
    /\ UNCHANGED <<group, nodes, url, routing, captured, health, offered, lock, edits, latest>>

PersistTest ==
    /\ at["test"].pc = "write"
    /\ group' = at["test"].copy
    /\ Go("test", "put")
    /\ UNCHANGED <<nodes, url, routing, captured, health, offered, lock, edits, rounds, latest>>

-----------------------------------------------------------------------------
(* The refresh of the subscription, periodic (from the address it had at   *)
(* startup) or asked for (from the stored one).  A fetch that fails        *)
(* changes nothing that is stored.                                         *)

\* Where the nodes are fetched from.
Source(u) == u \in {Home, url}

\* The groups of the subscription are listed, as stored.
Listed == group

RefreshFetch(u, s) ==
    /\ at["refresh"].pc = "idle" /\ rounds < MaxRounds
    /\ Source(u)
    /\ at' = [at EXCEPT !["refresh"].pc = "nodes", !["refresh"].copy = Listed]
    /\ nodes' = [set |-> s, from |-> u]
    /\ rounds' = rounds + 1
    /\ UNCHANGED <<group, url, routing, captured, health, offered, lock, edits, latest>>

\* The group was listed without the subscription's nodes: no member is found,
\* and the active one is forgotten.
RefreshGroup ==
    /\ at["refresh"].pc = "write"
    /\ \/ at["refresh"].copy = Absent /\ at' = [at EXCEPT !["refresh"] = Idle_] /\ UNCHANGED group
       \/ /\ at["refresh"].copy # Absent
          /\ group' = [at["refresh"].copy EXCEPT !.active = Nobody]
          /\ at' = [at EXCEPT !["refresh"].pc = "put", !["refresh"].copy = group']
    /\ UNCHANGED <<nodes, url, routing, captured, health, offered, lock, edits, rounds, latest>>

GroupNext ==
    \/ \E t \in Threads : OnConfigChange(t)
    \/ \E a \in Admins : \/ \E op \in {"save", "toggle", "choose"} : ReadGroup(a, op)
                         \/ \E n \in nodes.set \union {Nobody} : WriteGroup(a, n)
                         \/ DeleteGroup(a) \/ RestoreNodes(a) \/ \E u \in Urls : PostSubscription(a, u)
    \/ CheckGroupHealth \/ PersistGroup \/ CheckGroupTest \/ PersistTest
    \/ \E u \in Urls, s \in SUBSET Nodes \ {{}} : RefreshFetch(u, s)
    \/ RefreshGroup

GroupSpec == GroupInit /\ [][GroupNext]_groupVars

-----------------------------------------------------------------------------
(* Properties.                                                             *)

GroupTypeOK ==
    /\ group \in Contents /\ routing \in Contents /\ latest \in Contents
    /\ health \in [Nodes -> {"new", "up", "down"}] /\ captured \in BOOLEAN
    /\ lock \in Admins \union {Nobody} /\ rounds <= MaxRounds /\ edits <= MaxEdits
    /\ \A t \in Threads : at[t].pc \in {"idle", "read", "write", "put", "delete", "nodes", "restore"}

Quiet == \A t \in Threads : at[t].pc \notin {"put", "delete", "nodes"}

\* Whatever the order in which concurrent writers store and notify, once every
\* notification has been handled the matcher does not route with a group that
\* is not the stored one: the handler reads the database again instead of
\* trusting the event.
RoutingSound == Quiet => routing \in {Absent, group}

\* The same for the nodes of the subscription, which two threads write.
NodesSound == Quiet => offered = nodes

\* What an administrator saved stays until an administrator changes it.
EditsLast == at["health"].pc \notin {"write"} => group.edit = latest.edit /\ (group = Absent <=> latest = Absent)

\* A member the last check found dead is dead for routing: load-balance and
\* best groups skip it.
DeadSkipped ==
    at["health"].pc = "idle" /\ routing # Absent =>
        \A n \in Nodes : health[n] = "down" => captured

\* A refresh keeps the active member when the node still exists.
ActiveKept ==
    [][RefreshGroup /\ group' # group => group'.active = at["refresh"].copy.active
                                           \/ at["refresh"].copy.active \notin nodes.set]_groupVars

\* The nodes that are offered come from the subscription's address.
NodesOfUrl == Quiet => offered.from = url

\* GroupsSound: what connections are routed by and what subscriptions have delivered is
\* what is stored.
GroupsSound == GroupTypeOK /\ RoutingSound /\ NodesSound
=============================================================================

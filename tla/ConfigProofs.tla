----------------------------- MODULE ConfigProofs -----------------------------
(***************************************************************************)
(* What the gateway runs with follows what is stored: proofs for proxy     *)
(* groups, routing rules and reverse clients, for any numbers of nodes,    *)
(* names, rules, configs and concurrent admin requests, any number of      *)
(* edits, refreshes and health checks.                                     *)
(*                                                                         *)
(* The properties speak of moments when no notification is outstanding or  *)
(* no request is under way and are not inductive.  GroupInv, RuleInv and   *)
(* AdminInv say what holds in between.  For a group: whoever made the      *)
(* stored record and the routed one differ still has its notification to   *)
(* deliver, and if the record is gone one of those who do is a deletion,   *)
(* because a put that finds no record changes nothing.                     *)
(***************************************************************************)
EXTENDS GroupStore, RuleStore, ReverseAdmin, SeqLemmas, TLAPS

-----------------------------------------------------------------------------
(* The inductive invariant.                                                *)

Steps == {"idle", "read", "write", "put", "delete", "nodes", "restore"}
Pools == [set : SUBSET Nodes, from : Urls]
Positions == [pc : Steps, op : {"-", "save", "toggle", "choose"}, copy : Contents,
              edit : 0..MaxEdits, pool : Pools]

TypeInv ==
    /\ group \in Contents /\ routing \in Contents /\ latest \in Contents
    /\ health \in [Nodes -> {"new", "up", "down"}] /\ captured \in BOOLEAN
    /\ lock \in Admins \union {Nobody}
    /\ nodes \in Pools /\ offered \in Pools /\ url \in Urls
    /\ edits \in 0..MaxEdits /\ rounds \in 0..MaxRounds
    /\ at \in [Threads -> Positions]

\* A record about to be written is a record: an admin's carries its edit's
\* number, a test's was read from a group that existed.
WritesRecords ==
    /\ \A a \in Admins : at[a].pc = "read" => at[a].edit # 0
    /\ at["test"].pc = "write" => at["test"].copy # Absent

RoutingFollows ==
    /\ routing \in {Absent, group} \/ \E t \in Threads : at[t].pc \in {"put", "delete"}
    /\ group = Absent => routing = Absent \/ \E t \in Threads : at[t].pc = "delete"

NodesFollow == offered = nodes \/ \E t \in Threads : at[t].pc = "nodes"

GroupInv == TypeInv /\ WritesRecords /\ RoutingFollows /\ NodesFollow

-----------------------------------------------------------------------------
(* Contents and positions.                                                 *)

\* Home is one of the addresses.
LEMMA HomeIsUrl == Home \in Urls
BY GroupAssumption DEF Home

\* The threads are the admin requests and three more, all different.
LEMMA ThreadsDiffer ==
    /\ "health" \in Threads /\ "refresh" \in Threads /\ "test" \in Threads
    /\ Admins \subseteq Threads /\ Nobody \notin Threads
    /\ \A a \in Admins : a # "health" /\ a # "refresh" /\ a # "test" /\ a # Nobody
BY GroupAssumption DEF Threads, Nobody

\* A record built from an edit's number and a member is a content, and no
\* edit number but zero gives the absent one.
LEMMA RecordIsContent ==
    ASSUME NEW e \in 0..MaxEdits, NEW n \in Nodes \union {Nobody}
    PROVE  /\ [edit |-> e, active |-> n] \in Contents
           /\ e # 0 => [edit |-> e, active |-> n] # Absent
           /\ n = Nobody => [edit |-> e, active |-> n] # Absent
BY GroupAssumption DEF Contents, Absent, Nobody

\* What a content other than the absent one is made of.
LEMMA ContentParts ==
    ASSUME NEW c \in Contents, c # Absent
    PROVE  c = [edit |-> c.edit, active |-> c.active] /\ c.edit \in 0..MaxEdits /\ c.active \in Nodes \union {Nobody}
BY DEF Contents

\* The contents the program starts from.
LEMMA Contents0 == Absent \in Contents /\ First \in Contents /\ First # Absent
BY GroupAssumption DEF Contents, Absent, First, Nobody

\* The idle position is a position.
LEMMA IdleTyped == Idle_ \in Positions /\ NoPool \in Pools
<1>1. NoPool \in Pools BY HomeIsUrl DEF NoPool, Pools
<1> QED BY <1>1, Contents0, GroupAssumption DEF Idle_, Positions, Steps

\* A thread that moves on with a copy of a content.
LEMMA MoveWithCopy ==
    ASSUME at \in [Threads -> Positions], NEW t \in Threads, NEW k \in Steps, NEW c \in Contents,
           at' = [at EXCEPT ![t].pc = k, ![t].copy = c]
    PROVE  /\ at' \in [Threads -> Positions] /\ at'[t].pc = k /\ at'[t].copy = c
           /\ \A s \in Threads : s # t => at'[s] = at[s]
BY DEF Positions

-----------------------------------------------------------------------------
\* The initial states satisfy the invariant.
LEMMA GroupInitInv == GroupInit => GroupInv
<1> SUFFICES ASSUME GroupInit PROVE GroupInv OBVIOUS
<1>1. nodes \in Pools BY HomeIsUrl DEF GroupInit, Pools
<1>2. TypeInv
  BY <1>1, HomeIsUrl, Contents0, IdleTyped, GroupAssumption DEF GroupInit, TypeInv
<1>3. \A t \in Threads : at[t] = Idle_ BY DEF GroupInit
<1>4. WritesRecords BY <1>3, ThreadsDiffer DEF WritesRecords, Idle_
<1>5. RoutingFollows BY Contents0 DEF GroupInit, RoutingFollows
<1> QED BY <1>2, <1>4, <1>5 DEF GroupInv, NodesFollow, GroupInit

\* The notification of a write is delivered: what it makes the matcher read
\* is what is stored now, whoever wrote last.
LEMMA OnConfigChangeInv == ASSUME GroupInv, NEW t \in Threads, OnConfigChange(t) PROVE GroupInv'
<1> USE ThreadsDiffer DEF GroupInv
<1>1. /\ at[t].pc \in {"put", "delete", "nodes"}
      /\ at' \in [Threads -> Positions]
      /\ at'[t].pc \in {"idle", "write"}
      /\ at'[t].pc = "write" => t = "refresh"
      /\ \A s \in Threads : s # t => at'[s] = at[s]
  BY IdleTyped DEF OnConfigChange, TypeInv, Idle_, Positions, Steps
<1>2. /\ group' = group /\ nodes' = nodes /\ url' = url /\ health' = health /\ edits' = edits
      /\ rounds' = rounds /\ latest' = latest /\ lock' \in {lock, Nobody}
  BY DEF OnConfigChange
<1>3. \/ at[t].pc = "put" /\ PutSeen(t) /\ offered' = offered
      \/ at[t].pc = "delete" /\ DeleteSeen /\ offered' = offered
      \/ at[t].pc = "nodes" /\ NodesSeen /\ routing' = routing /\ captured' = captured
  BY DEF OnConfigChange
<1>4. TypeInv'
  BY <1>1, <1>2, <1>3, Contents0 DEF TypeInv, PutSeen, DeleteSeen, NodesSeen
<1>5. WritesRecords' BY <1>1 DEF WritesRecords
<1>6. RoutingFollows' BY <1>1, <1>2, <1>3 DEF RoutingFollows, PutSeen, DeleteSeen
<1>7. NodesFollow' BY <1>1, <1>2, <1>3 DEF NodesFollow, NodesSeen
<1> QED BY <1>4, <1>5, <1>6, <1>7

\* A thread that moves and leaves its notification, if it had one, in place
\* disturbs nothing that depends on outstanding notifications.
LEMMA MovedOn ==
    ASSUME GroupInv, NEW t \in Threads, \A s \in Threads : s # t => at'[s] = at[s],
           at[t].pc \notin {"put", "delete", "nodes"},
           group' = group, nodes' = nodes, routing' = routing, offered' = offered
    PROVE  RoutingFollows' /\ NodesFollow'
<1>1. \A s \in Threads : at[s].pc \in {"put", "delete", "nodes"} => at'[s].pc = at[s].pc OBVIOUS
<1> QED BY <1>1 DEF GroupInv, RoutingFollows, NodesFollow

\* A thread that stores a record has its notification to deliver.
LEMMA StoredIsRouted ==
    ASSUME GroupInv, NEW t \in Threads, \A s \in Threads : s # t => at'[s] = at[s],
           at[t].pc \notin {"put", "delete", "nodes"}, at'[t].pc = "put", group' # Absent,
           nodes' = nodes, routing' = routing, offered' = offered
    PROVE  RoutingFollows' /\ NodesFollow'
<1>1. \A s \in Threads : at[s].pc \in {"put", "delete", "nodes"} => at'[s].pc = at[s].pc OBVIOUS
<1> QED BY <1>1 DEF GroupInv, RoutingFollows, NodesFollow

\* A thread that stores nodes has its notification to deliver.
LEMMA StoredNodes ==
    ASSUME GroupInv, NEW t \in Threads, \A s \in Threads : s # t => at'[s] = at[s],
           at[t].pc \notin {"put", "delete", "nodes"}, at'[t].pc = "nodes",
           group' = group, routing' = routing, offered' = offered
    PROVE  RoutingFollows' /\ NodesFollow'
<1>1. \A s \in Threads : at[s].pc \in {"put", "delete", "nodes"} => at'[s].pc = at[s].pc OBVIOUS
<1> QED BY <1>1 DEF GroupInv, RoutingFollows, NodesFollow

-----------------------------------------------------------------------------
(* Admin requests.                                                         *)

\* An admin request reads the group.
LEMMA ReadGroupInv ==
    ASSUME GroupInv, NEW a \in Admins, NEW op \in {"save", "toggle", "choose"}, ReadGroup(a, op) PROVE GroupInv'
<1> USE ThreadsDiffer DEF GroupInv
<1> DEFINE p == [pc |-> "read", op |-> op, copy |-> group, edit |-> edits + 1, pool |-> NoPool]
<1>1. at' = [at EXCEPT ![a] = p] BY DEF ReadGroup
<1>2. edits + 1 \in 1..MaxEdits /\ edits + 1 \in 0..MaxEdits BY GroupAssumption DEF ReadGroup, TypeInv
<1>3. p \in Positions
  <2> DEFINE e == edits + 1
  <2>1. e \in 0..MaxEdits BY <1>2
  <2> HIDE DEF e
  <2>2. [pc |-> "read", op |-> op, copy |-> group, edit |-> e, pool |-> NoPool] \in Positions
    BY <2>1, IdleTyped DEF Positions, Steps, TypeInv
  <2> QED BY <2>2 DEF e
<1>4. at' \in [Threads -> Positions] /\ at'[a] = p /\ \A s \in Threads : s # a => at'[s] = at[s]
  BY <1>1, <1>3 DEF TypeInv
<1>5. TypeInv' BY <1>2, <1>4 DEF TypeInv, ReadGroup
<1>6. WritesRecords' BY <1>2, <1>4 DEF WritesRecords
<1>7. RoutingFollows' /\ NodesFollow' BY <1>4, MovedOn DEF ReadGroup
<1> QED BY <1>5, <1>6, <1>7

\* An admin request writes the group it read.
LEMMA WriteGroupInv ==
    ASSUME GroupInv, NEW a \in Admins, NEW n \in nodes.set \union {Nobody}, WriteGroup(a, n) PROVE GroupInv'
<1> USE ThreadsDiffer DEF GroupInv
<1>1. at[a].edit \in 0..MaxEdits /\ at[a].edit # 0 /\ at[a].copy \in Contents
  BY DEF TypeInv, WritesRecords, WriteGroup, Positions
<1>2. PICK m \in Nodes \union {Nobody} : Written(a, n) = [edit |-> at[a].edit, active |-> m]
  <2>1. n \in Nodes \union {Nobody} BY DEF TypeInv, Pools
  <2>2. at[a].copy # Absent => at[a].copy.active \in Nodes \union {Nobody} BY <1>1, ContentParts
  <2> QED BY <2>1, <2>2 DEF Written
<1>3. group' \in Contents /\ group' # Absent /\ latest' = group'
  BY <1>1, <1>2, RecordIsContent DEF WriteGroup
<1>4. at' = [at EXCEPT ![a].pc = "put", ![a].copy = group'] BY DEF WriteGroup
<1>5. /\ at' \in [Threads -> Positions] /\ at'[a].pc = "put"
      /\ \A s \in Threads : s # a => at'[s] = at[s]
  BY <1>3, <1>4 DEF TypeInv, Positions, Steps
<1>6. TypeInv' BY <1>3, <1>5 DEF TypeInv, WriteGroup
<1>7. WritesRecords' BY <1>5 DEF WritesRecords
<1>8. RoutingFollows' /\ NodesFollow' BY <1>3, <1>5, StoredIsRouted DEF WriteGroup
<1> QED BY <1>6, <1>7, <1>8

\* An admin request deletes the group.
LEMMA DeleteGroupInv == ASSUME GroupInv, NEW a \in Admins, DeleteGroup(a) PROVE GroupInv'
<1> USE ThreadsDiffer DEF GroupInv
<1>1. at' = [at EXCEPT ![a].pc = "delete"] BY DEF DeleteGroup, Go
<1>2. /\ at' \in [Threads -> Positions] /\ at'[a].pc = "delete"
      /\ \A s \in Threads : s # a => at'[s] = at[s]
  BY <1>1 DEF TypeInv, Positions, Steps
<1>3. edits' \in 0..MaxEdits BY GroupAssumption DEF DeleteGroup, TypeInv
<1>4. TypeInv' BY <1>2, <1>3, Contents0 DEF TypeInv, DeleteGroup
<1>5. WritesRecords' BY <1>2 DEF WritesRecords
<1>6. RoutingFollows' BY <1>2 DEF RoutingFollows, DeleteGroup
<1>7. NodesFollow' BY <1>2 DEF NodesFollow, DeleteGroup
<1> QED BY <1>4, <1>5, <1>6, <1>7

\* An admin request saves the subscription, and its nodes if they stay.
LEMMA PostSubscriptionInv ==
    ASSUME GroupInv, NEW a \in Admins, NEW u \in Urls, PostSubscription(a, u) PROVE GroupInv'
<1> USE ThreadsDiffer DEF GroupInv
<1> DEFINE k == IF u = url THEN "restore" ELSE "nodes"
           q == IF u = url THEN nodes ELSE NoPool
<1>1. at' = [at EXCEPT ![a].pc = k, ![a].pool = q] BY DEF PostSubscription
<1>2. k \in {"restore", "nodes"} /\ q \in Pools BY IdleTyped DEF TypeInv
<1> HIDE DEF k, q
<1>3. /\ at' \in [Threads -> Positions] /\ at'[a].pc = k
      /\ \A s \in Threads : s # a => at'[s] = at[s]
  BY <1>1, <1>2 DEF TypeInv, Positions, Steps
<1>4. edits' \in 0..MaxEdits BY GroupAssumption DEF PostSubscription, TypeInv
<1>5. TypeInv' BY <1>3, <1>4 DEF TypeInv, PostSubscription
<1>6. WritesRecords' BY <1>2, <1>3 DEF WritesRecords
<1>7. RoutingFollows' /\ NodesFollow' BY <1>3, MovedOn DEF PostSubscription
<1> QED BY <1>5, <1>6, <1>7

\* The nodes read before the save are stored again, whatever a refresh put
\* there meanwhile.
LEMMA RestoreNodesInv == ASSUME GroupInv, NEW a \in Admins, RestoreNodes(a) PROVE GroupInv'
<1> USE ThreadsDiffer DEF GroupInv
<1>1. at' = [at EXCEPT ![a].pc = "nodes", ![a].pool = NoPool] BY DEF RestoreNodes
<1>2. /\ at' \in [Threads -> Positions] /\ at'[a].pc = "nodes"
      /\ \A s \in Threads : s # a => at'[s] = at[s]
  BY <1>1, IdleTyped DEF TypeInv, Positions, Steps
<1>3. nodes' \in Pools BY DEF RestoreNodes, TypeInv, Positions
<1>4. TypeInv' BY <1>2, <1>3 DEF TypeInv, RestoreNodes
<1>5. WritesRecords' BY <1>2 DEF WritesRecords
<1>6. RoutingFollows' /\ NodesFollow' BY <1>2, StoredNodes DEF RestoreNodes
<1> QED BY <1>4, <1>5, <1>6

-----------------------------------------------------------------------------
(* Health checks and refreshes.                                            *)

\* The periodic check records its results in the object of startup.
LEMMA CheckGroupHealthInv == ASSUME GroupInv, CheckGroupHealth PROVE GroupInv'
<1> USE ThreadsDiffer DEF GroupInv
<1>1. at' = [at EXCEPT !["health"].pc = "write"] BY DEF CheckGroupHealth, Go
<1>2. at' \in [Threads -> Positions] /\ \A s \in Threads : s # "health" => at'[s] = at[s]
  BY <1>1 DEF TypeInv, Positions, Steps
<1>3. health' \in [Nodes -> {"new", "up", "down"}] BY DEF CheckGroupHealth, TypeInv
<1>4. rounds' \in 0..MaxRounds BY GroupAssumption DEF CheckGroupHealth, TypeInv
<1>5. TypeInv' BY <1>2, <1>3, <1>4 DEF TypeInv, CheckGroupHealth
<1>6. WritesRecords' BY <1>2 DEF WritesRecords
<1>7. RoutingFollows' /\ NodesFollow' BY <1>2, MovedOn DEF CheckGroupHealth
<1> QED BY <1>5, <1>6, <1>7

\* The periodic check stores the object of startup.
LEMMA PersistGroupInv == ASSUME GroupInv, PersistGroup PROVE GroupInv'
<1> USE ThreadsDiffer DEF GroupInv
<1>1. at' = [at EXCEPT !["health"].pc = "put", !["health"].copy = First] BY DEF PersistGroup
<1>2. /\ at' \in [Threads -> Positions] /\ at'["health"].pc = "put"
      /\ \A s \in Threads : s # "health" => at'[s] = at[s]
  BY <1>1, Contents0, MoveWithCopy DEF TypeInv, Steps
<1>3. TypeInv' BY <1>2, Contents0 DEF TypeInv, PersistGroup
<1>4. WritesRecords' BY <1>2 DEF WritesRecords
<1>5. RoutingFollows' /\ NodesFollow' BY <1>2, StoredIsRouted, Contents0 DEF PersistGroup
<1> QED BY <1>3, <1>4, <1>5

\* A test an administrator asks for reads the stored group.
LEMMA CheckGroupTestInv == ASSUME GroupInv, CheckGroupTest PROVE GroupInv'
<1> USE ThreadsDiffer DEF GroupInv
<1>1. at' = [at EXCEPT !["test"].pc = "write", !["test"].copy = group] BY DEF CheckGroupTest
<1>2. /\ at' \in [Threads -> Positions] /\ at'["test"].copy = group
      /\ \A s \in Threads : s # "test" => at'[s] = at[s]
  BY <1>1, MoveWithCopy DEF TypeInv, Steps
<1>3. rounds' \in 0..MaxRounds BY GroupAssumption DEF CheckGroupTest, TypeInv
<1>4. TypeInv' BY <1>2, <1>3 DEF TypeInv, CheckGroupTest
<1>5. WritesRecords' BY <1>2 DEF WritesRecords, CheckGroupTest
<1>6. RoutingFollows' /\ NodesFollow' BY <1>2, MovedOn DEF CheckGroupTest
<1> QED BY <1>4, <1>5, <1>6

\* The test stores the copy it read, even if the group is gone by now.
LEMMA PersistTestInv == ASSUME GroupInv, PersistTest PROVE GroupInv'
<1> USE ThreadsDiffer DEF GroupInv
<1>1. at' = [at EXCEPT !["test"].pc = "put"] BY DEF PersistTest, Go
<1>2. /\ at' \in [Threads -> Positions] /\ at'["test"].pc = "put"
      /\ \A s \in Threads : s # "test" => at'[s] = at[s]
  BY <1>1 DEF TypeInv, Positions, Steps
<1>3. group' \in Contents /\ group' # Absent BY DEF PersistTest, TypeInv, Positions, WritesRecords
<1>4. TypeInv' BY <1>2, <1>3 DEF TypeInv, PersistTest
<1>5. WritesRecords' BY <1>2 DEF WritesRecords
<1>6. RoutingFollows' /\ NodesFollow' BY <1>2, <1>3, StoredIsRouted DEF PersistTest
<1> QED BY <1>4, <1>5, <1>6

\* A refresh stores the nodes it fetched.
LEMMA RefreshFetchInv ==
    ASSUME GroupInv, NEW u \in Urls, NEW s \in SUBSET Nodes \ {{}}, RefreshFetch(u, s) PROVE GroupInv'
<1> USE ThreadsDiffer DEF GroupInv
<1>1. at' = [at EXCEPT !["refresh"].pc = "nodes", !["refresh"].copy = group] BY DEF RefreshFetch, Listed
<1>2. /\ at' \in [Threads -> Positions] /\ at'["refresh"].pc = "nodes"
      /\ \A r \in Threads : r # "refresh" => at'[r] = at[r]
  BY <1>1, MoveWithCopy DEF TypeInv, Steps
<1>3. nodes' \in Pools BY DEF RefreshFetch, Pools
<1>4. rounds' \in 0..MaxRounds BY GroupAssumption DEF RefreshFetch, TypeInv
<1>5. TypeInv' BY <1>2, <1>3, <1>4 DEF TypeInv, RefreshFetch
<1>6. WritesRecords' BY <1>2 DEF WritesRecords
<1>7. RoutingFollows' /\ NodesFollow' BY <1>2, StoredNodes DEF RefreshFetch
<1> QED BY <1>5, <1>6, <1>7

\* A refresh stores the group it listed, without its active member.
LEMMA RefreshGroupInv == ASSUME GroupInv, RefreshGroup PROVE GroupInv'
<1> USE ThreadsDiffer DEF GroupInv
<1> DEFINE c == at["refresh"].copy
<1>0. c \in Contents /\ at["refresh"].pc = "write" BY DEF RefreshGroup, TypeInv, Positions
<1>1. CASE c = Absent
  <2>1. at' = [at EXCEPT !["refresh"] = Idle_] /\ group' = group BY <1>1 DEF RefreshGroup
  <2>2. at' \in [Threads -> Positions] /\ \A r \in Threads : r # "refresh" => at'[r] = at[r]
    BY <2>1, IdleTyped DEF TypeInv
  <2>3. TypeInv' BY <2>1, <2>2 DEF TypeInv, RefreshGroup
  <2>4. WritesRecords' BY <2>2 DEF WritesRecords
  <2>5. RoutingFollows' /\ NodesFollow' BY <1>0, <2>1, <2>2, MovedOn DEF RefreshGroup
  <2> QED BY <2>3, <2>4, <2>5
<1>2. CASE c # Absent
  <2>1. at' = [at EXCEPT !["refresh"].pc = "put", !["refresh"].copy = group']
        /\ group' = [c EXCEPT !.active = Nobody]
    BY <1>2 DEF RefreshGroup
  <2>2. c = [edit |-> c.edit, active |-> c.active] /\ c.edit \in 0..MaxEdits BY <1>0, <1>2, ContentParts
  <2>3. group' = [edit |-> c.edit, active |-> Nobody] BY <2>1, <2>2
  <2>4. group' \in Contents /\ group' # Absent BY <2>2, <2>3, RecordIsContent
  <2>5. /\ at' \in [Threads -> Positions] /\ at'["refresh"].pc = "put"
        /\ \A r \in Threads : r # "refresh" => at'[r] = at[r]
    BY <2>1, <2>4, MoveWithCopy DEF TypeInv, Steps
  <2>6. TypeInv' BY <2>4, <2>5 DEF TypeInv, RefreshGroup
  <2>7. WritesRecords' BY <2>5 DEF WritesRecords
  <2>8. RoutingFollows' /\ NodesFollow' BY <1>0, <2>4, <2>5, StoredIsRouted DEF RefreshGroup
  <2> QED BY <2>6, <2>7, <2>8
<1> QED BY <1>1, <1>2

-----------------------------------------------------------------------------
(* The theorem.                                                            *)

\* Every step of any thread preserves the invariant.
LEMMA GroupStep == ASSUME GroupInv, [GroupNext]_groupVars PROVE GroupInv'
<1>1. CASE UNCHANGED groupVars
  BY <1>1 DEF groupVars, GroupInv, TypeInv, WritesRecords, RoutingFollows, NodesFollow
<1>2. CASE \E t \in Threads : OnConfigChange(t) BY <1>2, OnConfigChangeInv
<1>3. CASE \E a \in Admins : \E op \in {"save", "toggle", "choose"} : ReadGroup(a, op) BY <1>3, ReadGroupInv
<1>4. CASE \E a \in Admins : \E n \in nodes.set \union {Nobody} : WriteGroup(a, n) BY <1>4, WriteGroupInv
<1>5. CASE \E a \in Admins : DeleteGroup(a) \/ RestoreNodes(a) BY <1>5, DeleteGroupInv, RestoreNodesInv
<1>6. CASE \E a \in Admins : \E u \in Urls : PostSubscription(a, u) BY <1>6, PostSubscriptionInv
<1>7. CASE CheckGroupHealth \/ PersistGroup \/ CheckGroupTest \/ PersistTest
  BY <1>7, CheckGroupHealthInv, PersistGroupInv, CheckGroupTestInv, PersistTestInv
<1>8. CASE \E u \in Urls, s \in SUBSET Nodes \ {{}} : RefreshFetch(u, s) BY <1>8, RefreshFetchInv
<1>9. CASE RefreshGroup BY <1>9, RefreshGroupInv
<1> QED BY <1>1, <1>2, <1>3, <1>4, <1>5, <1>6, <1>7, <1>8, <1>9 DEF GroupNext

\* With no notification outstanding the invariant says what GroupsSound says.
LEMMA GroupInvSound == GroupInv => GroupsSound
<1> SUFFICES ASSUME GroupInv PROVE GroupsSound OBVIOUS
<1>1. GroupTypeOK BY GroupAssumption DEF GroupInv, TypeInv, GroupTypeOK, Positions, Steps
<1>2. RoutingSound BY DEF GroupInv, RoutingFollows, RoutingSound, Quiet
<1>3. NodesSound BY DEF GroupInv, NodesFollow, NodesSound, Quiet
<1> QED BY <1>1, <1>2, <1>3 DEF GroupsSound

\* However admin requests, health checks, tests and refreshes interleave their
\* reads, writes and notifications, and whether or not they hold the server's
\* lock: once every notification is handled the matcher routes with the stored
\* group or with none, and offers the stored nodes (notifyChanges in db/notify.go).
THEOREM GroupsAreSound == GroupSpec => []GroupsSound
<1>1. GroupInit => GroupInv BY GroupInitInv
<1>2. GroupInv /\ [GroupNext]_groupVars => GroupInv' BY GroupStep
<1>3. GroupInv => GroupsSound BY GroupInvSound
<1> QED BY <1>1, <1>2, <1>3, PTL DEF GroupSpec

-----------------------------------------------------------------------------
(* Routing rules, for any numbers of names, holders, sessions and rules.   *)

\* t is s with e put in at k.
Inserted(t, s, k, e) ==
    /\ Len(t) = Len(s) + 1 /\ t[k] = e
    /\ \A i \in 1 .. Len(s) : (i < k => t[i] = s[i]) /\ (i >= k => t[i + 1] = s[i])

LEMMA InsertAtInserts ==
    ASSUME NEW T, NEW s \in Seq(T), NEW e \in T, NEW k \in 1 .. (Len(s) + 1)
    PROVE  InsertAt(s, k, e) \in Seq(T) /\ Inserted(InsertAt(s, k, e), s, k, e)
<1>1. Len(s) \in Nat /\ \A i \in 1 .. Len(s) : s[i] \in T BY LenProperties, ElementOfSeq
<1>2. PICK u : u = SubSeq(s, 1, k - 1) OBVIOUS
<1>3. PICK v : v = SubSeq(s, k, Len(s)) OBVIOUS
<1>4. u \in Seq(T) /\ Len(u) = k - 1 /\ \A i \in 1 .. (k - 1) : u[i] = s[i]
  BY <1>1, <1>2, SubSeqProperties
<1>5. v \in Seq(T) /\ Len(v) = Len(s) - k + 1 /\ \A i \in 1 .. (Len(s) - k + 1) : v[i] = s[k + i - 1]
  BY <1>1, <1>3, SubSeqProperties
<1>6. <<e>> \in Seq(T) /\ Len(<<e>>) = 1 /\ <<e>>[1] = e OBVIOUS
<1>7. PICK w : w = u \o <<e>> OBVIOUS
<1>8. /\ w \in Seq(T) /\ Len(w) = k
      /\ \A i \in 1 .. k : w[i] = IF i <= k - 1 THEN u[i] ELSE <<e>>[i - (k - 1)]
  BY <1>1, <1>4, <1>6, <1>7, ConcatProperties
<1>9. w[k] = e /\ \A i \in 1 .. (k - 1) : w[i] = s[i] BY <1>1, <1>4, <1>6, <1>8
<1>10. PICK t : t = w \o v OBVIOUS
<1>11. /\ t \in Seq(T) /\ Len(t) = k + (Len(s) - k + 1)
       /\ \A i \in 1 .. (k + (Len(s) - k + 1)) : t[i] = IF i <= k THEN w[i] ELSE v[i - k]
  <2>1. /\ w \o v \in Seq(T) /\ Len(w \o v) = Len(w) + Len(v)
        /\ \A i \in 1 .. (Len(w) + Len(v)) : (w \o v)[i] = IF i <= Len(w) THEN w[i] ELSE v[i - Len(w)]
    BY <1>5, <1>8, ConcatProperties
  <2>2. PICK n : n = Len(s) - k + 1 OBVIOUS
  <2> QED BY <1>5, <1>8, <1>10, <2>1, <2>2
<1>12. Len(t) = Len(s) + 1 BY <1>1, <1>11
<1>13. t[k] = e BY <1>1, <1>9, <1>11
<1>14. ASSUME NEW i \in 1 .. Len(s) PROVE (i < k => t[i] = s[i]) /\ (i >= k => t[i + 1] = s[i])
  <2>1. CASE i < k
    <3>1. i \in 1 .. (k - 1) /\ i \in 1 .. (k + (Len(s) - k + 1)) /\ i <= k BY <1>1, <2>1
    <3> QED BY <1>1, <1>9, <1>11, <2>1, <3>1
  <2>2. CASE i >= k
    <3>1. i + 1 \in 1 .. (k + (Len(s) - k + 1)) /\ ~ (i + 1 <= k) BY <1>1, <2>2
    <3>2. (i + 1) - k \in 1 .. (Len(s) - k + 1) /\ k + ((i + 1) - k) - 1 = i BY <1>1, <2>2
    <3>3. t[i + 1] = v[(i + 1) - k] BY <1>11, <3>1
    <3>4. v[(i + 1) - k] = s[i] BY <1>5, <3>2
    <3> QED BY <1>1, <2>2, <3>3, <3>4
  <2> QED BY <1>1, <2>1, <2>2
<1>15. InsertAt(s, k, e) = t BY <1>2, <1>3, <1>7, <1>10 DEF InsertAt
<1> QED BY <1>11, <1>12, <1>13, <1>14, <1>15 DEF Inserted

LEMMA InsertedHolds ==
    ASSUME NEW T, NEW s \in Seq(T), NEW t \in Seq(T), NEW k \in 1 .. (Len(s) + 1), NEW e, Inserted(t, s, k, e)
    PROVE  /\ ToSet(t) = ToSet(s) \cup {e}
           /\ IsInjective(s) /\ e \notin ToSet(s) => IsInjective(t)
           /\ \A a, b \in 1 .. Len(s) : a < b => \E c, d \in 1 .. Len(t) : c < d /\ t[c] = s[a] /\ t[d] = s[b]
<1>1. Len(s) \in Nat /\ DOMAIN s = 1 .. Len(s) /\ DOMAIN t = 1 .. Len(t) BY LenProperties
<1> DEFINE P(i) == IF i < k THEN i ELSE i + 1
           Q(j) == IF j < k THEN j ELSE j - 1
<1>2. Len(t) = Len(s) + 1 /\ t[k] = e /\ k \in 1 .. Len(t) BY <1>1 DEF Inserted
<1>3. \A i \in 1 .. Len(s) : P(i) \in 1 .. Len(t) /\ t[P(i)] = s[i] BY <1>1, <1>2 DEF Inserted
<1>4. ASSUME NEW j \in 1 .. Len(t), j # k PROVE Q(j) \in 1 .. Len(s) /\ t[j] = s[Q(j)]
  <2>1. Q(j) \in 1 .. Len(s) /\ P(Q(j)) = j BY <1>1, <1>2, <1>4
  <2> HIDE DEF Q, P
  <2> QED BY <1>3, <2>1
<1>5. \A i, j \in 1 .. Len(s) : i < j => P(i) < P(j) BY <1>1
<1>6. \A i, j \in 1 .. Len(t) : i # k /\ j # k /\ i # j => Q(i) # Q(j) BY <1>1, <1>2
<1> HIDE DEF P, Q
<1>7. \A x : x \in ToSet(s) <=> \E i \in 1 .. Len(s) : s[i] = x BY ToSetType
<1>8. \A x : x \in ToSet(t) <=> \E i \in 1 .. Len(t) : t[i] = x BY ToSetType
<1>9. ToSet(t) = ToSet(s) \cup {e} BY <1>2, <1>3, <1>4, <1>7, <1>8
<1>10. ASSUME IsInjective(s), e \notin ToSet(s) PROVE IsInjective(t)
  <2> SUFFICES ASSUME NEW i \in 1 .. Len(t), NEW j \in 1 .. Len(t), t[i] = t[j], i # j PROVE FALSE
    BY <1>1 DEF IsInjective
  <2>1. CASE i = k \/ j = k BY <1>2, <1>4, <1>7, <1>10, <2>1
  <2>2. CASE i # k /\ j # k
    <3>1. Q(i) \in DOMAIN s /\ Q(j) \in DOMAIN s /\ s[Q(i)] = s[Q(j)] BY <1>1, <1>4, <2>2
    <3>2. Q(i) # Q(j) BY <1>6, <2>2
    <3> QED BY <1>10, <3>1, <3>2 DEF IsInjective
  <2> QED BY <2>1, <2>2
<1>11. ASSUME NEW a \in 1 .. Len(s), NEW b \in 1 .. Len(s), a < b
       PROVE  \E c, d \in 1 .. Len(t) : c < d /\ t[c] = s[a] /\ t[d] = s[b]
  BY <1>3, <1>5, <1>11
<1> QED BY <1>9, <1>10, <1>11

-----------------------------------------------------------------------------
(* The invariant.                                                          *)

RuleRecords == [target : Names, on : BOOLEAN]
ProxyRecords == [via : Names \cup {NoName}, on : BOOLEAN]
Entries == [from : {"rule", "session"}, what : Names \cup Sessions]

RuleTypes ==
    /\ nextId \in Nat \ {0} /\ nextId <= MaxRules + 1 /\ order \in Seq(Ids)
    /\ DOMAIN rules \subseteq Ids /\ rules \in [DOMAIN rules -> RuleRecords]
    /\ DOMAIN stored \subseteq Names /\ stored \in [DOMAIN stored -> ProxyRecords]
    /\ holds \in [Holders -> Names \cup {NoName}] /\ matching \in Seq(Entries)

\* Only a rule that was ever turned off may be off.
OffWasToggled == \A i \in DOMAIN rules \ toggled : rules[i].on

RuleInv == RuleTypes /\ OffWasToggled /\ RuleIndex /\ MatcherFollows /\ NoDangling

\* What an edit does to the order.
Keeps(o, p, D, E) ==
    \A i, j \in D \cap E :
        (\E a, b \in DOMAIN o : a < b /\ o[a] = i /\ o[b] = j) => \E a, b \in DOMAIN p : a < b /\ p[a] = i /\ p[b] = j
RuleKept ==
    /\ \A i, j \in DOMAIN rules \intersect DOMAIN rules' :
             (\E a, b \in DOMAIN order : a < b /\ order[a] = i /\ order[b] = j)
                => \E a, b \in DOMAIN order' : a < b /\ order'[a] = i /\ order'[b] = j
    /\ \A i \in DOMAIN rules' \ DOMAIN rules : i >= nextId /\ i < nextId'

LEMMA KeepsIt ==
    ASSUME Keeps(order, order', DOMAIN rules, DOMAIN rules'),
           \A i \in DOMAIN rules' \ DOMAIN rules : i >= nextId /\ i < nextId'
    PROVE  RuleKept
BY DEF Keeps, RuleKept

LEMMA OrderKeeps ==
    ASSUME NEW T, NEW o \in Seq(T), NEW p \in Seq(T), NEW D, NEW E,
           \A a, b \in 1 .. Len(o) : a < b /\ o[a] \in E /\ o[b] \in E =>
              \E c, d \in 1 .. Len(p) : c < d /\ p[c] = o[a] /\ p[d] = o[b]
    PROVE  Keeps(o, p, D, E)
<1>1. DOMAIN o = 1 .. Len(o) /\ DOMAIN p = 1 .. Len(p) BY LenProperties
<1> SUFFICES ASSUME NEW i \in D \cap E, NEW j \in D \cap E, NEW a \in DOMAIN o, NEW b \in DOMAIN o,
                    a < b, o[a] = i, o[b] = j
             PROVE  \E c, d \in DOMAIN p : c < d /\ p[c] = i /\ p[d] = j
  BY DEF Keeps
<1>2. PICK c \in 1 .. Len(p), d \in 1 .. Len(p) : c < d /\ p[c] = o[a] /\ p[d] = o[b] BY <1>1
<1> QED BY <1>1, <1>2

\* What is compiled from the stored rules passes the filter.
LEMMA TargetsFollow ==
    ASSUME NEW ids \in Seq(Ids), NEW table, table \in [DOMAIN table -> RuleRecords]
    PROVE  /\ Targets(ids, table) \in Seq(Entries)
           /\ Only(Targets(ids, table), {r \in Range(Targets(ids, table)) : r.from = "rule"}) = Targets(ids, table)
<1>1. PICK live : live = Only(ids, {i \in DOMAIN table : table[i].on}) OBVIOUS
<1>2. live \in Seq({i \in DOMAIN table : table[i].on})
  <2>1. PICK on : on = {i \in DOMAIN table : table[i].on} OBVIOUS
  <2>2. Only(ids, on) \in Seq(on) BY OnlyLemma
  <2> QED BY <1>1, <2>1, <2>2
<1>3. /\ Len(live) \in Nat /\ DOMAIN live = 1 .. Len(live)
      /\ \A k \in 1 .. Len(live) : live[k] \in DOMAIN table
  BY <1>2, LenProperties, ElementOfSeq
<1> DEFINE t == [k \in DOMAIN live |-> [from |-> "rule", what |-> table[live[k]].target]]
<1>4. Targets(ids, table) = t BY <1>1 DEF Targets
<1>5. \A k \in 1 .. Len(live) : table[live[k]].target \in Names BY <1>3 DEF RuleRecords
<1>6. t \in [1 .. Len(live) -> Entries] BY <1>3, <1>5 DEF Entries
<1>7. \A k \in 1 .. Len(live) : t[k].from = "rule" /\ t[k] \in Range(t) BY <1>3 DEF Range
<1> HIDE DEF t
<1>8. t \in Seq(Entries) /\ Len(t) = Len(live) BY <1>3, <1>6, FunctionIsSeq
<1>9. PICK S : S = {r \in Range(t) : r.from = "rule"} OBVIOUS
<1>10. \A k \in 1 .. Len(t) : t[k] \in S BY <1>7, <1>8, <1>9
<1>11. Only(t, S) = t BY <1>8, <1>10, OnlyAll
<1> QED BY <1>4, <1>8, <1>9, <1>11

\* A change of the rules: the records, the order and the next identifier.
LEMMA RulesChange ==
    ASSUME RuleInv, nextId' \in Nat \ {0}, nextId' <= MaxRules + 1, order' \in Seq(Ids),
           DOMAIN rules' \subseteq Ids, rules' \in [DOMAIN rules' -> RuleRecords],
           ToSet(order') = DOMAIN rules', IsInjective(order'), \A i \in DOMAIN rules' : i < nextId',
           \A i \in DOMAIN rules' \ toggled' : rules'[i].on /\ rules'[i].target \in known,
           matching' = Targets(order', rules'), UNCHANGED <<stored, holds, known>>
    PROVE  RuleInv'
<1>1. /\ matching' \in Seq(Entries)
      /\ Only(matching', {r \in Range(matching') : r.from = "rule"}) = Targets(order', rules')
  BY TargetsFollow
<1>2. RuleTypes' BY <1>1 DEF RuleInv, RuleTypes
<1>3. RuleIndex' BY DEF RuleIndex, Range, ToSet
<1>4. MatcherFollows' BY <1>1 DEF MatcherFollows
<1>5. NoDangling' /\ OffWasToggled' BY DEF RuleInv, NoDangling, OffWasToggled
<1> QED BY <1>2, <1>3, <1>4, <1>5 DEF RuleInv

LEMMA RuleFacts ==
    ASSUME RuleInv
    PROVE  /\ ToSet(order) = DOMAIN rules /\ IsInjective(order) /\ \A i \in DOMAIN rules : i < nextId
           /\ nextId \in Nat \ {0} /\ nextId \notin ToSet(order) /\ known = DOMAIN stored
           /\ DOMAIN order = 1 .. Len(order) /\ Len(order) \in Nat
<1>1. order \in Seq(Ids) /\ nextId \in Nat \ {0} BY DEF RuleInv, RuleTypes
<1>2. Len(order) \in Nat /\ DOMAIN order = 1 .. Len(order) BY <1>1, LenProperties
<1>3. ToSet(order) = DOMAIN rules /\ IsInjective(order) /\ \A i \in DOMAIN rules : i < nextId
  BY DEF RuleInv, RuleIndex, Range, ToSet
<1>4. nextId \notin DOMAIN rules BY <1>1, <1>3
<1>5. known = DOMAIN stored BY DEF RuleInv, NoDangling
<1> QED BY <1>1, <1>2, <1>3, <1>4, <1>5

LEMMA InsertStep ==
    ASSUME RuleInv, NEW t \in DOMAIN stored, NEW k \in 1 .. (Len(order) + 1), nextId <= MaxRules,
           rules' = [i \in DOMAIN rules \union {nextId} |-> IF i = nextId THEN [target |-> t, on |-> TRUE] ELSE rules[i]],
           order' \in Seq(Ids), Inserted(order', order, k, nextId), nextId' = nextId + 1,
           matching' = Targets(order', rules'), UNCHANGED <<stored, holds, known, toggled>>
    PROVE  RuleInv' /\ RuleKept
<1> USE RuleFacts
<1>1. order \in Seq(Ids) /\ t \in Names BY DEF RuleInv, RuleTypes
<1>2. PICK o, p, n : o = order /\ p = order' /\ n = nextId OBVIOUS
<1>3. o \in Seq(Ids) /\ p \in Seq(Ids) /\ k \in 1 .. (Len(o) + 1) /\ Inserted(p, o, k, n)
  BY <1>1, <1>2
<1>4. IsInjective(o) /\ n \notin ToSet(o) BY <1>2
<1>5. /\ ToSet(p) = ToSet(o) \cup {n} /\ IsInjective(p)
       /\ \A a, b \in 1 .. Len(o) : a < b => \E c, d \in 1 .. Len(p) : c < d /\ p[c] = o[a] /\ p[d] = o[b]
  BY ONLY <1>3, <1>4, InsertedHolds
<1>6. DOMAIN rules' = DOMAIN rules \cup {nextId} OBVIOUS
<1>7. nextId \in Ids BY RuleAssumption DEF Ids
<1>8. DOMAIN rules' \subseteq Ids BY <1>6, <1>7 DEF RuleInv, RuleTypes
<1>9. [target |-> t, on |-> TRUE] \in RuleRecords BY <1>1 DEF RuleRecords
<1>10. /\ rules'[nextId] = [target |-> t, on |-> TRUE] /\ nextId \notin DOMAIN rules
      /\ \A i \in DOMAIN rules : rules'[i] = rules[i]
  OBVIOUS
<1>11. rules' \in [DOMAIN rules' -> RuleRecords] BY <1>6, <1>9, <1>10 DEF RuleInv, RuleTypes
<1>12. \A i \in DOMAIN rules' \ toggled' : rules'[i].on /\ rules'[i].target \in known
  BY <1>6, <1>10 DEF RuleInv, OffWasToggled, NoDangling
<1>13. nextId' \in Nat \ {0} /\ nextId' <= MaxRules + 1 BY RuleAssumption
<1>14. \A i \in DOMAIN rules' : i < nextId' BY <1>6, <1>8, RuleAssumption DEF Ids
<1>15. RuleInv' BY <1>2, <1>5, <1>6, <1>8, <1>11, <1>12, <1>13, <1>14, RulesChange
<1>16. Keeps(order, order', DOMAIN rules, DOMAIN rules')
  <2>1. PICK D, E : D = DOMAIN rules /\ E = DOMAIN rules' OBVIOUS
  <2>2. Keeps(o, p, D, E) BY ONLY <1>3, <1>5, OrderKeeps
  <2> QED BY <1>2, <2>1, <2>2
<1>17. RuleKept BY <1>6, <1>16, KeepsIt
<1> QED BY <1>15, <1>17

LEMMA PostRuleStep ==
    ASSUME RuleInv, NEW t \in DOMAIN stored, NEW after \in {0} \cup Ids, PostRule(t, after)
    PROVE  RuleInv' /\ RuleKept
<1>1. order \in Seq(Ids) /\ nextId \in Ids BY RuleAssumption DEF RuleInv, RuleTypes, PostRule, Ids
<1>2. Len(order) \in Nat /\ DOMAIN order = 1 .. Len(order) BY RuleFacts
<1>3. \E k \in 1 .. (Len(order) + 1) : order' \in Seq(Ids) /\ Inserted(order', order, k, nextId)
  <2>1. CASE after = 0
    <3>1. order' = <<nextId>> \o order BY <2>1 DEF PostRule, Insert
    <3>2. <<nextId>> \in Seq(Ids) /\ Len(<<nextId>>) = 1 /\ <<nextId>>[1] = nextId BY <1>1
    <3>3. /\ order' \in Seq(Ids) /\ Len(order') = 1 + Len(order)
          /\ \A i \in 1 .. (1 + Len(order)) : order'[i] = IF i <= 1 THEN <<nextId>>[i] ELSE order[i - 1]
      BY <1>1, <3>1, <3>2, ConcatProperties
    <3>4. order'[1] = nextId /\ \A i \in 1 .. Len(order) : order'[i + 1] = order[i]
      <4>1. 1 \in 1 .. (1 + Len(order)) /\ 1 <= 1 BY <1>2
      <4>2. ASSUME NEW i \in 1 .. Len(order) PROVE order'[i + 1] = order[i]
        <5>1. i + 1 \in 1 .. (1 + Len(order)) /\ ~ (i + 1 <= 1) /\ (i + 1) - 1 = i BY <1>2
        <5> QED BY <3>3, <5>1
      <4> QED BY <3>2, <3>3, <4>1, <4>2
    <3>5. Inserted(order', order, 1, nextId) BY <1>2, <3>3, <3>4 DEF Inserted
    <3> QED BY <1>2, <3>3, <3>5
  <2>2. CASE after # 0
    <3> DEFINE p == CHOOSE k \in DOMAIN order : order[k] = after
    <3>1. after \in Range(order) BY <2>2 DEF PostRule
    <3>2. p \in DOMAIN order BY <3>1 DEF Range
    <3>3. order' = InsertAt(order, p + 1, nextId) BY <2>2 DEF PostRule, Insert
    <3> HIDE DEF p
    <3>4. p + 1 \in 1 .. (Len(order) + 1) BY <1>2, <3>2
    <3> QED BY <1>1, <3>3, <3>4, InsertAtInserts
  <2> QED BY <2>1, <2>2
<1> QED BY <1>3, InsertStep DEF PostRule, Reload

LEMMA AppendRuleStep ==
    ASSUME RuleInv, NEW t \in DOMAIN stored, AppendRule(t)
    PROVE  RuleInv' /\ RuleKept
<1>1. order \in Seq(Ids) /\ nextId \in Ids BY RuleAssumption DEF RuleInv, RuleTypes, AppendRule, Ids
<1>2. Len(order) \in Nat BY RuleFacts
<1>3. order' = Append(order, nextId) BY DEF AppendRule
<1>4. /\ order' \in Seq(Ids) /\ Len(order') = Len(order) + 1 /\ order'[Len(order) + 1] = nextId
      /\ \A i \in 1 .. Len(order) : order'[i] = order[i]
  BY <1>1, <1>3, AppendProperties
<1>5. Inserted(order', order, Len(order) + 1, nextId) BY <1>2, <1>4 DEF Inserted
<1>6. Len(order) + 1 \in 1 .. (Len(order) + 1) BY <1>2
<1> QED BY <1>4, <1>5, <1>6, InsertStep DEF AppendRule, Reload

LEMMA PutRuleStep ==
    ASSUME RuleInv, NEW t \in DOMAIN stored, NEW i \in Ids, PutRule(i, t)
    PROVE  RuleInv' /\ RuleKept
<1> USE RuleFacts
<1>1. /\ i \in DOMAIN rules /\ rules' = [rules EXCEPT ![i] = [target |-> t, on |-> TRUE]]
      /\ matching' = Targets(order', rules') /\ UNCHANGED <<nextId, order, stored, holds, known, toggled>>
  BY DEF PutRule, Reload
<1>2. t \in Names /\ rules \in [DOMAIN rules -> RuleRecords] BY DEF RuleInv, RuleTypes
<1>3. [target |-> t, on |-> TRUE] \in RuleRecords BY <1>2 DEF RuleRecords
<1>4. /\ DOMAIN rules' = DOMAIN rules /\ rules'[i] = [target |-> t, on |-> TRUE]
      /\ \A j \in DOMAIN rules \ {i} : rules'[j] = rules[j]
  BY <1>1
<1>5. rules' \in [DOMAIN rules' -> RuleRecords] BY <1>1, <1>2, <1>3
<1>6. \A j \in DOMAIN rules' \ toggled' : rules'[j].on /\ rules'[j].target \in known
  BY <1>1, <1>4 DEF RuleInv, OffWasToggled, NoDangling
<1>7. RuleInv' BY <1>1, <1>4, <1>5, <1>6, RulesChange DEF RuleInv, RuleTypes
<1>8. RuleKept BY <1>1, <1>4 DEF RuleKept
<1> QED BY <1>7, <1>8

LEMMA ToggleRuleStep ==
    ASSUME RuleInv, NEW i \in Ids, ToggleRule(i)
    PROVE  RuleInv' /\ RuleKept
<1> USE RuleFacts
<1> DEFINE rec == [rules[i] EXCEPT !.on = ~@]
<1>1. rules \in [DOMAIN rules -> RuleRecords] BY DEF RuleInv, RuleTypes
<1>2. /\ i \in DOMAIN rules /\ rules' = [rules EXCEPT ![i] = rec] /\ toggled' = toggled \cup {i}
      /\ matching' = Targets(order', rules') /\ UNCHANGED <<nextId, order, stored, holds, known>>
  BY <1>1 DEF ToggleRule, Reload
<1>3. rec \in RuleRecords
  <2>1. rules[i] \in RuleRecords /\ (~rules[i].on) \in BOOLEAN BY <1>1, <1>2
  <2> QED BY <2>1 DEF RuleRecords
<1> HIDE DEF rec
<1>4. DOMAIN rules' = DOMAIN rules /\ \A j \in DOMAIN rules \ {i} : rules'[j] = rules[j] BY <1>1, <1>2
<1>5. rules' \in [DOMAIN rules' -> RuleRecords] BY <1>1, <1>2, <1>3
<1>6. \A j \in DOMAIN rules' \ toggled' : rules'[j].on /\ rules'[j].target \in known
  BY <1>2, <1>4 DEF RuleInv, OffWasToggled, NoDangling
<1>7. RuleInv' BY <1>2, <1>4, <1>5, <1>6, RulesChange DEF RuleInv, RuleTypes
<1>8. RuleKept BY <1>2, <1>4 DEF RuleKept
<1> QED BY <1>7, <1>8

LEMMA DeleteRuleStep ==
    ASSUME RuleInv, NEW i \in Ids, DeleteRule(i)
    PROVE  RuleInv' /\ RuleKept
<1> USE RuleFacts
<1>1. /\ i \in DOMAIN rules /\ rules' = [j \in DOMAIN rules \ {i} |-> rules[j]]
      /\ order' = Only(order, Range(order) \ {i})
      /\ matching' = Targets(order', rules') /\ UNCHANGED <<nextId, stored, holds, known, toggled>>
  BY DEF DeleteRule, Reload
<1>2. order \in Seq(Ids) /\ rules \in [DOMAIN rules -> RuleRecords] /\ DOMAIN rules \subseteq Ids
  BY DEF RuleInv, RuleTypes
<1>3. DOMAIN rules' = DOMAIN rules \ {i} /\ \A j \in DOMAIN rules' : rules'[j] = rules[j] BY <1>1
<1>4. rules' \in [DOMAIN rules' -> RuleRecords] BY <1>1, <1>2, <1>3
<1>5. PICK o, p, S : o = order /\ p = order' /\ S = Range(order) \ {i} OBVIOUS
<1>6. S = DOMAIN rules' BY <1>3, <1>5 DEF Range, ToSet
<1>7. o \in Seq(Ids) BY <1>2, <1>5
<1>8. p = Only(o, S) BY <1>1, <1>5
<1>9. /\ p \in Seq(Ids) /\ ToSet(p) = ToSet(o) \cap S /\ (IsInjective(o) => IsInjective(p))
      /\ \A a, b \in 1 .. Len(o) : a < b /\ o[a] \in S /\ o[b] \in S =>
            \E c, d \in 1 .. Len(p) : c < d /\ p[c] = o[a] /\ p[d] = o[b]
  <2>1. Only(o, S) \in Seq(Ids) BY ONLY <1>7, OnlyLemma
  <2>2. ToSet(Only(o, S)) = ToSet(o) \cap S BY ONLY <1>7, OnlyLemma
  <2>3. IsInjective(o) => IsInjective(Only(o, S)) BY ONLY <1>7, OnlyLemma
  <2>4. \A a, b \in 1 .. Len(o) : a < b /\ o[a] \in S /\ o[b] \in S =>
          \E c, d \in 1 .. Len(Only(o, S)) : c < d /\ Only(o, S)[c] = o[a] /\ Only(o, S)[d] = o[b]
    <3>1. SUFFICES ASSUME NEW a \in 1 .. Len(o), NEW b \in 1 .. Len(o), a < b, o[a] \in S, o[b] \in S
                   PROVE  \E c, d \in 1 .. Len(Only(o, S)) :
                             c < d /\ Only(o, S)[c] = o[a] /\ Only(o, S)[d] = o[b]
      OBVIOUS
    <3> QED BY ONLY <1>7, <3>1, OnlyOrder
  <2> QED BY ONLY <1>8, <2>1, <2>2, <2>3, <2>4, Zenon
<1>10. ToSet(order') = DOMAIN rules' /\ IsInjective(order') /\ order' \in Seq(Ids)
  BY <1>3, <1>5, <1>6, <1>9
<1>11. \A j \in DOMAIN rules' \ toggled' : rules'[j].on /\ rules'[j].target \in known
  BY <1>1, <1>3 DEF RuleInv, OffWasToggled, NoDangling
<1>12. RuleInv' BY <1>1, <1>2, <1>3, <1>4, <1>10, <1>11, RulesChange DEF RuleInv, RuleTypes
<1>13. Keeps(order, order', DOMAIN rules, DOMAIN rules')
  <2>1. PICK D : D = DOMAIN rules OBVIOUS
  <2>2. Keeps(o, p, D, S) BY ONLY <1>7, <1>9, OrderKeeps
  <2> QED BY <1>5, <1>6, <2>1, <2>2
<1>14. RuleKept BY <1>3, <1>13, KeepsIt
<1> QED BY <1>12, <1>14

-----------------------------------------------------------------------------
(* Proxies, the records that name them, and the sessions' rules.           *)

\* A step that leaves the rules alone.
LEMMA RulesStay ==
    ASSUME RuleInv, UNCHANGED <<nextId, order, rules, toggled>>, matching' \in Seq(Entries),
           Only(matching', {r \in Range(matching') : r.from = "rule"}) = Only(matching, {r \in Range(matching) : r.from = "rule"}),
           DOMAIN stored' \subseteq Names, stored' \in [DOMAIN stored' -> ProxyRecords],
           holds' \in [Holders -> Names \cup {NoName}], NoDangling'
    PROVE  RuleInv' /\ RuleKept
<1>1. RuleTypes' BY DEF RuleInv, RuleTypes
<1>2. OffWasToggled' BY DEF RuleInv, OffWasToggled
<1>3. RuleIndex' BY DEF RuleInv, RuleIndex
<1>4. MatcherFollows' BY DEF RuleInv, MatcherFollows, Targets
<1>5. RuleKept BY DEF RuleKept
<1> QED BY <1>1, <1>2, <1>3, <1>4, <1>5 DEF RuleInv

LEMMA PostProxyStep ==
    ASSUME RuleInv, NEW n \in Names, NEW v \in Names \cup {NoName}, PostProxy(n, v)
    PROVE  RuleInv' /\ RuleKept
<1>1. /\ v \in (DOMAIN stored \ {n}) \union {NoName}
      /\ stored' = [p \in DOMAIN stored \union {n} |-> IF p = n THEN [via |-> v, on |-> TRUE] ELSE stored[p]]
      /\ known' = known \cup {n} /\ UNCHANGED <<nextId, order, rules, holds, matching, toggled>>
  BY DEF PostProxy, ProxySeen
<1>2. /\ DOMAIN stored \subseteq Names /\ stored \in [DOMAIN stored -> ProxyRecords] /\ matching \in Seq(Entries)
      /\ holds \in [Holders -> Names \cup {NoName}]
  BY DEF RuleInv, RuleTypes
<1>3. [via |-> v, on |-> TRUE] \in ProxyRecords /\ [via |-> v, on |-> TRUE].via = v BY DEF ProxyRecords
<1>4. /\ DOMAIN stored' = DOMAIN stored \cup {n} /\ stored'[n] = [via |-> v, on |-> TRUE]
      /\ \A p \in DOMAIN stored \ {n} : stored'[p] = stored[p]
  BY <1>1
<1>5. stored' \in [DOMAIN stored' -> ProxyRecords] BY <1>1, <1>2, <1>3
<1>6. NoDangling' BY <1>1, <1>3, <1>4 DEF RuleInv, NoDangling
<1> QED BY <1>1, <1>2, <1>4, <1>5, <1>6, RulesStay

LEMMA DeleteProxyStep ==
    ASSUME RuleInv, NEW n \in Names, DeleteProxy(n)
    PROVE  RuleInv' /\ RuleKept
<1>1. /\ References(n) = {} /\ stored' = [p \in DOMAIN stored \ {n} |-> stored[p]]
      /\ known' = known \ {n} /\ UNCHANGED <<nextId, order, rules, holds, matching, toggled>>
  BY DEF DeleteProxy, ProxyGone
<1>2. /\ DOMAIN stored \subseteq Names /\ stored \in [DOMAIN stored -> ProxyRecords] /\ matching \in Seq(Entries)
      /\ holds \in [Holders -> Names \cup {NoName}]
  BY DEF RuleInv, RuleTypes
<1>3. /\ \A i \in DOMAIN rules : rules[i].on => rules[i].target # n
      /\ \A h \in Holders : holds[h] # n
      /\ \A p \in DOMAIN stored : stored[p].via # n
  BY <1>1 DEF References
<1>4. DOMAIN stored' = DOMAIN stored \ {n} /\ \A p \in DOMAIN stored' : stored'[p] = stored[p] BY <1>1
<1>5. stored' \in [DOMAIN stored' -> ProxyRecords] BY <1>1, <1>2
<1>6. NoDangling' BY <1>1, <1>3, <1>4 DEF RuleInv, NoDangling, OffWasToggled
<1> QED BY <1>1, <1>2, <1>4, <1>5, <1>6, RulesStay

LEMMA ToggleProxyStep ==
    ASSUME RuleInv, NEW n \in Names, ToggleProxy(n)
    PROVE  RuleInv' /\ RuleKept
<1> DEFINE rec == [stored[n] EXCEPT !.on = ~@]
<1>1. /\ DOMAIN stored \subseteq Names /\ stored \in [DOMAIN stored -> ProxyRecords] /\ matching \in Seq(Entries)
      /\ holds \in [Holders -> Names \cup {NoName}] /\ known = DOMAIN stored
  BY DEF RuleInv, RuleTypes, NoDangling
<1>2. /\ n \in DOMAIN stored /\ stored' = [stored EXCEPT ![n] = rec]
      /\ known' = known \cup {n} /\ UNCHANGED <<nextId, order, rules, holds, matching, toggled>>
  BY <1>1 DEF ToggleProxy, ProxySeen
<1>3. rec \in ProxyRecords /\ rec.via = stored[n].via
  <2>1. stored[n] \in ProxyRecords /\ (~stored[n].on) \in BOOLEAN BY <1>1, <1>2
  <2> QED BY <2>1 DEF ProxyRecords
<1> HIDE DEF rec
<1>4. DOMAIN stored' = DOMAIN stored /\ \A p \in DOMAIN stored : stored'[p].via = stored[p].via BY <1>1, <1>2, <1>3
<1>5. stored' \in [DOMAIN stored' -> ProxyRecords] BY <1>1, <1>2, <1>3
<1>6. known' = known BY <1>1, <1>2
<1>7. NoDangling' BY <1>2, <1>4, <1>6 DEF RuleInv, NoDangling
<1> QED BY <1>1, <1>2, <1>4, <1>5, <1>7, RulesStay

LEMMA HoldStep ==
    ASSUME RuleInv, NEW h \in Holders, NEW n \in Names \cup {NoName}, Hold(h, n)
    PROVE  RuleInv' /\ RuleKept
<1>1. /\ n \in DOMAIN stored \cup {NoName} /\ holds' = [holds EXCEPT ![h] = n]
      /\ UNCHANGED <<nextId, order, rules, stored, matching, known, toggled>>
  BY DEF Hold
<1>2. /\ DOMAIN stored \subseteq Names /\ stored \in [DOMAIN stored -> ProxyRecords] /\ matching \in Seq(Entries)
      /\ holds \in [Holders -> Names \cup {NoName}]
  BY DEF RuleInv, RuleTypes
<1>3. holds' \in [Holders -> Names \cup {NoName}] BY <1>1, <1>2
<1>4. NoDangling' BY <1>1, <1>2 DEF RuleInv, NoDangling
<1> QED BY <1>1, <1>2, <1>3, <1>4, RulesStay

LEMMA AddRuleStep ==
    ASSUME RuleInv, NEW s \in Sessions, AddRule(s)
    PROVE  RuleInv' /\ RuleKept
<1> DEFINE e == [from |-> "session", what |-> s]
<1>1. matching' = <<e>> \o matching /\ UNCHANGED <<nextId, order, rules, stored, holds, known, toggled>>
  BY DEF AddRule
<1>2. e \in Entries /\ e.from # "rule" BY DEF Entries
<1> HIDE DEF e
<1>3. PICK m, n, S, R : /\ m = matching /\ n = matching'
                        /\ S = {r \in Range(n) : r.from = "rule"} /\ R = {r \in Range(m) : r.from = "rule"}
  OBVIOUS
<1>4. m \in Seq(Entries) BY <1>3 DEF RuleInv, RuleTypes
<1>5. n = <<e>> \o m /\ e \notin S BY <1>1, <1>2, <1>3
<1>6. n \in Seq(Entries) BY ONLY <1>2, <1>4, <1>5, ConcatProperties
<1>7. Only(n, S) = Only(m, S) BY ONLY <1>2, <1>4, <1>5, OnlyWithoutFirst
<1>8. \A i \in 1 .. Len(m) : m[i] \in Range(m) /\ m[i] \in Range(n)
  <2>1. Len(m) \in Nat /\ DOMAIN m = 1 .. Len(m) BY <1>4, LenProperties
  <2>2. ASSUME NEW i \in 1 .. Len(m) PROVE m[i] \in Range(m) /\ m[i] \in Range(n)
    <3>1. <<e>> \in Seq(Entries) /\ Len(<<e>>) = 1 BY <1>2
    <3>2. Len(n) = 1 + Len(m) /\ \A j \in 1 .. (1 + Len(m)) : n[j] = IF j <= 1 THEN <<e>>[j] ELSE m[j - 1]
      BY <1>4, <1>5, <3>1, ConcatProperties
    <3>3. i + 1 \in 1 .. (1 + Len(m)) /\ ~ (i + 1 <= 1) /\ (i + 1) - 1 = i BY <2>1
    <3>4. n[i + 1] = m[i] BY <3>2, <3>3
    <3>5. DOMAIN n = 1 .. Len(n) BY <1>6, LenProperties
    <3> QED BY <2>1, <3>2, <3>3, <3>4, <3>5 DEF Range
  <2> QED BY <2>2
<1>9. \A i \in 1 .. Len(m) : m[i] \in S <=> m[i] \in R BY <1>3, <1>8
<1>10. Only(m, S) = Only(m, R) BY ONLY <1>4, <1>9, OnlySame
<1>11. Only(matching', {r \in Range(matching') : r.from = "rule"}) = Only(matching, {r \in Range(matching) : r.from = "rule"})
  BY <1>3, <1>7, <1>10
<1>12. NoDangling' BY <1>1 DEF RuleInv, NoDangling
<1> QED BY <1>1, <1>3, <1>6, <1>11, <1>12, RulesStay DEF RuleInv, RuleTypes

LEMMA RemoveRuleStep ==
    ASSUME RuleInv, NEW s \in Sessions, RemoveRule(s)
    PROVE  RuleInv' /\ RuleKept
<1>1. /\ matching' = Only(matching, {r \in Range(matching) : r.from # "session" \/ r.what # s})
      /\ UNCHANGED <<nextId, order, rules, stored, holds, known, toggled>>
  BY DEF RemoveRule
<1>2. PICK m, n, Q, S, R : /\ m = matching /\ n = matching'
                           /\ Q = {r \in Range(m) : r.from # "session" \/ r.what # s}
                           /\ S = {r \in Range(n) : r.from = "rule"} /\ R = {r \in Range(m) : r.from = "rule"}
  OBVIOUS
<1>3. m \in Seq(Entries) BY <1>2 DEF RuleInv, RuleTypes
<1>4. n = Only(m, Q) BY <1>1, <1>2
<1>5. n \in Seq(Entries) /\ ToSet(n) = ToSet(m) \cap Q BY ONLY <1>3, <1>4, OnlyLemma
<1>6. R \subseteq Q BY <1>2
<1>7. Only(n, R) = Only(m, R) BY ONLY <1>3, <1>4, <1>6, OnlyTwice
<1>8. \A i \in 1 .. Len(n) : n[i] \in Range(n) /\ n[i] \in Range(m)
  <2>1. DOMAIN n = 1 .. Len(n) BY <1>5, LenProperties
  <2> QED BY <1>5, <2>1 DEF Range, ToSet
<1>9. \A i \in 1 .. Len(n) : n[i] \in S <=> n[i] \in R BY <1>2, <1>8
<1>10. Only(n, S) = Only(n, R) BY ONLY <1>5, <1>9, OnlySame
<1>11. Only(matching', {r \in Range(matching') : r.from = "rule"}) = Only(matching, {r \in Range(matching) : r.from = "rule"})
  BY <1>2, <1>7, <1>10
<1>12. NoDangling' BY <1>1 DEF RuleInv, NoDangling
<1> QED BY <1>1, <1>2, <1>5, <1>11, <1>12, RulesStay DEF RuleInv, RuleTypes

-----------------------------------------------------------------------------
(* The theorem.                                                            *)

LEMMA RulesStart == RuleInit => RuleInv
<1> SUFFICES ASSUME RuleInit PROVE RuleInv OBVIOUS
<1> USE DEF RuleInit
<1>1. DOMAIN rules = {} /\ DOMAIN stored = {} /\ DOMAIN order = {} OBVIOUS
<1>2. rules \in [{} -> RuleRecords] OBVIOUS
<1>3. stored \in [{} -> ProxyRecords] OBVIOUS
<1>4. RuleTypes BY <1>1, <1>2, <1>3, RuleAssumption DEF RuleTypes, Ids
<1>5. RuleIndex /\ OffWasToggled BY <1>1 DEF RuleIndex, OffWasToggled, Range, IsInjective
<1>6. NoDangling BY <1>1 DEF NoDangling
<1>7. Targets(order, rules) = <<>>
  <2>1. PICK on : on = {i \in DOMAIN rules : rules[i].on} OBVIOUS
  <2>2. Only(order, on) = <<>> BY OnlyEmpty
  <2>3. Targets(order, rules) = [k \in DOMAIN <<>> |-> [from |-> "rule", what |-> rules[<<>>[k]].target]]
    BY <2>1, <2>2 DEF Targets
  <2> QED BY <2>3
<1>8. MatcherFollows
  <2>1. PICK S : S = {r \in Range(matching) : r.from = "rule"} OBVIOUS
  <2>2. Only(matching, S) = <<>> BY OnlyEmpty
  <2> QED BY <1>7, <2>1, <2>2 DEF MatcherFollows
<1> QED BY <1>4, <1>5, <1>6, <1>8 DEF RuleInv

LEMMA RulesStep ==
    ASSUME RuleInv, RuleNext PROVE RuleInv' /\ RuleKept
<1>1. ASSUME NEW t \in DOMAIN stored,
             \/ \E a \in {0} \union Ids : PostRule(t, a)
             \/ AppendRule(t)
             \/ \E i \in Ids : PutRule(i, t)
      PROVE  RuleInv' /\ RuleKept
  BY <1>1, PostRuleStep, AppendRuleStep, PutRuleStep
<1>2. ASSUME NEW i \in Ids, DeleteRule(i) \/ ToggleRule(i) PROVE RuleInv' /\ RuleKept
  BY <1>2, DeleteRuleStep, ToggleRuleStep
<1>3. ASSUME NEW n \in Names,
             (\E v \in Names \union {NoName} : PostProxy(n, v)) \/ DeleteProxy(n) \/ ToggleProxy(n)
      PROVE  RuleInv' /\ RuleKept
  BY <1>3, PostProxyStep, DeleteProxyStep, ToggleProxyStep
<1>4. ASSUME NEW h \in Holders, NEW n \in Names \union {NoName}, Hold(h, n) PROVE RuleInv' /\ RuleKept
  BY <1>4, HoldStep
<1>5. ASSUME NEW s \in Sessions, AddRule(s) \/ RemoveRule(s) PROVE RuleInv' /\ RuleKept
  BY <1>5, AddRuleStep, RemoveRuleStep
<1> QED BY <1>1, <1>2, <1>3, <1>4, <1>5 DEF RuleNext

LEMMA RulesStutter == ASSUME RuleInv, UNCHANGED ruleVars PROVE RuleInv'
BY DEF ruleVars, RuleInv, RuleTypes, OffWasToggled, RuleIndex, MatcherFollows, NoDangling, Targets

\* Whatever is inserted, edited, switched and deleted: the order lists every stored rule
\* once (InsertRuleWithID, DeleteRuleByID); without those of control sessions the matcher's
\* rules are the stored ones that are on, in that order (onConfigChange, AddRule, RemoveRule);
\* nothing names a proxy that is gone, save a rule that has been off (findProxyReferences);
\* the rules that stay keep their order and no identifier is used twice.
THEOREM RulesAreRight == RuleSpec => RulesRight
<1>1. RuleInit => RuleInv BY RulesStart
<1>2. RuleInv /\ [RuleNext]_ruleVars => RuleInv' BY RulesStep, RulesStutter
<1>3. RuleInv => RuleIndex /\ MatcherFollows /\ NoDangling BY DEF RuleInv
<1>4. RuleInv /\ [RuleNext]_ruleVars =>
        [/\ \A i, j \in DOMAIN rules \intersect DOMAIN rules' :
               (\E a, b \in DOMAIN order : a < b /\ order[a] = i /\ order[b] = j)
                  => \E a, b \in DOMAIN order' : a < b /\ order'[a] = i /\ order'[b] = j
         /\ \A i \in DOMAIN rules' \ DOMAIN rules : i >= nextId /\ i < nextId']_ruleVars
  BY RulesStep DEF RuleKept
<1> QED BY <1>1, <1>2, <1>3, <1>4, PTL DEF RuleSpec, RulesRight, OrderKept

-----------------------------------------------------------------------------
(* Reverse clients and listeners, for any numbers of configs and mappings, *)
(* any number of requests one after the other and of sessions.  AdminInv   *)
(* says what holds while a request is under way: the names it has not      *)
(* touched are as wanted, and those it has are one step away from it.      *)

Records == [ver : Nat, on : BOOLEAN]
Real(c) == c # None_ => c.ver > 0

ClientRecords ==
    [name : Confs \cup {"-"}, pc : {"none", "loop", "get", "put", "up", "wait", "gone"},
     stopped : BOOLEAN, copy : Records, then : {"-", "up", "wait"}]
AdminPositions ==
    [pc : {"idle", "post", "stop", "start", "unlisten", "listen"}, old : Confs \cup Maps \cup {"-"},
     new : Confs \cup Maps \cup {"-"}, rec : Records]

AdminTypes ==
    /\ confs \in [Confs -> Records] /\ maps \in [Maps -> Records]
    /\ stops \in [Confs -> 0 .. MaxChanges] /\ listening \in [Maps -> Nat]
    /\ client \in [ClientIds -> ClientRecords]
    /\ req \in [Requests -> AdminPositions]
    /\ changes \in 0 .. MaxChanges /\ sessions \in Nat /\ wanted \in [Confs -> BOOLEAN]

\* A client that has not been started is as it was, one that writes has read a
\* record, and the next step of its session is known.
ClientShape ==
    \A i \in ClientIds :
        /\ client[i].pc = "none" => client[i] = Unborn
        /\ client[i].pc # "none" => client[i].name \in Confs
        /\ client[i].pc \in {"get", "put"} => client[i].then \in {"up", "wait"}
        /\ client[i].pc = "put" => client[i].copy # None_ /\ client[i].copy.ver > 0

RecordsReal == (\A n \in Confs : Real(confs[n])) /\ (\A m \in Maps : Real(maps[m]))

\* A request that may start a client has not started it yet.
Born == {i \in ClientIds : client[i].pc # "none"}
Starting(r) == req[r].pc \in {"post", "stop", "start"}
ClientsCounted ==
    /\ Cardinality(Born) <= changes
    /\ (\E r \in Requests : Starting(r)) => Cardinality(Born) < changes

\* A config that is wanted is stored, whatever late writes do.
WantedStored == \A n \in Confs : wanted[n] => confs[n] # None_

AsWanted(n) ==
    /\ Running(n) = IF wanted[n] THEN {stops[n]} ELSE {}
    /\ ~wanted[n] => stops[n] = 0
Touched(n) ==
    \E r \in Requests : \/ req[r].pc = "stop" /\ n \in {req[r].old, req[r].new}
                        \/ req[r].pc = "start" /\ n = req[r].new
Untouched == \A n \in Confs : ~Touched(n) => AsWanted(n)

Vacant(n) == Running(n) = {} /\ stops[n] = 0
Posting ==
    \A r \in Requests : req[r].pc = "post" =>
        req[r].new \in Confs /\ ~wanted[req[r].new] /\ req[r].rec.ver > 0
Stopping ==
    \A r \in Requests : req[r].pc = "stop" =>
        /\ req[r].old \in Confs /\ req[r].new \in Confs \cup {"-"}
        /\ Running(req[r].old) = IF stops[req[r].old] = 0 THEN {} ELSE {stops[req[r].old]}
        /\ req[r].new # req[r].old => ~wanted[req[r].old]
        /\ req[r].new \in Confs => wanted[req[r].new] = req[r].rec.on
        /\ req[r].new \in Confs /\ req[r].new # req[r].old => Vacant(req[r].new)
Starting_ ==
    \A r \in Requests : req[r].pc = "start" =>
        /\ req[r].new \in Confs /\ Vacant(req[r].new) /\ wanted[req[r].new] = req[r].rec.on

ClientsInv == ClientShape /\ ClientsCounted /\ Untouched /\ Posting /\ Stopping /\ Starting_

\* Listeners.
ListenerRight(m) == listening[m] # 0 => maps[m] # None_ /\ listening[m] = maps[m].ver
Mapping ==
    /\ \A m \in Maps : (\A r \in Requests : req[r].pc \in {"unlisten", "listen"} => m # req[r].old) => ListenerRight(m)
    /\ \A r \in Requests : req[r].pc = "unlisten" =>
          /\ req[r].old \in Maps
          /\ req[r].new # "-" => req[r].new = req[r].old /\ req[r].rec = maps[req[r].old] /\ maps[req[r].old] # None_
    /\ \A r \in Requests : req[r].pc = "listen" =>
          /\ req[r].old \in Maps /\ req[r].new = req[r].old /\ listening[req[r].old] = 0
          /\ req[r].rec = maps[req[r].old] /\ maps[req[r].old] # None_

AdminInv == AdminTypes /\ RecordsReal /\ WantedStored /\ ClientsInv /\ Mapping
OneByOne == \A q, r \in Requests : q = r

-----------------------------------------------------------------------------
(* Steps of the clients.                                                   *)

Runs(i) == client[i].pc \notin {"none", "gone"} /\ ~client[i].stopped

LEMMA RunningIs == \A n : Running(n) = {i \in ClientIds : client[i].name = n /\ Runs(i)}
BY DEF Running, Runs

LEMMA RunningFrame ==
    ASSUME \A i \in ClientIds : client'[i].name = client[i].name /\ (Runs(i)' <=> Runs(i))
    PROVE  \A n : Running(n)' = Running(n)
BY DEF Running, Runs

LEMMA BornFrame ==
    ASSUME \A i \in ClientIds : client'[i].pc = "none" <=> client[i].pc = "none"
    PROVE  Born' = Born
BY DEF Born

\* A step that leaves the requests and the runtime's tables alone.
LEMMA ClientMoves ==
    ASSUME AdminInv, AdminTypes', RecordsReal', WantedStored', ClientShape',
           UNCHANGED <<maps, stops, listening, req, changes, wanted>>,
           \A i \in ClientIds : /\ client'[i].name = client[i].name /\ (Runs(i)' <=> Runs(i))
                                /\ client'[i].pc = "none" <=> client[i].pc = "none"
    PROVE  AdminInv'
<1>1. \A n : Running(n)' = Running(n) BY RunningFrame
<1>2. Born' = Born BY BornFrame
<1>3. ClientsCounted' BY <1>2 DEF AdminInv, ClientsInv, ClientsCounted, Starting
<1>4. Untouched' BY <1>1 DEF AdminInv, ClientsInv, Untouched, Touched, AsWanted
<1>5. Posting' BY DEF AdminInv, ClientsInv, Posting
<1>6. Stopping' BY <1>1 DEF AdminInv, ClientsInv, Stopping, Vacant
<1>7. Starting_' BY <1>1 DEF AdminInv, ClientsInv, Starting_, Vacant
<1>8. Mapping' BY DEF AdminInv, Mapping, ListenerRight
<1> QED BY <1>3, <1>4, <1>5, <1>6, <1>7, <1>8 DEF AdminInv, ClientsInv

\* One client changes to c; confs may change where it has written.
LEMMA ClientTurns ==
    ASSUME AdminInv, NEW i \in ClientIds, NEW c \in ClientRecords,
           client' = [client EXCEPT ![i] = c],
           c.name = client[i].name, c.stopped = client[i].stopped, client[i].pc # "none", c.pc # "none",
           c.pc = "gone" => client[i].stopped, client[i].pc # "gone",
           c.pc \in {"get", "put"} => c.then \in {"up", "wait"},
           c.pc = "put" => c.copy # None_ /\ c.copy.ver > 0,
           UNCHANGED <<maps, stops, listening, req, changes, wanted>>, sessions' \in Nat,
           confs' = confs \/ (client[i].pc = "put" /\ confs' = [confs EXCEPT ![client[i].name] = client[i].copy])
    PROVE  AdminInv'
<1>1. client \in [ClientIds -> ClientRecords] BY DEF AdminInv, AdminTypes
<1>2. client'[i] = c /\ \A j \in ClientIds \ {i} : client'[j] = client[j] BY <1>1
<1>3. client' \in [ClientIds -> ClientRecords] BY <1>1
<1>4. client[i].name \in Confs /\ (client[i].pc = "put" => client[i].copy # None_ /\ client[i].copy.ver > 0)
  BY DEF AdminInv, ClientsInv, ClientShape
<1>5. client[i].copy \in Records BY <1>1 DEF ClientRecords
<1>6. confs \in [Confs -> Records] BY DEF AdminInv, AdminTypes
<1>7. confs' \in [Confs -> Records] BY <1>4, <1>5, <1>6
<1>8. AdminTypes' BY <1>3, <1>7 DEF AdminInv, AdminTypes
<1>9. RecordsReal'
  BY <1>4, <1>6 DEF AdminInv, RecordsReal, Real
<1>10. WantedStored' BY <1>4, <1>6 DEF AdminInv, WantedStored
<1>11. ClientShape' BY <1>2, <1>4 DEF AdminInv, ClientsInv, ClientShape
<1>12. \A j \in ClientIds : /\ client'[j].name = client[j].name /\ (Runs(j)' <=> Runs(j))
                            /\ client'[j].pc = "none" <=> client[j].pc = "none"
  BY <1>2 DEF Runs
<1> QED BY <1>8, <1>9, <1>10, <1>11, <1>12, ClientMoves

LEMMA ClientStep ==
    ASSUME AdminInv, NEW i \in ClientIds,
           \/ \E then \in {"up", "wait"} : RunSession(i, then)
           \/ SessionEnds(i) \/ GetRuntime(i) \/ PutRuntime(i) \/ Reconnect(i) \/ ClientGone(i)
    PROVE  AdminInv'
<1>1. client \in [ClientIds -> ClientRecords] /\ sessions \in Nat BY DEF AdminInv, AdminTypes
<1> DEFINE c == client[i]
<1>2. c \in ClientRecords BY <1>1
<1>3. ClientShape BY DEF AdminInv, ClientsInv
<1>4. ASSUME NEW then \in {"up", "wait"}, RunSession(i, then) PROVE AdminInv'
  <2> DEFINE d == [c EXCEPT !.pc = "get", !.then = then]
  <2>1. d \in ClientRecords BY <1>2 DEF ClientRecords
  <2>2. client' = [client EXCEPT ![i] = d] BY <1>1, <1>4 DEF RunSession
  <2>3. /\ d.name = c.name /\ d.stopped = c.stopped /\ d.pc = "get" /\ d.then = then
    BY <1>2 DEF ClientRecords
  <2>4. /\ c.pc = "loop" /\ UNCHANGED <<confs, maps, stops, listening, req, changes, wanted>> /\ sessions' \in Nat
    BY <1>1, <1>4 DEF RunSession
  <2> HIDE DEF d
  <2> QED BY <2>1, <2>2, <2>3, <2>4, ClientTurns
<1>5. CASE SessionEnds(i)
  <2> DEFINE d == [c EXCEPT !.pc = "get", !.then = "wait"]
  <2>1. d \in ClientRecords BY <1>2 DEF ClientRecords
  <2>2. client' = [client EXCEPT ![i] = d] BY <1>1, <1>5 DEF SessionEnds
  <2>3. /\ d.name = c.name /\ d.stopped = c.stopped /\ d.pc = "get" /\ d.then = "wait"
    BY <1>2 DEF ClientRecords
  <2>4. /\ c.pc = "up" /\ UNCHANGED <<confs, maps, stops, listening, req, changes, wanted>> /\ sessions' \in Nat
    BY <1>1, <1>5 DEF SessionEnds
  <2> HIDE DEF d
  <2> QED BY <2>1, <2>2, <2>3, <2>4, ClientTurns
<1>6. CASE GetRuntime(i)
  <2> DEFINE d == IF confs[c.name] = None_ THEN [c EXCEPT !.pc = c.then, !.then = "-"]
                  ELSE [c EXCEPT !.pc = "put", !.copy = confs[c.name]]
  <2>0. c.pc = "get" BY <1>6 DEF GetRuntime
  <2>1. c.name \in Confs /\ c.then \in {"up", "wait"} BY <1>3, <2>0 DEF ClientShape
  <2>2. confs[c.name] \in Records /\ (confs[c.name] # None_ => confs[c.name].ver > 0)
    BY <2>1 DEF AdminInv, AdminTypes, RecordsReal, Real
  <2>3. d \in ClientRecords BY <1>2, <2>1, <2>2 DEF ClientRecords
  <2>4. client' = [client EXCEPT ![i] = d] BY <1>6 DEF GetRuntime
  <2>5. /\ d.name = c.name /\ d.stopped = c.stopped /\ d.pc \in {"up", "wait", "put"}
        /\ d.pc = "put" => d.then \in {"up", "wait"} /\ d.copy # None_ /\ d.copy.ver > 0
    BY <1>2, <2>1, <2>2 DEF ClientRecords
  <2>6. UNCHANGED <<confs, maps, stops, listening, req, changes, wanted>> /\ sessions' \in Nat
    BY <1>1, <1>6 DEF GetRuntime
  <2> HIDE DEF d
  <2> QED BY <2>0, <2>3, <2>4, <2>5, <2>6, ClientTurns
<1>7. CASE PutRuntime(i)
  <2> DEFINE d == [c EXCEPT !.pc = c.then, !.copy = None_, !.then = "-"]
  <2>0. c.pc = "put" BY <1>7 DEF PutRuntime
  <2>1. c.then \in {"up", "wait"} BY <1>3, <2>0 DEF ClientShape
  <2>3. d \in ClientRecords BY <1>2, <2>1 DEF ClientRecords, None_, Records
  <2>4. client' = [client EXCEPT ![i] = d] BY <1>7 DEF PutRuntime
  <2>5. d.name = c.name /\ d.stopped = c.stopped /\ d.pc \in {"up", "wait"}
    BY <1>2, <2>1 DEF ClientRecords
  <2>6. /\ confs' = [confs EXCEPT ![c.name] = c.copy]
        /\ UNCHANGED <<maps, stops, listening, req, changes, wanted>> /\ sessions' \in Nat
    BY <1>1, <1>7 DEF PutRuntime
  <2> HIDE DEF d
  <2> QED BY <2>0, <2>3, <2>4, <2>5, <2>6, ClientTurns
<1>8. CASE Reconnect(i)
  <2> DEFINE d == [c EXCEPT !.pc = "loop"]
  <2>1. d \in ClientRecords BY <1>2 DEF ClientRecords
  <2>2. client' = [client EXCEPT ![i] = d] BY <1>1, <1>8 DEF Reconnect, ClientTo
  <2>3. d.name = c.name /\ d.stopped = c.stopped /\ d.pc = "loop" BY <1>2 DEF ClientRecords
  <2>4. c.pc = "wait" /\ UNCHANGED <<confs, maps, stops, listening, req, changes, wanted>> /\ sessions' \in Nat
    BY <1>1, <1>8 DEF Reconnect
  <2> HIDE DEF d
  <2> QED BY <2>1, <2>2, <2>3, <2>4, ClientTurns
<1>9. CASE ClientGone(i)
  <2> DEFINE d == [c EXCEPT !.pc = "gone"]
  <2>1. d \in ClientRecords BY <1>2 DEF ClientRecords
  <2>2. client' = [client EXCEPT ![i] = d] BY <1>1, <1>9 DEF ClientGone, ClientTo
  <2>3. d.name = c.name /\ d.stopped = c.stopped /\ d.pc = "gone" BY <1>2 DEF ClientRecords
  <2>4. /\ c.pc \in {"loop", "wait"} /\ c.stopped /\ sessions' \in Nat
        /\ UNCHANGED <<confs, maps, stops, listening, req, changes, wanted>>
    BY <1>1, <1>9 DEF ClientGone
  <2> HIDE DEF d
  <2> QED BY <2>1, <2>2, <2>3, <2>4, ClientTurns
<1> QED BY <1>4, <1>5, <1>6, <1>7, <1>8, <1>9

-----------------------------------------------------------------------------
(* Steps of a request.                                                     *)

LEMMA BornCounts == IsFiniteSet(Born) /\ Cardinality(Born) \in Nat
<1>1. IsFiniteSet(ClientIds) BY FS_Interval, ReverseAssumption DEF ClientIds
<1>2. Born \subseteq ClientIds BY DEF Born
<1> QED BY <1>1, <1>2, FS_Subset, FS_CardinalityType

LEMMA NoneIs == None_ \in Records /\ None_.ver = 0
BY DEF None_, Records

\* No request is under way: all is as wanted.
LEMMA AllAsWanted ==
    ASSUME AdminInv, OneByOne, NEW r \in Requests, req[r].pc \notin {"stop", "start"}
    PROVE  \A n \in Confs : AsWanted(n)
BY DEF AdminInv, ClientsInv, Untouched, Touched, OneByOne

LEMMA ClientsStay ==
    ASSUME client' = client PROVE Born' = Born /\ \A n : Running(n)' = Running(n)
BY DEF Born, Running

\* A request begins, the first of its steps being the change of the stored configs.
LEMMA Begins ==
    ASSUME AdminInv, OneByOne, NEW r \in Requests, req[r].pc = "idle", changes < MaxChanges,
           NEW p \in AdminPositions, req' = [req EXCEPT ![r] = p], changes' = changes + 1,
           UNCHANGED <<stops, listening, client, sessions>>,
           maps' \in [Maps -> Records], confs' \in [Confs -> Records], wanted' \in [Confs -> BOOLEAN]
    PROVE  /\ AdminTypes' /\ ClientShape' /\ ClientsCounted' /\ req'[r] = p
           /\ Born' = Born /\ \A n : Running(n)' = Running(n)
<1>1. AdminTypes' BY ReverseAssumption DEF AdminInv, AdminTypes
<1>2. ClientShape' BY DEF AdminInv, ClientsInv, ClientShape
<1>3. Cardinality(Born) <= changes /\ changes \in Nat BY ReverseAssumption DEF AdminInv, AdminTypes, ClientsInv, ClientsCounted
<1>4. Born' = Born /\ \A n : Running(n)' = Running(n) BY ClientsStay
<1>5. ClientsCounted' BY <1>3, <1>4, BornCounts DEF ClientsCounted
<1>6. req'[r] = p BY DEF AdminInv, AdminTypes
<1> QED BY <1>1, <1>2, <1>4, <1>5, <1>6

LEMMA PostReverseStep ==
    ASSUME AdminInv, OneByOne, NEW r \in Requests, NEW n \in Confs, NEW on \in BOOLEAN, PostReverse(r, n, on)
    PROVE  AdminInv'
<1> DEFINE p == [pc |-> "post", old |-> "-", new |-> n, rec |-> [ver |-> changes + 1, on |-> on]]
<1>1. /\ req[r].pc = "idle" /\ changes < MaxChanges /\ confs[n] = None_ /\ req' = [req EXCEPT ![r] = p]
      /\ changes' = changes + 1 /\ UNCHANGED <<confs, maps, stops, listening, client, sessions, wanted>>
  BY DEF PostReverse, FreeName
<1>2. changes \in Nat BY ReverseAssumption DEF AdminInv, AdminTypes
<1>3. p \in AdminPositions BY <1>2 DEF AdminPositions, Records
<1>4. p.pc = "post" /\ p.new = n /\ p.rec.ver > 0 BY <1>2
<1> HIDE DEF p
<1>5. /\ AdminTypes' /\ ClientShape' /\ ClientsCounted' /\ req'[r] = p /\ \A m : Running(m)' = Running(m)
  BY <1>1, <1>3, Begins DEF AdminInv, AdminTypes
<1>6. \A q \in Requests : req'[q] = p BY <1>5 DEF OneByOne
<1>7. RecordsReal' /\ WantedStored' BY <1>1 DEF AdminInv, RecordsReal, WantedStored
<1>8. ~wanted[n] BY <1>1 DEF AdminInv, WantedStored
<1>9. \A m \in Confs : AsWanted(m) BY <1>1, AllAsWanted
<1>10. Untouched' BY <1>1, <1>5, <1>9 DEF Untouched, AsWanted
<1>11. Posting' /\ Stopping' /\ Starting_' BY <1>1, <1>4, <1>6, <1>8 DEF Posting, Stopping, Starting_
<1>12. \A m \in Maps : ListenerRight(m) BY <1>1 DEF AdminInv, Mapping, OneByOne
<1>13. Mapping' BY <1>1, <1>4, <1>6, <1>12 DEF Mapping, ListenerRight
<1> QED BY <1>5, <1>7, <1>10, <1>11, <1>13 DEF AdminInv, ClientsInv

\* A request that goes on to close the old name's stop channel.
LEMMA BeginsToStop ==
    ASSUME AdminInv, OneByOne, NEW r \in Requests, req[r].pc = "idle", changes < MaxChanges,
           NEW old \in Confs, NEW new \in Confs \cup {"-"}, NEW rec \in Records,
           req' = [req EXCEPT ![r] = [pc |-> "stop", old |-> old, new |-> new, rec |-> rec]],
           changes' = changes + 1, UNCHANGED <<maps, stops, listening, client, sessions>>,
           confs' \in [Confs -> Records], wanted' \in [Confs -> BOOLEAN], RecordsReal', WantedStored',
           \A n \in Confs \ {old, new} : wanted'[n] = wanted[n],
           new # old => ~wanted'[old], new \in Confs => wanted'[new] = rec.on,
           new \in Confs /\ new # old => ~wanted[new]
    PROVE  AdminInv'
<1> DEFINE p == [pc |-> "stop", old |-> old, new |-> new, rec |-> rec]
<1>1. p \in AdminPositions BY DEF AdminPositions
<1>2. p.pc = "stop" /\ p.new = new /\ p.old = old /\ p.rec = rec OBVIOUS
<1>3. req' = [req EXCEPT ![r] = p] OBVIOUS
<1>4. maps' \in [Maps -> Records] BY DEF AdminInv, AdminTypes
<1> HIDE DEF p
<1>5. /\ AdminTypes' /\ ClientShape' /\ ClientsCounted' /\ req'[r] = p /\ \A m : Running(m)' = Running(m)
  BY <1>1, <1>3, <1>4, Begins
<1>6. \A q \in Requests : req'[q] = p BY <1>5 DEF OneByOne
<1>7. \A m \in Confs : AsWanted(m) BY AllAsWanted
<1>8. Untouched'
  <2> SUFFICES ASSUME NEW m \in Confs, ~Touched(m)' PROVE AsWanted(m)' BY DEF Untouched
  <2>1. m \notin {old, new} BY <1>2, <1>6 DEF Touched
  <2> QED BY <1>5, <1>7, <2>1 DEF AsWanted
<1>9. Posting' /\ Starting_' BY <1>2, <1>6 DEF Posting, Starting_
<1>10. Running(old) = IF stops[old] = 0 THEN {} ELSE {stops[old]}
  <2>1. CASE ~wanted[old] BY <1>7, <2>1 DEF AsWanted
  <2>2. CASE wanted[old]
    <3>1. Running(old) = {stops[old]} BY <1>7, <2>2 DEF AsWanted
    <3>2. stops[old] \in ClientIds BY <3>1 DEF Running
    <3> QED BY <3>1, <3>2, ReverseAssumption DEF ClientIds
  <2> QED BY <2>1, <2>2
<1>11. new \in Confs /\ new # old => Vacant(new) BY <1>7 DEF AsWanted, Vacant
<1>12. Stopping'
  <2>1. Running(old)' = IF stops'[old] = 0 THEN {} ELSE {stops'[old]} BY <1>5, <1>10
  <2>2. new \in Confs /\ new # old => Vacant(new)' BY <1>5, <1>11 DEF Vacant
  <2> QED BY <1>2, <1>6, <2>1, <2>2 DEF Stopping
<1>13. \A m \in Maps : ListenerRight(m) BY DEF AdminInv, Mapping, OneByOne
<1>14. Mapping' BY <1>2, <1>6, <1>13 DEF Mapping, ListenerRight
<1> QED BY <1>5, <1>8, <1>9, <1>12, <1>14 DEF AdminInv, ClientsInv

LEMMA EditReverseStep ==
    ASSUME AdminInv, OneByOne, ~RenameOnto, NEW r \in Requests, NEW n \in Confs, NEW new \in Confs, NEW on \in BOOLEAN,
           EditReverse(r, n, new, on)
    PROVE  AdminInv'
<1> DEFINE rec == [ver |-> changes + 1, on |-> on]
<1>1. changes \in Nat /\ confs \in [Confs -> Records] /\ wanted \in [Confs -> BOOLEAN]
  BY ReverseAssumption DEF AdminInv, AdminTypes
<1>2. rec \in Records /\ rec.on = on /\ rec.ver > 0 BY <1>1 DEF Records
<1>3. /\ req[r].pc = "idle" /\ changes < MaxChanges /\ changes' = changes + 1
      /\ new # n => confs[new] = None_
      /\ confs' = [confs EXCEPT ![new] = rec]
      /\ wanted' = [m \in Confs |-> IF m = new THEN on ELSE IF m = n THEN FALSE ELSE wanted[m]]
      /\ req' = [req EXCEPT ![r] = [pc |-> "stop", old |-> n, new |-> new, rec |-> confs'[new]]]
      /\ UNCHANGED <<maps, stops, listening, client, sessions>>
  BY DEF EditReverse
<1> HIDE DEF rec
<1>4. confs'[new] = rec /\ confs' \in [Confs -> Records] /\ \A m \in Confs \ {new} : confs'[m] = confs[m]
  BY <1>1, <1>2, <1>3
<1>5. wanted' \in [Confs -> BOOLEAN] BY <1>1, <1>3
<1>6. rec # None_ BY <1>2, NoneIs
<1>7. RecordsReal' BY <1>2, <1>3, <1>4 DEF AdminInv, RecordsReal, Real
<1>8. WantedStored' BY <1>1, <1>3, <1>4, <1>6 DEF AdminInv, WantedStored
<1>9. new # n => ~wanted[new] BY <1>3 DEF AdminInv, WantedStored
<1>10. /\ \A m \in Confs \ {n, new} : wanted'[m] = wanted[m]
       /\ new # n => ~wanted'[n]
       /\ wanted'[new] = rec.on
  BY <1>2, <1>3
<1> QED BY <1>2, <1>3, <1>4, <1>5, <1>7, <1>8, <1>9, <1>10, BeginsToStop

LEMMA ToggleReverseStep ==
    ASSUME AdminInv, OneByOne, NEW r \in Requests, NEW n \in Confs, NEW on \in BOOLEAN, ToggleReverse(r, n, on)
    PROVE  AdminInv'
<1> DEFINE rec == [confs[n] EXCEPT !.on = on]
<1>1. confs \in [Confs -> Records] /\ wanted \in [Confs -> BOOLEAN] BY DEF AdminInv, AdminTypes
<1>2. /\ req[r].pc = "idle" /\ changes < MaxChanges /\ changes' = changes + 1 /\ confs[n] # None_
      /\ confs' = [confs EXCEPT ![n] = rec]
      /\ wanted' = [wanted EXCEPT ![n] = on]
      /\ req' = [req EXCEPT ![r] = [pc |-> "stop", old |-> n, new |-> n, rec |-> confs'[n]]]
      /\ UNCHANGED <<maps, stops, listening, client, sessions>>
  BY <1>1 DEF ToggleReverse
<1>3. confs[n].ver > 0 BY <1>2 DEF AdminInv, RecordsReal, Real
<1>4. rec \in Records /\ rec.on = on /\ rec.ver > 0 BY <1>1, <1>3 DEF Records
<1> HIDE DEF rec
<1>5. confs'[n] = rec /\ confs' \in [Confs -> Records] /\ \A m \in Confs \ {n} : confs'[m] = confs[m]
  BY <1>1, <1>2, <1>4
<1>6. wanted' \in [Confs -> BOOLEAN] /\ wanted'[n] = on /\ \A m \in Confs \ {n} : wanted'[m] = wanted[m]
  BY <1>1, <1>2
<1>7. rec # None_ BY <1>4, NoneIs
<1>8. RecordsReal' BY <1>2, <1>4, <1>5 DEF AdminInv, RecordsReal, Real
<1>9. WantedStored' BY <1>5, <1>6, <1>7 DEF AdminInv, WantedStored
<1> QED BY <1>2, <1>4, <1>5, <1>6, <1>8, <1>9, BeginsToStop

LEMMA DeleteReverseStep ==
    ASSUME AdminInv, OneByOne, NEW r \in Requests, NEW n \in Confs, DeleteReverse(r, n)
    PROVE  AdminInv'
<1>1. confs \in [Confs -> Records] /\ wanted \in [Confs -> BOOLEAN] BY DEF AdminInv, AdminTypes
<1>2. /\ req[r].pc = "idle" /\ changes < MaxChanges /\ changes' = changes + 1
      /\ confs' = [confs EXCEPT ![n] = None_]
      /\ wanted' = [wanted EXCEPT ![n] = FALSE]
      /\ req' = [req EXCEPT ![r] = [pc |-> "stop", old |-> n, new |-> "-", rec |-> None_]]
      /\ UNCHANGED <<maps, stops, listening, client, sessions>>
  BY DEF DeleteReverse
<1>3. confs'[n] = None_ /\ confs' \in [Confs -> Records] /\ \A m \in Confs \ {n} : confs'[m] = confs[m]
  BY <1>1, <1>2, NoneIs
<1>4. wanted' \in [Confs -> BOOLEAN] /\ ~wanted'[n] /\ \A m \in Confs \ {n} : wanted'[m] = wanted[m]
  BY <1>1, <1>2
<1>5. RecordsReal' BY <1>2, <1>3 DEF AdminInv, RecordsReal, Real
<1>6. WantedStored' BY <1>3, <1>4 DEF AdminInv, WantedStored
<1>7. "-" \notin Confs BY ReverseAssumption
<1> QED BY <1>2, <1>3, <1>4, <1>5, <1>6, <1>7, NoneIs, BeginsToStop

\* A request on a config that is under way and stays so, or ends.
LEMMA GoesOn ==
    ASSUME AdminInv, OneByOne, NEW r \in Requests, req[r].pc \in {"post", "stop", "start"},
           NEW p \in AdminPositions, p.pc \in {"idle", "start"}, req' = [req EXCEPT ![r] = p],
           UNCHANGED <<maps, listening, changes, sessions>>
    PROVE  /\ req'[r] = p /\ (\A q \in Requests : req'[q] = p) /\ Mapping'
           /\ req' \in [Requests -> AdminPositions] /\ Posting'
<1>1. req'[r] = p /\ req' \in [Requests -> AdminPositions] BY DEF AdminInv, AdminTypes
<1>2. \A q \in Requests : req'[q] = p BY <1>1 DEF OneByOne
<1>3. \A m \in Maps : ListenerRight(m) BY DEF AdminInv, Mapping, OneByOne
<1>4. Mapping' BY <1>2, <1>3 DEF Mapping, ListenerRight
<1>5. Posting' BY <1>2 DEF Posting
<1> QED BY <1>1, <1>2, <1>4, <1>5

LEMMA PutReverseStep ==
    ASSUME AdminInv, OneByOne, NEW r \in Requests, PutReverse(r)
    PROVE  AdminInv'
<1>0. PICK n : n = req[r].new OBVIOUS
<1> DEFINE p == [req[r] EXCEPT !.pc = "start"]
<1>1. /\ req \in [Requests -> AdminPositions] /\ confs \in [Confs -> Records] /\ wanted \in [Confs -> BOOLEAN]
  BY DEF AdminInv, AdminTypes
<1>2. /\ req[r].pc = "post" /\ confs' = [confs EXCEPT ![n] = req[r].rec]
      /\ wanted' = [wanted EXCEPT ![n] = req[r].rec.on] /\ req' = [req EXCEPT ![r] = p]
      /\ UNCHANGED <<maps, stops, listening, client, changes, sessions>>
  BY <1>0, <1>1 DEF PutReverse
<1>3. n \in Confs /\ ~wanted[n] /\ req[r].rec.ver > 0 BY <1>0, <1>2 DEF AdminInv, ClientsInv, Posting
<1>4. req[r] \in AdminPositions /\ req[r].rec \in Records /\ req[r].rec.on \in BOOLEAN BY <1>1 DEF AdminPositions, Records
<1>5. p \in AdminPositions /\ p.pc = "start" /\ p.new = n /\ p.rec = req[r].rec BY <1>0, <1>4 DEF AdminPositions
<1> HIDE DEF p
<1>6. /\ (\A q \in Requests : req'[q] = p) /\ Mapping' /\ req' \in [Requests -> AdminPositions] /\ Posting'
  BY <1>2, <1>5, GoesOn
<1>7. confs' \in [Confs -> Records] /\ confs'[n] = req[r].rec /\ \A m \in Confs \ {n} : confs'[m] = confs[m]
  BY <1>1, <1>2, <1>3, <1>4
<1>8. wanted' \in [Confs -> BOOLEAN] /\ wanted'[n] = req[r].rec.on /\ \A m \in Confs \ {n} : wanted'[m] = wanted[m]
  BY <1>1, <1>2, <1>3, <1>4
<1>9. AdminTypes' BY <1>2, <1>6, <1>7, <1>8 DEF AdminInv, AdminTypes
<1>10. RecordsReal' BY <1>2, <1>3, <1>7 DEF AdminInv, RecordsReal, Real
<1>11. WantedStored' BY <1>3, <1>7, <1>8, NoneIs DEF AdminInv, WantedStored
<1>12. ClientShape' BY <1>2 DEF AdminInv, ClientsInv, ClientShape
<1>13. Born' = Born /\ \A m : Running(m)' = Running(m) BY <1>2, ClientsStay
<1>14. ClientsCounted' BY <1>2, <1>13 DEF AdminInv, ClientsInv, ClientsCounted, Starting
<1>15. \A m \in Confs : AsWanted(m) BY <1>2, AllAsWanted
<1>16. Untouched'
  <2> SUFFICES ASSUME NEW m \in Confs, ~Touched(m)' PROVE AsWanted(m)' BY DEF Untouched
  <2>1. m # n BY <1>5, <1>6 DEF Touched
  <2> QED BY <1>2, <1>8, <1>13, <1>15, <2>1 DEF AsWanted
<1>17. Vacant(n)' BY <1>2, <1>3, <1>13, <1>15 DEF AsWanted, Vacant
<1>18. Stopping' /\ Starting_' BY <1>3, <1>5, <1>6, <1>8, <1>17 DEF Stopping, Starting_
<1> QED BY <1>6, <1>9, <1>10, <1>11, <1>12, <1>14, <1>16, <1>18 DEF AdminInv, ClientsInv

LEMMA StopOldStep ==
    ASSUME AdminInv, OneByOne, NEW r \in Requests, StopOld(r)
    PROVE  AdminInv'
<1>0. PICK n, m : n = req[r].old /\ m = req[r].new OBVIOUS
<1> DEFINE p == IF m = "-" THEN NoReq ELSE [req[r] EXCEPT !.pc = "start"]
<1>1. /\ req \in [Requests -> AdminPositions] /\ stops \in [Confs -> 0 .. MaxChanges]
      /\ client \in [ClientIds -> ClientRecords]
  BY DEF AdminInv, AdminTypes
<1>2. /\ req[r].pc = "stop"
      /\ client' = [i \in ClientIds |-> IF i = stops[n] THEN [client[i] EXCEPT !.stopped = TRUE] ELSE client[i]]
      /\ stops' = [stops EXCEPT ![n] = 0] /\ req' = [req EXCEPT ![r] = p]
      /\ UNCHANGED <<confs, maps, listening, changes, sessions, wanted>>
  BY <1>0, <1>1 DEF StopOld
<1>3. /\ n \in Confs /\ m \in Confs \cup {"-"}
      /\ Running(n) = IF stops[n] = 0 THEN {} ELSE {stops[n]}
      /\ m # n => ~wanted[n]
      /\ m \in Confs => wanted[m] = req[r].rec.on
      /\ m \in Confs /\ m # n => Vacant(m)
  BY <1>0, <1>2 DEF AdminInv, ClientsInv, Stopping
<1>4. "-" \notin Confs BY ReverseAssumption
<1>5. /\ p \in AdminPositions /\ p.pc = IF m = "-" THEN "idle" ELSE "start"
      /\ m # "-" => p.new = m /\ p.rec = req[r].rec
  BY <1>0, <1>1, NoneIs DEF AdminPositions, NoReq
<1>6. \A i \in ClientIds : client'[i] = IF i = stops[n] THEN [client[i] EXCEPT !.stopped = TRUE] ELSE client[i]
  BY <1>2
<1> HIDE DEF p
<1>7. /\ (\A q \in Requests : req'[q] = p) /\ Mapping' /\ req' \in [Requests -> AdminPositions] /\ Posting'
  BY <1>2, <1>5, GoesOn
<1>8. \A i \in ClientIds : /\ client'[i] \in ClientRecords /\ client'[i].name = client[i].name
                           /\ client'[i].pc = client[i].pc /\ client'[i].then = client[i].then
                           /\ client'[i].copy = client[i].copy
                           /\ IF i = stops[n] THEN client'[i].stopped ELSE client'[i] = client[i]
  <2> SUFFICES ASSUME NEW i \in ClientIds
               PROVE  /\ client'[i] \in ClientRecords /\ client'[i].name = client[i].name
                      /\ client'[i].pc = client[i].pc /\ client'[i].then = client[i].then
                      /\ client'[i].copy = client[i].copy
                      /\ IF i = stops[n] THEN client'[i].stopped ELSE client'[i] = client[i]
    OBVIOUS
  <2>1. client[i] \in ClientRecords BY <1>1
  <2>2. CASE i = stops[n]
    <3>1. client'[i] = [client[i] EXCEPT !.stopped = TRUE] BY <1>6, <2>2
    <3> QED BY <2>1, <2>2, <3>1 DEF ClientRecords
  <2>3. CASE i # stops[n]
    <3>1. client'[i] = client[i] BY <1>6, <2>3
    <3> QED BY <2>1, <2>3, <3>1
  <2> QED BY <2>2, <2>3
<1>9. client' \in [ClientIds -> ClientRecords] BY <1>2, <1>8
<1>10. stops' \in [Confs -> 0 .. MaxChanges] /\ stops'[n] = 0 /\ \A k \in Confs \ {n} : stops'[k] = stops[k]
  BY <1>1, <1>2, <1>3, ReverseAssumption
<1>11. AdminTypes' BY <1>2, <1>7, <1>9, <1>10 DEF AdminInv, AdminTypes
<1>12. RecordsReal' /\ WantedStored' BY <1>2 DEF AdminInv, RecordsReal, WantedStored
<1>13. stops[n] # 0 => stops[n] \in ClientIds /\ client[stops[n]].name = n /\ client[stops[n]].pc # "none"
  BY <1>3 DEF Running
<1>14. 0 \notin ClientIds BY ReverseAssumption DEF ClientIds
<1>15. ClientShape'
  <2> SUFFICES ASSUME NEW i \in ClientIds
               PROVE  /\ client'[i].pc = "none" => client'[i] = Unborn
                      /\ client'[i].pc # "none" => client'[i].name \in Confs
                      /\ client'[i].pc \in {"get", "put"} => client'[i].then \in {"up", "wait"}
                      /\ client'[i].pc = "put" => client'[i].copy # None_ /\ client'[i].copy.ver > 0
    BY DEF ClientShape
  <2>1. /\ client[i].pc = "none" => client[i] = Unborn
        /\ client[i].pc # "none" => client[i].name \in Confs
        /\ client[i].pc \in {"get", "put"} => client[i].then \in {"up", "wait"}
        /\ client[i].pc = "put" => client[i].copy # None_ /\ client[i].copy.ver > 0
    BY DEF AdminInv, ClientsInv, ClientShape
  <2>2. client'[i].pc = "none" => client'[i] = client[i] BY <1>6, <1>8, <1>13, <1>14
  <2> QED BY <1>8, <2>1, <2>2
<1>16. Born' = Born BY <1>8 DEF Born
<1>17. ClientsCounted' BY <1>2, <1>16 DEF AdminInv, ClientsInv, ClientsCounted, Starting
<1>18. \A k \in Confs \ {n} : Running(k)' = Running(k) BY <1>8, <1>13, <1>14 DEF Running
<1>19. Running(n)' = {} BY <1>3, <1>8, <1>14 DEF Running
<1>20. Untouched'
  <2> SUFFICES ASSUME NEW k \in Confs, ~Touched(k)' PROVE AsWanted(k)' BY DEF Untouched
  <2>1. k # m BY <1>4, <1>5, <1>7 DEF Touched
  <2>2. CASE k = n BY <1>2, <1>3, <1>10, <1>19, <2>1, <2>2 DEF AsWanted
  <2>3. CASE k # n
    <3>1. ~Touched(k) BY <1>0, <1>2, <2>1, <2>3 DEF Touched, OneByOne
    <3>2. AsWanted(k) BY <3>1 DEF AdminInv, ClientsInv, Untouched
    <3> QED BY <1>2, <1>10, <1>18, <2>3, <3>2 DEF AsWanted
  <2> QED BY <2>2, <2>3
<1>21. m \in Confs => Vacant(m)' BY <1>3, <1>10, <1>18, <1>19 DEF Vacant
<1>22. Stopping' /\ Starting_' BY <1>2, <1>3, <1>4, <1>5, <1>7, <1>21 DEF Stopping, Starting_
<1> QED BY <1>7, <1>11, <1>12, <1>15, <1>17, <1>20, <1>22 DEF AdminInv, ClientsInv

\* A client slot is left.
LEMMA Unused ==
    ASSUME AdminInv, NEW r \in Requests, Starting(r)
    PROVE  \E i \in ClientIds : client[i].pc = "none"
<1>1. Cardinality(Born) < changes /\ changes <= MaxChanges /\ changes \in Nat
  BY ReverseAssumption DEF AdminInv, AdminTypes, ClientsInv, ClientsCounted
<1>2. Cardinality(ClientIds) = MaxChanges
  <2>1. Cardinality(1 .. MaxChanges) = IF 1 > MaxChanges THEN 0 ELSE MaxChanges - 1 + 1
    BY FS_Interval, ReverseAssumption
  <2> QED BY <2>1, ReverseAssumption DEF ClientIds
<1>3. Born # ClientIds BY <1>1, <1>2, BornCounts, ReverseAssumption
<1> QED BY <1>3 DEF Born

LEMMA StartNewStep ==
    ASSUME AdminInv, OneByOne, NEW r \in Requests, StartNew(r)
    PROVE  AdminInv'
<1>0. PICK n, c : n = req[r].new /\ c = CHOOSE i \in ClientIds : client[i].pc = "none" OBVIOUS
<1> DEFINE new == [Unborn EXCEPT !.name = n, !.pc = "loop"]
<1>1. /\ stops \in [Confs -> 0 .. MaxChanges] /\ client \in [ClientIds -> ClientRecords]
      /\ wanted \in [Confs -> BOOLEAN]
  BY DEF AdminInv, AdminTypes
<1>2. /\ req[r].pc = "start" /\ req' = [req EXCEPT ![r] = NoReq]
      /\ IF req[r].rec.on THEN stops' = [stops EXCEPT ![n] = c] /\ client' = [client EXCEPT ![c] = new]
         ELSE UNCHANGED <<stops, client>>
      /\ UNCHANGED <<confs, maps, listening, changes, sessions, wanted>>
  BY <1>0 DEF StartNew
<1>3. n \in Confs /\ Vacant(n) /\ wanted[n] = req[r].rec.on
  BY <1>0, <1>2 DEF AdminInv, ClientsInv, Starting_
<1>4. Starting(r) BY <1>2 DEF Starting
<1>5. c \in ClientIds /\ client[c].pc = "none" BY <1>0, <1>4, Unused
<1>6. NoReq \in AdminPositions /\ NoReq.pc = "idle" BY NoneIs DEF NoReq, AdminPositions
<1>7. /\ new \in ClientRecords /\ new.pc = "loop" /\ new.name = n /\ ~new.stopped
  BY <1>3, NoneIs DEF Unborn, ClientRecords
<1> HIDE DEF new
<1>8. /\ (\A q \in Requests : req'[q] = NoReq) /\ Mapping' /\ req' \in [Requests -> AdminPositions] /\ Posting'
  BY <1>2, <1>6, GoesOn
<1>9. Stopping' /\ Starting_' BY <1>6, <1>8 DEF Stopping, Starting_
<1>10. RecordsReal' /\ WantedStored' BY <1>2 DEF AdminInv, RecordsReal, WantedStored
<1>11. \A k \in Confs \ {n} : AsWanted(k)
  BY <1>0, <1>2 DEF AdminInv, ClientsInv, Untouched, Touched, OneByOne
<1>12. Cardinality(Born) < changes /\ changes \in Nat
  BY <1>4, ReverseAssumption DEF AdminInv, AdminTypes, ClientsInv, ClientsCounted
<1>13. CASE ~req[r].rec.on
  <2>1. UNCHANGED <<stops, client>> BY <1>2, <1>13
  <2>2. Born' = Born /\ \A k : Running(k)' = Running(k) BY <2>1, ClientsStay
  <2>3. AdminTypes' BY <1>2, <1>8, <2>1 DEF AdminInv, AdminTypes
  <2>4. ClientShape' BY <2>1 DEF AdminInv, ClientsInv, ClientShape
  <2>5. ClientsCounted' BY <1>2, <1>6, <1>8, <1>12, <2>2, BornCounts DEF ClientsCounted, Starting
  <2>6. AsWanted(n) BY <1>1, <1>3, <1>13 DEF AsWanted, Vacant
  <2>7. Untouched' BY <1>2, <1>11, <2>1, <2>2, <2>6 DEF Untouched, AsWanted
  <2> QED BY <1>8, <1>9, <1>10, <2>3, <2>4, <2>5, <2>7 DEF AdminInv, ClientsInv
<1>14. CASE req[r].rec.on
  <2>1. stops' = [stops EXCEPT ![n] = c] /\ client' = [client EXCEPT ![c] = new] BY <1>2, <1>14
  <2>2. client'[c] = new /\ \A i \in ClientIds \ {c} : client'[i] = client[i] BY <1>1, <1>5, <2>1
  <2>3. stops'[n] = c /\ \A k \in Confs \ {n} : stops'[k] = stops[k] BY <1>1, <1>3, <2>1
  <2>4. c \in 0 .. MaxChanges BY <1>5, ReverseAssumption DEF ClientIds
  <2>5. AdminTypes' BY <1>1, <1>2, <1>3, <1>5, <1>7, <1>8, <2>1, <2>4 DEF AdminInv, AdminTypes
  <2>6. ClientShape' BY <1>3, <1>7, <2>2 DEF AdminInv, ClientsInv, ClientShape
  <2>7. Born' = Born \cup {c} BY <1>5, <1>7, <2>2 DEF Born
  <2>8. Cardinality(Born') <= Cardinality(Born) + 1
    <3>1. Cardinality(Born \cup {c}) = IF c \in Born THEN Cardinality(Born) ELSE Cardinality(Born) + 1
      BY BornCounts, FS_AddElement
    <3> QED BY <2>7, <3>1, BornCounts
  <2>9. Cardinality(Born') \in Nat BY <2>7, BornCounts, FS_AddElement
  <2>10. ClientsCounted' BY <1>2, <1>6, <1>8, <1>12, <2>8, <2>9, BornCounts DEF ClientsCounted, Starting
  <2>11. \A k \in Confs \ {n} : Running(k)' = Running(k) BY <1>5, <1>7, <2>2 DEF Running
  <2>12. Running(n)' = {c} BY <1>3, <1>5, <1>7, <2>2 DEF Running, Vacant
  <2>13. Untouched'
    <3> SUFFICES ASSUME NEW k \in Confs PROVE AsWanted(k)' BY DEF Untouched
    <3>1. CASE k = n BY <1>1, <1>2, <1>3, <1>14, <2>3, <2>12, <3>1 DEF AsWanted
    <3>2. CASE k # n BY <1>2, <1>11, <2>3, <2>11, <3>2 DEF AsWanted
    <3> QED BY <3>1, <3>2
  <2> QED BY <1>8, <1>9, <1>10, <2>5, <2>6, <2>10, <2>13 DEF AdminInv, ClientsInv
<1> QED BY <1>13, <1>14

-----------------------------------------------------------------------------
(* Requests on mappings.                                                   *)

\* A step that leaves configs and clients alone, while no request works on them.
LEMMA MappingMoves ==
    ASSUME AdminInv, OneByOne, NEW r \in Requests, req[r].pc \in {"idle", "unlisten", "listen"},
           NEW p \in AdminPositions, p.pc \in {"idle", "unlisten", "listen"}, req' = [req EXCEPT ![r] = p],
           maps' \in [Maps -> Records], \A m \in Maps : Real(maps'[m]), listening' \in [Maps -> Nat],
           changes' \in {changes, changes + 1}, changes' <= MaxChanges,
           UNCHANGED <<confs, stops, client, sessions, wanted>>
    PROVE  /\ (\A q \in Requests : req'[q] = p)
           /\ Mapping' => AdminInv'
<1>1. req'[r] = p /\ req' \in [Requests -> AdminPositions] BY DEF AdminInv, AdminTypes
<1>2. \A q \in Requests : req'[q] = p BY <1>1 DEF OneByOne
<1>3. changes \in Nat /\ changes' \in 0 .. MaxChanges /\ changes' >= changes
  BY ReverseAssumption DEF AdminInv, AdminTypes
<1>4. AdminTypes' BY <1>1, <1>3 DEF AdminInv, AdminTypes
<1>5. RecordsReal' /\ WantedStored' BY DEF AdminInv, RecordsReal, WantedStored
<1>6. ClientShape' BY DEF AdminInv, ClientsInv, ClientShape
<1>7. Born' = Born /\ \A k : Running(k)' = Running(k) BY ClientsStay
<1>8. Cardinality(Born) <= changes BY DEF AdminInv, ClientsInv, ClientsCounted
<1>9. ClientsCounted' BY <1>2, <1>3, <1>7, <1>8, BornCounts DEF ClientsCounted, Starting
<1>10. \A k \in Confs : AsWanted(k) BY AllAsWanted
<1>11. Untouched' BY <1>7, <1>10 DEF Untouched, AsWanted
<1>12. Posting' /\ Stopping' /\ Starting_' BY <1>2 DEF Posting, Stopping, Starting_
<1> QED BY <1>2, <1>4, <1>5, <1>6, <1>9, <1>11, <1>12 DEF AdminInv, ClientsInv

LEMMA AllListed ==
    ASSUME AdminInv, OneByOne, NEW r \in Requests, req[r].pc \notin {"unlisten", "listen"}
    PROVE  \A m \in Maps : ListenerRight(m)
BY DEF AdminInv, Mapping, OneByOne

LEMMA PostMappingStep ==
    ASSUME AdminInv, OneByOne, NEW r \in Requests, NEW m \in Maps, NEW on \in BOOLEAN, PostMapping(r, m, on)
    PROVE  AdminInv'
<1> DEFINE rec == [ver |-> changes + 1, on |-> on]
           p == [pc |-> IF maps[m] = None_ THEN "listen" ELSE "unlisten", old |-> m, new |-> m, rec |-> rec]
<1>1. changes \in Nat /\ maps \in [Maps -> Records] /\ listening \in [Maps -> Nat]
  BY ReverseAssumption DEF AdminInv, AdminTypes
<1>2. rec \in Records /\ rec.ver > 0 BY <1>1 DEF Records
<1>3. /\ req[r].pc = "idle" /\ changes < MaxChanges /\ changes' = changes + 1
      /\ maps' = [maps EXCEPT ![m] = rec] /\ req' = [req EXCEPT ![r] = p]
      /\ UNCHANGED <<confs, stops, listening, client, sessions, wanted>>
  BY <1>1 DEF PostMapping
<1>4. /\ p \in AdminPositions /\ p.pc = IF maps[m] = None_ THEN "listen" ELSE "unlisten"
      /\ p.old = m /\ p.new = m /\ p.rec = rec
  BY <1>2 DEF AdminPositions
<1> HIDE DEF rec, p
<1>5. maps' \in [Maps -> Records] /\ maps'[m] = rec /\ \A k \in Maps \ {m} : maps'[k] = maps[k]
  BY <1>1, <1>2, <1>3
<1>6. \A k \in Maps : Real(maps'[k]) BY <1>2, <1>5 DEF AdminInv, RecordsReal, Real
<1>7. changes' <= MaxChanges BY <1>1, <1>3, ReverseAssumption
<1>8. (\A q \in Requests : req'[q] = p) /\ (Mapping' => AdminInv')
  BY <1>1, <1>3, <1>4, <1>5, <1>6, <1>7, MappingMoves
<1>9. \A k \in Maps : ListenerRight(k) BY <1>3, AllListed
<1>10. rec # None_ BY <1>2, NoneIs
<1>11. maps[m] = None_ => listening[m] = 0 BY <1>9 DEF ListenerRight
<1>12. \A k \in Maps \ {m} : ListenerRight(k)' BY <1>3, <1>5, <1>9 DEF ListenerRight
<1>13. Mapping' BY <1>3, <1>4, <1>5, <1>8, <1>10, <1>11, <1>12 DEF Mapping
<1> QED BY <1>8, <1>13

LEMMA DeleteMappingStep ==
    ASSUME AdminInv, OneByOne, NEW r \in Requests, NEW m \in Maps, DeleteMapping(r, m)
    PROVE  AdminInv'
<1> DEFINE p == [pc |-> "unlisten", old |-> m, new |-> "-", rec |-> None_]
<1>1. changes \in Nat /\ maps \in [Maps -> Records] /\ listening \in [Maps -> Nat]
  BY ReverseAssumption DEF AdminInv, AdminTypes
<1>2. /\ req[r].pc = "idle" /\ changes < MaxChanges /\ changes' = changes + 1
      /\ maps' = [maps EXCEPT ![m] = None_] /\ req' = [req EXCEPT ![r] = p]
      /\ UNCHANGED <<confs, stops, listening, client, sessions, wanted>>
  BY DEF DeleteMapping
<1>3. p \in AdminPositions /\ p.pc = "unlisten" /\ p.old = m /\ p.new = "-" BY NoneIs DEF AdminPositions
<1> HIDE DEF p
<1>4. maps' \in [Maps -> Records] /\ maps'[m] = None_ /\ \A k \in Maps \ {m} : maps'[k] = maps[k]
  BY <1>1, <1>2, NoneIs
<1>5. \A k \in Maps : Real(maps'[k]) BY <1>4 DEF AdminInv, RecordsReal, Real
<1>6. changes' <= MaxChanges BY <1>1, <1>2, ReverseAssumption
<1>7. (\A q \in Requests : req'[q] = p) /\ (Mapping' => AdminInv')
  BY <1>1, <1>2, <1>3, <1>4, <1>5, <1>6, MappingMoves
<1>8. \A k \in Maps : ListenerRight(k) BY <1>2, AllListed
<1>9. \A k \in Maps \ {m} : ListenerRight(k)' BY <1>2, <1>4, <1>8 DEF ListenerRight
<1>10. Mapping' BY <1>3, <1>7, <1>9 DEF Mapping
<1> QED BY <1>7, <1>10

LEMMA ToggleMappingStep ==
    ASSUME AdminInv, OneByOne, NEW r \in Requests, NEW m \in Maps, ToggleMapping(r, m)
    PROVE  AdminInv'
<1> DEFINE rec == [maps[m] EXCEPT !.on = ~@]
<1>1. /\ changes \in Nat /\ maps \in [Maps -> Records] /\ listening \in [Maps -> Nat]
      /\ req \in [Requests -> AdminPositions]
  BY ReverseAssumption DEF AdminInv, AdminTypes
<1>2. /\ req[r].pc = "idle" /\ changes < MaxChanges /\ changes' = changes + 1 /\ maps[m] # None_
      /\ maps' = [maps EXCEPT ![m] = rec]
      /\ UNCHANGED <<confs, stops, listening, client, req, sessions, wanted>>
  BY <1>1 DEF ToggleMapping
<1>3. maps[m].ver > 0 BY <1>2 DEF AdminInv, RecordsReal, Real
<1>4. rec \in Records /\ rec.ver = maps[m].ver
  <2>1. maps[m] \in Records /\ (~maps[m].on) \in BOOLEAN BY <1>1
  <2> HIDE <1>1
  <2> QED BY <2>1 DEF Records
<1> HIDE DEF rec
<1>5. maps' \in [Maps -> Records] /\ maps'[m] = rec /\ \A k \in Maps \ {m} : maps'[k] = maps[k]
  BY <1>1, <1>2, <1>4
<1>6. \A k \in Maps : Real(maps'[k]) BY <1>3, <1>4, <1>5 DEF AdminInv, RecordsReal, Real
<1>7. changes' <= MaxChanges BY <1>1, <1>2, ReverseAssumption
<1>8. req' = [req EXCEPT ![r] = req[r]] /\ req[r] \in AdminPositions BY <1>1, <1>2
<1>9. (\A q \in Requests : req'[q] = req[r]) /\ (Mapping' => AdminInv')
  BY <1>1, <1>2, <1>5, <1>6, <1>7, <1>8, MappingMoves
<1>10. \A k \in Maps : ListenerRight(k) BY <1>2, AllListed
<1>11. rec # None_ BY <1>3, <1>4, NoneIs
<1>12. \A k \in Maps : ListenerRight(k)' BY <1>2, <1>4, <1>5, <1>10, <1>11 DEF ListenerRight
<1>13. Mapping' BY <1>2, <1>9, <1>12 DEF Mapping
<1> QED BY <1>9, <1>13

LEMMA UnlistenStep ==
    ASSUME AdminInv, OneByOne, NEW r \in Requests, Unlisten(r)
    PROVE  AdminInv'
<1>0. PICK m : m = req[r].old OBVIOUS
<1> DEFINE p == IF req[r].new = "-" THEN NoReq ELSE [req[r] EXCEPT !.pc = "listen"]
<1>1. /\ changes \in 0 .. MaxChanges /\ maps \in [Maps -> Records] /\ listening \in [Maps -> Nat]
      /\ req \in [Requests -> AdminPositions]
  BY DEF AdminInv, AdminTypes
<1>2. /\ req[r].pc = "unlisten" /\ listening' = [listening EXCEPT ![m] = 0] /\ req' = [req EXCEPT ![r] = p]
      /\ UNCHANGED <<confs, maps, stops, client, changes, sessions, wanted>>
  BY <1>0, <1>1 DEF Unlisten
<1>3. /\ m \in Maps
      /\ req[r].new # "-" => req[r].new = m /\ req[r].rec = maps[m] /\ maps[m] # None_
  BY <1>0, <1>2 DEF AdminInv, Mapping
<1>4. /\ p \in AdminPositions /\ p.pc = IF req[r].new = "-" THEN "idle" ELSE "listen"
      /\ req[r].new # "-" => p.old = m /\ p.new = m /\ p.rec = req[r].rec
  BY <1>0, <1>1, <1>3, NoneIs DEF AdminPositions, NoReq
<1> HIDE DEF p
<1>5. listening' \in [Maps -> Nat] /\ listening'[m] = 0 /\ \A k \in Maps \ {m} : listening'[k] = listening[k]
  BY <1>1, <1>2, <1>3
<1>6. /\ (\A k \in Maps : Real(maps'[k])) /\ maps' \in [Maps -> Records]
      /\ changes' = changes /\ changes' <= MaxChanges
  BY <1>1, <1>2, ReverseAssumption DEF AdminInv, RecordsReal
<1>7. (\A q \in Requests : req'[q] = p) /\ (Mapping' => AdminInv')
  BY <1>1, <1>2, <1>4, <1>5, <1>6, MappingMoves
<1>8. \A k \in Maps \ {m} : ListenerRight(k) BY <1>0, <1>2 DEF AdminInv, Mapping, OneByOne
<1>9. \A k \in Maps : ListenerRight(k)' BY <1>2, <1>5, <1>8 DEF ListenerRight
<1>10. Mapping' BY <1>2, <1>3, <1>4, <1>5, <1>7, <1>9 DEF Mapping
<1> QED BY <1>7, <1>10

LEMMA ListenStep ==
    ASSUME AdminInv, OneByOne, NEW r \in Requests, Listen(r)
    PROVE  AdminInv'
<1>0. PICK m : m = req[r].old OBVIOUS
<1>1. /\ changes \in 0 .. MaxChanges /\ maps \in [Maps -> Records] /\ listening \in [Maps -> Nat]
  BY DEF AdminInv, AdminTypes
<1>2. /\ req[r].pc = "listen" /\ req' = [req EXCEPT ![r] = NoReq]
      /\ UNCHANGED <<confs, maps, stops, client, changes, sessions, wanted>>
  BY DEF Listen
<1>3. m \in Maps /\ req[r].new = m /\ listening[m] = 0 /\ req[r].rec = maps[m] /\ maps[m] # None_
  BY <1>0, <1>2 DEF AdminInv, Mapping
<1>4. listening' = listening \/ listening' = [listening EXCEPT ![m] = maps[m].ver]
  BY <1>3 DEF Listen
<1>5. maps[m].ver \in Nat BY <1>1, <1>3 DEF Records
<1>6. /\ listening' \in [Maps -> Nat] /\ listening'[m] \in {0, maps[m].ver}
      /\ \A k \in Maps \ {m} : listening'[k] = listening[k]
  BY <1>1, <1>3, <1>4, <1>5
<1>7. NoReq \in AdminPositions /\ NoReq.pc = "idle" BY NoneIs DEF NoReq, AdminPositions
<1>8. /\ (\A k \in Maps : Real(maps'[k])) /\ maps' \in [Maps -> Records]
      /\ changes' = changes /\ changes' <= MaxChanges
  BY <1>1, <1>2, ReverseAssumption DEF AdminInv, RecordsReal
<1>9. (\A q \in Requests : req'[q] = NoReq) /\ (Mapping' => AdminInv')
  BY <1>1, <1>2, <1>6, <1>7, <1>8, MappingMoves
<1>10. \A k \in Maps \ {m} : ListenerRight(k) BY <1>0, <1>2 DEF AdminInv, Mapping, OneByOne
<1>11. \A k \in Maps : ListenerRight(k)' BY <1>2, <1>3, <1>6, <1>10 DEF ListenerRight
<1>12. Mapping' BY <1>7, <1>9, <1>11 DEF Mapping
<1> QED BY <1>9, <1>12

-----------------------------------------------------------------------------
(* The theorem.                                                            *)

LEMMA AdminStarts == ReverseInit => AdminInv
<1> SUFFICES ASSUME ReverseInit PROVE AdminInv OBVIOUS
<1> USE DEF ReverseInit
<1>1. AdminTypes
  <2>1. Unborn \in ClientRecords BY NoneIs DEF Unborn, ClientRecords
  <2>2. NoReq \in AdminPositions BY NoneIs DEF NoReq, AdminPositions
  <2> QED BY <2>1, <2>2, NoneIs, ReverseAssumption DEF AdminTypes
<1>2. RecordsReal /\ WantedStored BY DEF RecordsReal, Real, WantedStored
<1>3. \A i \in ClientIds : client[i] = Unborn /\ client[i].pc = "none" BY DEF Unborn
<1>4. \A r \in Requests : req[r].pc = "idle" BY DEF NoReq
<1>5. ClientShape BY <1>3 DEF ClientShape
<1>6. Born = {} /\ \A n : Running(n) = {} BY <1>3 DEF Born, Running
<1>7. ClientsCounted BY <1>4, <1>6, FS_EmptySet DEF ClientsCounted, Starting
<1>8. Untouched BY <1>6 DEF Untouched, AsWanted
<1>9. Posting /\ Stopping /\ Starting_ BY <1>4 DEF Posting, Stopping, Starting_
<1>10. Mapping BY <1>4 DEF Mapping, ListenerRight
<1> QED BY <1>1, <1>2, <1>5, <1>7, <1>8, <1>9, <1>10 DEF AdminInv, ClientsInv

LEMMA AdminStep ==
    ASSUME AdminInv, OneByOne, ~RenameOnto, [ReverseNext]_reverseVars
    PROVE  AdminInv'
<1>1. CASE UNCHANGED reverseVars
  <2> USE <1>1 DEF reverseVars
  <2>1. AdminTypes' BY DEF AdminInv, AdminTypes
  <2>2. RecordsReal' BY DEF AdminInv, RecordsReal
  <2>3. WantedStored' BY DEF AdminInv, WantedStored
  <2>4. ClientShape' BY DEF AdminInv, ClientsInv, ClientShape
  <2>5. \A i \in ClientIds : /\ client'[i].name = client[i].name /\ (Runs(i)' <=> Runs(i))
                             /\ client'[i].pc = "none" <=> client[i].pc = "none"
    BY DEF Runs
  <2> QED BY <2>1, <2>2, <2>3, <2>4, <2>5, ClientMoves
<1>2. ASSUME NEW r \in Requests,
             \/ \E n \in Confs, on \in BOOLEAN : PostReverse(r, n, on) \/ ToggleReverse(r, n, on) \/ \E m \in Confs : EditReverse(r, n, m, on)
             \/ \E n \in Confs : DeleteReverse(r, n)
             \/ PutReverse(r) \/ StopOld(r) \/ StartNew(r)
      PROVE  AdminInv'
  BY <1>2, PostReverseStep, ToggleReverseStep, EditReverseStep, DeleteReverseStep, PutReverseStep, StopOldStep, StartNewStep
<1>3. ASSUME NEW r \in Requests,
             \/ \E m \in Maps : (\E on \in BOOLEAN : PostMapping(r, m, on)) \/ DeleteMapping(r, m) \/ ToggleMapping(r, m)
             \/ Unlisten(r) \/ Listen(r)
      PROVE  AdminInv'
  BY <1>3, PostMappingStep, DeleteMappingStep, ToggleMappingStep, UnlistenStep, ListenStep
<1>4. ASSUME NEW i \in ClientIds,
             \/ \E then \in {"up", "wait"} : RunSession(i, then)
             \/ SessionEnds(i) \/ GetRuntime(i) \/ PutRuntime(i) \/ Reconnect(i) \/ ClientGone(i)
      PROVE  AdminInv'
  BY <1>4, ClientStep
<1> QED BY <1>1, <1>2, <1>3, <1>4 DEF ReverseNext

LEMMA AdminImplies == ASSUME AdminInv PROVE ClientsWanted /\ NoStrayListener
<1> SUFFICES ASSUME Settled
             PROVE  /\ \A n \in Confs : AsWanted(n)
                    /\ \A m \in Maps : ListenerRight(m)
  BY DEF ClientsWanted, NoStrayListener, AsWanted, ListenerRight
<1>1. \A r \in Requests : req[r].pc = "idle" BY DEF Settled, NoReq
<1> QED BY <1>1 DEF AdminInv, ClientsInv, Untouched, Touched, Mapping

\* What a stopped client may do.
Obeys(i) ==
    client[i].stopped => /\ client'[i].stopped
                         /\ client'[i].pc = "get" => client[i].pc \in {"up", "get"}

LEMMA StoppedStays ==
    ASSUME AdminInv, [ReverseNext]_reverseVars
    PROVE  \A i \in ClientIds : Obeys(i)
<1>0. client \in [ClientIds -> ClientRecords] BY DEF AdminInv, AdminTypes
<1>1. CASE client' = client BY <1>1 DEF Obeys
<1>2. ASSUME NEW r \in Requests, StopOld(r) PROVE \A i \in ClientIds : Obeys(i)
  <2> SUFFICES ASSUME NEW i \in ClientIds PROVE Obeys(i) OBVIOUS
  <2>1. client'[i] = client[i] \/ client'[i] = [client[i] EXCEPT !.stopped = TRUE] BY <1>2 DEF StopOld
  <2>2. client[i] \in ClientRecords BY <1>0
  <2> QED BY <2>1, <2>2 DEF Obeys, ClientRecords
<1>3. ASSUME NEW r \in Requests, StartNew(r) PROVE \A i \in ClientIds : Obeys(i)
  <2>1. PICK c : c = CHOOSE i \in ClientIds : client[i].pc = "none" OBVIOUS
  <2>2. req[r].pc = "start" BY <1>3 DEF StartNew
  <2>3. c \in ClientIds /\ client[c].pc = "none" BY <2>1, <2>2, Unused DEF Starting
  <2>4. ~client[c].stopped BY <2>3 DEF AdminInv, ClientsInv, ClientShape, Unborn
  <2>5. \A i \in ClientIds \ {c} : client'[i] = client[i] BY <1>0, <1>3, <2>1 DEF StartNew
  <2> QED BY <2>4, <2>5 DEF Obeys
<1>4. ASSUME NEW i \in ClientIds,
             \/ \E then \in {"up", "wait"} : RunSession(i, then)
             \/ SessionEnds(i) \/ GetRuntime(i) \/ PutRuntime(i) \/ Reconnect(i) \/ ClientGone(i)
      PROVE  \A j \in ClientIds : Obeys(j)
  <2>1. PICK d : client' = [client EXCEPT ![i] = d]
    BY <1>4, <1>0 DEF RunSession, SessionEnds, GetRuntime, PutRuntime, Reconnect, ClientGone, ClientTo
  <2>2. \A j \in ClientIds \ {i} : client'[j] = client[j] BY <1>0, <2>1
  <2>3. client[i] \in ClientRecords BY <1>0
  <2>4. client[i].pc \in {"get", "put"} => client[i].then \in {"up", "wait"} BY DEF AdminInv, ClientsInv, ClientShape
  <2>5. Obeys(i)
    <3>1. ASSUME NEW then \in {"up", "wait"}, RunSession(i, then) PROVE Obeys(i) BY <3>1 DEF RunSession, Obeys
    <3>2. CASE SessionEnds(i) BY <1>0, <2>3, <3>2 DEF SessionEnds, Obeys, ClientRecords
    <3>3. CASE GetRuntime(i) BY <1>0, <2>3, <2>4, <3>3 DEF GetRuntime, Obeys, ClientRecords
    <3>4. CASE PutRuntime(i) BY <1>0, <2>3, <2>4, <3>4 DEF PutRuntime, Obeys, ClientRecords
    <3>5. CASE Reconnect(i) BY <1>0, <2>3, <3>5 DEF Reconnect, ClientTo, Obeys, ClientRecords
    <3>6. CASE ClientGone(i) BY <1>0, <2>3, <3>6 DEF ClientGone, ClientTo, Obeys, ClientRecords
    <3> QED BY <1>4, <3>1, <3>2, <3>3, <3>4, <3>5, <3>6
  <2> QED BY <2>2, <2>5 DEF Obeys
<1>5. ASSUME NEW r \in Requests,
             \/ \E n \in Confs, on \in BOOLEAN : PostReverse(r, n, on) \/ ToggleReverse(r, n, on) \/ \E m \in Confs : EditReverse(r, n, m, on)
             \/ \E n \in Confs : DeleteReverse(r, n)
             \/ PutReverse(r)
             \/ \E m \in Maps : (\E on \in BOOLEAN : PostMapping(r, m, on)) \/ DeleteMapping(r, m) \/ ToggleMapping(r, m)
             \/ Unlisten(r) \/ Listen(r)
      PROVE  client' = client
  BY <1>5 DEF PostReverse, ToggleReverse, EditReverse, DeleteReverse, PutReverse, PostMapping, DeleteMapping,
              ToggleMapping, Unlisten, Listen
<1>6. CASE UNCHANGED reverseVars BY <1>1, <1>6 DEF reverseVars
<1> QED BY <1>1, <1>2, <1>3, <1>4, <1>5, <1>6 DEF ReverseNext

\* Requests one at a time, none of which renames a config onto another: after each of them
\* exactly the wanted reverse clients run, each with its stop channel in the runtime's
\* table, whatever the clients write into the records meanwhile; no listener is left of a
\* mapping that is gone or replaced; and a client told to stop starts no session.
THEOREM ClientsAreRight == ASSUME OneByOne, ~RenameOnto PROVE ReverseSpec => ClientsRight
<1>1. ReverseInit => AdminInv BY AdminStarts
<1>2. AdminInv /\ [ReverseNext]_reverseVars => AdminInv' BY AdminStep
<1>3. AdminInv => ClientsWanted /\ NoStrayListener BY AdminImplies
<1>4. AdminInv /\ [ReverseNext]_reverseVars =>
        [\A i \in ClientIds : client[i].stopped => /\ client'[i].stopped
                                                   /\ client'[i].pc = "get" => client[i].pc \in {"up", "get"}]_reverseVars
  BY StoppedStays DEF Obeys
<1> QED BY <1>1, <1>2, <1>3, <1>4, PTL DEF ReverseSpec, ClientsRight, ToggledOffStays
=============================================================================

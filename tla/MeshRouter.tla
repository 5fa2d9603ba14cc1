----------------------------- MODULE MeshRouter -----------------------------
(***************************************************************************)
(* The route table of a mesh node and who keeps it up to date              *)
(* (mesh/mesh.go, mesh/topology.go, p2p/p2p.go).  The receive loop of each *)
(* link registers its peer, makes its interface and hands gossip over, and *)
(* at the end takes both back, through the bounded queue criticalCh; one   *)
(* worker serves that queue, another the broadcasts and configuration      *)
(* changes of normalCh, which are dropped when it is full.  Both workers   *)
(* recompute the table: they read, compute, and store, without a lock.     *)
(*                                                                         *)
(* A sender is one registration of a link.  What a peer says is a version  *)
(* number, and so is the configuration.                                    *)
(***************************************************************************)
EXTENDS Naturals, Sequences, FiniteSets, SequencesExt

CONSTANTS
    Senders,   \* registrations
    CritCap,   \* length of criticalCh
    NormCap,   \* length of normalCh
    MaxSaid,   \* how often a peer's gossip changes
    MaxConfig  \* how often the configuration changes

\* A recomputation is about nobody: 0.
ASSUME RouterAssumption == 0 \notin Senders

VARIABLES
    at,      \* where each receive loop is
    said,    \* version of each peer's latest gossip
    nics,    \* senders whose link has an interface
    lock,    \* who holds P2PManager.mu: {} or {sender}
    crit, norm, \* criticalCh, normalCh
    peerOf,  \* topology.peers: sender -> version heard, 0 before the first
    conf,    \* version of the configuration
    route,   \* the stored table: [conf, peers, nics] it was computed from
    told,    \* version of the configuration last broadcast
    cw, gw   \* what criticalWorker and gossipWorker are doing

routerVars == <<at, said, nics, lock, crit, norm, peerOf, conf, route, told, cw, gw>>

Nothing == [t |-> "idle"]
Present == [conf |-> conf, peers |-> peerOf, nics |-> nics \cap DOMAIN peerOf]
Event(k, s) == [k |-> k, s |-> s, v |-> 0]
Goto(s, l) == at' = [at EXCEPT ![s] = l]

-----------------------------------------------------------------------------
(* The receive loop of a link. *)

\* Mutant: a registration or its end is dropped when the queue is full.
Post_Lossy(e) == crit' = IF Len(crit) < CritCap THEN Append(crit, e) ELSE crit

\* RegisterPeer, UnregisterPeer, HandleTopologyGossip: a blocking send.
Post(e) == Len(crit) < CritCap /\ crit' = Append(crit, e)

\* establishPeerFromGossip: the first gossip of the connection.
Establish(s) ==
    /\ at[s] = "off" /\ Goto(s, "new") /\ said' = [said EXCEPT ![s] = 1]
    /\ UNCHANGED <<nics, lock, crit, norm, peerOf, conf, route, told, cw, gw>>

\* registerPeerWithMesh.
RegisterPeer(s) ==
    /\ at[s] = "new" /\ Post(Event("register", s)) /\ Goto(s, "nic")
    /\ UNCHANGED <<said, nics, lock, norm, peerOf, conf, route, told, cw, gw>>

CreateLinkNIC(s) ==
    /\ at[s] = "nic" /\ nics' = nics \cup {s} /\ Goto(s, "say")
    /\ UNCHANGED <<said, lock, crit, norm, peerOf, conf, route, told, cw, gw>>

\* handleGossip hands what it has parsed to the mesh.
HandleTopologyGossip(s) ==
    /\ at[s] = "say" /\ Post([Event("gossip", s) EXCEPT !.v = said[s]]) /\ Goto(s, "recv")
    /\ UNCHANGED <<said, nics, lock, norm, peerOf, conf, route, told, cw, gw>>

\* Another gossip, with news.
Hear(s) ==
    /\ at[s] = "recv" /\ said[s] < MaxSaid
    /\ said' = [said EXCEPT ![s] = @ + 1] /\ Goto(s, "say")
    /\ UNCHANGED <<nics, lock, crit, norm, peerOf, conf, route, told, cw, gw>>

\* The connection ends; the cleanup runs under P2PManager.mu.
Breakdown(s) ==
    /\ at[s] = "recv" /\ lock = {} /\ lock' = {s} /\ Goto(s, "unregister")
    /\ UNCHANGED <<said, nics, crit, norm, peerOf, conf, route, told, cw, gw>>

UnregisterPeer(s) ==
    /\ at[s] = "unregister" /\ Post(Event("unregister", s)) /\ Goto(s, "delete")
    /\ UNCHANGED <<said, nics, lock, norm, peerOf, conf, route, told, cw, gw>>

DeleteLinkNIC(s) ==
    /\ at[s] = "delete" /\ nics' = nics \ {s} /\ lock' = {} /\ Goto(s, "gone")
    /\ UNCHANGED <<said, crit, norm, peerOf, conf, route, told, cw, gw>>

-----------------------------------------------------------------------------
(* recomputeRoutes: a worker reads configuration and peers, then the links *)
(* with their interfaces, then stores the table.                           *)

Reading == [t |-> "read"]
ReadPeers == [t |-> "links", conf |-> conf, peers |-> peerOf]
ReadLinks(w) == [t |-> "store", table |-> [conf |-> w.conf, peers |-> w.peers, nics |-> nics \cap DOMAIN w.peers]]

\* UpdateGossip: data of an unknown sender is discarded.
Updated(e) == IF e.s \in DOMAIN peerOf THEN [peerOf EXCEPT ![e.s] = e.v] ELSE peerOf

\* Dropped when normalCh is full.
Offered(e) == IF Len(norm) < NormCap THEN Append(norm, e) ELSE norm

\* criticalWorker takes an event and changes the topology; gossip that changes
\* nothing needs no new table.
CriticalTake ==
    /\ cw = Nothing /\ crit # <<>> /\ crit' = Tail(crit)
    /\ LET e == Head(crit)
           new == CASE e.k = "register"   -> [s \in DOMAIN peerOf \cup {e.s} |-> IF s = e.s THEN 0 ELSE peerOf[s]]
                    [] e.k = "unregister" -> [s \in DOMAIN peerOf \ {e.s} |-> peerOf[s]]
                    [] e.k = "gossip"     -> Updated(e)
                    [] e.k = "recompute"  -> peerOf
       IN  /\ peerOf' = new
           /\ cw' = IF e.k = "gossip" /\ new = peerOf THEN Nothing ELSE Reading
           /\ norm' = IF e.k = "register" THEN Offered("broadcast") ELSE norm
    /\ UNCHANGED <<at, said, nics, lock, conf, route, told, gw>>

CriticalReads ==
    /\ \/ cw.t = "read" /\ cw' = ReadPeers
       \/ cw.t = "links" /\ cw' = ReadLinks(cw)
    /\ UNCHANGED <<at, said, nics, lock, crit, norm, peerOf, conf, route, told, gw>>

CriticalStores ==
    /\ cw.t = "store" /\ route' = cw.table /\ cw' = Nothing
    /\ UNCHANGED <<at, said, nics, lock, crit, norm, peerOf, conf, told, gw>>

\* gossipWorker: broadcasts on an event and every 15 seconds, a new
\* configuration also makes it recompute first.
GossipTake ==
    /\ gw = Nothing
    /\ \/ norm # <<>> /\ norm' = Tail(norm)
          /\ gw' = IF Head(norm) = "config" THEN Reading ELSE [t |-> "send"]
       \/ told # conf /\ gw' = [t |-> "send"] /\ UNCHANGED norm
    /\ UNCHANGED <<at, said, nics, lock, crit, peerOf, conf, route, told, cw>>

GossipReads ==
    /\ \/ gw.t = "read" /\ gw' = ReadPeers
       \/ gw.t = "links" /\ gw' = ReadLinks(gw)
    /\ UNCHANGED <<at, said, nics, lock, crit, norm, peerOf, conf, route, told, cw>>

GossipStores ==
    /\ gw.t = "store" /\ route' = gw.table /\ gw' = [t |-> "send"]
    /\ UNCHANGED <<at, said, nics, lock, crit, norm, peerOf, conf, told, cw>>

\* broadcastGossip, without a lock of the P2P layer.
BroadcastOnce ==
    /\ gw.t = "send" /\ told' = conf /\ gw' = Nothing
    /\ UNCHANGED <<at, said, nics, lock, crit, norm, peerOf, conf, route, cw>>

\* UpdateConfig of the administrator; the event may be dropped.
SetConfig ==
    /\ conf < MaxConfig /\ conf' = conf + 1 /\ norm' = Offered("config")
    /\ UNCHANGED <<at, said, nics, lock, crit, peerOf, route, told, cw, gw>>

\* qualityLoop asks for a recomputation every 10 seconds unless the queue is
\* full.  It is let happen when the table is out of date: otherwise the table
\* would be stored again as it is.
QualityTick ==
    /\ route # Present /\ Len(crit) < CritCap
    /\ cw = Nothing /\ \A i \in DOMAIN crit : crit[i].k # "recompute"
    /\ crit' = Append(crit, Event("recompute", 0))
    /\ UNCHANGED <<at, said, nics, lock, norm, peerOf, conf, route, told, cw, gw>>

RouterInit ==
    /\ at = [s \in Senders |-> "off"] /\ said = [s \in Senders |-> 0]
    /\ nics = {} /\ lock = {} /\ crit = <<>> /\ norm = <<>>
    /\ peerOf = [s \in {} |-> 0] /\ conf = 0 /\ told = 0
    /\ route = [conf |-> 0, peers |-> [s \in {} |-> 0], nics |-> {}]
    /\ cw = Nothing /\ gw = Nothing

LoopStep(s) ==
    RegisterPeer(s) \/ CreateLinkNIC(s) \/ HandleTopologyGossip(s) \/ UnregisterPeer(s) \/ DeleteLinkNIC(s)
CriticalStep == CriticalTake \/ CriticalReads \/ CriticalStores
GossipStep == GossipReads \/ GossipStores
RouterNext ==
    \/ \E s \in Senders : LoopStep(s) \/ Establish(s) \/ Hear(s) \/ Breakdown(s)
    \/ CriticalStep \/ GossipStep \/ GossipTake \/ BroadcastOnce \/ SetConfig \/ QualityTick

RouterSpec == RouterInit /\ [][RouterNext]_routerVars

-----------------------------------------------------------------------------
(* Properties. *)

About(s) == \E i \in DOMAIN crit : crit[i].s = s

\* Forgotten: once a link's cleanup is over and the queue holds nothing of it any
\* more, the node has no peer of it: "Blocking send to criticalCh to ensure
\* cleanup is never dropped".  A registration is answered by exactly one end.
Forgotten == \A s \in Senders : at[s] = "gone" /\ ~About(s) => s \notin DOMAIN peerOf

\* Registered: a link in use whose registration the worker has taken is a peer.
Registered == \A s \in Senders : at[s] = "recv" /\ ~About(s) => s \in DOMAIN peerOf /\ peerOf[s] = said[s]

\* TableFresh: again and again the table is the one of the present
\* configuration, peers and interfaces, although two workers store tables they
\* may have begun long ago, the first table of a link is computed before its
\* interface exists, and an event of the configuration may be dropped.
TableFresh == []<>(route = Present)

\* LinksUnblocked: no receive loop stays blocked in a send to criticalCh, also
\* not one that holds P2PManager.mu.
LinksUnblocked == \A s \in Senders : []<>(at[s] \in {"off", "recv", "gone"})

\* ConfigTold: the peers hear of the latest configuration.
ConfigTold == []<>(told = conf)

\* RouterRight: registrations and their ends are never lost; the table, the links and the
\* peers' knowledge follow, and nobody stays blocked.
RouterRight == [](Forgotten /\ Registered) /\ TableFresh /\ LinksUnblocked /\ ConfigTold
=============================================================================

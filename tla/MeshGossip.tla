----------------------------- MODULE MeshGossip -----------------------------
(***************************************************************************)
(* How the nodes of a mesh learn of each other (mesh/mesh.go,              *)
(* mesh/topology.go, p2p/p2p.go): every node tells its peers which nodes   *)
(* it can reach, at how many hops, and each of those nodes' own links;     *)
(* what came from a peer is not sent back to it (split horizon), and of    *)
(* the links others claim only those that both ends claim are passed on.   *)
(* A prefix that some nodes advertise travels along with the claims.       *)
(*                                                                         *)
(* A node has one subnet, so a claim is named by its node.  There is one   *)
(* link between two nodes; the pair of sequence numbers that identifies a  *)
(* link is the number of times it has come up.                             *)
(***************************************************************************)
EXTENDS Naturals, Sequences, FiniteSets, SequencesExt, FiniteSetsExt

CONSTANTS
    MeshNodes,   \* node ids
    MeshLinks,   \* pairs {a, b} with a configured link
    Speakers,    \* nodes that keep running; the others fall silent
    Breakable,   \* links that can break and come back
    Advertisers, \* nodes that may switch the prefix on and off
    Budgets,     \* pairs: how often links break in all, and the prefix is switched
    Settled_,    \* rounds of gossip that lead to the initial state
    HopCap       \* hops are counted up to this

VARIABLES
    inst,    \* per link: 0 while down, else how often it came up
    ups,     \* per link: how often it came up so far
    peers,   \* topology.peers per node, in the order of registration
    mail,    \* per direction of a link: gossip on its way
    stale,   \* <<a, b>>: a has not noticed yet that the link to b is down
    adv,     \* nodes that advertise the prefix
    cuts, switches \* how often a link may still break, the prefix be switched

gossipVars == <<inst, ups, peers, mail, stale, cuts, adv, switches>>

NoNode == 0
\* Budgets: one link breaks; or one breaks or the prefix is switched on and off.
OneCut == {<<1, 0>>}
CutOrSwitch == {<<1, 0>>, <<0, 2>>}
Neighbours(a) == {b \in MeshNodes : {a, b} \in MeshLinks /\ a # b}
Ways == {<<a, b>> \in MeshNodes \X MeshNodes : b \in Neighbours(a)}

-----------------------------------------------------------------------------
(* What a node makes of what its peers told it.  ps is topology.peers: a   *)
(* sequence of records peer, link, claims and owner (the prefix's).        *)

\* getPeer and claimHopFor: the peer's claim for x.
ClaimOf(p, x) == {c \in p.claims : c.node = x}

\* The neighbours a node declares: its registered peers, each with the link.
OwnNeighbours(ps) == {<<p.peer, p.link>> : p \in Range(ps)}

\* The best claim for x: the lowest hop count, of the peer registered first.
Better(c, d) == c.hop < d.hop \/ (c.hop = d.hop /\ c.at <= d.at)
Best(cs) == CHOOSE c \in cs : \A d \in cs : Better(c, d)
BestClaims(a, ps) ==
    LET all == UNION {{[node |-> c.node, hop |-> c.hop, nbrs |-> c.nbrs, from |-> ps[i].peer, at |-> i]
                        : c \in ps[i].claims} : i \in DOMAIN ps}
    IN  {[node |-> a, hop |-> 0, nbrs |-> OwnNeighbours(ps), from |-> NoNode, at |-> 0]}
        \cup {Best({c \in all : c.node = x}) : x \in {c.node : c \in all} \ {a}}

\* Mutant: links are passed on without the other end's word.
Validated_Blind(claims) == claims

\* Link-level mutual validation: of the claims of others only the links whose
\* other end claims them too remain, and only claims with a link.
Validated(claims) ==
    LET links == UNION {{<<c.node, n[1], n[2]>> : n \in c.nbrs} : c \in claims}
        both(c) == [c EXCEPT !.nbrs = {n \in @ : <<n[1], c.node, n[2]>> \in links}]
    IN  {c \in claims : c.hop = 0} \cup {d \in {both(c) : c \in {e \in claims : e.hop > 0}} : d.nbrs # {}}

\* The prefix's owner a node passes on: itself, or of the copies whose sender
\* also claims the owner the one at the fewest hops.
BestOwner(a, ps, on) ==
    LET has == {i \in DOMAIN ps : ps[i].owner # NoNode /\ ClaimOf(ps[i], ps[i].owner) # {}}
        hop(i) == (CHOOSE c \in ClaimOf(ps[i], ps[i].owner) : TRUE).hop
        i == CHOOSE i \in has : \A j \in has : hop(i) < hop(j) \/ (hop(i) = hop(j) /\ i <= j)
    IN  IF on THEN [owner |-> a, from |-> NoNode]
        ELSE IF has = {} THEN [owner |-> NoNode, from |-> NoNode]
        ELSE [owner |-> ps[i].owner, from |-> ps[i].peer]

Wire(claims) == {[node |-> c.node, hop |-> c.hop, nbrs |-> c.nbrs] : c \in claims}

\* broadcastGossip: what is sent to b of the best claims and the best owner.
GossipTo(b, best, o) ==
    [claims |-> Wire({c \in best : c.from # b}), owner |-> IF o.from = b THEN NoNode ELSE o.owner]

\* BuildGossipInfo: the first frame on a new link, with neither validation nor
\* split horizon.
FirstGossip(a, ps, on) == [claims |-> Wire(BestClaims(a, ps)), owner |-> BestOwner(a, ps, on).owner]

\* UpdateGossip, registering the peer first if this is its first gossip
\* (establishPeerFromGossip): hops count one more.
Learn(ps, b, k, g) ==
    LET e == [peer |-> b, link |-> k, owner |-> g.owner,
              claims |-> {[c EXCEPT !.hop = IF @ < HopCap THEN @ + 1 ELSE @] : c \in g.claims}]
    IN  IF \E i \in DOMAIN ps : ps[i].peer = b
        THEN [i \in DOMAIN ps |-> IF ps[i].peer = b THEN e ELSE ps[i]]
        ELSE Append(ps, e)

\* Mutant: the peer stays.
Forget_None(ps, b) == ps

\* UnregisterPeer.
Forget(ps, b) == SelectSeq(ps, LAMBDA p : p.peer # b)

-----------------------------------------------------------------------------
(* The initial state: the links are up, everyone has heard everyone's      *)
(* first gossip, and Settled_ rounds of gossip have gone by.               *)

RECURSIVE HearAll(_, _, _)
HearAll(ps, from, said) ==
    IF from = {} THEN ps
    ELSE LET b == Min(from) IN HearAll(Learn(ps, b, 1, said[b]), from \ {b}, said)
Rounds[k \in 0 .. Settled_] ==
    IF k = 0 THEN [a \in MeshNodes |-> HearAll(<<>>, Neighbours(a), [b \in MeshNodes |-> FirstGossip(b, <<>>, FALSE)])]
    ELSE LET prev == Rounds[k - 1]
             best == [b \in MeshNodes |-> Validated(BestClaims(b, prev[b]))] IN
         [a \in MeshNodes |-> HearAll(prev[a], Neighbours(a),
                                      [b \in MeshNodes |-> GossipTo(a, best[b], BestOwner(b, prev[b], FALSE))])]

GossipInit ==
    /\ inst = [l \in MeshLinks |-> 1] /\ ups = inst
    /\ peers = Rounds[Settled_]
    /\ mail = [w \in Ways |-> <<>>] /\ stale = {}
    /\ adv = {} /\ (\E b \in Budgets : cuts = b[1] /\ switches = b[2])

-----------------------------------------------------------------------------
(* Steps.                                                                  *)

Knows(a, b) == \E i \in DOMAIN peers[a] : peers[a][i].peer = b
Open(a, b) == inst[{a, b}] > 0 /\ <<a, b>> \notin stale

\* gossipWorker: its ticker, TriggerGossip, a registration or a new config.  The
\* last round has arrived: rounds are 15 s apart, or follow an event.
BroadcastGossip(a) ==
    LET to == {b \in Neighbours(a) : Knows(a, b) /\ Open(a, b)}
        best == Validated(BestClaims(a, peers[a]))
        o == BestOwner(a, peers[a], a \in adv) IN
    /\ a \in Speakers /\ to # {} /\ \A b \in to : mail[<<a, b>>] = <<>>
    /\ mail' = [w \in Ways |-> IF w[1] = a /\ w[2] \in to \cap Speakers
                               THEN <<GossipTo(w[2], best, o)>> ELSE mail[w]]
    /\ UNCHANGED <<inst, ups, peers, stale, cuts, adv, switches>>

\* handleGossip of p2p and processGossip of the critical worker.
ProcessGossip(a, b) ==
    /\ mail[<<b, a>>] # <<>>
    /\ mail' = [mail EXCEPT ![<<b, a>>] = Tail(@)]
    /\ peers' = [peers EXCEPT ![a] = Learn(@, b, inst[{a, b}], Head(mail[<<b, a>>]))]
    /\ UNCHANGED <<inst, ups, stale, cuts, adv, switches>>

\* A link breaks; each end notices on its own.
LinkDown(l) ==
    /\ l \in Breakable /\ inst[l] > 0 /\ cuts > 0 /\ cuts' = cuts - 1
    /\ inst' = [inst EXCEPT ![l] = 0]
    /\ mail' = [w \in Ways |-> IF {w[1], w[2]} = l THEN <<>> ELSE mail[w]]
    /\ stale' = stale \cup {w \in Ways : {w[1], w[2]} = l /\ Knows(w[1], w[2])}
    /\ UNCHANGED <<ups, peers, adv, switches>>

\* The session of a's end ends: UnregisterPeer.
Unregister(a, b) ==
    /\ a \in Speakers /\ <<a, b>> \in stale /\ stale' = stale \ {<<a, b>>}
    /\ peers' = [peers EXCEPT ![a] = Forget(@, b)]
    /\ UNCHANGED <<inst, ups, mail, cuts, adv, switches>>

\* A new session: both ends send their first gossip.
LinkUp(l) ==
    /\ inst[l] = 0 /\ ~(\E w \in stale : {w[1], w[2]} = l) /\ l \subseteq Speakers
    /\ ups' = [ups EXCEPT ![l] = @ + 1] /\ inst' = [inst EXCEPT ![l] = ups[l] + 1]
    /\ mail' = [w \in Ways |-> IF {w[1], w[2]} = l THEN <<FirstGossip(w[1], peers[w[1]], w[1] \in adv)>> ELSE mail[w]]
    /\ UNCHANGED <<peers, stale, cuts, adv, switches>>

\* UpdateConfig: the prefix is advertised or withdrawn.
UpdateConfig(a) ==
    /\ a \in Advertisers /\ switches > 0 /\ switches' = switches - 1
    /\ adv' = IF a \in adv THEN adv \ {a} ELSE adv \cup {a}
    /\ UNCHANGED <<inst, ups, peers, mail, stale, cuts>>

GossipNext ==
    \/ \E a \in MeshNodes : BroadcastGossip(a) \/ UpdateConfig(a)
    \/ \E w \in Ways : ProcessGossip(w[1], w[2]) \/ Unregister(w[1], w[2])
    \/ \E l \in MeshLinks : LinkDown(l) \/ LinkUp(l)

\* Gossip goes on, frames arrive, and a broken link is noticed by its pings.
GossipFair ==
    /\ \A a \in MeshNodes : WF_gossipVars(BroadcastGossip(a))
    /\ \A w \in Ways : WF_gossipVars(ProcessGossip(w[1], w[2])) /\ WF_gossipVars(Unregister(w[1], w[2]))

GossipSpec == GossipInit /\ [][GossipNext]_gossipVars /\ GossipFair

-----------------------------------------------------------------------------
(* What recomputeRoutes builds from it.                                    *)

\* buildValidatedClaims and buildTopologyGraph: a's own links, and the others'.
GraphOf(a) ==
    UNION {{<<c.node, n[1]>> : n \in c.nbrs} : c \in Validated(BestClaims(a, peers[a]))}

\* The nodes dijkstra finds a path to.
Spread(G, S) == S \cup {e[2] : e \in {g \in G : g[1] \in S}}
Reach(G, a) == LET R[k \in 0 .. Cardinality(MeshNodes)] == IF k = 0 THEN {a} ELSE Spread(G, R[k - 1])
               IN  R[Cardinality(MeshNodes)]
Routed(a) == Reach(GraphOf(a), a)

\* The owners of the prefix in a's route table.
Owners(a) ==
    IF a \in adv THEN {a}
    ELSE {p.owner : p \in {q \in Range(peers[a]) : q.owner # NoNode /\ ClaimOf(q, q.owner) # {}}}

\* The nodes a really has a path to.
Reachable(a) == Reach({w \in Ways : inst[{w[1], w[2]}] > 0}, a)

-----------------------------------------------------------------------------
\* topology.peers holds one entry per peer and every claim one link per neighbour.
GossipTypeOK ==
    /\ \A a \in MeshNodes : \A i, j \in DOMAIN peers[a] : peers[a][i].peer = peers[a][j].peer => i = j
    /\ \A a \in MeshNodes : \A p \in Range(peers[a]) : \A c \in p.claims :
          /\ Cardinality(ClaimOf(p, c.node)) = 1 /\ c.hop \in 1 .. HopCap
          /\ \A n \in c.nbrs : \A m \in c.nbrs : n[1] = m[1] => n = m
    /\ \A w \in Ways : Len(mail[w]) <= 1

\* Mutual validation and split horizon: no claim goes round in circles; its hop
\* count is at most what a path through all the nodes would give.
HopsBounded ==
    \A a \in MeshNodes : \A p \in Range(peers[a]) : \A c \in p.claims : c.hop <= Cardinality(MeshNodes)

\* Every node finds paths to exactly the nodes it has a path to, again and again,
\* so finally once the links stay as they are: new nodes are learned, and lost
\* ones forgotten.
Converges == []<>(\A a \in Speakers : Routed(a) = Reachable(a))

\* "This prevents stale nodes/links from persisting in the topology graph after a
\* peer goes offline": what can no longer be reached leaves every node's graph.
Forgets == []<>(\A a \in Speakers : \A e \in GraphOf(a) : e[1] \in Reachable(a))

\* The prefix is routed to nodes that advertise it, wherever one can be reached.
RoutesFollow ==
    []<>(\A a \in Speakers : Owners(a) \subseteq adv /\ (adv \cap Reachable(a) # {} => Owners(a) # {}))

\* GossipSound: one entry per peer and per neighbour, and no claim goes round in circles.
GossipSound == GossipTypeOK /\ HopsBounded

\* Learns: paths to nodes and owners of the prefix follow what can be reached.
Learns == Converges /\ RoutesFollow
=============================================================================

----------------------------- MODULE MeshEgress -----------------------------
(***************************************************************************)
(* Where the packets and names of a mesh node go (mesh/mesh.go): the       *)
(* prefixes and domain suffixes its peers pass on, its own, and those an   *)
(* administrator has routed by hand are merged into one table; a lookup    *)
(* takes the longest prefix, picks one of its owners and sticks to it.     *)
(*                                                                         *)
(* One destination address and one domain are looked up; Nets are the  *)
(* prefixes that contain the address, the longest first, Zones the      *)
(* suffixes of the domain.  Costs and next hops of paths are open: they    *)
(* are chosen when the table is computed.                                  *)
(***************************************************************************)
EXTENDS SeqFilter, Naturals, Sequences, FiniteSets, FiniteSetsExt, Functions

CONSTANTS
    Own,        \* this node, a natural
    Direct,     \* nodes that may be peers, naturals
    Nets,   \* sequence of the prefixes of the address, longest first
    Zones,   \* sequence of the suffixes of the domain, longest first
    Sayings,    \* what a peer may say: [claims, routes, suffixes]
    Settings,   \* what the administrator may set: [own, static, ownSuffix, staticSuffix]
    MaxNews     \* how often peers and settings change

ASSUME EgressAssumption ==
    /\ Own \in Nat /\ Direct \subseteq Nat /\ Nets \in Seq(Nat) /\ Zones \in Seq(Nat) /\ Settings # {}
    /\ \A s \in Sayings : /\ DOMAIN s = {"claims", "routes", "suffixes"} /\ DOMAIN s.claims \subseteq Nat
                          /\ s.claims \in [DOMAIN s.claims -> Nat] /\ s.routes \in [Range(Nets) -> Seq(Nat)]
                          /\ s.suffixes \in [Range(Zones) -> Seq(Nat)]
    /\ \A s \in Settings : s.static \in [Range(Nets) -> Seq(Nat)] /\ s.staticSuffix \in [Range(Zones) -> Seq(Nat)]

VARIABLES
    links_,   \* the peers in the order of registration: <<[node, says]>>
    setting,
    rt,       \* the route table
    chosen,   \* stickyCache: what is looked up -> egress node
    news

egressVars == <<links_, setting, rt, chosen, news>>

Looked == {"address", "domain"}
None_ == 99

\* claimHopFor: a peer's claims are a function from nodes to hops.
HasClaim(p, n) == n \in DOMAIN p.says.claims

-----------------------------------------------------------------------------
(* recomputeRoutes. *)

\* Owners in the order of first mention.
Distinct(s) ==
    LET first == {i \in DOMAIN s : \A j \in DOMAIN s : j < i => s[j] # s[i]}
        at == Only([i \in DOMAIN s |-> i], first)
    IN  [k \in DOMAIN at |-> s[at[k]]]
\* What the peers say, one after the other.
OverPeers(said) ==
    LET F[n \in 0 .. Len(said)] == IF n = 0 THEN <<>> ELSE F[n - 1] \o said[n] IN F[Len(said)]
Tagged(s, src) == [i \in DOMAIN s |-> <<s[i], src>>]

\* Mutant: a copy counts without its sender's claim.
Copies_Unsupported(p, x) == p.says.routes[x]

\* The owners of prefix x that a peer passes on and also claims to reach.
Copies(p, x) == Only(p.says.routes[x], {n \in Range(p.says.routes[x]) : HasClaim(p, n)})

\* Entries of a prefix: the static ones, then those of the peers, unless the
\* prefix is the node's own.
EntriesOf(x, ps, st) ==
    Tagged(st.static[x], "static")
        \o IF x \in st.own THEN <<<<Own, "dynamic">>>>
           ELSE Tagged(Distinct(OverPeers([k \in DOMAIN ps |-> Copies(ps[k], x)])), "dynamic")

\* The domain trie: own suffixes, static ones, then the peers', which are not
\* checked against their claims.
SuffixEntries(d, ps, st) ==
    (IF d \in st.ownSuffix THEN <<<<Own, "static">>>> ELSE <<>>)
        \o Tagged(st.staticSuffix[d], "static")
        \o IF d \in st.ownSuffix THEN <<>>
           ELSE Tagged(Distinct(OverPeers([k \in DOMAIN ps |-> ps[k].says.suffixes[d]])), "dynamic")

\* bestNodes: the nodes that are known, from the peers and their claims.
Known(ps) == {Own} \cup {p.node : p \in Range(ps)} \cup UNION {DOMAIN p.says.claims : p \in Range(ps)}

\* Only what has an entry is in the table.
Routed(entries) == [x \in {y \in DOMAIN entries : entries[y] # <<>>} |-> entries[x]]

\* Paths for the nodes of the validated graph, which may be fewer than are
\* known; the next hop of a path is a peer.
Recompute(reach, cost) ==
    /\ reach \subseteq Known(links_) \ {Own}
    /\ rt' = [routes |-> Routed([x \in Range(Nets) |-> EntriesOf(x, links_, setting)]),
              names  |-> Routed([d \in Range(Zones) |-> SuffixEntries(d, links_, setting)]),
              known  |-> Known(links_),
              paths  |-> [n \in reach |->
                            [next |-> IF n \in {p.node : p \in Range(links_)} THEN n
                                      ELSE (CHOOSE p \in Range(links_) : HasClaim(p, n)).node,
                             cost |-> cost[n]]],
              of     |-> <<links_, setting>>]
    /\ UNCHANGED <<links_, setting, chosen, news>>

-----------------------------------------------------------------------------
(* Lookups. *)

First(s, D) == LET hit == {i \in DOMAIN s : s[i] \in D} IN IF hit = {} THEN None_ ELSE s[Min(hit)]
OwnersIn(f, s) == LET x == First(s, DOMAIN f) IN IF x = None_ THEN <<>> ELSE f[x]

\* static entries first, without the node itself.
Available(es) ==
    LET others == SelectSeq(es, LAMBDA e : e[1] # Own)
    IN  SelectSeq(others, LAMBDA e : e[2] = "static") \o SelectSeq(others, LAMBDA e : e[2] = "dynamic")

\* The node chosen before is still there.
Stays(q, av) == chosen[q] \in {e[1] : e \in Range(av)}

\* selectEgressNodeID and selectEgressNodeIDForDomain: the hash of the address or
\* name picks one; which one depends on how many there are.
Select(q, av, hash) ==
    chosen' = [chosen EXCEPT ![q] =
        IF av = <<>> \/ Stays(q, av) THEN @ ELSE av[(hash % Len(av)) + 1][1]]

\* ResolveNodeIDForIP.
ResolveNodeIDForIP(hash) ==
    /\ Select("address", Available(OwnersIn(rt.routes, Nets)), hash)
    /\ UNCHANGED <<links_, setting, rt, news>>

\* ResolveDomainSubnet; no owner, or one that is not known, means the local pool.
ResolveDomainSubnet(hash) ==
    /\ Select("domain", Available(OwnersIn(rt.names, Zones)), hash)
    /\ UNCHANGED <<links_, setting, rt, news>>

\* The peers that serve one of the owners, at how many hops.
Candidates(owners) ==
    UNION {{<<p.node, IF p.node = n THEN 1 ELSE p.says.claims[n]>> :
                p \in {q \in Range(links_) : q.node = n \/ HasClaim(q, n)}} : n \in owners}

\* selectBestPeers keeps the candidates with the fewest hops.
SelectBestPeers(cs) == {c[1] : c \in {d \in cs : \A e \in cs : d[2] <= e[2]}}

\* findNextHopsFallback.
FindNextHopsFallback(owners) == SelectBestPeers(Candidates(owners))

\* findNextHops: the owner with the cheapest path, else the peers that claim one.
FindNextHops ==
    LET owners == {e[1] : e \in Range(OwnersIn(rt.routes, Nets))} \ {Own}
        there == {n \in owners : n \in DOMAIN rt.paths}
        best == CHOOSE n \in there : \A k \in there : rt.paths[n].cost <= rt.paths[k].cost
    IN  IF there = {} THEN FindNextHopsFallback(owners)
        ELSE {p.node : p \in {q \in Range(links_) : q.node = rt.paths[best].next}}

-----------------------------------------------------------------------------
(* Peers come and go and say other things; UpdateGossip.  The settings     *)
(* change: SetStaticRoutes, UpdateConfig.                                  *)

Without(n) == Only(links_, {p \in Range(links_) : p.node # n})

PeerSays(n, s) ==
    /\ news < MaxNews /\ news' = news + 1
    /\ Own \notin DOMAIN s.claims /\ n \notin DOMAIN s.claims
    /\ LET e == [node |-> n, says |-> [s EXCEPT !.claims = [k \in DOMAIN @ \cup {n} |-> IF k = n THEN 1 ELSE @[k]]]] IN
       links_' = IF \E i \in DOMAIN links_ : links_[i].node = n
                THEN [i \in DOMAIN links_ |-> IF links_[i].node = n THEN e ELSE links_[i]]
                ELSE Append(links_, e)
    /\ UNCHANGED <<setting, rt, chosen>>

PeerLeaves(n) ==
    /\ news < MaxNews /\ news' = news + 1
    /\ links_ # Without(n) /\ links_' = Without(n)
    /\ UNCHANGED <<setting, rt, chosen>>

SetStaticRoutes(s) ==
    /\ news < MaxNews /\ news' = news + 1
    /\ setting # s /\ setting' = s
    /\ UNCHANGED <<links_, rt, chosen>>

NoRoutes == [x \in {} |-> <<>>]

EgressInit ==
    /\ links_ = <<>> /\ setting = (CHOOSE s \in Settings : TRUE) /\ news = 0
    /\ rt = [routes |-> NoRoutes, names |-> NoRoutes, known |-> {Own}, paths |-> NoRoutes, of |-> <<>>]
    /\ chosen = [q \in Looked |-> None_]

EgressNext ==
    \/ \E n \in Direct, s \in Sayings : PeerSays(n, s)
    \/ \E n \in Direct : PeerLeaves(n)
    \/ \E s \in Settings : SetStaticRoutes(s)
    \/ rt.of # <<links_, setting>> /\ \E reach \in SUBSET (Known(links_) \ {Own}) :
            \E f \in [reach -> 1..2] : Recompute(reach, f)
    \/ \E hash \in 0..2 : ResolveNodeIDForIP(hash) \/ ResolveDomainSubnet(hash)

EgressSpec == EgressInit /\ [][EgressNext]_egressVars

-----------------------------------------------------------------------------
(* Properties. *)

\* OwnersKnown: every owner that peers have passed on for a prefix is a node the
\* same table knows, so that its address can be derived; a prefix travels with
\* the claim of its owner ("candidates without claim support are invalid").
OwnersKnown ==
    \A x \in DOMAIN rt.routes : \A e \in Range(rt.routes[x]) : e[2] = "dynamic" => e[1] \in rt.known

\* Deliverable: with a table of the present peers, an address some peer claims an
\* owner of has a next hop, whether or not the validated graph has a path for it.
Deliverable ==
    LET es == OwnersIn(rt.routes, Nets) IN
    rt.of = <<links_, setting>> /\ (\E e \in Range(es) : e[1] # Own /\ e[2] = "dynamic") => FindNextHops # {}

\* Sticks: a destination keeps its egress node, and with it the source address
\* its connections are seen with, as long as that node is among the owners:
\* "Sticky: if previously selected node is still available, keep it".
Sticks ==
    [][\A q \in Looked :
        LET av == Available(IF q = "address" THEN OwnersIn(rt.routes, Nets) ELSE OwnersIn(rt.names, Zones))
        IN  chosen[q] \in {e[1] : e \in Range(av)} => chosen'[q] = chosen[q]]_egressVars

\* EgressRight: owners are known, what is claimed can be delivered, and a destination
\* keeps its egress node.
EgressRight == [](OwnersKnown /\ Deliverable) /\ Sticks
=============================================================================

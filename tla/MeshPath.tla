------------------------------ MODULE MeshPath ------------------------------
(***************************************************************************)
(* The choice of next hops (mesh/mesh.go): every node runs Dijkstra's      *)
(* algorithm on the graph it knows and then keeps the path it used so far  *)
(* unless the new one is clearly better.                                   *)
(*                                                                         *)
(* graph gives for every ordered pair of nodes the costs of the links      *)
(* between them, in the order of their sequence numbers; the costs are     *)
(* abstract (linkCost works on measured times) and may change at any time, *)
(* also while a computation, which uses the graph it started with, runs.   *)
(* Which of several nearest nodes is visited next is open: the code        *)
(* iterates over a map.  All nodes know the same graph.                    *)
(***************************************************************************)
EXTENDS Naturals, Sequences, FiniteSets, SequencesExt, FiniteSetsExt

CONSTANTS
    Stations,    \* node ids, naturals > 0
    Computing,   \* the nodes whose tables are followed
    StartGraphs, \* graphs to start with
    Alterations, \* pairs <<link, costs>>: what can become of a link
    MaxAlters    \* how often the graph may change

VARIABLES
    graph,   \* <<a, b>> -> sequence of link costs; empty: no link
    tables,  \* node -> target -> [next, nic, cost, path], absent if unreachable
    made,    \* node -> the graph of the node's last computation
    kept,    \* node -> targets whose old path was kept
    calc,    \* the computation under way
    alters

pathVars == <<graph, tables, made, kept, calc, alters>>

Infinite == 1000000
HopPenalty == 5
NoHop == 0

-----------------------------------------------------------------------------
(* pathCost and what it is made of. *)

\* The link that is taken of several: the cheapest, of those the first.
BestLink(costs) ==
    CHOOSE i \in DOMAIN costs :
        \A j \in DOMAIN costs : costs[i] < costs[j] \/ (costs[i] = costs[j] /\ i <= j)

\* What a hop adds to a path.
HopCost(costs) == Min(Range(costs)) + HopPenalty

Hops(a, path) == [i \in DOMAIN path |-> <<IF i = 1 THEN a ELSE path[i - 1], path[i]>>]

\* pathCost: the cost of a path in a graph, Infinite if a hop is gone.
PathCost(a, g, path) ==
    IF path = <<>> \/ \E i \in DOMAIN path : g[Hops(a, path)[i]] = <<>> THEN Infinite
    ELSE FoldLeft(LAMBDA s, h : s + HopCost(g[h]), 0, Hops(a, path))

-----------------------------------------------------------------------------
(* dijkstra: info gives per node cost, next hop, first link, path and      *)
(* whether it has been visited.                                            *)

Idle_ == [node |-> NoHop]
Unseen == [cost |-> Infinite, next |-> NoHop, nic |-> 0, path |-> <<>>, visited |-> FALSE]
Nearest == {n \in Stations :
                /\ ~calc.info[n].visited /\ calc.info[n].cost < Infinite
                /\ \A k \in Stations : calc.info[k].visited \/ calc.info[n].cost <= calc.info[k].cost}

\* What a visit of n offers for its neighbour t.
Offer(n, t) ==
    LET here == calc.info[n]
        costs == calc.graph[<<n, t>>]
        first == n = calc.node
    IN  [cost |-> here.cost + HopCost(costs), visited |-> FALSE,
         next |-> IF first THEN t ELSE here.next,
         nic  |-> IF first THEN BestLink(costs) ELSE here.nic,
         path |-> Append(here.path, t)]

\* Cheaper, or as cheap with the smaller next hop.
Improves(o, i) == o.cost < i.cost \/ (o.cost = i.cost /\ o.next < i.next)

Compute(a) ==
    /\ calc = Idle_
    /\ made[a] # graph
    /\ calc' = [node |-> a, graph |-> graph,
                info |-> [n \in Stations |-> IF n = a THEN [Unseen EXCEPT !.cost = 0] ELSE Unseen]]
    /\ UNCHANGED <<graph, tables, made, kept, alters>>

Visit(n) ==
    /\ calc # Idle_ /\ n \in Nearest
    /\ calc' = [calc EXCEPT !.info = [t \in Stations |->
            IF t = n THEN [@[n] EXCEPT !.visited = TRUE]
            ELSE IF ~@[t].visited /\ calc.graph[<<n, t>>] # <<>> /\ Improves(Offer(n, t), @[t]) THEN Offer(n, t)
            ELSE @[t]]]
    /\ UNCHANGED <<graph, tables, made, kept, alters>>

\* The paths that were found.
Found == {t \in Stations : t # calc.node /\ calc.info[t].cost < Infinite}
Fresh(t) == LET i == calc.info[t] IN [next |-> i.next, nic |-> i.nic, cost |-> i.cost, path |-> i.path]

\* Mutant: the cost the old path had when it was chosen.
Incumbent_Frozen(a, t) == tables[a][t].cost

\* The old path, at what it costs now.
Incumbent(a, t) == PathCost(a, calc.graph, tables[a][t].path)

\* applyHysteresis: another next hop must save 15 per cent.  The link of the
\* next hop must be there now (resolvePeerLinkNIC), not only in calc.graph.
Keeps(a, t) ==
    /\ t \in DOMAIN tables[a] /\ tables[a][t].next # calc.info[t].next
    /\ Incumbent(a, t) < Infinite /\ graph[<<a, tables[a][t].next>>] # <<>>
    /\ 100 * calc.info[t].cost >= 85 * Incumbent(a, t)

\* The path that stays, with the first link to its next hop.
Retained(a, t) == [tables[a][t] EXCEPT !.cost = Incumbent(a, t), !.nic = 1]

Install ==
    /\ calc # Idle_ /\ Nearest = {}
    /\ LET a == calc.node IN
        /\ tables' = [tables EXCEPT ![a] = [t \in Found |-> IF Keeps(a, t) THEN Retained(a, t) ELSE Fresh(t)]]
        /\ made' = [made EXCEPT ![a] = calc.graph]
        /\ kept' = [kept EXCEPT ![a] = {t \in Found : Keeps(a, t)}]
    /\ calc' = Idle_
    /\ UNCHANGED <<graph, alters>>

\* Links come, go and change their quality.
Alter(c) ==
    /\ alters < MaxAlters /\ alters' = alters + 1
    /\ graph' = [graph EXCEPT ![c[1]] = c[2],
                              ![<<c[1][2], c[1][1]>>] =
                                  IF (c[2] = <<>>) # (graph[c[1]] = <<>>) THEN c[2] ELSE @]
    /\ UNCHANGED <<tables, made, kept, calc>>

NoTable == [t \in {} |-> 0]

PathInit ==
    /\ graph \in StartGraphs
    /\ tables = [a \in Computing |-> NoTable]
    /\ made = [a \in Computing |-> <<>>] /\ kept = [a \in Computing |-> {}]
    /\ calc = Idle_ /\ alters = 0

PathNext ==
    \/ \E a \in Computing : Compute(a)
    \/ \E n \in Stations : Visit(n)
    \/ Install
    \/ \E c \in Alterations : Alter(c)

-----------------------------------------------------------------------------
(* Properties. *)

\* Every path from a to t that passes no node twice.
Simple(a, t) ==
    {p \in UNION {[1..k -> Stations \ {a}] : k \in 1..(Cardinality(Stations) - 1)} :
        Last(p) = t /\ IsInjective(p)}

\* Optimal: a finished computation has for every target the cost of the
\* cheapest path there is, and of the next hops of the cheapest paths the
\* smallest, whatever the order of the visits; the stored path starts with that
\* hop and costs as much; exactly the reachable targets are found (dijkstra:
\* "deterministic tie-breaking").
Optimal ==
    calc # Idle_ /\ Nearest = {} =>
        LET a == calc.node IN
        \A t \in Stations \ {a} :
            LET ways == {<<PathCost(a, calc.graph, p), p[1]>> : p \in Simple(a, t)}
                least == Min({w[1] : w \in ways})
                i == calc.info[t]
            IN  /\ i.cost = least
                /\ least < Infinite =>
                    /\ i.next = Min({w[2] : w \in {v \in ways : v[1] = least}})
                    /\ i.path[1] = i.next /\ PathCost(a, calc.graph, i.path) = least
                    /\ calc.graph[<<a, i.next>>][i.nic] = Min(Range(calc.graph[<<a, i.next>>]))

\* Followed from a, the next hops lead to t.
RECURSIVE Leads(_, _, _)
Leads(a, t, n) ==
    \/ a = t
    \/ n > 0 /\ a \in Computing /\ t \in DOMAIN tables[a] /\ Leads(tables[a][t].next, t, n - 1)

\* NoLoop: when all nodes have computed with the present graph and none holds on
\* to an old path, the next hops of all nodes together lead to the target.  Each
\* node decides for itself; the penalty per hop is what makes the decisions fit
\* together where links cost nothing.
NoLoop ==
    \A a \in Computing, t \in Stations :
        /\ \A b \in Computing : made[b] = graph /\ t \notin kept[b]
        /\ t \in DOMAIN tables[a] /\ a # t
        => Leads(a, t, Cardinality(Stations))

\* StretchBounded: a path in use, as it was installed, is at most 1/0.85 as
\* expensive as the best one of the graph it was computed with: holding on to a
\* path that gets worse has a limit (applyHysteresis: "a degrading incumbent is
\* not masked by a frozen stale cost").
StretchBounded ==
    \A a \in Computing : \A t \in DOMAIN tables[a] :
        85 * PathCost(a, made[a], tables[a][t].path)
            <= 100 * Min({PathCost(a, made[a], p) : p \in Simple(a, t)})

\* Damped: a next hop changes only if the new path saves 15 per cent of what the
\* old one costs now, or the old path or its first link is gone: small changes of
\* quality do not make routes flap.
Damped ==
    [][\A a \in Computing : \A t \in DOMAIN tables[a] \cap DOMAIN tables'[a] :
        LET old == PathCost(a, made'[a], tables[a][t].path) IN
        tables'[a][t].next # tables[a][t].next =>
            \/ old >= Infinite \/ graph[<<a, tables[a][t].next>>] = <<>>
            \/ 100 * tables'[a][t].cost < 85 * old]_pathVars

\* PathsRight: paths are the cheapest whatever the order of visits, the next hops of all
\* nodes fit together, holding on to a path has a limit, and routes do not flap.
PathsRight == [](Optimal /\ NoLoop /\ StretchBounded) /\ Damped
=============================================================================

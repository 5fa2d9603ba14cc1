-------------------------------- MODULE MCNode --------------------------------
(***************************************************************************)
(* Small instances of the components of a mesh node for TLC.  They share   *)
(* no state: a behaviour follows one of them, `part', and leaves the       *)
(* others as they start, so a run explores each on its own.                *)
(***************************************************************************)
EXTENDS MeshPath, MeshRouter, MeshEgress, LinkPing, TLC

VARIABLE part

mcVars == <<part, pathVars, routerVars, egressVars, pingVars>>

-----------------------------------------------------------------------------
(* Values of the constants. *)

\* Four nodes: with links that cost nothing, and with links that differ.
Both(f) == [w \in Stations \X Stations |->
               IF w \in DOMAIN f THEN f[w] ELSE IF <<w[2], w[1]>> \in DOMAIN f THEN f[<<w[2], w[1]>>] ELSE <<>>]
Graphs_ == {Both((<<1, 2>> :> <<0>>) @@ (<<1, 3>> :> <<60, 40>>) @@ (<<2, 3>> :> <<0>>) @@ (<<3, 4>> :> <<40>>) @@ (<<2, 4>> :> <<40>>)),
            Both((<<1, 2>> :> <<0>>) @@ (<<1, 3>> :> <<0>>) @@ (<<2, 3>> :> <<0>>) @@ (<<3, 4>> :> <<0>>) @@ (<<2, 4>> :> <<5>>)
                    @@ (<<1, 4>> :> <<5, 5>>))}
Alters_ == ({<<3, 4>>} \X {<<>>, <<44>>, <<60>>}) \cup ({<<1, 3>>} \X {<<>>, <<60, 0>>}) \cup ({<<1, 4>>} \X {<<44>>})

\* Two prefixes and one suffix; node 3 is behind the two peers.
Empty_ == [k \in {} |-> 0]
Say(c, n, w, d) == [claims |-> c, routes |-> (1 :> n) @@ (2 :> w), suffixes |-> (11 :> d)]
Sayings_ == {Say(Empty_, <<>>, <<>>, <<>>), Say(3 :> 2, <<3>>, <<3>>, <<3>>),
             Say(3 :> 3, <<>>, <<3>>, <<>>), Say(Empty_, <<3>>, <<1, 2>>, <<3>>)}
Set(o, n, w, os, d) == [own |-> o, static |-> (1 :> n) @@ (2 :> w), ownSuffix |-> os, staticSuffix |-> (11 :> d)]
Settings_ == {Set({}, <<>>, <<>>, {}, <<>>), Set({1}, <<>>, <<3>>, {}, <<2>>), Set({}, <<3, 2>>, <<>>, {11}, <<>>)}
Nets_ == <<1, 2>>
Zones_ == <<11>>

-----------------------------------------------------------------------------
Init ==
    /\ part \in {"path", "router", "egress", "ping"}
    /\ PathInit /\ (part # "path" => graph = CHOOSE g \in StartGraphs : TRUE)
    /\ RouterInit /\ EgressInit /\ PingInit

Next ==
    \/ part = "path" /\ PathNext /\ UNCHANGED <<part, routerVars, egressVars, pingVars>>
    \/ part = "router" /\ RouterNext /\ UNCHANGED <<part, pathVars, egressVars, pingVars>>
    \/ part = "egress" /\ EgressNext /\ UNCHANGED <<part, pathVars, routerVars, pingVars>>
    \/ part = "ping" /\ PingNext /\ UNCHANGED <<part, pathVars, routerVars, egressVars>>

-----------------------------------------------------------------------------
(* Fairness, of the component that is followed. *)

\* The workers and the receive loops run, the tickers tick.
RouterFairness ==
    LET on == part = "router" IN
    /\ WF_routerVars(on /\ CriticalStep) /\ WF_routerVars(on /\ GossipStep) /\ WF_routerVars(on /\ GossipTake)
    /\ WF_routerVars(on /\ BroadcastOnce) /\ WF_routerVars(on /\ QualityTick)
    /\ \A s \in Senders : WF_routerVars(on /\ LoopStep(s))

\* The ping ticker ticks, and pings enter the send queue.
PingFairness == WF_pingVars(part = "ping" /\ SendPing(TRUE))

Spec == Init /\ [][Next]_mcVars /\ RouterFairness /\ PingFairness
=============================================================================

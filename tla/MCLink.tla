-------------------------------- MODULE MCLink --------------------------------
(***************************************************************************)
(* Small instances of the components of a P2P link for TLC.  They share no  *)
(* state: a behaviour follows one of them, `part', and leaves the others   *)
(* as they start, so a run explores each on its own.                       *)
(***************************************************************************)
EXTENDS UdpLeg, PeerLifecycle, WriteGate, DrrScheduler, TLC

VARIABLE part

mcVars == <<part, legVars, peerVars, gateVars, drrVars>>

Init ==
    /\ part \in {"leg", "peer", "gate", "drr"}
    /\ LegInit /\ PeerInit /\ GateInit /\ DrrInit

Next ==
    \/ part = "leg" /\ LegNext /\ UNCHANGED <<part, peerVars, gateVars, drrVars>>
    \/ part = "peer" /\ PeerNext /\ UNCHANGED <<part, legVars, gateVars, drrVars>>
    \/ part = "gate" /\ GateNext /\ UNCHANGED <<part, legVars, peerVars, drrVars>>
    \/ part = "drr" /\ DrrNext /\ UNCHANGED <<part, legVars, peerVars, gateVars>>

Spec == Init /\ [][Next]_mcVars

-----------------------------------------------------------------------------
(* Fairness, of the component that is followed.                            *)

\* Goroutines run, time passes, a dial ends; the path need not come back.
LegFairness ==
    LET on == part = "leg" IN
    /\ \A s \in Sides : WF_legVars(on /\ Step(s))
    /\ WF_legVars(on /\ MaybeRedial) /\ WF_legVars(on /\ OnDataSent)
    /\ \A p \in 1 .. PortMax : WF_legVars(on /\ DeliverToP(p)) /\ WF_legVars(on /\ DeliverToA(p))
    /\ WF_legVars(on /\ (LegDialOk \/ LegDialFails))
    /\ WF_legVars(on /\ Clock)

\* Every goroutine runs; connections and administrators do as they like.
PeerFairness ==
    LET on == part = "peer" IN
    /\ \A r \in Runs : WF_peerVars(on /\ StartPeer(r)) /\ WF_peerVars(on /\ Stopping(r))
    /\ WF_peerVars(on /\ Sync) /\ WF_peerVars(on /\ StopReturns)

\* Goroutines run and tickers tick; a select takes, in the end, frames that
\* stay ready.
GateFairness ==
    LET on == part = "gate" IN
    \A e \in Ends :
        /\ WF_gateVars(on /\ (Count(e) \/ WakeShut(e))) /\ WF_gateVars(on /\ WriteBatch(e))
        /\ WF_gateVars(on /\ Recv(e)) /\ WF_gateVars(on /\ Gossip(e)) /\ WF_gateVars(on /\ FlowTick(e))

\* Goroutines run and the connection takes what it is given.
DrrFairness ==
    LET on == part = "drr" IN
    /\ \A p \in Producers : WF_drrVars(on /\ Produce(p))
    /\ WF_drrVars(on /\ Schedule) /\ WF_drrVars(on /\ Consume)

FairSpec == Spec /\ LegFairness /\ PeerFairness /\ GateFairness /\ DrrFairness

\* Recovers, where the leg is followed: once the path stays up, both ends of
\* the leg end up on UDP.
LegRecovers == []<>(part = "leg") => Recovers

\* LegServes: once the path stays up the leg returns to UDP, and from a path that stays
\* down it falls back.
LegServes == LegRecovers /\ FallsBack
=============================================================================

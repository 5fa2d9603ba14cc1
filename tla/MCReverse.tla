------------------------------- MODULE MCReverse -------------------------------
(***************************************************************************)
(* Small instances of the reverse-proxy components for TLC.  They share no  *)
(* state: a behaviour follows one of them, `part', and leaves the others   *)
(* as they start, so a run explores each on its own.                       *)
(***************************************************************************)
EXTENDS ReverseRegistry, ReversePool, ReverseHandshake, ControlPlane, ReverseUdp, TLC

CONSTANT Parts   \* the components the run explores

VARIABLE part

\* What the ends are told of each other is right, or the server has a local address of a dialer behind NAT.
Guesses_ == {<<1, 1>>, <<0, 1>>}

mcVars == <<part, registryVars, poolVars, shakeVars, controlVars, udpVars>>

Init ==
    /\ part \in Parts
    /\ RegistryInit /\ PoolInit /\ ShakeInit /\ ControlInit /\ UdpInit
    /\ part # "udp" => send.addr = 1
    /\ part # "control" => ident = [s \in Sessions |-> CHOOSE i \in Idents : TRUE]

Next ==
    \/ part = "registry" /\ RegistryNext /\ UNCHANGED <<part, poolVars, shakeVars, controlVars, udpVars>>
    \/ part = "pool" /\ PoolNext /\ UNCHANGED <<part, registryVars, shakeVars, controlVars, udpVars>>
    \/ part = "handshake" /\ ShakeNext /\ UNCHANGED <<part, registryVars, poolVars, controlVars, udpVars>>
    \/ part = "control" /\ ControlNext /\ UNCHANGED <<part, registryVars, poolVars, shakeVars, udpVars>>
    \/ part = "udp" /\ UdpNext /\ UNCHANGED <<part, registryVars, poolVars, shakeVars, controlVars>>

Spec == Init /\ [][Next]_mcVars

-----------------------------------------------------------------------------
(* Fairness, of the component that is followed.                            *)

\* Goroutines run: every step of a started handler, watcher, Match call and
\* Refresh is eventually taken, and the read loop of a closed connection
\* returns.  Arrivals, calls, reloads and failing peers are not promised.
RegistryFairness ==
    LET on == part = "registry" IN
    /\ \A c \in Conns : /\ WF_registryVars(on /\ ConnStep(c))
                        /\ WF_registryVars(on /\ closed[c] /\ ReadLoopExit(c))
    /\ \A m \in Matchers : WF_registryVars(on /\ MatchStep(m))
    /\ WF_registryVars(on /\ RefreshCancel)

\* A runnable goroutine runs, a dial returns, a timer fires, a connection
\* that was closed here fails its read.  Peers are free: they may never send
\* PONG and may never fail.
PoolFairness ==
    LET on == part = "pool" IN
    /\ WF_poolVars(on /\ (ManagerStops \/ GenConnection \/ AddConnection \/ DropDialed \/ ManagerNotify))
    /\ WF_poolVars(on /\ (DialFail \/ \E c \in Sockets : DialOk(c)))
    /\ WF_poolVars(on /\ RetryTimer)
    /\ WF_poolVars(on /\ (ForceSnapshot \/ ForceReturns \/ \E c \in Sockets : ForceCloseOne(c)))
    /\ \A c \in Sockets :
         /\ WF_poolVars(on /\ (RemoveConnection(c) \/ RemoveNotify(c) \/ (cpc[c] = "close" /\ ConnClose(c))))
         /\ WF_poolVars(on /\ c \notin open /\ ConnEnds(c))

\* Each goroutine that can run does, deadlines included; nobody need match.
ShakeFairness ==
    LET on == part = "handshake" IN
    /\ WF_shakeVars(on /\ Registrar) /\ WF_shakeVars(on /\ (SenderFails \/ SenderStops))
    /\ WF_shakeVars(on /\ (LoopRead \/ LoopExit)) /\ WF_shakeVars(on /\ Handshake)
    /\ WF_shakeVars(on /\ (ppc = "join" \/ pClosed) /\ PassiveSenderStops)
    /\ WF_shakeVars(on /\ Passive)

\* Goroutines run; clients may stay connected for ever or never come.
ControlFairness ==
    LET on == part = "control" IN
    \A s \in Sessions : WF_controlVars(on /\ RegisterStep(s)) /\ WF_controlVars(on /\ CloseStep(s))

\* Both ends and their tickers go on, the client reads, packets that are not lost arrive.
UdpFairness ==
    LET on == part = "udp" IN
    /\ WF_udpVars(on /\ DialerStep) /\ WF_udpVars(on /\ HeartbeatTimeout) /\ WF_udpVars(on /\ ServerStep)
    /\ WF_udpVars(on /\ UdpHeartbeat) /\ WF_udpVars(on /\ ServerHeartbeat) /\ WF_udpVars(on /\ ClientReads)
    /\ WF_udpVars(on /\ DialerHears) /\ WF_udpVars(on /\ ServerHears)

FairSpec == Spec /\ RegistryFairness /\ PoolFairness /\ ShakeFairness /\ ControlFairness /\ UdpFairness

\* Connections and dialers are interchangeable.
Symmetry == Permutations(Conns) \cup Permutations(Matchers)

\* RefillAttempted, where the pool is followed: a pool with room is followed
\* by another dial of connectionManager, by a full pool or by Close.
PoolRefills == []<>(part = "pool") => RefillAttempted

\* PoolServes: a pool that is short is refilled, a forced close ends every connection, and
\* after Close the pool only shrinks.
PoolServes == PoolRefills /\ ForceClosesAll /\ NoGrowthAfterClose
=============================================================================

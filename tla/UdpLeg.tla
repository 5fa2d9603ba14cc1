-------------------------------- MODULE UdpLeg --------------------------------
(***************************************************************************)
(* The optional UDP data leg of one P2P session: the state machine in       *)
(* p2p/udp_leg.go, the transport that drives it in p2p/udp_leg_transport.go *)
(* and the passive end's port in p2p/udp_leg_registry.go.                  *)
(*                                                                         *)
(* The active end ("A") dials a datagram channel through the peer's SOCKS5 *)
(* server; the passive end ("P") hands out a logical port.  Both advertise *)
(* the leg in their gossip, which always travels on the TCP leg, in order. *)
(* Time passes in units of five seconds: the ten-second reflux timeout is  *)
(* K units, the backoff R, the gossip period G.  In every unit each end    *)
(* has data to send (it pings every second).  The channel's two ends, the  *)
(* client's PacketConn and the server's relay, come and go together.       *)
(***************************************************************************)
EXTENDS Naturals, Sequences

CONSTANTS
    K, R, G,       \* reflux timeout, backoff, gossip period, in time units
    PortMax,       \* the registry's range is 1 .. PortMax
    Prompt,        \* TRUE: messages take less than a time unit
    MaxOutages,    \* bound: changes of the UDP path between up and down
    MaxBreaks,     \* bound: channels that break on their own
    MayFill,       \* TRUE: other sessions may hold every port
    Closers,       \* the ends, "A" or "P", whose session may end
    MaxQueue       \* bound: gossip frames in flight per direction

ASSUME LegAssumption ==
    /\ {K, R, G, PortMax, MaxOutages, MaxBreaks, MaxQueue} \subseteq Nat
    /\ K > 0 /\ R > 0 /\ G > 0 /\ PortMax > 0 /\ MaxQueue > 0
    /\ {Prompt, MayFill} \subseteq BOOLEAN /\ Closers \subseteq {"A", "P"}

Sides == {"A", "P"}
Peer(s) == IF s = "A" THEN "P" ELSE "A"
Goroutines == {"recv", "tick"}
Gone == PortMax + 1
Advertised == {"advertising", "channel", "negotiated", "pending", "active"}

VARIABLES
    phase, capable, heard,  \* phase, peerCapable, sawUDPInbound of each FSM
    left,        \* units to the reflux deadline or the end of the backoff
    peerPort,    \* A: the port the peer's gossip named, 0 for none
    chanReady,   \* A: channelReady
    localPort,   \* P: the port the FSM advertises, 0 for none
    packetConn,  \* A: "none", "open" or "broken"
    dialing,     \* A: a dial is in flight
    redial,      \* A: units until another dial is due
    ep,          \* P: port of the registered endpoint, 0 for none
    next,        \* P: the registry's round-robin position
    relay,       \* port whose endpoint the channel's relay is bound to, 0 for
                 \* none, Gone once that endpoint is released
    acts,        \* acts[s][g]: actions goroutine g of s has yet to execute
    marking,     \* A: a data frame went out, OnDataSent is to be called
    trigger,     \* sides with a gossip broadcast requested
    gossip,      \* gossip[s]: gossip frames on their way to s
    wire,        \* wire[s]: ports of the datagrams on their way to s
    toTick,      \* sides whose ticker fired
    toSend,      \* sides with data to send
    due,         \* units until the next periodic gossip
    up,          \* the UDP path works
    closed,      \* sides whose transport is closed
    outages, breaks   \* used-up bounds

fsmVars  == <<phase, capable, heard, left, peerPort, chanReady, localPort>>
resVars  == <<packetConn, dialing, ep, next, relay>>
netVars  == <<trigger, gossip, wire>>
timeVars == <<toTick, toSend, due, redial>>
bounds   == <<outages, breaks>>
legVars     == <<fsmVars, resVars, acts, marking, netVars, timeVars, up, closed, bounds>>

LegInit ==
    /\ phase = [s \in Sides |-> "none"]
    /\ capable = [s \in Sides |-> FALSE]
    /\ heard = [s \in Sides |-> FALSE]
    /\ left = [s \in Sides |-> 0]
    /\ peerPort = 0 /\ chanReady = FALSE /\ localPort = 0
    /\ packetConn = "none" /\ dialing = FALSE /\ redial = 0
    /\ ep = 0 /\ next = 1 /\ relay = 0
    /\ acts = [s \in Sides |-> [g \in Goroutines |-> <<>>]]
    /\ marking = FALSE
    /\ trigger = {} /\ gossip = [s \in Sides |-> <<>>] /\ wire = [s \in Sides |-> {}]
    /\ toTick = {} /\ toSend = {} /\ due = G
    /\ up = TRUE /\ closed = {}
    /\ outages = 0 /\ breaks = 0

-----------------------------------------------------------------------------
(* udpLegFSM                                                               *)

ShouldAdvertise(s) == phase[s] \in Advertised

AdvertisePort == IF phase["P"] \in {"advertising", "active"} THEN localPort ELSE 0

SendPort == IF phase["A"] \in {"negotiated", "pending", "active"} THEN peerPort ELSE 0

RouteDataViaUDP(s) == IF s = "A" THEN SendPort # 0 ELSE phase["P"] = "active" /\ heard["P"]

\* Goroutine g executes these after the lock is released.  The first of them,
\* stateNotify, only asks for a gossip broadcast, and is done at once.
Enqueue(s, g, as) == acts' = [acts EXCEPT ![s][g] = @ \o as]

EnterAdvertising(s, g, tail) ==
    /\ phase' = [phase EXCEPT ![s] = "advertising"]
    /\ trigger' = trigger \cup {s}
    /\ Enqueue(s, g, <<IF s = "A" THEN "dial" ELSE "allocate">> \o tail)
    /\ UNCHANGED <<heard, left, peerPort, chanReady, localPort>>

\* withdraw and, from fallback, the backoff: everything learnt is forgotten.
Withdraw(s, g, to, tail) ==
    /\ phase' = [phase EXCEPT ![s] = to]
    /\ heard' = [heard EXCEPT ![s] = FALSE]
    /\ left' = [left EXCEPT ![s] = IF to = "backoff" THEN R ELSE 0]
    /\ peerPort' = IF s = "A" THEN 0 ELSE peerPort
    /\ chanReady' = IF s = "A" THEN FALSE ELSE chanReady
    /\ localPort' = IF s = "P" THEN 0 ELSE localPort
    /\ trigger' = IF ShouldAdvertise(s) THEN trigger \cup {s} ELSE trigger
    /\ Enqueue(s, g, (IF s = "A" /\ chanReady THEN <<"close">> ELSE <<>>)
                     \o (IF s = "P" /\ localPort # 0 THEN <<"release">> ELSE <<>>) \o tail)

Stay(s, g, tail) ==
    /\ Enqueue(s, g, tail)
    /\ UNCHANGED <<phase, heard, left, peerPort, chanReady, localPort, trigger>>

\* OnGossip without udp, active end: the port is void, data returns to TCP.
ForgetPort ==
    /\ peerPort' = 0
    /\ UNCHANGED <<phase, heard, left, chanReady, localPort, acts, trigger>>

\* Mutant: the passive end keeps its port when the peer stops advertising.
GossipLost_Kept == Stay("P", "recv", <<>>)

\* OnGossip without udp, passive end.
GossipLost ==
    IF phase["P"] \in {"none", "backoff"} THEN Stay("P", "recv", <<>>)
    ELSE Withdraw("P", "recv", "none", <<>>)

\* OnGossip with udp, active end.
LearnPort(p) ==
    /\ peerPort' = IF p > 0 THEN p ELSE peerPort
    /\ phase' = [phase EXCEPT !["A"] = IF p > 0 /\ @ = "channel" THEN "negotiated"
                                       ELSE IF @ = "none" THEN "advertising" ELSE @]
    /\ trigger' = IF phase["A"] = "none" THEN trigger \cup {"A"} ELSE trigger
    /\ Enqueue("A", "recv", IF phase["A"] = "none" THEN <<"dial">> ELSE <<>>)
    /\ UNCHANGED <<heard, left, chanReady, localPort>>

\* onPeerGossip, called by the session's read loop.
OnGossip(s) ==
    LET g == Head(gossip[s]) IN
    /\ s \notin closed
    /\ gossip[s] # <<>>
    /\ acts[s]["recv"] = <<>>
    /\ gossip' = [gossip EXCEPT ![s] = Tail(@)]
    /\ capable' = [capable EXCEPT ![s] = g.udp]
    /\ CASE s = "A" /\ g.udp  -> LearnPort(g.port)
         [] s = "A" /\ ~g.udp -> ForgetPort
         [] s = "P" /\ g.udp  -> IF phase["P"] = "none" THEN EnterAdvertising("P", "recv", <<>>)
                                 ELSE Stay("P", "recv", <<>>)
         [] s = "P" /\ ~g.udp -> GossipLost
    /\ UNCHANGED <<resVars, marking, wire, timeVars, up, closed, bounds>>

Expired(s) == phase[s] \in {"pending", "active"} /\ left[s] = 0

\* tickLoop: Tick under the lock, its actions, and maybeRedial.
Tick(s) ==
    LET tail == IF s = "A" THEN <<"redial">> ELSE <<>> IN
    /\ s \notin closed
    /\ s \in toTick
    /\ toTick' = toTick \ {s}
    /\ CASE Expired(s) -> Withdraw(s, "tick", "backoff", tail)
         [] phase[s] = "backoff" /\ left[s] = 0 /\ s = "P" /\ ~capable["P"] ->
              /\ phase' = [phase EXCEPT ![s] = "none"]
              /\ UNCHANGED <<heard, left, peerPort, chanReady, localPort, acts, trigger>>
         [] phase[s] = "backoff" /\ left[s] = 0 /\ (s = "A" \/ capable["P"]) ->
              EnterAdvertising(s, "tick", tail)
         [] phase[s] = "none" /\ (s = "A" \/ capable["P"]) -> EnterAdvertising(s, "tick", tail)
         [] OTHER -> Stay(s, "tick", tail)
    /\ UNCHANGED <<capable, resVars, marking, gossip, wire, toSend, due, redial, up, closed, bounds>>

-----------------------------------------------------------------------------
(* executeActions                                                          *)

Executes(s, g, a) ==
    /\ acts[s][g] # <<>>
    /\ Head(acts[s][g]) = a
    /\ acts' = [acts EXCEPT ![s][g] = Tail(@)]

StartDial ==
    IF dialing \/ packetConn # "none" THEN UNCHANGED <<dialing, redial>>
    ELSE dialing' = TRUE /\ redial' = R

SpawnDial(g) ==
    /\ Executes("A", g, "dial")
    /\ StartDial
    /\ UNCHANGED <<fsmVars, packetConn, ep, next, relay, marking, netVars, toTick, toSend, due, up, closed,
                   bounds>>

\* Mutant: no second attempt after a failed dial.
RedialDue_Never == FALSE

RedialDue == phase["A"] = "advertising" /\ redial = 0

MaybeRedial ==
    /\ Executes("A", "tick", "redial")
    /\ IF RedialDue THEN StartDial ELSE UNCHANGED <<dialing, redial>>
    /\ UNCHANGED <<fsmVars, packetConn, ep, next, relay, marking, netVars, toTick, toSend, due, up, closed,
                   bounds>>

\* The dial's goroutine: the channel is kept, then OnChannelResult.
LegDialOk ==
    /\ dialing
    /\ dialing' = FALSE
    /\ packetConn' = "open"
    /\ IF phase["A"] \in {"advertising", "channel"}
       THEN /\ chanReady' = TRUE
            /\ phase' = [phase EXCEPT !["A"] = IF peerPort > 0 THEN "negotiated" ELSE "channel"]
       ELSE UNCHANGED <<chanReady, phase>>
    /\ UNCHANGED <<capable, heard, left, peerPort, localPort, ep, next, relay, acts, marking,
                   netVars, timeVars, up, closed, bounds>>

LegDialFails ==
    /\ dialing
    /\ ~up
    /\ dialing' = FALSE
    /\ UNCHANGED <<fsmVars, packetConn, ep, next, relay, acts, marking, netVars, timeVars, up, closed,
                   bounds>>

\* The channel goes, with the server's relay and all datagrams in it.
DropChannel ==
    /\ packetConn' = "none"
    /\ relay' = 0
    /\ wire' = [s \in Sides |-> {}]

CloseChannel(g) ==
    /\ Executes("A", g, "close")
    /\ DropChannel
    /\ UNCHANGED <<fsmVars, dialing, ep, next, marking, trigger, gossip, timeVars, up, closed,
                   bounds>>

AllocatePort(g) ==
    /\ Executes("P", g, "allocate")
    /\ IF ep # 0 THEN UNCHANGED <<ep, next, localPort>>
       ELSE /\ ep' = next
            /\ next' = IF next = PortMax THEN 1 ELSE next + 1
            /\ localPort' = next
    /\ UNCHANGED <<phase, capable, heard, left, peerPort, chanReady, packetConn, dialing, relay, marking,
                   netVars, timeVars, up, closed, bounds>>

\* Other sessions hold every port: a warning, and nothing tries again.
AllocateFails(g) ==
    /\ Executes("P", g, "allocate")
    /\ ep = 0
    /\ MayFill
    /\ UNCHANGED <<fsmVars, resVars, marking, netVars, timeVars, up, closed, bounds>>

\* The relay keeps its tie to the endpoint it once found.
ReleasePort ==
    /\ ep' = 0
    /\ relay' = IF ep # 0 /\ relay = ep THEN Gone ELSE relay

UnregisterPort(g) ==
    /\ Executes("P", g, "release")
    /\ ReleasePort
    /\ UNCHANGED <<fsmVars, packetConn, dialing, next, marking, netVars, timeVars, up, closed, bounds>>

-----------------------------------------------------------------------------
(* Gossip, data, time                                                      *)

\* The mesh builds gossip when it gets round to it and asks the FSM then.
BuildGossip(s) ==
    /\ s \in trigger
    /\ s \notin closed
    /\ Len(gossip[Peer(s)]) < MaxQueue
    /\ trigger' = trigger \ {s}
    /\ gossip' = [gossip EXCEPT ![Peer(s)] = Append(@,
         [udp |-> ShouldAdvertise(s), port |-> IF s = "P" THEN AdvertisePort ELSE 0])]
    /\ UNCHANGED <<fsmVars, resVars, acts, marking, wire, timeVars, up, closed, bounds>>

\* What happens to a datagram once written: lost with the path.
Put(to, p) == wire' = IF up THEN [wire EXCEPT ![to] = @ \cup {p}] ELSE wire

\* Send and writeLeg; a frame that does not go by UDP goes by TCP.
SendData(s) ==
    /\ s \notin closed
    /\ s \in toSend
    /\ ~marking
    /\ toSend' = toSend \ {s}
    /\ RouteDataViaUDP(s)
    /\ CASE s = "A" ->
              /\ IF packetConn = "open" THEN Put("P", SendPort) ELSE UNCHANGED wire
              /\ marking' = TRUE
         [] s = "P" ->
              /\ IF ep # 0 /\ relay = ep THEN Put("A", relay) ELSE UNCHANGED wire
              /\ UNCHANGED marking
    /\ UNCHANGED <<fsmVars, resVars, acts, trigger, gossip, toTick, due, redial, up, closed, bounds>>

OnDataSent ==
    /\ marking
    /\ marking' = FALSE
    /\ IF phase["A"] = "negotiated"
       THEN phase' = [phase EXCEPT !["A"] = "pending"] /\ left' = [left EXCEPT !["A"] = K]
       ELSE UNCHANGED <<phase, left>>
    /\ UNCHANGED <<capable, heard, peerPort, chanReady, localPort, resVars, acts, netVars, timeVars,
                   up, closed, bounds>>

\* OnUDPInbound.
Activates(s) == phase[s] \in {"pending", "active"} \/ (s = "P" /\ phase["P"] = "advertising")

OnUDPInbound(s) ==
    IF Activates(s)
    THEN /\ phase' = [phase EXCEPT ![s] = "active"]
         /\ heard' = [heard EXCEPT ![s] = TRUE]
         /\ left' = [left EXCEPT ![s] = K]
    ELSE UNCHANGED <<phase, heard, left>>

\* deliverToUDPLeg: the relay binds itself once as a return path.
BindReturnPath(p) == relay' = IF relay = 0 /\ ep = p THEN p ELSE relay

\* Then it delivers by port, and epPump tells the state machine.
DeliverToP(p) ==
    /\ p \in wire["P"]
    /\ wire' = [wire EXCEPT !["P"] = @ \ {p}]
    /\ BindReturnPath(p)
    /\ IF ep = p /\ "P" \notin closed THEN OnUDPInbound("P") ELSE UNCHANGED <<phase, heard, left>>
    /\ UNCHANGED <<capable, peerPort, chanReady, localPort, packetConn, dialing, ep, next, acts, marking,
                   trigger, gossip, timeVars, up, closed, bounds>>

\* pcReadLoop: only datagrams from the negotiated port count.
DeliverToA(p) ==
    /\ p \in wire["A"]
    /\ wire' = [wire EXCEPT !["A"] = @ \ {p}]
    /\ IF SendPort = p /\ packetConn = "open" /\ "A" \notin closed THEN OnUDPInbound("A")
       ELSE UNCHANGED <<phase, heard, left>>
    /\ UNCHANGED <<capable, peerPort, chanReady, localPort, resVars, acts, marking, trigger, gossip,
                   timeVars, up, closed, bounds>>

Down(n) == IF n = 0 THEN 0 ELSE n - 1

Quiet ==
    /\ \A s \in Sides : wire[s] = {} /\ gossip[s] = <<>>
    /\ trigger = {} /\ ~marking
    /\ \A s \in toSend : ~RouteDataViaUDP(s)

\* One unit of time: everybody's ticker fires and has data to send.  No
\* goroutine takes that long over its actions.
Clock ==
    /\ closed = {}
    /\ toTick = {}
    /\ \A s \in Sides, g \in Goroutines : acts[s][g] = <<>>
    /\ Prompt => Quiet
    /\ toTick' = Sides /\ toSend' = Sides
    /\ left' = [s \in Sides |-> Down(left[s])]
    /\ redial' = Down(redial)
    /\ due' = IF due = 0 THEN G ELSE due - 1
    /\ trigger' = IF due = 0 THEN Sides ELSE trigger
    /\ UNCHANGED <<phase, capable, heard, peerPort, chanReady, localPort, resVars, acts, marking,
                   gossip, wire, up, closed, bounds>>

-----------------------------------------------------------------------------
(* The environment, and the end of the session                             *)

PathChanges ==
    /\ outages < MaxOutages
    /\ outages' = outages + 1
    /\ up' = ~up
    /\ UNCHANGED <<fsmVars, resVars, acts, marking, netVars, timeVars, closed, breaks>>

\* pcReadLoop ends with an error; t.pc is still set.
ChannelBreaks ==
    /\ packetConn = "open"
    /\ breaks < MaxBreaks
    /\ breaks' = breaks + 1
    /\ packetConn' = "broken"
    /\ UNCHANGED <<fsmVars, dialing, ep, next, relay, acts, marking, netVars, timeVars, up, closed,
                   outages>>

Close(s) ==
    /\ s \in Closers
    /\ s \notin closed
    /\ closed' = closed \cup {s}
    /\ IF s = "A" THEN DropChannel /\ UNCHANGED ep
       ELSE ReleasePort /\ UNCHANGED <<packetConn, wire>>
    /\ UNCHANGED <<fsmVars, dialing, next, acts, marking, trigger, gossip, timeVars, up, bounds>>

Execute(s) ==
    \E g \in Goroutines :
        \/ s = "A" /\ (SpawnDial(g) \/ CloseChannel(g))
        \/ s = "P" /\ (AllocatePort(g) \/ AllocateFails(g) \/ UnregisterPort(g))

Step(s) == OnGossip(s) \/ Tick(s) \/ Execute(s) \/ BuildGossip(s) \/ SendData(s)

Progress ==
    \/ \E s \in Sides : Step(s)
    \/ MaybeRedial \/ OnDataSent
    \/ \E p \in 1 .. PortMax : DeliverToP(p) \/ DeliverToA(p)

LegNext ==
    \/ Progress \/ LegDialOk \/ LegDialFails \/ Clock
    \/ PathChanges \/ ChannelBreaks
    \/ \E s \in Sides : Close(s)

LegSpec == LegInit /\ [][LegNext]_legVars

-----------------------------------------------------------------------------
\* The variables keep their types.
LegTypeOK ==
    /\ phase \in [Sides -> Advertised \cup {"none", "backoff"}]
    /\ capable \in [Sides -> BOOLEAN] /\ heard \in [Sides -> BOOLEAN]
    /\ left \in [Sides -> Nat] /\ \A s \in Sides : left[s] <= K \/ left[s] <= R
    /\ {peerPort, localPort, ep} \subseteq 0 .. PortMax
    /\ relay \in 0 .. Gone
    /\ next \in 1 .. PortMax
    /\ chanReady \in BOOLEAN /\ dialing \in BOOLEAN /\ marking \in BOOLEAN /\ up \in BOOLEAN
    /\ packetConn \in {"none", "open", "broken"}
    /\ trigger \cup toTick \cup toSend \cup closed \subseteq Sides

Pending(a) == \E s \in Sides, g \in Goroutines : \E i \in DOMAIN acts[s][g] : acts[s][g][i] = a

\* "gossip still advertises the leg and UDP was really received": the passive
\* end answers on UDP only while both hold, on an endpoint it has registered.
ReturnPathAdmitted ==
    RouteDataViaUDP("P") => capable["P"] /\ heard["P"]

\* The port the passive end advertises is the one it has registered.
AdvertisedPortServed ==
    "P" \notin closed /\ AdvertisePort # 0 => ep = AdvertisePort

\* A withdrawn leg holds nothing: neither channel nor port, once the actions
\* of the withdrawal are executed.
WithdrawnHoldsNothing ==
    /\ phase["A"] \in {"none", "backoff"} /\ ~Pending("close") /\ "A" \notin closed => packetConn = "none"
    /\ phase["P"] = "backoff" /\ ~Pending("release") => ep = 0

\* "closing only the raw transport would leak both": closing the leg releases
\* the packet channel and the registered port for good.
ClosedHoldsNothing ==
    /\ "A" \in closed => packetConn = "none"
    /\ "P" \in closed => ep = 0

\* "recovers by itself": once the path stays up, both ends end up on UDP.
Recovers == <>[]up => <>[](phase["A"] = "active" /\ phase["P"] = "active")

\* "no return flow for K": with the path down, no end keeps sending into it.
FallsBack == \A s \in Sides : <>[]~up => []<>~RouteDataViaUDP(s)

\* LegSound: the active end dials only to a port the other's gossip admits, an advertised
\* port is served, and a leg that has been withdrawn holds neither port nor channel.
LegSound == LegTypeOK /\ ReturnPathAdmitted /\ AdvertisedPortServed /\ WithdrawnHoldsNothing
=============================================================================

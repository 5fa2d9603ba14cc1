----------------------------- MODULE ReverseUdp -----------------------------
(***************************************************************************)
(* One UDP channel through a reverse connection: DialPacket and the        *)
(* reversePacketConn it returns (dialer/reverse.go) at one end,            *)
(* handleReverseUDPChannel (server/reverse.go) at the other.  The TCP      *)
(* connection carries the handshake (UDP_CHANNEL, key, address, READY) and *)
(* then heartbeats; UDP carries frames between two sockets whose public    *)
(* addresses a NAT may change, so each end follows the address it last     *)
(* heard from: the dialer on heartbeats, the server on any frame.          *)
(*                                                                         *)
(* A frame under another key fails to open and is dropped: the packets of  *)
(* this model are those of this channel's key.  The sockets of one end are *)
(* closed together.  Timeouts of reads that only go round again are left   *)
(* out.                                                                    *)
(***************************************************************************)
EXTENDS Naturals, Sequences, FiniteSets

CONSTANTS
    Guesses,   \* the addresses the two ends start from: <<of the dialer, of the server>>
    DataCap,   \* length of dataCh
    MaxMoves,  \* how often a NAT gives an end another address
    MaxDatagrams,   \* datagrams each way
    MaxLost    \* packets the network loses

\* Address 0 is a local one that nobody outside can reach; a NAT starts with 1.
ASSUME ReverseUdpAssumption == Guesses \subseteq Nat \X Nat /\ DataCap \in Nat \ {0} /\ MaxMoves \in Nat /\ MaxDatagrams \in Nat /\ MaxLost \in Nat

VARIABLES
    dend,    \* [at, sock, tcp, closed, run, addr]: DialPacket's step, its sockets, its end of TCP,
             \* the channel `closed', whether its goroutines run, remoteAddr
    send,    \* the same for the server; addr is currentDialerAddr
    lines,   \* lines on their way to the dialer
    asked_,  \* the UDP_CHANNEL frame is on its way
    cut,     \* the TCP connection is broken
    flying,  \* UDP packets on their way: [to, from, end, kind]
    nat,     \* end -> its public address
    readyCh, \* closed by the first heartbeat
    dataCh,  \* how many datagrams the client has yet to read; 99: closed
    held,    \* chainReader waits for room in dataCh
    moves, data, lost

udpVars == <<dend, send, lines, asked_, cut, flying, nat, readyCh, dataCh, held, moves, data, lost>>

Closed_ == 99
Working == {"key", "addr", "ready", "wait"}

\* Close and doClose (closeOnce makes a second one harmless): they also end what reads the sockets.
Shut(e) == [e EXCEPT !.closed = TRUE, !.sock = FALSE, !.tcp = FALSE]
\* cleanupBoth: like Close, but `closed' stays open.
CleanupBoth(e) == [e EXCEPT !.sock = FALSE, !.tcp = FALSE]

\* What an end of TCP finds out: it cannot write, it reads an end of file.
TcpDead(e, other) == ~e.tcp \/ ~other.tcp \/ cut

Datagram(to, end, kind) == [to |-> to, from |-> nat[end], end |-> end, kind |-> kind]

-----------------------------------------------------------------------------
(* DialPacket. *)

\* Match, the sockets and the UDP_CHANNEL frame.
DialUdp ==
    /\ dend.at = "idle"
    /\ \/ dend' = [dend EXCEPT !.at = "key", !.sock = TRUE, !.tcp = TRUE] /\ asked_' = TRUE
          /\ send' = [send EXCEPT !.tcp = TRUE]
       \/ dend' = [dend EXCEPT !.at = "failed"] /\ UNCHANGED <<asked_, send>>
    /\ UNCHANGED <<lines, cut, flying, nat, readyCh, dataCh, held, moves, data, lost>>

\* The three lines; after READY the goroutines start.
ReadLine ==
    /\ dend.at \in {"key", "addr", "ready"} /\ ~cut /\ lines # <<>> /\ Head(lines) = dend.at
    /\ lines' = Tail(lines)
    /\ dend' = CASE dend.at = "key" -> [dend EXCEPT !.at = "addr"]
                 [] dend.at = "addr" -> [dend EXCEPT !.at = "ready"]
                 [] dend.at = "ready" -> [dend EXCEPT !.at = "wait", !.run = TRUE]
    /\ UNCHANGED <<send, asked_, cut, flying, nat, readyCh, dataCh, held, moves, data, lost>>

ReadLineFails ==
    /\ dend.at \in {"key", "addr", "ready"}
    /\ cut \/ (lines = <<>> /\ ~send.tcp)
    /\ dend' = CleanupBoth([dend EXCEPT !.at = "failed"])
    /\ UNCHANGED <<send, lines, asked_, cut, flying, nat, readyCh, dataCh, held, moves, data, lost>>

\* The wait for the first heartbeat: it comes, the timer fires, or a goroutine has closed the channel.
FirstHeartbeat ==
    /\ dend.at = "wait"
    /\ \/ readyCh /\ dend' = [dend EXCEPT !.at = "up"]
       \/ dend.closed /\ dend' = [dend EXCEPT !.at = "failed"]
    /\ UNCHANGED <<send, lines, asked_, cut, flying, nat, readyCh, dataCh, held, moves, data, lost>>

HeartbeatTimeout ==
    /\ dend.at = "wait"
    /\ dend' = CleanupBoth([dend EXCEPT !.at = "failed"])
    /\ UNCHANGED <<send, lines, asked_, cut, flying, nat, readyCh, dataCh, held, moves, data, lost>>

-----------------------------------------------------------------------------
(* The dialer's goroutines. *)

\* tcpKeepalive cannot write, or the two that use the chain socket find it closed: they close the rest.
\* (tcpReader only ends at an error.)
DialerFinds ==
    /\ dend.run /\ ~dend.closed
    /\ TcpDead(dend, send) \/ (~dend.sock /\ ~held)
    /\ dend' = Shut(dend)
    /\ UNCHANGED <<send, lines, asked_, cut, flying, nat, readyCh, dataCh, held, moves, data, lost>>

\* remoteAddr follows the source of a heartbeat, not of data.
Remote(p) == IF p.kind = "beat" THEN p.from ELSE dend.addr

\* chainReader takes a packet: heartbeats confirm the channel, data waits for room in dataCh.
ChainReader(p) ==
    /\ dend.run /\ ~held /\ dend.sock /\ ~dend.closed
    /\ p \in flying /\ p.end = "server" /\ p.to = nat["dialer"]
    /\ flying' = flying \ {p}
    /\ dend' = [dend EXCEPT !.addr = Remote(p)]
    /\ readyCh' = (readyCh \/ p.kind = "beat")
    /\ IF p.kind = "beat" THEN UNCHANGED <<dataCh, held>>
       ELSE IF dataCh < DataCap THEN dataCh' = dataCh + 1 /\ UNCHANGED held
       ELSE held' = TRUE /\ UNCHANGED dataCh
    /\ UNCHANGED <<send, lines, asked_, cut, nat, moves, data, lost>>

ChainRoom ==
    /\ held /\ dataCh < DataCap
    /\ dataCh' = dataCh + 1 /\ held' = FALSE
    /\ UNCHANGED <<dend, send, lines, asked_, cut, flying, nat, readyCh, moves, data, lost>>

UdpHeartbeat ==
    /\ dend.run /\ ~dend.closed /\ dend.sock
    /\ flying' = flying \cup {Datagram(dend.addr, "dialer", "beat")}
    /\ UNCHANGED <<dend, send, lines, asked_, cut, nat, readyCh, dataCh, held, moves, data, lost>>

\* The goroutines see `closed' and return; chainReader also closes dataCh.
DialerUnwinds ==
    /\ dend.run /\ dend.closed
    /\ dend' = [dend EXCEPT !.run = FALSE] /\ dataCh' = Closed_ /\ held' = FALSE
    /\ UNCHANGED <<send, lines, asked_, cut, flying, nat, readyCh, moves, data, lost>>

-----------------------------------------------------------------------------
(* The client of the channel. *)

ClientWrites ==
    /\ dend.at = "up" /\ ~dend.closed /\ dend.sock /\ data["dialer"] < MaxDatagrams
    /\ flying' = flying \cup {Datagram(dend.addr, "dialer", "data")}
    /\ data' = [data EXCEPT !["dialer"] = @ + 1]
    /\ UNCHANGED <<dend, send, lines, asked_, cut, nat, readyCh, dataCh, held, moves, lost>>

ClientReads ==
    /\ dend.at = "up" /\ dataCh \in 1..DataCap
    /\ dataCh' = dataCh - 1
    /\ UNCHANGED <<dend, send, lines, asked_, cut, flying, nat, readyCh, held, moves, data, lost>>

ClientCloses ==
    /\ dend.at = "up" /\ ~dend.closed
    /\ dend' = Shut(dend)
    /\ UNCHANGED <<send, lines, asked_, cut, flying, nat, readyCh, dataCh, held, moves, data, lost>>

-----------------------------------------------------------------------------
(* handleReverseUDPChannel. *)

Accept ==
    /\ send.at = "idle" /\ asked_ /\ ~cut
    /\ asked_' = FALSE /\ send' = [send EXCEPT !.at = "key"]
    /\ UNCHANGED <<dend, lines, cut, flying, nat, readyCh, dataCh, held, moves, data, lost>>

\* Key, then the sockets and their address, then READY and the goroutines.
SendLine ==
    /\ send.at \in {"key", "addr", "ready"} /\ ~TcpDead(send, dend)
    /\ lines' = Append(lines, send.at)
    /\ send' = CASE send.at = "key" -> [send EXCEPT !.at = "addr"]
                 [] send.at = "addr" -> [send EXCEPT !.at = "ready", !.sock = TRUE]
                 [] send.at = "ready" -> [send EXCEPT !.at = "up", !.run = TRUE]
    /\ UNCHANGED <<dend, asked_, cut, flying, nat, readyCh, dataCh, held, moves, data, lost>>

\* No such proxy, no socket, or a failed write: the sockets are closed, and the caller closes TCP.
\* Before the frame arrives the caller's read of it may fail.
SendLineFails ==
    /\ \/ send.at = "idle" /\ send.tcp /\ (cut \/ (~dend.tcp /\ ~asked_))
       \/ send.at = "key" /\ TcpDead(send, dend)
       \/ send.at = "addr"
       \/ send.at = "ready" /\ TcpDead(send, dend)
    /\ send' = CleanupBoth([send EXCEPT !.at = "gone"]) /\ asked_' = FALSE
    /\ UNCHANGED <<dend, lines, cut, flying, nat, readyCh, dataCh, held, moves, data, lost>>

\* The TCP heartbeats and the reader close the channel when they fail, the two forwarders when a
\* socket fails.
ServerFinds ==
    /\ send.run /\ ~send.closed
    /\ TcpDead(send, dend)
    /\ send' = Shut(send)
    /\ UNCHANGED <<dend, lines, asked_, cut, flying, nat, readyCh, dataCh, held, moves, data, lost>>

ServerSocketFails ==
    /\ send.run /\ ~send.closed
    /\ send' = Shut(send)
    /\ UNCHANGED <<dend, lines, asked_, cut, flying, nat, readyCh, dataCh, held, moves, data, lost>>

\* The first heartbeat is sent at once, the others every three seconds.
ServerHeartbeat ==
    /\ send.run /\ ~send.closed
    /\ flying' = flying \cup {Datagram(send.addr, "server", "beat")}
    /\ UNCHANGED <<dend, send, lines, asked_, cut, nat, readyCh, dataCh, held, moves, data, lost>>

\* Mutant: only data tells the dialer's address.
DialerAddr_DataOnly(p) == IF p.kind = "data" THEN p.from ELSE send.addr

\* Any frame that opens tells the dialer's address.
DialerAddr(p) == p.from

\* Goroutine 1: from the tunnel to the target.
TunnelToTarget(p) ==
    /\ send.run /\ ~send.closed
    /\ p \in flying /\ p.end = "dialer" /\ p.to = nat["server"]
    /\ flying' = flying \ {p}
    /\ send' = [send EXCEPT !.addr = DialerAddr(p)]
    /\ UNCHANGED <<dend, lines, asked_, cut, nat, readyCh, dataCh, held, moves, data, lost>>

\* Goroutine 2: from the target to the tunnel.
TargetToTunnel ==
    /\ send.run /\ ~send.closed /\ data["server"] < MaxDatagrams
    /\ flying' = flying \cup {Datagram(send.addr, "server", "data")}
    /\ data' = [data EXCEPT !["server"] = @ + 1]
    /\ UNCHANGED <<dend, send, lines, asked_, cut, nat, readyCh, dataCh, held, moves, lost>>

\* The goroutines and the handler, which waits for `closed', return.
ServerUnwinds ==
    /\ send.run /\ send.closed
    /\ send' = [send EXCEPT !.run = FALSE, !.at = "gone"]
    /\ UNCHANGED <<dend, lines, asked_, cut, flying, nat, readyCh, dataCh, held, moves, data, lost>>

-----------------------------------------------------------------------------
(* The network. *)

Lose(p) ==
    /\ p \in flying /\ lost < MaxLost
    /\ flying' = flying \ {p} /\ lost' = lost + 1
    /\ UNCHANGED <<dend, send, lines, asked_, cut, nat, readyCh, dataCh, held, moves, data>>

Cut ==
    /\ ~cut /\ dend.at # "idle" /\ cut' = TRUE
    /\ UNCHANGED <<dend, send, lines, asked_, flying, nat, readyCh, dataCh, held, moves, data, lost>>

\* A NAT gives an end another address while each end knows the other's.
Move(end) ==
    /\ moves < MaxMoves /\ dend.at = "up"
    /\ dend.addr = nat["server"] /\ send.addr = nat["dialer"]
    /\ nat' = [nat EXCEPT ![end] = @ + 1] /\ moves' = moves + 1
    /\ UNCHANGED <<dend, send, lines, asked_, cut, flying, readyCh, dataCh, held, data, lost>>

-----------------------------------------------------------------------------
UdpInit ==
    /\ \E g \in Guesses :
          /\ dend = [at |-> "idle", sock |-> FALSE, tcp |-> FALSE, closed |-> FALSE, run |-> FALSE, addr |-> g[2]]
          /\ send = [at |-> "idle", sock |-> FALSE, tcp |-> FALSE, closed |-> FALSE, run |-> FALSE, addr |-> g[1]]
    /\ lines = <<>> /\ asked_ = FALSE /\ cut = FALSE /\ flying = {} /\ nat = [e \in {"dialer", "server"} |-> 1]
    /\ readyCh = FALSE /\ dataCh = 0 /\ held = FALSE /\ moves = 0 /\ data = [e \in {"dialer", "server"} |-> 0] /\ lost = 0

DialerStep == ReadLine \/ ReadLineFails \/ FirstHeartbeat \/ DialerFinds \/ ChainRoom \/ DialerUnwinds
DialerHears == \E p \in flying : ChainReader(p)
ServerStep == Accept \/ SendLine \/ SendLineFails \/ ServerFinds \/ ServerUnwinds
ServerHears == \E p \in flying : TunnelToTarget(p)

UdpNext ==
    \/ DialUdp \/ DialerStep \/ HeartbeatTimeout \/ DialerHears \/ UdpHeartbeat
    \/ ClientWrites \/ ClientReads \/ ClientCloses
    \/ ServerStep \/ ServerSocketFails \/ ServerHears \/ ServerHeartbeat \/ TargetToTunnel
    \/ Cut \/ (\E p \in flying : Lose(p)) \/ \E end \in {"dialer", "server"} : Move(end)

UdpSpec == UdpInit /\ [][UdpNext]_udpVars

-----------------------------------------------------------------------------
(* Properties. *)

\* A DialPacket that has begun ends, and with it the mutex of its address is free again.
DialReturns == []<>(dend.at \notin Working)

\* Once one end has given up or the connection is broken, both ends close their sockets and
\* connections, and every goroutine of theirs ends.
Quiet(e) == ~e.sock /\ ~e.tcp /\ ~e.run
EndsTogether == []<>((cut \/ dend.at = "failed" \/ dend.closed \/ send.at = "gone" \/ send.closed) => Quiet(dend) /\ Quiet(send))

\* While the channel is up each end again and again knows where the other is, whichever of them a
\* NAT has moved.
NatFollowed ==
    []<>(dend.at = "up" /\ ~dend.closed /\ send.at = "up" /\ ~send.closed
             => dend.addr = nat["server"] /\ send.addr = nat["dialer"])

\* A channel that reached the client was confirmed: the server, its handshake over, has sent a
\* heartbeat that arrived.
Confirmed == dend.at = "up" => readyCh /\ send.at \in {"up", "gone"}

\* A DialPacket that failed, in whichever step of it, has closed its sockets and its end of TCP.
FailedHoldsNothing == dend.at = "failed" => ~dend.sock /\ ~dend.tcp

\* ChannelRight: channels come up confirmed and follow a NAT, dials return, and the ends of a channel
\* give up together.
ChannelRight == [](Confirmed /\ FailedHoldsNothing) /\ DialReturns /\ EndsTogether /\ NatFollowed
=============================================================================

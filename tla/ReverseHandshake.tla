--------------------------- MODULE ReverseHandshake ---------------------------
(***************************************************************************)
(* What travels on one reverse connection, from registration to its first  *)
(* application frames: reverse/registry.go on the registry's end,          *)
(* server/reverse.go on the passive end, frame/frame.go between them, and  *)
(* dialer/reverse.go, the owner of the connection after a match.           *)
(*                                                                         *)
(* Registry's end: HandleReverseConnection registers, confirms with PENG   *)
(* and starts a heartbeat sender; a read loop drops heartbeats and keeps   *)
(* the first other frame; Match stops the sender, sends PONG, stops the    *)
(* read loop and waits for PENG.  Passive end: a heartbeat sender and a    *)
(* loop that answers PONG with PENG and hands the connection to the        *)
(* mapping's handler, whose first frame decides between TCP and UDP.       *)
(*                                                                         *)
(* Each direction is a FIFO sequence of frames.  A frame is torn when      *)
(* Stop's read deadline interrupts ReadFrame in the middle of it: what     *)
(* follows cannot be parsed any more.  The pool, the watcher and several   *)
(* dialers are the subject of ReverseRegistry.                             *)
(***************************************************************************)
EXTENDS Naturals, Sequences, SequencesExt

CONSTANTS
    MaxBeats,    \* bound: heartbeats each sender writes
    MaxData      \* bound: application writes of the dialer

ASSUME HandshakeAssumption == MaxBeats \in Nat /\ MaxData \in Nat

VARIABLES
    toP, toA,    \* frames under way to the passive end, to the registry's end
    rpc,         \* where HandleReverseConnection is
    spc,         \* the registry's heartbeat sender
    stopPing,    \* stopPing is closed
    lpc,         \* the read loop
    stopCh,      \* stopCh is closed
    pending,     \* pendingMsg, or "none"
    desync,      \* a frame to the registry's end was torn
    dpc,         \* where Match and then its dialer are
    aClosed,     \* the registry's end has closed the connection
    ppc,         \* where handleReverseConn and then the handler are
    psend,       \* the passive heartbeat sender
    pClosed,     \* the passive end has closed it
    got,         \* application data the handler has read
    sent,        \* application writes made by the dialer
    beats        \* heartbeats left to write, per sender

registrarVars == <<rpc, spc, stopPing, lpc, stopCh, pending, desync>>
passVars      == <<ppc, psend, pClosed, got>>
shakeVars     == <<toP, toA, registrarVars, dpc, aClosed, passVars, sent, beats>>

Frame(type, by, n) == [type |-> type, by |-> by, n |-> n]
Control(type, by)  == Frame(type, by, 0)
Frames == [type : {"HEARTBEAT", "PONG", "PENG", "UDP_CHANNEL", "DATA"},
           by : {"registry", "passive", "dialer"}, n : 0 .. MaxData]

ShakeInit ==
    /\ toP = <<>> /\ toA = <<>>
    /\ rpc = "register"
    /\ spc = "none" /\ stopPing = FALSE
    /\ lpc = "run" /\ stopCh = FALSE /\ pending = "none" /\ desync = FALSE
    /\ dpc = "idle" /\ aClosed = FALSE
    /\ ppc = "wait" /\ psend = "run" /\ pClosed = FALSE /\ got = <<>>
    /\ sent = 0
    /\ beats = [s \in {"registry", "passive", "dialer"} |-> MaxBeats]

-----------------------------------------------------------------------------
(* HandleReverseConnection                                                 *)

\* Register: from here on a dialer may match the connection.
Register ==
    /\ rpc = "register"
    /\ rpc' = "peng"
    /\ UNCHANGED <<toP, toA, spc, stopPing, lpc, stopCh, pending, desync, dpc, aClosed, passVars,
                   sent, beats>>

\* WriteMsg(PENG) confirms the registration.
ConfirmOk ==
    /\ rpc = "peng"
    /\ ~aClosed
    /\ toP' = Append(toP, Control("PENG", "registry"))
    /\ rpc' = "sender"
    /\ UNCHANGED <<toA, spc, stopPing, lpc, stopCh, pending, desync, dpc, aClosed, passVars,
                   sent, beats>>

\* It fails: Unregister, Stop, Close.
ConfirmFail ==
    /\ rpc = "peng"
    /\ aClosed \/ pClosed
    /\ rpc' = "done"
    /\ stopCh' = TRUE /\ lpc' = "gone"
    /\ aClosed' = TRUE
    /\ UNCHANGED <<toP, toA, spc, stopPing, pending, desync, dpc, passVars, sent, beats>>

\* senderWg.Add and the sender goroutine.  Its first tick is 5s away: one
\* that starts after stopPing was closed finds only that.
SenderStart ==
    /\ rpc = "sender"
    /\ rpc' = "done"
    /\ spc' = IF stopPing THEN "gone" ELSE "run"
    /\ UNCHANGED <<toP, toA, stopPing, lpc, stopCh, pending, desync, dpc, aClosed, passVars,
                   sent, beats>>

\* A tick; with stopPing closed at the same time the select may still take it.
SenderBeat ==
    /\ spc = "run"
    /\ ~aClosed
    /\ beats["registry"] > 0
    /\ beats' = [beats EXCEPT !["registry"] = @ - 1]
    /\ toP' = Append(toP, Control("HEARTBEAT", "registry"))
    /\ UNCHANGED <<toA, registrarVars, dpc, aClosed, passVars, sent>>

\* A write fails, and the sender closes the connection ...
SenderFails ==
    /\ spc = "run"
    /\ aClosed \/ pClosed
    /\ spc' = "gone"
    /\ aClosed' = TRUE
    /\ UNCHANGED <<toP, toA, rpc, stopPing, lpc, stopCh, pending, desync, dpc, passVars, sent, beats>>

\* ... or stopPing or doneCh is closed.
SenderStops ==
    /\ spc = "run"
    /\ stopPing \/ lpc = "gone"
    /\ spc' = "gone"
    /\ UNCHANGED <<toP, toA, rpc, stopPing, lpc, stopCh, pending, desync, dpc, aClosed, passVars,
                   sent, beats>>

-----------------------------------------------------------------------------
(* readLoop                                                                *)

\* One frame.  stopCh is looked at between frames only.
LoopRead ==
    /\ lpc = "run"
    /\ ~aClosed
    /\ toA # <<>>
    /\ toA' = Tail(toA)
    /\ pending' = IF Head(toA).type # "HEARTBEAT" /\ pending = "none" THEN Head(toA).type ELSE pending
    /\ lpc' = IF stopCh THEN "gone" ELSE "run"
    /\ UNCHANGED <<toP, rpc, spc, stopPing, stopCh, desync, dpc, aClosed, passVars, sent, beats>>

\* Stop's deadline, a closed connection or the peer's close ends the loop.
LoopExit ==
    /\ lpc = "run"
    /\ stopCh \/ aClosed \/ (pClosed /\ toA = <<>>)
    /\ lpc' = "gone"
    /\ UNCHANGED <<toP, toA, rpc, spc, stopPing, stopCh, pending, desync, dpc, aClosed, passVars,
                   sent, beats>>

\* The deadline strikes inside a frame, whose first bytes are lost.
LoopTorn ==
    /\ lpc = "run"
    /\ stopCh
    /\ toA # <<>>
    /\ lpc' = "gone"
    /\ desync' = TRUE
    /\ UNCHANGED <<toP, toA, rpc, spc, stopPing, stopCh, pending, dpc, aClosed, passVars, sent, beats>>

-----------------------------------------------------------------------------
(* Match: reverseHandshake                                                 *)

Claim ==
    /\ dpc = "idle"
    /\ rpc # "register"
    /\ dpc' = "wait"
    /\ stopPing' = TRUE
    /\ UNCHANGED <<toP, toA, rpc, spc, lpc, stopCh, pending, desync, aClosed, passVars, sent, beats>>

\* Mutant: the sender is told to stop but not waited for.
SenderWait_Skipped == TRUE

\* senderWg.Wait: returns at once when Add has not happened yet.
SenderWait == spc # "run"

SendPong ==
    /\ dpc = "wait"
    /\ SenderWait
    /\ ~aClosed
    /\ toP' = Append(toP, Control("PONG", "registry"))
    /\ dpc' = "stop"
    /\ UNCHANGED <<toA, registrarVars, aClosed, passVars, sent, beats>>

\* mc.Stop closes stopCh ...
StopLoop ==
    /\ dpc = "stop"
    /\ stopCh' = TRUE
    /\ dpc' = "join"
    /\ UNCHANGED <<toP, toA, rpc, spc, stopPing, lpc, pending, desync, aClosed, passVars, sent, beats>>

\* ... and waits for the loop, which may have read PENG already.
JoinLoop ==
    /\ dpc = "join"
    /\ lpc = "gone"
    /\ dpc' = IF pending = "PENG" THEN "matched" ELSE "read"
    /\ UNCHANGED <<toP, toA, registrarVars, aClosed, passVars, sent, beats>>

IsPeng(f) == f.type = "PENG"

\* Frames are read directly until PENG; the others are dropped.
ReadPeng ==
    /\ dpc = "read"
    /\ ~aClosed /\ ~desync
    /\ toA # <<>>
    /\ toA' = Tail(toA)
    /\ dpc' = IF IsPeng(Head(toA)) THEN "matched" ELSE "read"
    /\ UNCHANGED <<toP, registrarVars, aClosed, passVars, sent, beats>>

\* Mutant: the dead connection is skipped and left open.
HandshakeFails_LeavesOpen ==
    /\ \/ dpc = "wait" /\ SenderWait /\ (aClosed \/ pClosed)
       \/ dpc = "read"
    /\ dpc' = "failed"
    /\ UNCHANGED <<toP, toA, registrarVars, aClosed, passVars, sent, beats>>

\* PONG cannot be written, or PENG does not come in time (5s per read, 10s
\* in all): Match closes the connection.
HandshakeFails ==
    /\ \/ dpc = "wait" /\ SenderWait /\ (aClosed \/ pClosed)
       \/ dpc = "read"
    /\ dpc' = "failed"
    /\ aClosed' = TRUE
    /\ UNCHANGED <<toP, toA, registrarVars, passVars, sent, beats>>

-----------------------------------------------------------------------------
(* The dialer that owns the matched connection                             *)

\* Dial: a ReverseFramedConn, whose heartbeats and writes follow.
Dial ==
    /\ dpc = "matched"
    /\ dpc' = "tcp"
    /\ UNCHANGED <<toP, toA, registrarVars, aClosed, passVars, sent, beats>>

FramedWrite ==
    /\ dpc = "tcp"
    /\ ~aClosed
    /\ sent < MaxData
    /\ sent' = sent + 1
    /\ toP' = Append(toP, Frame("DATA", "dialer", sent + 1))
    /\ UNCHANGED <<toA, registrarVars, dpc, aClosed, passVars, beats>>

FramedBeat ==
    /\ dpc = "tcp"
    /\ ~aClosed
    /\ beats["dialer"] > 0
    /\ beats' = [beats EXCEPT !["dialer"] = @ - 1]
    /\ toP' = Append(toP, Control("HEARTBEAT", "dialer"))
    /\ UNCHANGED <<toA, registrarVars, dpc, aClosed, passVars, sent>>

\* DialPacket: UDP_CHANNEL is the first frame, then key, address and READY
\* are read as lines from the raw connection.
DialPacket ==
    /\ dpc = "matched"
    /\ dpc' = "udp"
    /\ IF aClosed THEN UNCHANGED toP
                  ELSE toP' = Append(toP, Control("UDP_CHANNEL", "dialer"))
    /\ UNCHANGED <<toA, registrarVars, aClosed, passVars, sent, beats>>

-----------------------------------------------------------------------------
(* handleReverseConn                                                       *)

PassiveBeat ==
    /\ psend = "run"
    /\ ~pClosed
    /\ beats["passive"] > 0
    /\ beats' = [beats EXCEPT !["passive"] = @ - 1]
    /\ toA' = Append(toA, Control("HEARTBEAT", "passive"))
    /\ UNCHANGED <<toP, registrarVars, dpc, aClosed, passVars, sent>>

\* The sender sees stopPing, a write fails, or, at any time, the server's
\* closeCh is closed by a graceful Close.
PassiveSenderStops ==
    /\ psend = "run"
    /\ psend' = "gone"
    /\ UNCHANGED <<toP, toA, registrarVars, dpc, aClosed, ppc, pClosed, got, sent, beats>>

\* HEARTBEAT and PENG are skipped, PONG ends the wait, the rest is an error.
PassiveRead ==
    /\ ppc = "wait"
    /\ toP # <<>>
    /\ toP' = Tail(toP)
    /\ ppc' = CASE Head(toP).type \in {"HEARTBEAT", "PENG"} -> "wait"
                [] Head(toP).type = "PONG" -> "join"
                [] OTHER -> "end"
    /\ UNCHANGED <<toA, registrarVars, dpc, aClosed, psend, pClosed, got, sent, beats>>

\* The read fails: closed by the other end, or 60s without a frame.
PassiveReadFails ==
    /\ ppc = "wait"
    /\ toP = <<>>
    /\ ppc' = "end"
    /\ UNCHANGED <<toP, toA, registrarVars, dpc, aClosed, psend, pClosed, got, sent, beats>>

\* senderWg.Wait on the passive end.
PassiveWait == psend = "gone"

PassivePeng ==
    /\ ppc = "join"
    /\ PassiveWait
    /\ toA' = Append(toA, Control("PENG", "passive"))
    /\ ppc' = "mode"
    /\ UNCHANGED <<toP, registrarVars, dpc, aClosed, psend, pClosed, got, sent, beats>>

PassivePengFails ==
    /\ ppc = "join"
    /\ PassiveWait
    /\ aClosed
    /\ ppc' = "end"
    /\ UNCHANGED <<toP, toA, registrarVars, dpc, aClosed, psend, pClosed, got, sent, beats>>

-----------------------------------------------------------------------------
(* StartReverseMapping's handler                                           *)

\* A DATA payload becomes readable; other frames carry none.
Inject(f) == IF f.type = "DATA" THEN Append(got, f.n) ELSE got

\* The first frame decides the mode; its payload is the first application
\* data.
ModeRead ==
    /\ ppc = "mode"
    /\ toP # <<>>
    /\ toP' = Tail(toP)
    /\ ppc' = IF Head(toP).type = "UDP_CHANNEL" THEN "udp" ELSE "tcp"
    /\ got' = Inject(Head(toP))
    /\ UNCHANGED <<toA, registrarVars, dpc, aClosed, psend, pClosed, sent, beats>>

\* No frame for 10s, or the connection is gone.
ModeTimeout ==
    /\ ppc = "mode"
    /\ toP = <<>>
    /\ ppc' = "end"
    /\ UNCHANGED <<toP, toA, registrarVars, dpc, aClosed, psend, pClosed, got, sent, beats>>

\* ReverseFramedConn.Read: only DATA reaches the application.
FramedRead ==
    /\ ppc = "tcp"
    /\ toP # <<>>
    /\ toP' = Tail(toP)
    /\ got' = IF Head(toP).type = "DATA" THEN Append(got, Head(toP).n) ELSE got
    /\ UNCHANGED <<toA, registrarVars, dpc, aClosed, ppc, psend, pClosed, sent, beats>>

\* The other end has closed: the handler returns.
HandlerEnds ==
    /\ ppc \in {"tcp", "udp"}
    /\ aClosed /\ (toP = <<>> \/ ppc = "udp")
    /\ ppc' = "end"
    /\ UNCHANGED <<toP, toA, registrarVars, dpc, aClosed, psend, pClosed, got, sent, beats>>

\* Deferred Close on every way out.
PassiveClose ==
    /\ ppc = "end"
    /\ ~pClosed
    /\ pClosed' = TRUE
    /\ UNCHANGED <<toP, toA, registrarVars, dpc, aClosed, ppc, psend, got, sent, beats>>

-----------------------------------------------------------------------------
Registrar == Register \/ ConfirmOk \/ ConfirmFail \/ SenderStart
Sender    == SenderBeat \/ SenderFails \/ SenderStops
Loop      == LoopRead \/ LoopExit \/ LoopTorn
Handshake == SendPong \/ StopLoop \/ JoinLoop \/ ReadPeng \/ HandshakeFails
Dialer    == Dial \/ FramedWrite \/ FramedBeat \/ DialPacket
Passive   == \/ PassiveRead \/ PassiveReadFails \/ PassivePeng \/ PassivePengFails
             \/ ModeRead \/ ModeTimeout \/ FramedRead \/ HandlerEnds \/ PassiveClose

ShakeNext == Registrar \/ Sender \/ Loop \/ Claim \/ Handshake \/ Dialer
        \/ PassiveBeat \/ PassiveSenderStops \/ Passive

ShakeSpec == ShakeInit /\ [][ShakeNext]_shakeVars

-----------------------------------------------------------------------------
\* The variables keep their types.
ShakeTypeOK ==
    /\ toP \in Seq(Frames) /\ toA \in Seq(Frames)
    /\ rpc \in {"register", "peng", "sender", "done"}
    /\ spc \in {"none", "run", "gone"} /\ psend \in {"run", "gone"}
    /\ lpc \in {"run", "gone"}
    /\ pending \in {"none", "PENG"}
    /\ dpc \in {"idle", "wait", "stop", "join", "read", "matched", "failed", "tcp", "udp"}
    /\ ppc \in {"wait", "join", "mode", "tcp", "udp", "end"}
    /\ {stopPing, stopCh, desync, aClosed, pClosed} \subseteq BOOLEAN
    /\ got \in Seq(1 .. MaxData)
    /\ sent \in 0 .. MaxData

\* "This ensures any extra HEARTBEAT the sender might write is sent before
\* PONG": once the passive end has read PONG, no heartbeat of the registry's
\* sender is on its way to the handler.
HandlerStreamClean ==
    ppc \in {"join", "mode", "tcp", "udp"} =>
        \A f \in ToSet(toP) : ~(f.type = "HEARTBEAT" /\ f.by = "registry")

\* The mirror image: DialPacket reads text lines from the raw connection, so
\* after a match no heartbeat and no second PENG may be in front of them.
DialerStreamClean ==
    dpc \in {"matched", "tcp", "udp"} => \A f \in ToSet(toA) : f.by # "passive"

\* Match returns a connection only when the passive end has read PONG and
\* handed it to its handler.
MatchAgreed ==
    dpc \in {"matched", "tcp", "udp"} => ppc \in {"mode", "tcp", "udp", "end"}

\* The handler's application reads exactly what the dialer wrote, from the
\* first write on, whatever control frames are mixed in and whichever frame
\* decided the mode.
DataInOrder == \A i \in DOMAIN got : got[i] = i

\* "Read first frame to determine mode (TCP or UDP channel)": the handler is
\* in the mode the dialer chose.
ModeAgreed == {ppc, dpc} \subseteq {"tcp", "udp"} => ppc = dpc

\* Match's handshake ends, by match or failure.
HandshakeEnds == []<>(dpc \in {"idle", "matched", "failed", "tcp", "udp"})

\* No half match: when Match has given up, the passive end ends too, also if
\* it had accepted.
NoHalfMatch == []<>(dpc = "failed" => pClosed)

\* ShakeSound: no frame of the handshake or of the heartbeat is read as data by either
\* end, both ends agree on which match they speak for, and data arrive in order.
ShakeSound == ShakeTypeOK /\ HandlerStreamClean /\ DialerStreamClean /\ MatchAgreed /\ DataInOrder

\* ShakeEnds: every handshake ends, and never with one end that believes in it.
ShakeEnds == HandshakeEnds /\ NoHalfMatch
=============================================================================

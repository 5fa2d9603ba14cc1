------------------------------- MODULE WriteGate -------------------------------
(***************************************************************************)
(* The write gate of a P2P session: the loop that writes a peer's queues to *)
(* its connection (p2p/p2p.go, peerWriteLoop) and the flow accounting that  *)
(* tells it how much may be in flight (p2p/lane_flow.go), at both ends of a *)
(* connection with its primary lane only.                                  *)
(*                                                                         *)
(* The sender counts the bytes it has written, the receiver counts the     *)
(* bytes it has read and reports the count in acknowledgements and, every  *)
(* fifteen seconds, in gossip.  Once a report has been seen, data is taken  *)
(* from the queue only while what is written and not reported is below a   *)
(* cap.                                                                    *)
(***************************************************************************)
EXTENDS Integers, Sequences, SequencesExt

CONSTANTS
    Ends,          \* the two ends of the connection
    Senders,       \* the ends that send more than gossip and reports
    FrameSizes,    \* payload sizes of data frames
    CtrlBytes,     \* payload size of a control frame
    CapMin, CapMax,   \* laneCapMin, laneCapMax
    CapInitial,    \* laneCapInitial
    GateBatch,     \* maxBatchFrames
    CtrlDepth,     \* capacity of controlCh and dnsQueue
    MaxFrames,     \* bound: frames a sender queues besides gossip and reports
    MaxCtrl,       \* bound: bytes of control frames an end queues
    MaxWire        \* bound: frames a connection holds before a write blocks

ASSUME GateAssumption ==
    /\ \E a, b \in Ends : a # b /\ Ends = {a, b}
    /\ Senders \subseteq Ends
    /\ FrameSizes \subseteq Nat \ {0} /\ \E m \in FrameSizes : \A n \in FrameSizes : n <= m
    /\ CtrlBytes \in Nat /\ MaxFrames \in Nat /\ MaxCtrl \in Nat
    /\ CapMin \in Nat \ {0} /\ CapInitial \in CapMin .. CapMax /\ CapMax \in Nat
    /\ GateBatch \in Nat \ {0} /\ CtrlDepth \in Nat \ {0} /\ MaxWire \in Nat \ {0}

VARIABLES
    urgent,        \* controlCh and dnsQueue: what the gate never holds back
    out,           \* drrOutput
    loop,          \* peerWriteLoop: where it is, its credit, what it wrote
    wake,          \* flowNotify
    link,          \* link[e]: frames from e to the other end
    tx, rx,        \* the flow's counters
    acked, gated, cap,   \* the sender's view of it
    reported,      \* rxReported
    wants,         \* ackRequested and peerWantsTx: the peer's gossip asked
    warned,        \* stallWarnedAt is set
    pending, ctrlLeft    \* what remains of the bounds

queueVars == <<urgent, out, pending, ctrlLeft>>
flowVars  == <<acked, gated, cap, warned>>
rxVars    == <<rx, reported, wants>>
gateVars  == <<queueVars, loop, wake, link, tx, flowVars, rxVars>>

Other(e) == CHOOSE o \in Ends : o # e

Frame(k, n, v) == [kind |-> k, bytes |-> n, rx |-> v]
\* The zero writeReq.
Empty == Frame("empty", 0, 0)

\* math.MaxInt64: more than there is to send.
Unlimited == 1 + MaxFrames * Max(FrameSizes)

\* peerWriteLoop in its select, the credit read.
Waiting(credit) == [pc |-> "wait", credit |-> credit, data |-> 0, bytes |-> 0]

BatchBytes(s) == SumFunction([i \in DOMAIN s |-> s[i].bytes])

GateInit ==
    /\ urgent = [e \in Ends |-> <<>>] /\ out = [e \in Ends |-> <<>>]
    /\ loop = [e \in Ends |-> Waiting(Unlimited)]
    /\ wake = [e \in Ends |-> FALSE] /\ link = [e \in Ends |-> <<>>]
    /\ tx = [e \in Ends |-> 0] /\ rx = [e \in Ends |-> 0] /\ acked = [e \in Ends |-> 0]
    /\ gated = [e \in Ends |-> FALSE] /\ cap = [e \in Ends |-> CapInitial]
    /\ reported = [e \in Ends |-> 0] /\ wants = [e \in Ends |-> FALSE]
    /\ warned = [e \in Ends |-> FALSE]
    /\ pending = [e \in Ends |-> IF e \in Senders THEN MaxFrames ELSE 0]
    /\ ctrlLeft = [e \in Ends |-> MaxCtrl]

-----------------------------------------------------------------------------
(* What is queued                                                          *)

\* drrLoop hands over a frame.
QueueData(e, n) ==
    /\ pending[e] > 0
    /\ pending' = [pending EXCEPT ![e] = @ - 1]
    /\ out' = [out EXCEPT ![e] = Append(@, Frame("data", n, 0))]
    /\ UNCHANGED <<urgent, ctrlLeft, loop, wake, link, tx, flowVars, rxVars>>

\* enqueueWriteReq for a control frame: a full queue drops it.
QueueControl(e, k, v) ==
    /\ ctrlLeft[e] >= CtrlBytes
    /\ ctrlLeft' = [ctrlLeft EXCEPT ![e] = @ - CtrlBytes]
    /\ urgent' = [urgent EXCEPT ![e] =
                     IF Len(@) < CtrlDepth THEN Append(@, Frame(k, CtrlBytes, v)) ELSE @]

\* A ping, a DNS packet or a gauge.
QueueUrgent(e) ==
    /\ pending[e] > 0
    /\ pending' = [pending EXCEPT ![e] = @ - 1]
    /\ QueueControl(e, "ping", 0)
    /\ UNCHANGED <<out, loop, wake, link, tx, flowVars, rxVars>>

\* Mutant: gossip does not repeat what the reports said.
GossipRx_None(e) == 0

GossipRx(e) == IF wants[e] THEN rx[e] ELSE 0

\* laneGossipFields, into the periodic gossip; one round is over before the
\* next begins.
Gossip(e) ==
    /\ \A f \in ToSet(urgent[e]) \cup ToSet(link[e]) : f.kind # "gossip"
    /\ QueueControl(e, "gossip", GossipRx(e))
    /\ UNCHANGED <<out, pending, loop, wake, link, tx, flowVars, rxVars>>

-----------------------------------------------------------------------------
(* peerWriteLoop                                                           *)

Inflight(e) == tx[e] - acked[e]

\* writeCredit: no limit until the peer has reported once.
WriteCredit(e) == IF gated[e] THEN cap[e] - Inflight(e) ELSE Unlimited

Shut(e) == loop[e].credit <= 0

\* flowNotify with credit left: back to the head of the loop, to read it again.
WakeOpen(e) ==
    /\ loop[e].pc = "wait"
    /\ ~Shut(e)
    /\ wake[e]
    /\ wake' = [wake EXCEPT ![e] = FALSE]
    /\ loop' = [loop EXCEPT ![e] = Waiting(WriteCredit(e))]
    /\ UNCHANGED <<queueVars, link, tx, flowVars, rxVars>>

\* One more data frame may follow those in s.
Fits(e, s) == BatchBytes(s) < loop[e].credit

\* Write the frames and remember what is to be counted.
Write(e, head, nu, nd) ==
    LET data  == SubSeq(out[e], 1, nd)
        batch == head \o SubSeq(urgent[e], 1, nu) \o data
    IN /\ Len(link[e]) < MaxWire
       /\ link' = [link EXCEPT ![e] = @ \o batch]
       /\ urgent' = [urgent EXCEPT ![e] = SubSeq(@, nu + 1, Len(@))]
       /\ out' = [out EXCEPT ![e] = SubSeq(@, nd + 1, Len(@))]
       /\ loop' = [loop EXCEPT ![e] = [pc |-> "count", credit |-> @.credit,
                                       data |-> BatchBytes(data), bytes |-> BatchBytes(batch)]]

Least(a, b) == IF a < b THEN a ELSE b

\* collectWriteBatch drains the urgent frames, then data within the credit:
\* the n-th data frame is taken when those before it left credit over.
Collected(e, n, room) ==
    CHOOSE nd \in n .. Least(Len(out[e]), n + room) :
        /\ \A i \in n + 1 .. nd : Fits(e, SubSeq(out[e], 1, i - 1))
        /\ \/ nd = Least(Len(out[e]), n + room)
           \/ ~Fits(e, SubSeq(out[e], 1, nd))

\* The first frame is urgent, or data if the gate lets it through.
WriteBatch(e) ==
    /\ loop[e].pc = "wait"
    /\ \E first \in {"urgent", "data"} :
         LET n  == IF first = "data" THEN 1 ELSE 0
             nu == Least(Len(urgent[e]), GateBatch - n)
         IN /\ IF first = "data" THEN ~Shut(e) /\ out[e] # <<>> ELSE urgent[e] # <<>>
            /\ Write(e, <<>>, nu, Collected(e, n, GateBatch - nu - n))
    /\ UNCHANGED <<pending, ctrlLeft, wake, tx, flowVars, rxVars>>

\* flowNotify with the gate shut: the select falls through with the zero
\* writeReq as its first frame.
WakeShut(e) ==
    /\ loop[e].pc = "wait"
    /\ Shut(e)
    /\ wake[e]
    /\ wake' = [wake EXCEPT ![e] = FALSE]
    /\ LET nu == Least(Len(urgent[e]), GateBatch - 1)
       IN Write(e, <<Empty>>, nu, Collected(e, 0, GateBatch - nu - 1))
    /\ UNCHANGED <<pending, ctrlLeft, tx, flowVars, rxVars>>

\* onSent, once the transport has taken the batch; then the credit is read.
Count(e) ==
    /\ loop[e].pc = "count"
    /\ tx' = [tx EXCEPT ![e] = @ + loop[e].bytes]
    /\ UNCHANGED <<queueVars, wake, link, flowVars, rxVars>>
    /\ loop' = [loop EXCEPT ![e] = Waiting(WriteCredit(e)')]

-----------------------------------------------------------------------------
(* The flow                                                                *)

\* Mutant: a report is believed beyond what was counted as sent.
Clamped_Not(e, v) == v

Clamped(e, v) == Least(v, tx[e])

\* onAck.
OnAck(e, v) ==
    LET w == Clamped(e, v) IN
    /\ acked' = [acked EXCEPT ![e] = IF w < @ THEN @ ELSE w]
    /\ gated' = [gated EXCEPT ![e] = @ \/ w >= acked[e]]

\* onPeerLaneGossip: gossip repeats the count, if there is one.
FoldsGossip(f) == f.kind = "gossip" /\ f.rx > 0

\* baseReadLoop, and the session's gossip handler.
Recv(e) ==
    /\ link[Other(e)] # <<>>
    /\ LET f == Head(link[Other(e)]) IN
       /\ link' = [link EXCEPT ![Other(e)] = Tail(@)]
       /\ rx' = [rx EXCEPT ![e] = @ + f.bytes]
       /\ IF f.kind = "ack" \/ FoldsGossip(f)
          THEN OnAck(e, f.rx)
          ELSE UNCHANGED <<acked, gated>>
       /\ wants' = [wants EXCEPT ![e] = @ \/ f.kind = "gossip"]
       /\ wake' = [wake EXCEPT ![e] = @ \/ f.kind \in {"ack", "gossip"}]
    /\ UNCHANGED <<queueVars, loop, tx, cap, warned, reported>>

\* sendLaneAcks: the count is taken as reported even if the report is dropped.
SendLaneAcks(e) ==
    IF wants[e] /\ rx[e] # reported[e]
    THEN /\ QueueControl(e, "ack", rx[e])
         /\ reported' = [reported EXCEPT ![e] = rx[e]]
    ELSE UNCHANGED <<urgent, ctrlLeft, reported>>

\* adjustCap: by the queueing delay, which may be anything.
Adjusted(e) ==
    {cap[e]} \cup
    (IF ~gated[e] THEN {}
     ELSE {IF cap[e] \div 2 < CapMin THEN CapMin ELSE cap[e] \div 2}
          \cup IF 2 * Inflight(e) >= cap[e] THEN {Least(CapMax, cap[e] + 1 + cap[e] \div 4)} ELSE {})

\* stallCheck, once in a session: reports have not moved for ten seconds.
Stalls(e) ==
    {FALSE} \cup {s \in {TRUE} : gated[e] /\ acked[e] > 0 /\ ~warned[e] /\ Inflight(e) > 0}

\* flowLoop, every 50 ms.
FlowTick(e) ==
    /\ SendLaneAcks(e)
    /\ \E c \in Adjusted(e), s \in Stalls(e) :
         /\ cap' = [cap EXCEPT ![e] = c]
         /\ gated' = [gated EXCEPT ![e] = @ /\ ~s]
         /\ warned' = [warned EXCEPT ![e] = @ \/ s]
    /\ wake' = [wake EXCEPT ![e] = TRUE]
    /\ UNCHANGED <<out, pending, loop, link, tx, acked, rx, wants>>

WriteLoop(e) == WakeOpen(e) \/ WakeShut(e) \/ WriteBatch(e) \/ Count(e)

GateNext ==
    \E e \in Ends :
        \/ \E n \in FrameSizes : QueueData(e, n)
        \/ QueueUrgent(e) \/ Gossip(e) \/ WriteLoop(e) \/ Recv(e) \/ FlowTick(e)

GateSpec == GateInit /\ [][GateNext]_gateVars

-----------------------------------------------------------------------------
\* The variables keep their types.
GateTypeOK ==
    /\ loop \in [Ends -> [pc : {"wait", "count"}, credit : Int, data : Nat, bytes : Nat]]
    /\ wake \in [Ends -> BOOLEAN] /\ gated \in [Ends -> BOOLEAN] /\ wants \in [Ends -> BOOLEAN]
    /\ warned \in [Ends -> BOOLEAN]
    /\ tx \in [Ends -> Nat] /\ rx \in [Ends -> Nat] /\ acked \in [Ends -> Nat]
    /\ reported \in [Ends -> Nat] /\ cap \in [Ends -> CapMin .. CapMax]
    /\ pending \in [Ends -> 0 .. MaxFrames] /\ ctrlLeft \in [Ends -> 0 .. MaxCtrl]
    /\ \A e \in Ends :
         /\ Len(urgent[e]) <= CtrlDepth
         /\ \A f \in ToSet(urgent[e]) : f.kind \in {"ping", "ack", "gossip"}
         /\ \A f \in ToSet(out[e]) : f.kind = "data"

\* What the sender believes delivered was sent by it and did arrive: the
\* backlog it computes is never negative and never too small.
BacklogSound ==
    \A e \in Ends : acked[e] <= tx[e] /\ acked[e] <= rx[Other(e)]

\* A batch with data, once counted, overshoots the cap by less than a frame,
\* whatever reports came since the credit was read.
GateHolds ==
    \A e \in Ends :
        loop[e].pc = "count" /\ loop[e].credit # Unlimited /\ loop[e].data > 0 =>
            Inflight(e) + loop[e].data < CapMax + Max(FrameSizes)

\* The gate never stays shut on data that waits.
DataDrains == \A e \in Ends : []<>(out[e] = <<>>)

\* Every frame written is one somebody queued.
OnlyQueued == \A e \in Ends : Empty \notin ToSet(link[e])

\* GateSound: the backlog the sender counts is what the receiver has not reported, and the
\* gate lets nothing pass beyond the credit.
GateSound == GateTypeOK /\ BacklogSound /\ GateHolds
=============================================================================

----------------------------- MODULE HTunnelMesh -----------------------------
(***************************************************************************)
(* A P2P link's frames carried straight in HTTP bodies: the mesh channel   *)
(* of src/server/htunnel_mesh.go and its client,                           *)
(* src/dialer/htunnel_direct.go.  Towards the client a dispatcher hands    *)
(* batches to long-poll GETs, of which the client keeps several open;      *)
(* towards the server concurrent POSTs carry the frames.  Frames are       *)
(* numbered in the order they are sent; 0 is an error put into a receive   *)
(* channel.  The two directions share only the life of the channel: a      *)
(* behaviour carries traffic in one of them, `dir'.                        *)
(***************************************************************************)
EXTENDS SeqFilter, Integers, Sequences, SequencesExt, FiniteSets, FiniteSetsExt

CONSTANTS Loops,       \* the client's recvLoops
          Posts,       \* sendSem: POSTs in flight at most
          MaxDown,     \* frames the server's session sends
          Control,     \* the numbers of those that are control frames
          MaxUp,       \* frames the client's session sends
          OutLen,      \* capacity of meshOut, meshCtrlOut and meshIn
          GetLen,      \* capacity of getWaiters
          RecvLen,     \* capacity of ctrlRecvCh and dataRecvCh
          Limit,       \* MaxBatchSize, in bytes
          MaxQueued,   \* htMeshMaxQueuedBytes
          MaxTrouble,  \* broken requests and closes
          MaxTimeouts, \* GETs whose wait time runs out
          Repeats      \* may net/http repeat a GET whose connection broke?

ASSUME MeshAssumption ==
    /\ {MaxDown, MaxUp, MaxTrouble, MaxTimeouts} \subseteq Nat
    /\ {OutLen, GetLen, RecvLen, Limit, MaxQueued} \subseteq Nat \ {0}
    /\ Repeats \in BOOLEAN

Gets == Loops \X {1, 2}     \* GET handlers: of a loop's request and of its repetition
Dead(g) == <<g[1], 0>>      \* a waiter whose handler has given up

VARIABLES
    dir,       \* "down" or "up": the direction that carries traffic
    nDown,     \* frames sent so far
    dataOut,   \* meshOut
    ctrlOut,   \* meshCtrlOut
    getQ,      \* getWaiters: registrations the dispatcher has not seen
    disp,      \* the dispatcher: "select", or "flush" while it holds dispMu
    ctrlQ,     \* ch.ctrlQ
    dataQ,     \* ch.dataQ
    dataBytes, \* ch.dataBytes
    waiters,   \* ch.waiters
    batch,     \* per GET: the batch handed over (w.batch)
    gpc,       \* per GET handler: "none", "net", "wait", "left", "answered"
    code,      \* per GET: the status it was answered with
    aqm,       \* frames CoDel dropped
    chGone,    \* ch.closed; the channel is out of s.channels
    loop,      \* per recvLoop: "get", "await", "route" or "over"
    listens,   \* per recvLoop: the request slot it listens to
    todo,      \* per recvLoop: frames of the batch not routed yet
    ctrlRecv,  \* ctrlRecvCh
    dataRecv,  \* dataRecvCh
    taken,     \* frames Recv has returned, at the end traffic goes to
    tClosed,   \* t.closed: the client's transport is closed
    post,      \* per POST: [st, frames it still carries]
    nUp,       \* frames sent up so far
    meshIn,    \* ch.meshIn
    trouble,   \* faults so far
    timeouts   \* timeouts so far

sendVars == <<nDown, dataOut, ctrlOut>>
dispVars == <<disp, ctrlQ, dataQ, dataBytes, waiters, batch, aqm>>
getVars  == <<getQ, gpc, code, timeouts>>
recvVars == <<loop, listens, todo, ctrlRecv, dataRecv>>
upVars   == <<post, nUp, meshIn>>
meshVars == <<dir, sendVars, dispVars, getVars, recvVars, upVars, chGone, taken, tClosed, trouble>>

MeshInit ==
    /\ dir \in {"down", "up"}
    /\ nDown = 0 /\ dataOut = <<>> /\ ctrlOut = <<>>
    /\ disp = "select" /\ ctrlQ = <<>> /\ dataQ = <<>> /\ dataBytes = 0 /\ waiters = <<>> /\ aqm = {}
    /\ batch = [g \in Gets |-> <<>>] /\ getQ = <<>>
    /\ gpc = [g \in Gets |-> "none"] /\ code = [g \in Gets |-> 0]
    /\ loop = [l \in Loops |-> "get"] /\ listens = [l \in Loops |-> 1] /\ todo = [l \in Loops |-> <<>>]
    /\ ctrlRecv = <<>> /\ dataRecv = <<>> /\ taken = {}
    /\ post = [p \in Posts |-> [st |-> "free", left |-> <<>>]] /\ nUp = 0 /\ meshIn = <<>>
    /\ chGone = FALSE /\ tClosed = FALSE /\ trouble = 0 /\ timeouts = 0

Size(n)  == 1 + (n % 2)                \* wireSize: frames of two lengths
Bytes(s) == SumFunction([i \in DOMAIN s |-> Size(s[i])])
TimesOut == timeouts < MaxTimeouts /\ timeouts' = timeouts + 1
Trouble  == trouble < MaxTrouble /\ trouble' = trouble + 1

-----------------------------------------------------------------------------
(* Server to client: the P2P session's Send, the dispatcher, the GETs.      *)

\* Send, called by the session's write loop for one frame after the other: it
\* blocks on a full channel.
MeshSend ==
    LET n == nDown + 1 IN
    /\ dir = "down" /\ nDown < MaxDown /\ ~chGone /\ nDown' = n
    /\ \/ n \in Control /\ Len(ctrlOut) < OutLen /\ ctrlOut' = Append(ctrlOut, n) /\ UNCHANGED dataOut
       \/ n \notin Control /\ Len(dataOut) < OutLen /\ dataOut' = Append(dataOut, n) /\ UNCHANGED ctrlOut
    /\ UNCHANGED <<dir, dispVars, getVars, recvVars, upVars, chGone, taken, tClosed, trouble>>

\* How many of the frames of meshOut the drain takes: it stops at the byte cap.
Drained(s) == Max({k \in 0 .. Len(s) : k = 0 \/ dataBytes + Bytes(SubSeq(s, 1, k - 1)) < MaxQueued})

\* routeFrameLocked and drainLocked.
RouteFrames ==
    LET k == Drained(dataOut) IN
    /\ ctrlOut' = <<>> /\ ctrlQ' = ctrlQ \o ctrlOut
    /\ dataOut' = SubSeq(dataOut, k + 1, Len(dataOut)) /\ dataQ' = dataQ \o SubSeq(dataOut, 1, k)
    /\ dataBytes' = dataBytes + Bytes(SubSeq(dataOut, 1, k))

\* The dispatcher reads meshCtrlOut always and meshOut below the byte cap, and
\* goes on to flush with dispMu held.
Dispatch ==
    /\ disp = "select" /\ ~chGone
    /\ ctrlOut # <<>> \/ (dataOut # <<>> /\ dataBytes < MaxQueued)
    /\ RouteFrames /\ disp' = "flush"
    /\ UNCHANGED <<dir, nDown, waiters, batch, aqm, getVars, recvVars, upVars, chGone, taken, tClosed, trouble>>

\* pruneStale: abandoned waiters leave the front of the list.
PruneStale(ws) ==
    LET live == {i \in DOMAIN ws : ws[i][2] # 0}
    IN  IF live = {} THEN <<>> ELSE SubSeq(ws, Min(live), Len(ws))

\* The dispatcher takes the registrations that are there.
AddWaiters ==
    /\ disp = "select" /\ ~chGone /\ getQ # <<>>
    /\ waiters' = PruneStale(waiters) \o getQ /\ getQ' = <<>> /\ disp' = "flush"
    /\ UNCHANGED <<dir, sendVars, ctrlQ, dataQ, dataBytes, batch, aqm, gpc, code, timeouts, recvVars, upVars,
                   chGone, taken, tClosed, trouble>>

\* takeFrames: the longest prefix of q that fits, one frame at least.
TakeFrames(q) == Max({k \in 0 .. Len(q) : k <= 1 \/ Bytes(SubSeq(q, 1, k)) <= Limit})

\* CoDel may drop a mesh packet that waited too long, never with fewer than two
\* frames behind it.
Droppable == {dataQ[i] : i \in 1 .. Len(dataQ) - 2}

\* takeData behind the control frames c, dropping the frames D: the frames kept
\* of the first k, and how many are dequeued in all.
Kept(k, D) == Only(SubSeq(dataQ, 1, k), Range(dataQ) \ D)
TakeData(c, D) ==
    Max({k \in 0 .. Len(dataQ) : \A i \in 1 .. k :
            c \o Kept(i - 1, D) = <<>> \/ Bytes(c \o Kept(i - 1, D)) + Size(dataQ[i]) <= Limit})

\* The bytes takeData takes off dataBytes, dropped frames included.
Dequeued(n, D) == Bytes(SubSeq(dataQ, 1, n))

\* One turn of flushLocked with buildBatchLocked: the first waiter that has not
\* given up gets the control frames that fit, then data.
Flush ==
    LET ws == PruneStale(waiters)  k == TakeFrames(ctrlQ)  c == SubSeq(ctrlQ, 1, k) IN
    /\ disp = "flush" /\ ws # <<>> /\ (ctrlQ # <<>> \/ dataQ # <<>>)
    /\ \E D \in SUBSET Droppable :
          LET n == TakeData(c, D) IN
          /\ D \subseteq Range(SubSeq(dataQ, 1, n))
          /\ batch' = [batch EXCEPT ![ws[1]] = c \o Kept(n, D)]
          /\ dataQ' = SubSeq(dataQ, n + 1, Len(dataQ))
          /\ dataBytes' = dataBytes - Dequeued(n, D) /\ aqm' = aqm \cup D
    /\ ctrlQ' = SubSeq(ctrlQ, k + 1, Len(ctrlQ)) /\ waiters' = Tail(ws)
    /\ UNCHANGED <<dir, sendVars, disp, getVars, recvVars, upVars, chGone, taken, tClosed, trouble>>

\* Nothing left to hand over: dispMu is released.
FlushEnds ==
    /\ disp = "flush" /\ (PruneStale(waiters) = <<>> \/ (ctrlQ = <<>> /\ dataQ = <<>>))
    /\ disp' = "select" /\ waiters' = PruneStale(waiters)
    /\ UNCHANGED <<dir, sendVars, ctrlQ, dataQ, dataBytes, batch, aqm, getVars, recvVars, upVars, chGone, taken, tClosed, trouble>>

\* meshHandleRead: the GET registers, or gives up because getWaiters stays full.
GetRegisters(g) ==
    /\ gpc[g] = "net" /\ ~chGone
    /\ \/ /\ Len(getQ) < GetLen /\ getQ' = Append(getQ, g) /\ gpc' = [gpc EXCEPT ![g] = "wait"]
          /\ UNCHANGED <<code, timeouts>>
       \/ /\ Len(getQ) = GetLen /\ TimesOut /\ gpc' = [gpc EXCEPT ![g] = "answered"]
          /\ code' = [code EXCEPT ![g] = 408] /\ UNCHANGED getQ
    /\ UNCHANGED <<dir, sendVars, dispVars, recvVars, upVars, chGone, taken, tClosed, trouble>>

GetReply(g, c) == gpc' = [gpc EXCEPT ![g] = "answered"] /\ code' = [code EXCEPT ![g] = c]

\* The handler receives its batch.
GetServed(g) ==
    /\ gpc[g] = "wait" /\ batch[g] # <<>> /\ GetReply(g, 200)
    /\ UNCHANGED <<dir, sendVars, dispVars, getQ, timeouts, recvVars, upVars, chGone, taken, tClosed, trouble>>

Leave(ws, g) == [i \in DOMAIN ws |-> IF ws[i] = g THEN Dead(g) ELSE ws[i]]

\* Its wait time is over: it marks itself stale under dispMu ...
GetTimesOut(g) ==
    /\ gpc[g] = "wait" /\ disp = "select" /\ dir = "down" /\ TimesOut
    /\ waiters' = Leave(waiters, g) /\ getQ' = Leave(getQ, g) /\ gpc' = [gpc EXCEPT ![g] = "left"]
    /\ UNCHANGED <<dir, sendVars, disp, ctrlQ, dataQ, dataBytes, batch, aqm, code, recvVars, upVars,
                   chGone, taken, tClosed, trouble>>

\* Mutant: abandonWaiter without the second look.
Abandon_Drops(g) ==
    /\ gpc[g] = "left" /\ GetReply(g, 408)
    /\ UNCHANGED <<dir, sendVars, dispVars, getQ, timeouts, recvVars, upVars, chGone, taken, tClosed, trouble>>

\* ... and takes what was handed over just before.
Abandon(g) ==
    /\ gpc[g] = "left" /\ GetReply(g, IF batch[g] # <<>> THEN 200 ELSE 408)
    /\ UNCHANGED <<dir, sendVars, dispVars, getQ, timeouts, recvVars, upVars, chGone, taken, tClosed, trouble>>

\* 410: the channel is closed, or was never found.
GetGone(g) ==
    /\ gpc[g] \in {"net", "wait", "left"} /\ chGone /\ GetReply(g, 410)
    /\ UNCHANGED <<dir, sendVars, dispVars, getQ, timeouts, recvVars, upVars, chGone, taken, tClosed, trouble>>

-----------------------------------------------------------------------------
(* The client's receive side.                                              *)

\* The slot is free again once its handler has returned and been forgotten.
SlotFree(g) == gpc[g] = "none"

RecvGet(l) ==
    /\ loop[l] = "get" /\ SlotFree(<<l, 1>>)
    /\ loop' = [loop EXCEPT ![l] = "await"] /\ listens' = [listens EXCEPT ![l] = 1]
    /\ gpc' = [gpc EXCEPT ![<<l, 1>>] = "net"]
    /\ UNCHANGED <<dir, sendVars, dispVars, getQ, code, timeouts, todo, ctrlRecv, dataRecv, upVars, chGone, taken, tClosed, trouble>>

\* Mutant: 410 is taken for a timeout.
RecvAnswer_Again(l) ==
    LET g == <<l, listens[l]>> IN
    /\ loop[l] = "await" /\ gpc[g] = "answered"
    /\ gpc' = [gpc EXCEPT ![g] = "none"] /\ batch' = [batch EXCEPT ![g] = <<>>] /\ code' = [code EXCEPT ![g] = 0]
    /\ loop' = [loop EXCEPT ![l] = IF code[g] # 200 THEN "get" ELSE "route"]
    /\ todo' = [todo EXCEPT ![l] = CASE code[g] = 200 -> batch[g] [] OTHER -> <<>>]
    /\ UNCHANGED <<dir, sendVars, disp, ctrlQ, dataQ, dataBytes, waiters, aqm, getQ, timeouts, listens,
                   ctrlRecv, dataRecv, upVars, chGone, taken, tClosed, trouble>>

\* The answer: a batch to route, 408 (again), or 410, an error the loop passes on.
RecvAnswer(l) ==
    LET g == <<l, listens[l]>> IN
    /\ loop[l] = "await" /\ gpc[g] = "answered"
    /\ gpc' = [gpc EXCEPT ![g] = "none"] /\ batch' = [batch EXCEPT ![g] = <<>>] /\ code' = [code EXCEPT ![g] = 0]
    /\ loop' = [loop EXCEPT ![l] = IF code[g] = 408 THEN "get" ELSE "route"]
    /\ todo' = [todo EXCEPT ![l] = CASE code[g] = 200 -> batch[g] [] code[g] = 410 -> <<0>> [] OTHER -> <<>>]
    /\ UNCHANGED <<dir, sendVars, disp, ctrlQ, dataQ, dataBytes, waiters, aqm, getQ, timeouts, listens,
                   ctrlRecv, dataRecv, upVars, chGone, taken, tClosed, trouble>>

\* An answer nobody listens to is gone, with its batch.
Unheard(g) ==
    /\ gpc[g] = "answered" /\ ~(loop[g[1]] = "await" /\ listens[g[1]] = g[2])
    /\ gpc' = [gpc EXCEPT ![g] = "none"] /\ batch' = [batch EXCEPT ![g] = <<>>] /\ code' = [code EXCEPT ![g] = 0]
    /\ UNCHANGED <<dir, sendVars, disp, ctrlQ, dataQ, dataBytes, waiters, aqm, getQ, timeouts, recvVars,
                   upVars, chGone, taken, tClosed, trouble>>

\* The connection of a GET breaks: the loop reports an error and ends, or
\* net/http repeats the request.
GetBreaks(l) ==
    /\ loop[l] = "await" /\ Trouble
    /\ \/ loop' = [loop EXCEPT ![l] = "route"] /\ todo' = [todo EXCEPT ![l] = <<0>>] /\ UNCHANGED <<gpc, listens>>
       \/ /\ Repeats /\ listens[l] = 1 /\ SlotFree(<<l, 2>>) /\ listens' = [listens EXCEPT ![l] = 2]
          /\ gpc' = [gpc EXCEPT ![<<l, 2>>] = "net"] /\ UNCHANGED <<loop, todo>>
    /\ UNCHANGED <<dir, sendVars, dispVars, getQ, code, timeouts, ctrlRecv, dataRecv, upVars, chGone, taken, tClosed>>

\* The first loop reports its errors on ctrlRecvCh, the others on dataRecvCh.
CtrlLoop == CHOOSE l \in Loops : TRUE
IsCtrl(l, n) == n \in Control \/ (n = 0 /\ l = CtrlLoop)

\* routeFrame and sendError: the next frame of the batch, or the error, goes into
\* its channel once there is room.
RouteFrame(l) ==
    LET n == Head(todo[l]) IN
    /\ loop[l] = "route"
    /\ todo' = [todo EXCEPT ![l] = Tail(@)] /\ loop' = [loop EXCEPT ![l] = IF n = 0 THEN "over" ELSE IF Len(todo[l]) = 1 THEN "get" ELSE @]
    /\ \/ IsCtrl(l, n) /\ Len(ctrlRecv) < RecvLen /\ ctrlRecv' = Append(ctrlRecv, n) /\ UNCHANGED dataRecv
       \/ ~IsCtrl(l, n) /\ Len(dataRecv) < RecvLen /\ dataRecv' = Append(dataRecv, n) /\ UNCHANGED ctrlRecv
    /\ UNCHANGED <<dir, sendVars, dispVars, getVars, listens, upVars, chGone, taken, tClosed, trouble>>

\* Recv: control frames first.
NextRecv == IF ctrlRecv # <<>> THEN ctrlRecv[1] ELSE dataRecv[1]
RecvFrame ==
    /\ ctrlRecv # <<>> \/ dataRecv # <<>>
    /\ NextRecv # 0 /\ taken' = taken \cup {NextRecv}
    /\ IF ctrlRecv # <<>> THEN ctrlRecv' = Tail(ctrlRecv) /\ UNCHANGED dataRecv
                          ELSE dataRecv' = Tail(dataRecv) /\ UNCHANGED ctrlRecv
    /\ UNCHANGED <<dir, sendVars, dispVars, getVars, loop, listens, todo, upVars, chGone, tClosed, trouble>>

\* Close: the loops end, what they hold is garbage; the DELETE may be lost.
Shut ==
    /\ tClosed' = TRUE
    /\ loop' = [l \in Loops |-> "over"] /\ todo' = [l \in Loops |-> <<>>] /\ listens' = [l \in Loops |-> 1]
    /\ ctrlRecv' = <<>> /\ dataRecv' = <<>>
    /\ UNCHANGED <<dir, sendVars, dispVars, getVars, upVars, chGone, taken>>

\* Recv returns an error: the session ends and closes its transport.
RecvError ==
    /\ ctrlRecv # <<>> \/ dataRecv # <<>>
    /\ NextRecv = 0 /\ Shut /\ UNCHANGED trouble

-----------------------------------------------------------------------------
(* Client to server.                                                       *)

\* Send and SendBatch: the frames leave in a POST of their own once sendSem has room.
SendUp(p) ==
    /\ dir = "up" /\ nUp < MaxUp /\ ~tClosed /\ post[p].st = "free"
    /\ \E k \in 1 .. (MaxUp - nUp) :
          /\ nUp' = nUp + k
          /\ post' = [post EXCEPT ![p] = [st |-> "net", left |-> [i \in 1 .. k |-> nUp + i]]]
    /\ UNCHANGED <<dir, sendVars, dispVars, getVars, recvVars, meshIn, chGone, taken, tClosed, trouble>>

\* meshHandleWrite: one frame after the other goes into meshIn.
PostFrame(p) ==
    /\ post[p].st = "net" /\ post[p].left # <<>>
    /\ \/ ~chGone /\ Len(meshIn) < OutLen /\ meshIn' = Append(meshIn, Head(post[p].left))
          /\ post' = [post EXCEPT ![p].left = Tail(@)]
       \/ chGone /\ post' = [post EXCEPT ![p].left = <<>>] /\ UNCHANGED meshIn
    /\ UNCHANGED <<dir, sendVars, dispVars, getVars, recvVars, nUp, chGone, taken, tClosed, trouble>>

\* The POST is answered, or its connection broke before it reached the server:
\* postBatch's error is only logged.
PostEnds(p) ==
    /\ post[p].st = "net" /\ IF post[p].left = <<>> THEN UNCHANGED trouble ELSE Trouble
    /\ post' = [post EXCEPT ![p] = [st |-> "free", left |-> <<>>]]
    /\ UNCHANGED <<dir, sendVars, dispVars, getVars, recvVars, nUp, meshIn, chGone, taken, tClosed>>

\* The server's session receives.
RecvUp ==
    /\ meshIn # <<>> /\ ~chGone
    /\ meshIn' = Tail(meshIn) /\ taken' = taken \cup {Head(meshIn)}
    /\ UNCHANGED <<dir, sendVars, dispVars, getVars, recvVars, post, nUp, chGone, tClosed, trouble>>

-----------------------------------------------------------------------------
\* closeChannel, by the server's session, by DELETE or, once the client is silent,
\* by the request timeout: the dispatcher ends, what is queued is garbage.
ChannelCloses ==
    /\ ~chGone /\ IF tClosed THEN UNCHANGED trouble ELSE Trouble
    /\ chGone' = TRUE
    /\ dataOut' = <<>> /\ ctrlOut' = <<>> /\ ctrlQ' = <<>> /\ dataQ' = <<>> /\ dataBytes' = 0
    /\ disp' = "select" /\ waiters' = <<>> /\ getQ' = <<>> /\ meshIn' = <<>>
    /\ UNCHANGED <<dir, nDown, batch, aqm, gpc, code, timeouts, recvVars, post, nUp, taken, tClosed>>

\* The client's session closes its transport.
TransportCloses == ~tClosed /\ Trouble /\ Shut

Handle(g) == GetRegisters(g) \/ GetServed(g) \/ Abandon(g) \/ GetGone(g) \/ Unheard(g)
Receive(l) == RecvGet(l) \/ RecvAnswer(l) \/ RouteFrame(l)

MeshNext ==
    \/ MeshSend \/ Dispatch \/ AddWaiters \/ Flush \/ FlushEnds
    \/ \E g \in Gets : Handle(g) \/ GetTimesOut(g)
    \/ \E l \in Loops : Receive(l) \/ GetBreaks(l)
    \/ RecvFrame \/ RecvError \/ RecvUp \/ ChannelCloses \/ TransportCloses
    \/ \E p \in Posts : SendUp(p) \/ PostFrame(p) \/ PostEnds(p)

MeshSpec == MeshInit /\ [][MeshNext]_meshVars
-----------------------------------------------------------------------------
\* Every variable stays in the range the code gives it.
MeshTypeOK ==
    /\ dir \in {"down", "up"} /\ disp \in {"select", "flush"}
    /\ \A s \in {dataOut, ctrlOut, meshIn} : Len(s) <= OutLen
    /\ Len(getQ) <= GetLen /\ Len(ctrlRecv) <= RecvLen /\ Len(dataRecv) <= RecvLen
    /\ gpc \in [Gets -> {"none", "net", "wait", "left", "answered"}]
    /\ loop \in [Loops -> {"get", "await", "route", "over"}] /\ listens \in [Loops -> {1, 2}]
    /\ \A g \in Gets : Cardinality({i \in DOMAIN (waiters \o getQ) : (waiters \o getQ)[i] = g}) <= 1

\* In how many places frame n is.
Carried(n) ==
    Cardinality({s \in {"do", "co", "dq", "cq", "cr", "dr"} :
        Contains(CASE s = "do" -> dataOut [] s = "co" -> ctrlOut [] s = "dq" -> dataQ
                   [] s = "cq" -> ctrlQ [] s = "cr" -> ctrlRecv [] OTHER -> dataRecv, n)})
    + Cardinality({g \in Gets : Contains(batch[g], n)})
    + Cardinality({l \in Loops : Contains(todo[l], n)})
    + Cardinality({p \in Posts : Contains(post[p].left, n)})
    + (IF Contains(meshIn, n) THEN 1 ELSE 0)
    + (IF n \in taken \cup aqm THEN 1 ELSE 0)
Sent == 1 .. (nDown + nUp)

\* abandonWaiter: "frames are never lost in the timeout race".  As long as no
\* connection breaks and nothing is closed, every frame the sessions sent is in
\* one place of the way, delivered, or dropped by CoDel; no frame is ever twice.
NoFrameLost ==
    \A n \in Sent : Carried(n) <= 1 /\ (trouble = 0 => Carried(n) = 1)

\* dataBytes is what dataQ holds, and one frame over the cap at most.
BytesExact == dataBytes = Bytes(dataQ) /\ dataBytes < MaxQueued + 2

\* routeFrameLocked: no frame is queued while a registered GET that has not given
\* up waits for one.
WorkConserving ==
    disp = "select" /\ ~chGone /\ (\E g \in Range(waiters) : g[2] # 0) => ctrlQ = <<>> /\ dataQ = <<>>

\* While nothing breaks, every frame that is sent arrives, or CoDel drops it.
FramesArrive == []<>(trouble > 0 \/ Sent \subseteq taken \cup aqm)

\* meshChannelTransport: when the channel is gone the client notices, whatever its
\* GETs were doing.
ClosureNoticed == []<>(chGone => tClosed)

\* FramesSound: a frame handed to a request is answered or goes back, the byte count is
\* that of the queue, and nothing waits while a request waits for it.
FramesSound == MeshTypeOK /\ NoFrameLost /\ BytesExact /\ WorkConserving

\* FramesServed: what has been sent arrives, and the end of the channel is noticed.
FramesServed == FramesArrive /\ ClosureNoticed
=============================================================================

------------------------------- MODULE HTunnel -------------------------------
(***************************************************************************)
(* A stream or datagram connection tunnelled through HTTP requests:        *)
(* src/dialer/htunnel.go (client) and src/server/htunnel.go (server).      *)
(* HEAD 0 allocates a channel, HEAD 1 connects it, HEAD 2 acknowledges;    *)
(* then GETs carry data down, POSTs carry data up and PUTs keep the        *)
(* channel alive, each numbered; DELETE ends it.  Every request is a       *)
(* goroutine of the server.  One channel; each client thread has at most   *)
(* one request outstanding, and net/http may repeat a HEAD or a GET whose  *)
(* connection broke before an answer, so a thread has two request slots.   *)
(***************************************************************************)
EXTENDS Integers, Sequences

CONSTANTS Kinds,       \* the X-C commands: a subset of "CONN", "BIND" and "UDP"
          MaxWrites,   \* chunks the client's application writes
          MaxOut,      \* chunks the target sends
          MaxGets,     \* GETs the client sends
          MaxBeats,    \* heartbeats it sends ...
          Beating,     \* ... on the kinds of channel that last until one is due
          MaxFaults,   \* broken HTTP connections
          EarlyRetry,  \* may net/http repeat a request the server is still serving?
          SlowDial,    \* may the target's dial (120 s) outlast the request timeout (30 s)?
          MayReject    \* may the server refuse a BIND address?

ASSUME TunnelAssumption ==
    /\ Kinds \subseteq {"CONN", "BIND", "UDP"}
    /\ MaxWrites \in Nat /\ MaxOut \in Nat /\ MaxFaults \in Nat
    /\ MaxGets \in Nat /\ MaxBeats \in Nat /\ Beating \subseteq Kinds
    /\ {EarlyRetry, SlowDial, MayReject} \subseteq BOOLEAN

Thr   == {"conn", "hb", "read", "write", "del"}   \* client threads, named for what they ask
Slots == Thr \X {1, 2}
NoReq == [st |-> "none", seq |-> 0, code |-> 0, val |-> 0]

VARIABLES
    kind,       \* the X-C command of the channel
    cl,         \* per thread: "off", "ready", "await", "done" or "failed"
    cur,        \* per thread: the request slot it listens to
    cseq,       \* the client's connSeq, readSeq, writeSeq
    cclosed,    \* c.closed
    died,       \* the client's process is gone
    sent,       \* chunks the application wrote
    got,        \* chunks the application read
    faults,
    req,        \* the request goroutines: [Slots -> state, sequence number, answer]
    present,    \* the channel is in s.channels
    chClosed,   \* ch.closed
    mu,         \* the request that holds ch.mu between two steps, if any
    sseq,       \* the server's connSeq, readSeq, writeSeq
    pend,       \* connPend, hbPend, readPend, writePend: active?
    connReady,  \* ch.connReady is closed
    conn,       \* targetConn / revConn / proxyConns: "none" or "open"
    sock,       \* the socket behind it: "none", "open" or "closed"
    lastRead,   \* lastReadData (0 = nil)
    lastOk,     \* lastWriteOk
    out,        \* chunks read from the target so far
    into        \* chunks written to the target, in order

clientVars == <<kind, cl, cur, cseq, cclosed, died, sent, got, faults>>
channelVars == <<present, chClosed, mu, sseq, pend, connReady, conn, sock, lastRead, lastOk, out, into>>
tunnelVars == <<clientVars, req, channelVars>>

NumberOf(t) == IF t \in {"conn", "hb"} THEN "conn" ELSE t

TunnelInit ==
    /\ kind \in Kinds
    /\ cl = [t \in Thr |-> IF t = "conn" THEN "ready" ELSE "off"]
    /\ cur = [t \in Thr |-> 1]
    /\ cseq = [conn |-> 0, read |-> 0, write |-> 0]
    /\ sseq = [conn |-> 0, read |-> 0, write |-> 0]
    /\ cclosed = FALSE /\ died = FALSE /\ sent = 0 /\ got = <<>> /\ faults = 0
    /\ req = [r \in Slots |-> NoReq]
    /\ present = FALSE /\ chClosed = FALSE /\ mu = {}
    /\ pend = [t \in Thr |-> FALSE] /\ connReady = FALSE
    /\ conn = "none" /\ sock = "none" /\ lastRead = 0 /\ lastOk = FALSE
    /\ out = 0 /\ into = <<>>

-----------------------------------------------------------------------------
(* Client. *)

\* HEAD 0: the server allocates the channel; a broken connection fails the Dial.
OpenChannel ==
    /\ cl["conn"] = "ready" /\ cseq.conn = 0 /\ ~died
    /\ \/ present' = TRUE /\ cseq' = [cseq EXCEPT !.conn = 1] /\ UNCHANGED <<cl, faults>>
       \/ /\ faults < MaxFaults /\ faults' = faults + 1
          /\ cl' = [cl EXCEPT !["conn"] = "failed"] /\ UNCHANGED <<present, cseq>>
    /\ UNCHANGED <<kind, cur, cclosed, died, sent, got, req, chClosed, mu, sseq, pend,
                   connReady, conn, sock, lastRead, lastOk, out, into>>

\* The thread sends its next request.  Reads and writes take their number first;
\* pushes, heartbeats and the DELETE use connSeq and then advance it.
Send(t, v) ==
    /\ cl' = [cl EXCEPT ![t] = "await"] /\ cur' = [cur EXCEPT ![t] = 1]
    /\ LET k == IF t = "del" THEN "conn" ELSE NumberOf(t)
           q == IF k = "conn" THEN cseq.conn ELSE cseq[k] + 1
       IN  /\ cseq' = [cseq EXCEPT ![k] = @ + 1]
           /\ req' = [req EXCEPT ![<<t, 1>>] = [st |-> "net", seq |-> q, code |-> 0, val |-> v]]

Idle(t) == cl[t] = "ready" /\ ~died /\ req[<<t, 1>>].st = "none"

Push ==
    /\ Idle("conn") /\ cseq.conn > 0 /\ Send("conn", 0)
    /\ UNCHANGED <<kind, cclosed, died, sent, got, faults, channelVars>>

Read ==
    /\ Idle("read") /\ ~cclosed /\ cseq.read < MaxGets /\ Send("read", 0)
    /\ UNCHANGED <<kind, cclosed, died, sent, got, faults, channelVars>>

Heartbeat ==
    /\ Idle("hb") /\ ~cclosed /\ kind \in Beating /\ cseq.conn < 3 + MaxBeats /\ Send("hb", 0)
    /\ UNCHANGED <<kind, cclosed, died, sent, got, faults, channelVars>>

Write ==
    /\ Idle("write") /\ ~cclosed /\ sent < MaxWrites
    /\ sent' = sent + 1 /\ Send("write", sent + 1)
    /\ UNCHANGED <<kind, cclosed, died, got, faults, channelVars>>

\* Close, by the application or after a failure: DELETE, best effort.
Close ==
    /\ cl["conn"] = "done" /\ ~cclosed /\ ~died
    /\ cclosed' = TRUE /\ Send("del", 0)
    /\ UNCHANGED <<kind, died, sent, got, faults, channelVars>>

\* Dial's three steps: after the acknowledged HEAD 2 the connection's threads start.
Opened(q) == IF q = 1 THEN [cl EXCEPT !["conn"] = "ready"]
             ELSE [t \in Thr |-> IF t = "conn" THEN "done" ELSE IF t = "del" THEN "off" ELSE "ready"]

Listens(r) == cl[r[1]] = "await" /\ cur[r[1]] = r[2] /\ ~died

\* What an answer means to the thread that gets it: data or success, or 408 to a GET.
Good(t, a) == a.code = 200 \/ (t = "read" /\ a.code = 408) \/ t = "del"

Answer(t) ==
    LET r == <<t, cur[t]>>  a == req[r] IN
    /\ Listens(r) /\ a.st = "answered" /\ Good(t, a)
    /\ req' = [req EXCEPT ![r] = NoReq]
    /\ cl' = CASE t = "conn" -> Opened(a.seq)
               [] t = "del" -> [cl EXCEPT ![t] = "done"]
               [] OTHER -> [cl EXCEPT ![t] = "ready"]
    /\ got' = IF t = "read" /\ a.code = 200 THEN Append(got, a.val) ELSE got
    /\ UNCHANGED <<kind, cur, cseq, cclosed, died, sent, faults, channelVars>>

\* The thread's request has failed.  It ends; a failed heartbeat closes the connection.
Fails(t) ==
    LET r == <<t, cur[t]>>  closes == t = "hb" /\ ~cclosed IN
    /\ cclosed' = (cclosed \/ closes)
    /\ cseq' = IF closes THEN [cseq EXCEPT !.conn = @ + 1] ELSE cseq
    /\ cl' = [u \in Thr |-> IF u = t THEN "failed" ELSE IF closes /\ u = "del" THEN "await" ELSE cl[u]]
    /\ req' = [x \in Slots |-> CASE x = r /\ req[x].st = "answered" -> NoReq
                             [] closes /\ x = <<"del", 1>> -> [NoReq EXCEPT !.st = "net", !.seq = cseq.conn]
                             [] OTHER -> req[x]]
    /\ UNCHANGED <<kind, cur, died, sent, got, channelVars>>

AnswerBad(t) ==
    /\ Listens(<<t, cur[t]>>) /\ req[<<t, cur[t]>>].st = "answered" /\ ~Good(t, req[<<t, cur[t]>>])
    /\ Fails(t) /\ UNCHANGED faults

\* The HTTP connection breaks.  The transport repeats a HEAD or a GET once on a
\* new connection; any other request fails.  The server goes on with the first.
Broken(t) ==
    /\ Listens(<<t, cur[t]>>) /\ faults < MaxFaults /\ faults' = faults + 1
    /\ Fails(t)

Retried(t) ==
    LET r == <<t, 1>> IN
    /\ Listens(r) /\ faults < MaxFaults /\ faults' = faults + 1
    /\ t \in {"conn", "read"} /\ (req[r].st = "answered" \/ EarlyRetry)
    /\ cur' = [cur EXCEPT ![t] = 2]
    /\ req' = [req EXCEPT ![<<t, 2>>] = [req[r] EXCEPT !.st = "net", !.code = 0, !.val = 0],
                          ![r] = IF @.st = "answered" THEN NoReq ELSE @]
    /\ UNCHANGED <<kind, cl, cseq, cclosed, died, sent, got, channelVars>>

Die ==
    /\ ~died /\ faults < MaxFaults /\ faults' = faults + 1 /\ died' = TRUE
    /\ cl' = [t \in Thr |-> "off"]
    /\ req' = [r \in Slots |-> IF req[r].st = "answered" THEN NoReq ELSE req[r]]
    /\ UNCHANGED <<kind, cur, cseq, cclosed, sent, got, channelVars>>

-----------------------------------------------------------------------------
(* Server.  A section under ch.mu is one step; it needs the mutex free. *)

\* The answer to r, which is gone if no thread listens.
Answered(r, c, v) ==
    IF Listens(r) THEN [st |-> "answered", seq |-> req[r].seq, code |-> c, val |-> v] ELSE NoReq
Reply(r, c, v) == req' = [req EXCEPT ![r] = Answered(r, c, v)]
Goto(r, s)     == req' = [req EXCEPT ![r].st = s]

\* Mutant: broadcast leaves the operation active.
Broadcast_Keeps(t, r, c, v) ==
    /\ UNCHANGED pend
    /\ req' = [x \in Slots |->
                 IF x = r THEN Answered(r, c, v)
                 ELSE IF x[1] # t THEN req[x]
                 ELSE [req[x] EXCEPT !.st = CASE @ = "wait0" -> "loop"
                                              [] @ = "wait1" -> "woken"
                                              [] OTHER -> @]]

\* broadcast(p): the requests waiting on p wake; r itself is answered.
Broadcast(t, r, c, v) ==
    /\ pend' = [pend EXCEPT ![t] = FALSE]
    /\ req' = [x \in Slots |->
                 IF x = r THEN Answered(r, c, v)
                 ELSE IF x[1] # t THEN req[x]
                 ELSE [req[x] EXCEPT !.st = CASE @ = "wait0" -> "loop"
                                              [] @ = "wait1" -> "woken"
                                              [] OTHER -> @]]

\* A request arrives: the channel is looked up and its timeout restarted (under
\* ch.mu); DELETE closes the channel.
Enter(r) ==
    /\ req[r].st = "net"
    /\ \/ ~present /\ Reply(r, 410, 0) /\ UNCHANGED chClosed
       \/ present /\ r[1] # "del" /\ mu = {} /\ Goto(r, "loop") /\ UNCHANGED chClosed
       \/ present /\ r[1] = "del" /\ Goto(r, "closing") /\ chClosed' = TRUE
    /\ UNCHANGED <<clientVars, present, mu, sseq, pend, connReady, conn, sock, lastRead, lastOk, out, into>>

Active == conn = "open" \/ kind = "UDP"

\* Mutant: nothing is kept for a repetition; a retried GET finds no data.
Repeated_Forgets(t) ==
    CASE t = "conn" -> [code |-> IF ~chClosed /\ Active THEN 200 ELSE 410, val |-> 0]
      [] t = "hb"   -> [code |-> IF chClosed THEN 410 ELSE 200, val |-> 0]
      [] OTHER      -> [code |-> 408, val |-> 0]

\* The answer to a request that repeats the last number.
Repeated(t) ==
    CASE t = "conn" -> [code |-> IF ~chClosed /\ Active THEN 200 ELSE 410, val |-> 0]
      [] t = "hb"   -> [code |-> IF chClosed THEN 410 ELSE 200, val |-> 0]
      [] t = "read" -> [code |-> IF lastRead # 0 THEN 200 ELSE 408, val |-> lastRead]
      [] OTHER      -> [code |-> IF lastOk THEN 200 ELSE 408, val |-> 0]

\* The retry loop of the handlers, one turn: by the distance of the request's
\* number from the channel's it is a repetition, the next one (its goroutine
\* leads or waits for the one that does), or out of order.
Turn(r) ==
    LET t == r[1]  step == req[r].seq - sseq[NumberOf(t)] IN
    /\ req[r].st = "loop" /\ mu = {}
    /\ \/ step = 0 /\ pend[t] /\ Goto(r, "wait0") /\ UNCHANGED pend
       \/ step = 0 /\ ~pend[t] /\ Reply(r, Repeated(t).code, Repeated(t).val) /\ UNCHANGED pend
       \/ step = 1 /\ pend[t] /\ Goto(r, "wait1") /\ UNCHANGED pend
       \/ step = 1 /\ ~pend[t] /\ Goto(r, "work") /\ pend' = [pend EXCEPT ![t] = TRUE]
       \/ step \notin {0, 1} /\ t # "conn" /\ Reply(r, 410, 0) /\ UNCHANGED pend
       \/ step \notin {0, 1} /\ t = "conn" /\ Goto(r, IF pend[t] THEN "wait0" ELSE "unready") /\ UNCHANGED pend
    /\ UNCHANGED <<clientVars, present, chClosed, mu, sseq, connReady, conn, sock, lastRead, lastOk, out, into>>

\* leaderOrWait's waiter comes back with ch.mu held, and the loop locks it again.
Relock(r) ==
    /\ req[r].st = "woken" /\ mu = {}
    /\ mu' = {r} /\ Goto(r, "stuck")
    /\ UNCHANGED <<clientVars, present, chClosed, sseq, pend, connReady, conn, sock, lastRead, lastOk, out, into>>

\* A push ahead of its predecessor waits for connReady, the close, or 10 s.
AwaitReady(r) ==
    /\ req[r].st = "unready"
    /\ \/ connReady /\ Goto(r, "loop")
       \/ (chClosed \/ ~connReady) /\ Reply(r, 410, 0)
    /\ UNCHANGED <<clientVars, channelVars>>

\* The leader of HEAD 1 connects the channel: a BIND gets a bridged connection,
\* UDP needs none, CONN dials its target.  A refused BIND leaves the handler at
\* once: net/http answers 200 and the pending operation is never broadcast.
Refuse(r) ==
    /\ req[r].st = "work" /\ r[1] = "conn" /\ req[r].seq = 1 /\ kind = "BIND" /\ MayReject
    /\ Reply(r, 200, 0)
    /\ UNCHANGED <<clientVars, channelVars>>

Connect(r) ==
    /\ req[r].st = "work" /\ r[1] = "conn" /\ req[r].seq = 1 /\ mu = {}
    /\ IF kind = "UDP" THEN UNCHANGED <<conn, sock>> ELSE conn' = "open" /\ sock' = "open"
    /\ sseq' = [sseq EXCEPT !.conn = @ + 1]
    /\ connReady' = TRUE
    /\ Broadcast("conn", r, 200, 0)
    /\ UNCHANGED <<clientVars, present, chClosed, mu, lastRead, lastOk, out, into>>

\* The dial fails: the handler closes the channel before it answers.
ConnectFails(r) ==
    /\ req[r].st = "work" /\ r[1] = "conn" /\ req[r].seq = 1 /\ kind = "CONN" /\ mu = {}
    /\ faults < MaxFaults /\ faults' = faults + 1
    /\ sseq' = [sseq EXCEPT !.conn = @ + 1]
    /\ connReady' = TRUE /\ chClosed' = TRUE
    /\ Broadcast("conn", r, 410, 0)
    /\ UNCHANGED <<kind, cl, cur, cseq, cclosed, died, sent, got, present, mu, conn, sock, lastRead, lastOk, out, into>>

\* HEAD 2: only checks what HEAD 1 made.
Acknowledge(r) ==
    /\ req[r].st = "work" /\ r[1] = "conn" /\ req[r].seq = 2 /\ mu = {}
    /\ sseq' = IF Active THEN [sseq EXCEPT !.conn = @ + 1] ELSE sseq
    /\ Broadcast("conn", r, IF Active THEN 200 ELSE 410, 0)
    /\ UNCHANGED <<clientVars, present, chClosed, mu, connReady, conn, sock, lastRead, lastOk, out, into>>

\* A heartbeat is held for 10 s or until the channel closes.
Beat(r) ==
    /\ req[r].st = "work" /\ r[1] = "hb" /\ mu = {}
    /\ sseq' = [sseq EXCEPT !.conn = @ + 1]
    /\ Broadcast("hb", r, IF chClosed THEN 410 ELSE 200, 0)
    /\ UNCHANGED <<clientVars, present, chClosed, mu, connReady, conn, sock, lastRead, lastOk, out, into>>

\* readSource and the bookkeeping after it: a chunk, a timeout (408; also what a
\* stream channel without a connection gets), or the end of the channel (410).
Fetch(r) ==
    /\ req[r].st = "work" /\ r[1] = "read" /\ mu = {}
    /\ sseq' = [sseq EXCEPT !.read = @ + 1]
    /\ \/ /\ Active /\ ~chClosed /\ out < MaxOut
          /\ out' = out + 1 /\ lastRead' = out + 1 /\ Broadcast("read", r, 200, out + 1)
       \/ /\ ~chClosed \/ (kind # "UDP" /\ conn = "none")
          /\ lastRead' = 0 /\ UNCHANGED out /\ Broadcast("read", r, 408, 0)
       \/ /\ chClosed
          /\ lastRead' = 0 /\ UNCHANGED out /\ Broadcast("read", r, 410, 0)
    /\ UNCHANGED <<clientVars, present, chClosed, mu, connReady, conn, sock, lastOk, into>>

\* The POST's chunk goes to the target; without a connection nothing is written.
Store(r) ==
    /\ req[r].st = "work" /\ r[1] = "write" /\ mu = {}
    /\ sseq' = [sseq EXCEPT !.write = @ + 1]
    /\ LET ok == Active /\ ~(kind = "UDP" /\ chClosed) IN
       /\ lastOk' = ok
       /\ into' = IF ok THEN Append(into, req[r].val) ELSE into
       /\ Broadcast("write", r, IF ok THEN 200 ELSE 410, 0)
    /\ UNCHANGED <<clientVars, present, chClosed, mu, connReady, conn, sock, lastRead, out>>

\* The target's connection breaks under a write: it is closed and forgotten.
StoreFails(r) ==
    /\ req[r].st = "work" /\ r[1] = "write" /\ mu = {} /\ conn = "open" /\ kind = "CONN"
    /\ faults < MaxFaults /\ faults' = faults + 1
    /\ conn' = "none" /\ sock' = "closed"
    /\ sseq' = [sseq EXCEPT !.write = @ + 1] /\ lastOk' = FALSE
    /\ Broadcast("write", r, 410, 0)
    /\ UNCHANGED <<kind, cl, cur, cseq, cclosed, died, sent, got, present, chClosed, mu, connReady, lastRead, out, into>>

\* The client is expected to send again within the request timeout.
Expected == ~died /\ ~cclosed /\ "failed" \notin {cl["conn"], cl["hb"]}

\* The request timeout (10 s before the first push, 30 s after a request): a push
\* on its way is answered sooner, unless its dial is slow.
Pushing(s) == \E r \in Slots : r[1] = "conn" /\ req[r].st \in s

ReqTimeout ==
    /\ present /\ ~chClosed
    /\ IF Pushing({"net", "loop", "work"}) THEN SlowDial /\ kind = "CONN" /\ Pushing({"work"})
                                         ELSE ~Expected
    /\ chClosed' = TRUE
    /\ UNCHANGED <<clientVars, req, present, mu, sseq, pend, connReady, conn, sock, lastRead, lastOk, out, into>>

\* Mutant: closeChannel only drops the channel from the map.
CloseChannel_Drops ==
    /\ present /\ chClosed /\ mu = {}
    /\ present' = FALSE
    /\ req' = [r \in Slots |-> IF req[r].st = "closing"
                               THEN Answered(r, 410, 0) ELSE req[r]]
    /\ UNCHANGED <<clientVars, chClosed, mu, sseq, pend, connReady, conn, sock, lastRead, lastOk, out, into>>

\* closeChannel after close(ch.closed): the connections are closed under ch.mu,
\* the channel leaves the map and the DELETE that waits is answered.
CloseChannel ==
    /\ present /\ chClosed /\ mu = {}
    /\ present' = FALSE /\ conn' = "none"
    /\ sock' = IF conn = "open" THEN "closed" ELSE sock
    /\ req' = [r \in Slots |-> IF req[r].st = "closing"
                               THEN Answered(r, 410, 0) ELSE req[r]]
    /\ UNCHANGED <<clientVars, chClosed, mu, sseq, pend, connReady, lastRead, lastOk, out, into>>

Serve(r) ==
    \/ Enter(r) \/ Turn(r) \/ Relock(r) \/ AwaitReady(r) \/ Refuse(r) \/ Connect(r)
    \/ Acknowledge(r) \/ Beat(r) \/ Fetch(r) \/ Store(r)

TunnelNext ==
    \/ OpenChannel \/ Push \/ Read \/ Heartbeat \/ Write \/ Close \/ Die
    \/ \E t \in Thr : Answer(t) \/ AnswerBad(t) \/ Broken(t) \/ Retried(t)
    \/ \E r \in Slots : Serve(r) \/ ConnectFails(r) \/ StoreFails(r)
    \/ ReqTimeout \/ CloseChannel

TunnelSpec == TunnelInit /\ [][TunnelNext]_tunnelVars
-----------------------------------------------------------------------------
Up   == INSTANCE StreamPipe WITH written <- sent, arrived <- into
Down == INSTANCE StreamPipe WITH written <- out, arrived <- got

\* Every variable stays in the range the code gives it.
TunnelTypeOK ==
    /\ kind \in Kinds /\ cl \in [Thr -> {"off", "ready", "await", "done", "failed"}]
    /\ cseq \in [{"conn", "read", "write"} -> Nat]
    /\ sseq \in [{"conn", "read", "write"} -> Nat]
    /\ \A r \in Slots : req[r].st = "work" => pend[r[1]]
    /\ mu \subseteq Slots /\ pend \in [Thr -> BOOLEAN]
    /\ conn \in {"none", "open"} /\ sock \in {"none", "open", "closed"}
    /\ sent \in 0 .. MaxWrites /\ out \in 0 .. MaxOut

\* The tunnel implements a pipe in each direction: whatever requests and answers
\* are lost or repeated, handleWrite gives the target the chunks Write was called
\* with, and Read gives the application the chunks the target sent.
PipeUp   == Up!PipeSpec
PipeDown == Down!PipeSpec

\* closeChannel leaves no connection to the target behind.
NoTargetLeak == ~present => sock # "open"

\* A client whose connections have not broken is never told that its channel is
\* gone: the numbers of both ends agree, heartbeats and pushes share connSeq.
InSync ==
    \A r \in Slots : faults = 0 /\ ~cclosed /\ req[r].st = "answered" => req[r].code # 410

\* A request the client waits for is answered in the end, unless a goroutine of the
\* channel has locked itself out or its BIND was refused, which leaves the push pending.
RequestsEnd ==
    \A r \in Slots : []<>(~Listens(r) \/ req[r].st = "answered" \/ mu # {} \/ (MayReject /\ kind = "BIND"))

\* A channel whose client is gone does not stay in s.channels.
Reaped == []<>(~present \/ Expected \/ mu # {})

\* No goroutine waits for the mutex it holds itself.
NoSelfLock == mu = {}

\* TunnelSound: both ends agree on what has been written and asked for, and a channel that
\* is gone has let its target go.
TunnelSound == TunnelTypeOK /\ NoTargetLeak /\ InSync

\* Piped: each direction of a channel implements a pipe.
Piped == PipeUp /\ PipeDown

\* TunnelServes: a request the client listens to is answered, and the channel of a client
\* that is gone is closed.
TunnelServes == RequestsEnd /\ Reaped
=============================================================================

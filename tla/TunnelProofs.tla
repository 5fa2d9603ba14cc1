----------------------------- MODULE TunnelProofs -----------------------------
(***************************************************************************)
(* Each direction of a tunnelled connection implements a pipe, for every    *)
(* kind of channel, any number of chunks and broken HTTP connections, and   *)
(* whether or not net/http repeats requests that are still being served.    *)
(* The refinement mapping is in HTunnel (Up and Down); what is needed for   *)
(* it is an invariant of the two ends' sequence numbers.  Up: a POST that   *)
(* the server has not finished carries the next chunk.  Down: a GET and its *)
(* repetition carry one number, one of them leads, and what it fetched is   *)
(* kept in lastReadData until the client asks for the next number.          *)
(* The second half proves TunnelSound: no connection to the target is left  *)
(* behind (LeakInv), and the ends agree while nothing breaks (SyncInv).     *)
(***************************************************************************)
EXTENDS HTunnel, Stripe, SeqLemmas

-----------------------------------------------------------------------------
(* The inductive invariant.                                                *)

Keys   == {"conn", "read", "write"}
States == {"none", "net", "loop", "wait0", "wait1", "woken", "stuck", "unready", "work", "closing", "answered"}

TunnelTypes ==
    /\ cl \in [Thr -> {"off", "ready", "await", "done", "failed"}]
    /\ cur \in [Thr -> {1, 2}]
    /\ cseq \in [Keys -> Nat] /\ sseq \in [Keys -> Nat]
    /\ req \in [Slots -> [st : States, seq : Nat, code : Nat, val : Nat]]
    /\ pend \in [Thr -> BOOLEAN]
    /\ sent \in Nat /\ out \in Nat /\ lastRead \in Nat
    /\ got \in Seq(Nat) /\ into \in Seq(Nat)

\* Until Dial has returned the connection's threads have not begun.
Opening ==
    cl["conn"] \in {"ready", "await"} =>
        /\ cl["write"] = "off" /\ sent = 0 /\ into = <<>> /\ sseq.write = 0 /\ req[<<"write", 1>>].st = "none"
        /\ cl["read"] = "off" /\ cseq.read = 0 /\ sseq.read = 0 /\ out = 0 /\ got = <<>>
        /\ req[<<"read", 1>>].st = "none" /\ req[<<"read", 2>>].st = "none"

\* A POST is never repeated; until the server is done with it, it carries the
\* chunk after those the target has.
UpInv ==
    LET w == req[<<"write", 1>>] IN
    /\ cur["write"] = 1 /\ req[<<"write", 2>>].st = "none" /\ cseq.write = sent
    /\ Len(into) <= sent
    /\ w.st \in {"none", "net", "loop", "work", "answered"}
    /\ w.st \in {"net", "loop", "work"} =>
          /\ w.seq = sent /\ w.val = sent /\ sent = sseq.write + 1 /\ sent = Len(into) + 1
    /\ (pend["write"] <=> w.st = "work")
    /\ w.st = "answered" /\ w.code = 200 => sseq.write = sent /\ Len(into) = sent
    /\ cl["write"] = "ready" => w.st = "none" /\ sseq.write = sent /\ Len(into) = sent

\* The GETs under way carry the client's number, and at most one of them reads
\* from the target.
Get(i) ==
    LET q == req[<<"read", i>>] IN
    /\ q.st # "closing"
    /\ q.st # "none" => q.seq = cseq.read
    /\ q.st = "work" => pend["read"] /\ cseq.read = sseq.read + 1
    /\ q.st = "answered" => cl["read"] = "await" /\ cur["read"] = i /\ ~died

DownRequests ==
    /\ Get(1) /\ Get(2)
    /\ req[<<"read", 1>>].st = "work" => req[<<"read", 2>>].st # "work"
    /\ cur["read"] = 1 => req[<<"read", 2>>].st = "none"
    /\ cl["read"] = "await" => ~died
    /\ cl["read"] = "await" /\ cur["read"] = 1 => req[<<"read", 1>>].st # "none"
    /\ cl["read"] = "await" /\ cur["read"] = 2 => req[<<"read", 2>>].st # "none"
    /\ cl["read"] = "ready" => req[<<"read", 2>>].st = "none"

\* What has been read from the target and not by the application is the one
\* chunk that is kept for the number the client asks for.
Kept(i) ==
    LET q == req[<<"read", i>>] IN
    /\ q.st = "answered" /\ q.code = 200 => cseq.read = sseq.read /\ q.val = lastRead /\ lastRead # 0
    /\ q.st = "answered" /\ q.code = 408 => cseq.read = sseq.read /\ lastRead = 0

DownData ==
    /\ cseq.read = sseq.read \/ cseq.read = sseq.read + 1
    /\ Len(got) <= out
    /\ cl["read"] = "ready" => cseq.read = sseq.read /\ out = Len(got)
    /\ cl["read"] = "await" /\ cseq.read = sseq.read + 1 => out = Len(got)
    /\ cl["read"] = "await" /\ cseq.read = sseq.read =>
          \/ lastRead = 0 /\ out = Len(got)
          \/ lastRead = out /\ out = Len(got) + 1
    /\ Kept(1) /\ Kept(2)

DownInv == DownRequests /\ DownData

TunnelInv == TunnelTypes /\ Opening /\ UpInv /\ DownInv

-----------------------------------------------------------------------------
(* Frames: what a step may do without disturbing a part of the invariant.  *)

LEMMA OpeningFrame ==
    ASSUME Opening, cl'["conn"] \in {"ready", "await"} => cl["conn"] \in {"ready", "await"},
           cl'["write"] = cl["write"], cl'["read"] = cl["read"],
           UNCHANGED <<sent, into, cseq.read, sseq.read, sseq.write, out, got>>,
           UNCHANGED <<req[<<"write", 1>>], req[<<"read", 1>>], req[<<"read", 2>>]>>
    PROVE  Opening'
BY DEF Opening

LEMMA OpeningOver == ASSUME cl'["conn"] \notin {"ready", "await"} PROVE Opening'
BY DEF Opening

LEMMA UpFrame ==
    ASSUME UpInv, cl'["write"] = "ready" => cl["write"] = "ready",
           UNCHANGED <<sent, into, cseq.write, sseq.write, cur["write"], pend["write"]>>,
           UNCHANGED <<req[<<"write", 1>>], req[<<"write", 2>>]>>
    PROVE  UpInv'
BY DEF UpInv

LEMMA DownFrame ==
    ASSUME DownInv, UNCHANGED <<cl["read"], cur["read"], died, cseq.read, sseq.read, pend["read"]>>,
           UNCHANGED <<lastRead, out, got, req[<<"read", 1>>], req[<<"read", 2>>]>>
    PROVE  DownInv'
BY DEF DownInv, DownRequests, DownData, Get, Kept

-----------------------------------------------------------------------------
(* The client's steps.                                                     *)

LEMMA SlotTyped == ASSUME NEW t \in Thr, NEW i \in {1, 2} PROVE <<t, i>> \in Slots
BY DEF Slots

LEMMA SendTyped ==
    ASSUME TunnelTypes, NEW t \in Thr, NEW v \in Nat, Send(t, v)
    PROVE  /\ cl' \in [Thr -> {"off", "ready", "await", "done", "failed"}] /\ cur' \in [Thr -> {1, 2}]
           /\ cseq' \in [Keys -> Nat]
           /\ req' \in [Slots -> [st : States, seq : Nat, code : Nat, val : Nat]]
<1> DEFINE k == IF t = "del" THEN "conn" ELSE NumberOf(t)
           q == IF k = "conn" THEN cseq.conn ELSE cseq[k] + 1
<1>1. k \in Keys BY DEF Thr, NumberOf, Keys
<1>2. q \in Nat BY <1>1 DEF TunnelTypes, Keys
<1>3. [st |-> "net", seq |-> q, code |-> 0, val |-> v] \in [st : States, seq : Nat, code : Nat, val : Nat]
  BY <1>2 DEF States
<1>4. cseq' = [cseq EXCEPT ![k] = @ + 1]
      /\ req' = [req EXCEPT ![<<t, 1>>] = [st |-> "net", seq |-> q, code |-> 0, val |-> v]]
  BY DEF Send
<1> HIDE DEF k, q
<1>5. cseq' \in [Keys -> Nat] BY <1>1, <1>4 DEF TunnelTypes
<1>6. req' \in [Slots -> [st : States, seq : Nat, code : Nat, val : Nat]]
  BY <1>3, <1>4, SlotTyped DEF TunnelTypes
<1> QED BY <1>5, <1>6 DEF Send, TunnelTypes

LEMMA OpenChannelInv == ASSUME TunnelInv, OpenChannel PROVE TunnelInv'
<1> USE DEF TunnelInv
<1>0. /\ cl' = cl \/ cl' = [cl EXCEPT !["conn"] = "failed"]
      /\ cseq' = cseq \/ cseq' = [cseq EXCEPT !["conn"] = 1]
  BY DEF OpenChannel
<1>1. TunnelTypes' BY <1>0 DEF TunnelTypes, OpenChannel, Thr, Keys
<1>2. Opening' BY OpeningFrame DEF OpenChannel, TunnelTypes, Thr, Keys
<1>3. UpInv' BY UpFrame DEF OpenChannel, TunnelTypes, Thr, Keys
<1>4. DownInv' BY DownFrame DEF OpenChannel, TunnelTypes, Thr, Keys
<1> QED BY <1>1, <1>2, <1>3, <1>4

LEMMA PushInv == ASSUME TunnelInv, Push PROVE TunnelInv'
<1> USE DEF TunnelInv
<1>0. Send("conn", 0) BY DEF Push
<1>1. TunnelTypes' BY <1>0, SendTyped DEF TunnelTypes, Push, channelVars, Thr
<1>2. Opening' BY OpeningFrame DEF Push, Idle, Send, NumberOf, channelVars, TunnelTypes, Thr, Keys, Slots
<1>3. UpInv' BY UpFrame DEF Push, Send, NumberOf, channelVars, TunnelTypes, Thr, Keys, Slots
<1>4. DownInv' BY DownFrame DEF Push, Send, NumberOf, channelVars, TunnelTypes, Thr, Keys, Slots
<1> QED BY <1>1, <1>2, <1>3, <1>4

LEMMA HeartbeatInv == ASSUME TunnelInv, Heartbeat PROVE TunnelInv'
<1> USE DEF TunnelInv
<1>0. Send("hb", 0) BY DEF Heartbeat
<1>1. TunnelTypes' BY <1>0, SendTyped DEF TunnelTypes, Heartbeat, channelVars, Thr
<1>2. Opening' BY OpeningFrame DEF Heartbeat, Idle, Send, NumberOf, channelVars, TunnelTypes, Thr, Keys, Slots
<1>3. UpInv' BY UpFrame DEF Heartbeat, Send, NumberOf, channelVars, TunnelTypes, Thr, Keys, Slots
<1>4. DownInv' BY DownFrame DEF Heartbeat, Send, NumberOf, channelVars, TunnelTypes, Thr, Keys, Slots
<1> QED BY <1>1, <1>2, <1>3, <1>4

LEMMA CloseInv == ASSUME TunnelInv, Close PROVE TunnelInv'
<1> USE DEF TunnelInv
<1>0. Send("del", 0) BY DEF Close
<1>1. TunnelTypes' BY <1>0, SendTyped DEF TunnelTypes, Close, channelVars, Thr
<1>2. Opening' BY OpeningOver DEF Close, Send, TunnelTypes, Thr
<1>3. UpInv' BY UpFrame DEF Close, Send, NumberOf, channelVars, TunnelTypes, Thr, Keys, Slots
<1>4. DownInv' BY DownFrame DEF Close, Send, NumberOf, channelVars, TunnelTypes, Thr, Keys, Slots
<1> QED BY <1>1, <1>2, <1>3, <1>4

LEMMA ReadInv == ASSUME TunnelInv, Read PROVE TunnelInv'
<1> USE DEF TunnelInv
<1>0. Send("read", 0) BY DEF Read
<1>1. TunnelTypes' BY <1>0, SendTyped DEF TunnelTypes, Read, channelVars, Thr
<1>2. Opening' BY OpeningOver DEF Read, Idle, Send, Opening, TunnelTypes, Thr
<1>3. UpInv' BY UpFrame DEF Read, Send, NumberOf, channelVars, TunnelTypes, Thr, Keys, Slots
<1>4. /\ cl'["read"] = "await" /\ cur'["read"] = 1 /\ cseq'.read = cseq.read + 1
      /\ req'[<<"read", 1>>] = [st |-> "net", seq |-> cseq.read + 1, code |-> 0, val |-> 0]
      /\ req'[<<"read", 2>>] = req[<<"read", 2>>] /\ req[<<"read", 2>>].st = "none"
      /\ cl["read"] = "ready" /\ ~died /\ UNCHANGED <<sseq, pend, lastRead, out, got, died>>
  BY DEF Read, Idle, Send, NumberOf, channelVars, TunnelTypes, Thr, Keys, Slots, DownInv, DownRequests
<1>5. DownInv' BY <1>4 DEF DownInv, DownRequests, DownData, Get, Kept, TunnelTypes, Keys
<1> QED BY <1>1, <1>2, <1>3, <1>5

LEMMA WriteInv == ASSUME TunnelInv, Write PROVE TunnelInv'
<1> USE DEF TunnelInv
<1>0. Send("write", sent + 1) /\ sent + 1 \in Nat BY DEF Write, TunnelTypes
<1>1. TunnelTypes' BY <1>0, SendTyped DEF TunnelTypes, Write, channelVars, Thr
<1>2. Opening' BY OpeningOver DEF Write, Idle, Send, Opening, TunnelTypes, Thr
<1>3. /\ cl'["write"] = "await" /\ cur'["write"] = 1 /\ cseq'.write = cseq.write + 1
      /\ req'[<<"write", 1>>] = [st |-> "net", seq |-> cseq.write + 1, code |-> 0, val |-> sent + 1]
      /\ req'[<<"write", 2>>] = req[<<"write", 2>>]
      /\ cl["write"] = "ready" /\ sent' = sent + 1 /\ UNCHANGED <<sseq, pend, into>>
  BY DEF Write, Idle, Send, NumberOf, channelVars, TunnelTypes, Thr, Keys, Slots
<1>4. UpInv'
  <2>1. sent \in Nat /\ cseq.write = sent /\ sseq.write = sent /\ Len(into) = sent /\ ~pend["write"]
        /\ req[<<"write", 2>>].st = "none"
    BY <1>3 DEF UpInv, TunnelTypes
  <2> QED BY <1>3, <2>1 DEF UpInv
<1>5. DownInv' BY DownFrame DEF Write, Send, NumberOf, channelVars, TunnelTypes, Thr, Keys, Slots
<1> QED BY <1>1, <1>2, <1>4, <1>5

LEMMA DieInv == ASSUME TunnelInv, Die PROVE TunnelInv'
<1> USE DEF TunnelInv
<1>1. \A r \in Slots : req'[r] = IF req[r].st = "answered" THEN NoReq ELSE req[r] BY DEF Die
<1>2. NoReq \in [st : States, seq : Nat, code : Nat, val : Nat] BY DEF NoReq, States
<1>3. req' \in [Slots -> [st : States, seq : Nat, code : Nat, val : Nat]]
  BY <1>1, <1>2 DEF TunnelTypes, Die
<1>4. TunnelTypes' BY <1>3 DEF TunnelTypes, Die, channelVars, Thr
<1>5. \A t \in Thr : cl'[t] = "off" BY DEF Die
<1>6. Opening' BY <1>5, OpeningOver DEF Thr
<1>7. UpInv' BY <1>1, <1>5, SlotTyped DEF UpInv, Die, channelVars, Thr, NoReq
<1>8. DownInv' BY <1>1, <1>5, SlotTyped DEF DownInv, DownRequests, DownData, Get, Kept, Die, channelVars, Thr, NoReq
<1> QED BY <1>4, <1>6, <1>7, <1>8

LEMMA NoReqTyped == NoReq \in [st : States, seq : Nat, code : Nat, val : Nat] /\ NoReq.st = "none"
BY DEF NoReq, States

LEMMA SlotUpdate ==
    ASSUME TunnelTypes, NEW t \in Thr, NEW i \in {1, 2}, NEW v, req' = [req EXCEPT ![<<t, i>>] = v]
    PROVE  /\ req'[<<t, i>>] = v
           /\ \A u \in Thr, j \in {1, 2} : u # t \/ j # i => req'[<<u, j>>] = req[<<u, j>>]
BY SlotTyped DEF TunnelTypes

LEMMA AnswerTyped ==
    ASSUME TunnelTypes, NEW t \in Thr, Answer(t)
    PROVE  TunnelTypes'
<1>1. req' \in [Slots -> [st : States, seq : Nat, code : Nat, val : Nat]]
  BY NoReqTyped, SlotTyped DEF Answer, TunnelTypes
<1>2. cl' \in [Thr -> {"off", "ready", "await", "done", "failed"}]
  BY DEF Answer, TunnelTypes, Opened, Thr
<1>3. req[<<t, cur[t]>>].val \in Nat BY SlotTyped DEF TunnelTypes
<1>4. got' \in Seq(Nat) BY <1>3 DEF Answer, TunnelTypes
<1> QED BY <1>1, <1>2, <1>4 DEF TunnelTypes, Answer, channelVars

LEMMA AnswerInv == ASSUME TunnelInv, NEW t \in Thr, Answer(t) PROVE TunnelInv'
<1> USE DEF TunnelInv
<1>1. TunnelTypes' BY AnswerTyped
<1>2. CASE t \in {"hb", "del"}
  <2>1. /\ cl' = [cl EXCEPT ![t] = IF t = "del" THEN "done" ELSE "ready"] /\ got' = got
        /\ req' = [req EXCEPT ![<<t, cur[t]>>] = NoReq]
        /\ UNCHANGED <<kind, cur, cseq, cclosed, died, sent, faults, channelVars>>
    BY <1>2 DEF Answer
  <2>2. \A i \in {1, 2} : req'[<<"write", i>>] = req[<<"write", i>>] /\ req'[<<"read", i>>] = req[<<"read", i>>]
    BY <1>2, <2>1, SlotTyped DEF TunnelTypes, Thr
  <2>3. cl'["conn"] = cl["conn"] /\ cl'["read"] = cl["read"] /\ cl'["write"] = cl["write"]
    BY <1>2, <2>1 DEF TunnelTypes, Thr
  <2>4. Opening' BY <2>1, <2>2, <2>3, OpeningFrame DEF channelVars
  <2>5. UpInv' BY <2>1, <2>2, <2>3, UpFrame DEF channelVars
  <2>6. DownInv' BY <2>1, <2>2, <2>3, DownFrame DEF channelVars
  <2> QED BY <1>1, <2>4, <2>5, <2>6
<1>3. CASE t = "write"
  <2>1. /\ cl' = [cl EXCEPT !["write"] = "ready"] /\ got' = got
        /\ req' = [req EXCEPT ![<<"write", cur["write"]>>] = NoReq]
        /\ req[<<"write", cur["write"]>>].st = "answered" /\ req[<<"write", cur["write"]>>].code = 200
        /\ cl["write"] = "await"
        /\ UNCHANGED <<kind, cur, cseq, cclosed, died, sent, faults, channelVars>>
    BY <1>3 DEF Answer, Good, Listens
  <2>2. cur["write"] = 1 BY DEF UpInv
  <2>3. \A i \in {1, 2} : req'[<<"read", i>>] = req[<<"read", i>>]
    BY <2>1, SlotTyped DEF TunnelTypes, Thr
  <2>4. req'[<<"write", 1>>] = NoReq /\ req'[<<"write", 2>>] = req[<<"write", 2>>]
    BY <2>1, <2>2, SlotTyped DEF TunnelTypes, Thr
  <2>5. cl'["conn"] = cl["conn"] /\ cl'["read"] = cl["read"] /\ cl'["write"] = "ready"
    BY <2>1 DEF TunnelTypes, Thr
  <2>6. Opening' BY <2>1, <2>5, OpeningOver DEF Opening
  <2>7. UpInv' BY <2>1, <2>2, <2>4, <2>5, NoReqTyped DEF UpInv, channelVars
  <2>8. DownInv' BY <2>1, <2>3, <2>5, DownFrame DEF channelVars
  <2> QED BY <1>1, <2>6, <2>7, <2>8
<1>4. CASE t = "read"
  <2> DEFINE i == cur["read"]
             a == req[<<"read", i>>]
  <2>1. /\ cl' = [cl EXCEPT !["read"] = "ready"] /\ cl["read"] = "await"
        /\ got' = IF a.code = 200 THEN Append(got, a.val) ELSE got
        /\ req' = [req EXCEPT ![<<"read", i>>] = NoReq]
        /\ a.st = "answered" /\ a.code \in {200, 408}
        /\ UNCHANGED <<kind, cur, cseq, cclosed, died, sent, faults, channelVars>>
    BY <1>4 DEF Answer, Good, Listens
  <2>2. i \in {1, 2} BY DEF TunnelTypes, Thr
  <2>3. req'[<<"read", i>>] = NoReq /\ \A j \in {1, 2} : j # i => req'[<<"read", j>>] = req[<<"read", j>>]
    <3>1. "read" \in Thr /\ req' = [req EXCEPT ![<<"read", i>>] = NoReq] /\ TunnelTypes BY <2>1 DEF Thr
    <3> HIDE DEF i, TunnelInv
    <3>2. \A u \in Thr, j \in {1, 2} : u # "read" \/ j # i => req'[<<u, j>>] = req[<<u, j>>]
      BY <2>2, <3>1, SlotUpdate
    <3>3. <<"read", i>> \in Slots BY <2>2, <3>1, SlotTyped
    <3>4. req'[<<"read", i>>] = NoReq
      BY <3>1, <3>3 DEF TunnelTypes
    <3> QED BY <3>1, <3>2, <3>4
  <2>4. \A j \in {1, 2} : req'[<<"write", j>>] = req[<<"write", j>>]
    BY <2>1, <2>2, SlotTyped DEF TunnelTypes, Thr
  <2>5. cl'["conn"] = cl["conn"] /\ cl'["read"] = "ready" /\ cl'["write"] = cl["write"]
    BY <2>1 DEF TunnelTypes, Thr
  <2>6. Opening' BY <2>1, <2>5, OpeningOver DEF Opening
  <2>7. UpInv' BY <2>1, <2>4, <2>5, UpFrame DEF channelVars
  <2>8. Len(got) \in Nat /\ out \in Nat /\ cseq.read \in Nat /\ sseq.read \in Nat
    BY DEF TunnelTypes, Keys
  <2>9. /\ cseq.read = sseq.read /\ out = Len(got')
    <3>1. CASE a.code = 200
      <4>1. cseq.read = sseq.read /\ lastRead # 0 BY <2>1, <2>2, <3>1 DEF DownInv, DownData, Kept
      <4>2. out = Len(got) + 1 BY <2>1, <4>1 DEF DownInv, DownData
      <4>3. a.val \in Nat BY <2>2, SlotTyped DEF TunnelTypes, Thr
      <4>4. Len(got') = Len(got) + 1 BY <2>1, <3>1, <4>3 DEF TunnelTypes
      <4> QED BY <4>1, <4>2, <4>4
    <3>2. CASE a.code = 408
      <4>1. cseq.read = sseq.read /\ lastRead = 0 BY <2>1, <2>2, <3>2 DEF DownInv, DownData, Kept
      <4>2. out = Len(got) BY <2>1, <2>8, <4>1 DEF DownInv, DownData
      <4> QED BY <2>1, <3>2, <4>1, <4>2
    <3> QED BY <2>1, <3>1, <3>2
  <2>10. req'[<<"read", 2>>].st = "none"
    BY <2>2, <2>3, NoReqTyped DEF DownInv, DownRequests
  <2>11. DownInv'
    <3>1. CASE i = 1 BY <2>1, <2>3, <2>5, <2>8, <2>9, <2>10, <3>1, NoReqTyped
                     DEF DownInv, DownRequests, DownData, Get, Kept, channelVars
    <3>2. CASE i = 2 BY <2>1, <2>3, <2>5, <2>8, <2>9, <2>10, <3>2, NoReqTyped
                     DEF DownInv, DownRequests, DownData, Get, Kept, channelVars
    <3> QED BY <2>2, <3>1, <3>2
  <2> QED BY <1>1, <2>6, <2>7, <2>11
<1>5. CASE t = "conn"
  <2>1. /\ cl' = Opened(req[<<"conn", cur["conn"]>>].seq) /\ got' = got
        /\ req' = [req EXCEPT ![<<"conn", cur["conn"]>>] = NoReq]
        /\ cl["conn"] = "await"
        /\ UNCHANGED <<kind, cur, cseq, cclosed, died, sent, faults, channelVars>>
    BY <1>5 DEF Answer, Listens
  <2>2. \A i \in {1, 2} : req'[<<"write", i>>] = req[<<"write", i>>] /\ req'[<<"read", i>>] = req[<<"read", i>>]
    BY <2>1, SlotTyped DEF TunnelTypes, Thr
  <2>3. CASE req[<<"conn", cur["conn"]>>].seq = 1
    <3>1. cl'["conn"] = "ready" /\ cl'["read"] = cl["read"] /\ cl'["write"] = cl["write"]
      BY <2>1, <2>3 DEF TunnelTypes, Thr, Opened
    <3>2. Opening' BY <2>1, <2>2, <3>1, OpeningFrame DEF channelVars
    <3>3. UpInv' BY <2>1, <2>2, <3>1, UpFrame DEF channelVars
    <3>4. DownInv' BY <2>1, <2>2, <3>1, DownFrame DEF channelVars
    <3> QED BY <1>1, <3>2, <3>3, <3>4
  <2>4. CASE req[<<"conn", cur["conn"]>>].seq # 1
    <3>1. cl'["conn"] = "done" /\ cl'["read"] = "ready" /\ cl'["write"] = "ready"
      BY <2>1, <2>4 DEF Opened, Thr
    <3>2. Opening' BY <3>1, OpeningOver
    <3>3. /\ sent = 0 /\ into = <<>> /\ sseq.write = 0 /\ req[<<"write", 1>>].st = "none"
          /\ cseq.read = 0 /\ sseq.read = 0 /\ out = 0 /\ got = <<>>
          /\ req[<<"read", 1>>].st = "none" /\ req[<<"read", 2>>].st = "none"
      BY <2>1 DEF Opening
    <3>4. Len(<<>>) = 0 OBVIOUS
    <3>5. UpInv' BY <2>1, <2>2, <3>1, <3>3, <3>4 DEF UpInv, channelVars
    <3>6. DownInv' BY <2>1, <2>2, <3>1, <3>3, <3>4 DEF DownInv, DownRequests, DownData, Get, Kept, channelVars
    <3> QED BY <1>1, <3>2, <3>5, <3>6
  <2> QED BY <2>3, <2>4
<1> QED BY <1>2, <1>3, <1>4, <1>5 DEF Thr

LEMMA FailsEffect ==
    ASSUME TunnelTypes, NEW t \in Thr, Fails(t)
    PROVE  /\ TunnelTypes'
           /\ cl'[t] = "failed" /\ \A u \in Thr \ {t, "del"} : cl'[u] = cl[u]
           /\ cseq'.read = cseq.read /\ cseq'.write = cseq.write
           /\ \A u \in Thr \ {t, "del"}, i \in {1, 2} : req'[<<u, i>>] = req[<<u, i>>]
           /\ t # "del" => \A i \in {1, 2} : req'[<<t, i>>] =
                 IF i = cur[t] /\ req[<<t, i>>].st = "answered" THEN NoReq ELSE req[<<t, i>>]
<1> DEFINE closes == t = "hb" /\ ~cclosed
           d == [NoReq EXCEPT !.st = "net", !.seq = cseq.conn]
           r == <<t, cur[t]>>
<1>1. d \in [st : States, seq : Nat, code : Nat, val : Nat] BY DEF NoReq, States, TunnelTypes, Keys
<1> HIDE DEF d
<1>2. req' = [x \in Slots |-> CASE x = r /\ req[x].st = "answered" -> NoReq
                           [] closes /\ x = <<"del", 1>> -> d
                           [] OTHER -> req[x]]
  BY DEF Fails, d
<1>3. cur[t] \in {1, 2} BY DEF TunnelTypes
<1>4. req' \in [Slots -> [st : States, seq : Nat, code : Nat, val : Nat]] BY <1>1, <1>2, NoReqTyped DEF TunnelTypes
<1>5. cl' \in [Thr -> {"off", "ready", "await", "done", "failed"}] BY DEF Fails, TunnelTypes
<1>6. cseq' \in [Keys -> Nat] /\ cseq'.read = cseq.read /\ cseq'.write = cseq.write
  <2>1. cseq' = cseq \/ cseq' = [cseq EXCEPT !["conn"] = cseq["conn"] + 1] BY DEF Fails
  <2> QED BY <2>1 DEF TunnelTypes, Keys
<1>7. TunnelTypes' BY <1>4, <1>5, <1>6 DEF TunnelTypes, Fails, channelVars
<1>8. cl'[t] = "failed" /\ \A u \in Thr \ {t, "del"} : cl'[u] = cl[u] BY DEF Fails
<1>9. \A u \in Thr \ {t, "del"}, i \in {1, 2} : req'[<<u, i>>] = req[<<u, i>>] BY <1>2, SlotTyped
<1>10. t # "del" => \A i \in {1, 2} : req'[<<t, i>>] =
                 IF i = cur[t] /\ req[<<t, i>>].st = "answered" THEN NoReq ELSE req[<<t, i>>]
  BY <1>2, SlotTyped
<1> QED BY <1>6, <1>7, <1>8, <1>9, <1>10

LEMMA FailsInv == ASSUME TunnelInv, NEW t \in Thr, Fails(t), cl[t] = "await" PROVE TunnelInv'
<1> USE DEF TunnelInv
<1>0. UNCHANGED <<kind, cur, died, sent, got, channelVars>> BY DEF Fails
<1>1. TunnelTypes' BY FailsEffect
<1>2. cseq'.read = cseq.read /\ cseq'.write = cseq.write BY FailsEffect
<1>3. CASE t \in {"hb", "del", "conn"}
  <2>1. \A i \in {1, 2} : req'[<<"write", i>>] = req[<<"write", i>>] /\ req'[<<"read", i>>] = req[<<"read", i>>]
    BY <1>3, FailsEffect DEF Thr
  <2>2. cl'["read"] = cl["read"] /\ cl'["write"] = cl["write"]
    BY <1>3, FailsEffect DEF Thr
  <2>3. cl'["conn"] \in {"ready", "await"} => cl["conn"] \in {"ready", "await"}
    BY <1>3, FailsEffect DEF Thr
  <2>4. Opening' BY <1>0, <1>2, <2>1, <2>2, <2>3, OpeningFrame DEF channelVars
  <2>5. UpInv' BY <1>0, <1>2, <2>1, <2>2, UpFrame DEF channelVars
  <2>6. DownInv' BY <1>0, <1>2, <2>1, <2>2, DownFrame DEF channelVars
  <2> QED BY <1>1, <2>4, <2>5, <2>6
<1>4. CASE t = "write"
  <2>1. \A i \in {1, 2} : req'[<<"read", i>>] = req[<<"read", i>>]
    BY <1>4, FailsEffect DEF Thr
  <2>2. cl'["conn"] = cl["conn"] /\ cl'["read"] = cl["read"] /\ cl'["write"] = "failed"
    BY <1>4, FailsEffect DEF Thr
  <2>3. \A i \in {1, 2} : req'[<<"write", i>>] =
            IF i = cur["write"] /\ req[<<"write", i>>].st = "answered" THEN NoReq ELSE req[<<"write", i>>]
    BY <1>4, FailsEffect DEF Thr
  <2>4. Opening' BY <1>4, <2>2, OpeningOver DEF Opening
  <2>5. UpInv' BY <1>0, <1>2, <2>2, <2>3, NoReqTyped DEF UpInv, channelVars
  <2>6. DownInv' BY <1>0, <1>2, <2>1, <2>2, DownFrame DEF channelVars
  <2> QED BY <1>1, <2>4, <2>5, <2>6
<1>5. CASE t = "read"
  <2>1. \A i \in {1, 2} : req'[<<"write", i>>] = req[<<"write", i>>]
    BY <1>5, FailsEffect DEF Thr
  <2>2. cl'["conn"] = cl["conn"] /\ cl'["read"] = "failed" /\ cl'["write"] = cl["write"]
    BY <1>5, FailsEffect DEF Thr
  <2>3. \A i \in {1, 2} : req'[<<"read", i>>] =
            IF i = cur["read"] /\ req[<<"read", i>>].st = "answered" THEN NoReq ELSE req[<<"read", i>>]
    BY <1>5, FailsEffect DEF Thr
  <2>4. Opening' BY <1>5, <2>2, OpeningOver DEF Opening
  <2>5. UpInv' BY <1>0, <1>2, <2>1, <2>2, UpFrame DEF channelVars
  <2>6. DownInv' BY <1>0, <1>2, <2>2, <2>3, NoReqTyped
                 DEF DownInv, DownRequests, DownData, Get, Kept, channelVars
  <2> QED BY <1>1, <2>4, <2>5, <2>6
<1> QED BY <1>3, <1>4, <1>5 DEF Thr

LEMMA RetriedInv == ASSUME TunnelInv, NEW t \in Thr, Retried(t) PROVE TunnelInv'
<1> USE DEF TunnelInv
<1> DEFINE n == [req[<<t, 1>>] EXCEPT !.st = "net", !.code = 0, !.val = 0]
           f == [req EXCEPT ![<<t, 2>>] = n]
<1>0. /\ UNCHANGED <<kind, cl, cseq, cclosed, died, sent, got, channelVars>> /\ t \in {"conn", "read"}
      /\ cl[t] = "await" /\ cur[t] = 1 /\ ~died /\ cur' = [cur EXCEPT ![t] = 2]
      /\ req' = [f EXCEPT ![<<t, 1>>] = IF @.st = "answered" THEN NoReq ELSE @]
  BY DEF Retried, Listens
<1>1. /\ req[<<t, 1>>] \in [st : States, seq : Nat, code : Nat, val : Nat]
      /\ <<t, 1>> \in Slots /\ <<t, 2>> \in Slots
  BY SlotTyped DEF TunnelTypes
<1>2. n \in [st : States, seq : Nat, code : Nat, val : Nat] /\ n.st = "net" /\ n.seq = req[<<t, 1>>].seq
  BY <1>1 DEF States
<1> HIDE DEF n
<1>3. f \in [Slots -> [st : States, seq : Nat, code : Nat, val : Nat]] /\ f[<<t, 2>>] = n
  BY <1>1, <1>2 DEF TunnelTypes
<1>4. \A u \in Thr, i \in {1, 2} : u # t \/ i = 1 => f[<<u, i>>] = req[<<u, i>>]
  BY <1>1, <1>2, SlotTyped DEF TunnelTypes
<1> HIDE DEF f
<1>5. req' \in [Slots -> [st : States, seq : Nat, code : Nat, val : Nat]] /\ req'[<<t, 2>>] = n
  BY <1>0, <1>1, <1>3, NoReqTyped
<1>6. \A u \in Thr, i \in {1, 2} : u # t => req'[<<u, i>>] = req[<<u, i>>]
  BY <1>0, <1>3, <1>4, SlotTyped
<1>7. req'[<<t, 1>>] = IF req[<<t, 1>>].st = "answered" THEN NoReq ELSE req[<<t, 1>>]
  BY <1>0, <1>1, <1>3, <1>4
<1>8. TunnelTypes' BY <1>0, <1>5 DEF TunnelTypes, channelVars
<1>9. cur'["write"] = cur["write"] BY <1>0 DEF TunnelTypes, Thr
<1>10. UpInv'
  <2>1. req'[<<"write", 1>>] = req[<<"write", 1>>] /\ req'[<<"write", 2>>] = req[<<"write", 2>>]
    BY <1>0, <1>6 DEF Thr
  <2> QED BY <1>0, <1>9, <2>1, UpFrame DEF channelVars
<1>11. CASE t = "conn"
  <2>1. /\ req'[<<"write", 1>>] = req[<<"write", 1>>] /\ cur'["read"] = cur["read"]
        /\ req'[<<"read", 1>>] = req[<<"read", 1>>] /\ req'[<<"read", 2>>] = req[<<"read", 2>>]
    BY <1>0, <1>6, <1>11 DEF Thr, TunnelTypes
  <2>2. Opening' BY <1>0, <2>1, OpeningFrame DEF channelVars
  <2>3. DownInv' BY <1>0, <2>1, DownFrame DEF channelVars
  <2> QED BY <1>8, <1>10, <2>2, <2>3
<1>12. CASE t = "read"
  <2>1. Opening' BY <1>0, <1>12, OpeningOver DEF Opening
  <2>2. cur'["read"] = 2 BY <1>0, <1>12 DEF TunnelTypes, Thr
  <2>3. DownInv' BY <1>0, <1>2, <1>5, <1>7, <1>12, <2>2, NoReqTyped
                 DEF DownInv, DownRequests, DownData, Get, Kept, channelVars
  <2> QED BY <1>8, <1>10, <2>1, <2>3
<1> QED BY <1>0, <1>11, <1>12

-----------------------------------------------------------------------------
(* The server's steps.                                                     *)

LEMMA GotoEffect ==
    ASSUME TunnelTypes, NEW t \in Thr, NEW i \in {1, 2}, NEW s \in States, Goto(<<t, i>>, s)
    PROVE  /\ req' \in [Slots -> [st : States, seq : Nat, code : Nat, val : Nat]]
           /\ req'[<<t, i>>].st = s /\ req'[<<t, i>>].seq = req[<<t, i>>].seq /\ req'[<<t, i>>].val = req[<<t, i>>].val
           /\ \A u \in Thr, j \in {1, 2} : u # t \/ j # i => req'[<<u, j>>] = req[<<u, j>>]
<1> DEFINE n == [req[<<t, i>>] EXCEPT !.st = s]
<1>1. req[<<t, i>>] \in [st : States, seq : Nat, code : Nat, val : Nat] /\ <<t, i>> \in Slots
  BY SlotTyped DEF TunnelTypes
<1>2. n \in [st : States, seq : Nat, code : Nat, val : Nat]
      /\ n.st = s /\ n.seq = req[<<t, i>>].seq /\ n.val = req[<<t, i>>].val
  BY <1>1
<1>3. req' = [req EXCEPT ![<<t, i>>] = n] BY DEF Goto
<1> HIDE DEF n
<1>4. req'[<<t, i>>] = n BY <1>1, <1>3 DEF TunnelTypes
<1>5. \A u \in Thr, j \in {1, 2} : u # t \/ j # i => req'[<<u, j>>] = req[<<u, j>>]
  BY <1>3, SlotUpdate
<1>6. req' \in [Slots -> [st : States, seq : Nat, code : Nat, val : Nat]] BY <1>1, <1>2, <1>3 DEF TunnelTypes
<1> QED BY <1>2, <1>4, <1>5, <1>6

\* Does the client still listen to this request?
Heard(t, i) == cl[t] = "await" /\ cur[t] = i /\ ~died

LEMMA AnsweredTyped ==
    ASSUME TunnelTypes, NEW t \in Thr, NEW i \in {1, 2}, NEW c \in Nat, NEW v \in Nat
    PROVE  Answered(<<t, i>>, c, v) \in [st : States, seq : Nat, code : Nat, val : Nat]
<1>1. req[<<t, i>>].seq \in Nat BY SlotTyped DEF TunnelTypes
<1> QED BY <1>1, NoReqTyped DEF Answered, States

LEMMA ReplyEffect ==
    ASSUME TunnelTypes, NEW t \in Thr, NEW i \in {1, 2}, NEW c \in Nat, NEW v \in Nat, Reply(<<t, i>>, c, v)
    PROVE  /\ req' \in [Slots -> [st : States, seq : Nat, code : Nat, val : Nat]]
           /\ req'[<<t, i>>] = Answered(<<t, i>>, c, v)
           /\ \A u \in Thr, j \in {1, 2} : u # t \/ j # i => req'[<<u, j>>] = req[<<u, j>>]
<1> DEFINE n == Answered(<<t, i>>, c, v)
<1>1. n \in [st : States, seq : Nat, code : Nat, val : Nat] BY AnsweredTyped
<1>2. req' = [req EXCEPT ![<<t, i>>] = n] BY DEF Reply
<1>3. <<t, i>> \in Slots BY SlotTyped
<1> HIDE DEF n
<1>4. req'[<<t, i>>] = n BY <1>2, <1>3 DEF TunnelTypes
<1>5. \A u \in Thr, j \in {1, 2} : u # t \/ j # i => req'[<<u, j>>] = req[<<u, j>>]
  BY <1>2, SlotUpdate
<1>6. req' \in [Slots -> [st : States, seq : Nat, code : Nat, val : Nat]] BY <1>1, <1>2, <1>3 DEF TunnelTypes
<1> QED BY <1>4, <1>5, <1>6 DEF n

\* Where a waiting request goes on when it is woken.
Awake(st) == CASE st = "wait0" -> "loop" [] st = "wait1" -> "woken" [] OTHER -> st

\* A broadcast answers its leader, wakes the other request of the thread and
\* touches no other thread.
LEMMA BroadcastReq ==
    ASSUME TunnelTypes, NEW t \in Thr, NEW i \in {1, 2}, NEW c \in Nat, NEW v \in Nat, Broadcast(t, <<t, i>>, c, v)
    PROVE  /\ req' \in [Slots -> [st : States, seq : Nat, code : Nat, val : Nat]]
           /\ req'[<<t, i>>] = Answered(<<t, i>>, c, v)
           /\ \A u \in Thr \ {t}, j \in {1, 2} : req'[<<u, j>>] = req[<<u, j>>]
           /\ \A j \in {1, 2} \ {i} : req'[<<t, j>>] = [req[<<t, j>>] EXCEPT !.st = Awake(req[<<t, j>>].st)]
<1> DEFINE n == Answered(<<t, i>>, c, v)
<1>1. n \in [st : States, seq : Nat, code : Nat, val : Nat] BY AnsweredTyped
<1>2. \A q \in [st : States, seq : Nat, code : Nat, val : Nat] :
         [q EXCEPT !.st = Awake(q.st)] \in [st : States, seq : Nat, code : Nat, val : Nat]
  <2>1. \A st \in States : Awake(st) \in States BY DEF States, Awake
  <2> QED BY <2>1
<1>3. req' = [x \in Slots |-> IF x = <<t, i>> THEN n
                            ELSE IF x[1] # t THEN req[x] ELSE [req[x] EXCEPT !.st = Awake(req[x].st)]]
  BY DEF Broadcast, Awake
<1> HIDE DEF n
<1>4. req' \in [Slots -> [st : States, seq : Nat, code : Nat, val : Nat]] BY <1>1, <1>2, <1>3 DEF TunnelTypes
<1>5. req'[<<t, i>>] = n BY <1>3, SlotTyped
<1>6. \A u \in Thr \ {t}, j \in {1, 2} : req'[<<u, j>>] = req[<<u, j>>] BY <1>3, SlotTyped
<1>7. \A j \in {1, 2} \ {i} : req'[<<t, j>>] = [req[<<t, j>>] EXCEPT !.st = Awake(req[<<t, j>>].st)]
  BY <1>3, SlotTyped
<1> QED BY <1>4, <1>5, <1>6, <1>7 DEF n

LEMMA BroadcastEffect ==
    ASSUME TunnelTypes, NEW t \in Thr, NEW i \in {1, 2}, NEW c \in Nat, NEW v \in Nat, Broadcast(t, <<t, i>>, c, v)
    PROVE  /\ req' \in [Slots -> [st : States, seq : Nat, code : Nat, val : Nat]]
           /\ pend' \in [Thr -> BOOLEAN] /\ pend'[t] = FALSE /\ \A u \in Thr \ {t} : pend'[u] = pend[u]
           /\ req'[<<t, i>>] = Answered(<<t, i>>, c, v)
           /\ \A u \in Thr \ {t}, j \in {1, 2} : req'[<<u, j>>] = req[<<u, j>>]
<1>1. /\ req' \in [Slots -> [st : States, seq : Nat, code : Nat, val : Nat]]
      /\ req'[<<t, i>>] = Answered(<<t, i>>, c, v)
      /\ \A u \in Thr \ {t}, j \in {1, 2} : req'[<<u, j>>] = req[<<u, j>>]
  <2>1. req' \in [Slots -> [st : States, seq : Nat, code : Nat, val : Nat]] BY BroadcastReq
  <2>2. req'[<<t, i>>] = Answered(<<t, i>>, c, v) BY SlotTyped DEF Broadcast
  <2>3. \A u \in Thr \ {t}, j \in {1, 2} : req'[<<u, j>>] = req[<<u, j>>] BY BroadcastReq
  <2> QED BY <2>1, <2>2, <2>3
<1>2. pend' \in [Thr -> BOOLEAN] /\ pend'[t] = FALSE /\ \A u \in Thr \ {t} : pend'[u] = pend[u]
  BY DEF Broadcast, TunnelTypes
<1> QED BY <1>1, <1>2

LEMMA BroadcastWakes ==
    ASSUME TunnelTypes, NEW t \in Thr, NEW i \in {1, 2}, NEW c \in Nat, NEW v \in Nat, Broadcast(t, <<t, i>>, c, v),
           NEW j \in {1, 2}, j # i
    PROVE  /\ req'[<<t, j>>].st = Awake(req[<<t, j>>].st)
           /\ req'[<<t, j>>].seq = req[<<t, j>>].seq /\ req'[<<t, j>>].code = req[<<t, j>>].code
<1>0. \A k \in {1, 2} \ {i} : req'[<<t, k>>] = [req[<<t, k>>] EXCEPT !.st = Awake(req[<<t, k>>].st)]
  BY BroadcastReq, Zenon
<1>1. req'[<<t, j>>] = [req[<<t, j>>] EXCEPT !.st = Awake(req[<<t, j>>].st)] BY ONLY <1>0, j \in {1, 2}, j # i
<1>2. req[<<t, j>>] \in [st : States, seq : Nat, code : Nat, val : Nat] BY SlotTyped DEF TunnelTypes
<1> QED BY <1>1, <1>2

\* A step for a thread other than the reader and the writer.
LEMMA Elsewhere ==
    ASSUME TunnelInv, TunnelTypes', NEW t \in Thr \ {"read", "write"},
           UNCHANGED <<cl, cur, cseq, died, sent, got, lastRead, out, into, sseq.read, sseq.write>>,
           \A u \in Thr \ {t} : pend'[u] = pend[u],
           \A u \in Thr \ {t}, j \in {1, 2} : req'[<<u, j>>] = req[<<u, j>>]
    PROVE  TunnelInv'
<1>1. /\ UNCHANGED <<req[<<"write", 1>>], req[<<"write", 2>>], req[<<"read", 1>>], req[<<"read", 2>>]>>
      /\ UNCHANGED <<pend["read"], pend["write"], cl["read"], cl["write"], cl["conn"], cur["read"], cur["write"]>>
      /\ UNCHANGED <<cseq.read, cseq.write>>
  BY DEF Thr
<1>2. Opening' BY <1>1, OpeningFrame DEF TunnelInv
<1>3. UpInv' BY <1>1, UpFrame DEF TunnelInv
<1>4. DownInv' BY <1>1, DownFrame DEF TunnelInv
<1> QED BY <1>2, <1>3, <1>4 DEF TunnelInv

\* The answers a request may get without having done anything: to a GET what is
\* kept for its number, to a POST that the channel is gone.
RightAnswer(t, c, v) ==
    /\ t = "read" /\ c = 200 => cseq.read = sseq.read /\ v = lastRead /\ lastRead # 0
    /\ t = "read" /\ c = 408 => cseq.read = sseq.read /\ lastRead = 0
    /\ t = "write" => c = 410

LEMMA ReplyInv ==
    ASSUME TunnelInv, NEW t \in Thr, NEW i \in {1, 2}, NEW c \in Nat, NEW v \in Nat, Reply(<<t, i>>, c, v),
           req[<<t, i>>].st # "none",
           UNCHANGED <<clientVars, sseq, pend, lastRead, out, into>>,
           RightAnswer(t, c, v), t = "write" => req[<<t, i>>].st \in {"net", "loop"}
    PROVE  TunnelInv'
<1> DEFINE a == Answered(<<t, i>>, c, v)
<1>0. TunnelTypes BY DEF TunnelInv
<1>1. /\ req' \in [Slots -> [st : States, seq : Nat, code : Nat, val : Nat]] /\ req'[<<t, i>>] = a
      /\ \A u \in Thr, j \in {1, 2} : u # t \/ j # i => req'[<<u, j>>] = req[<<u, j>>]
  <2>1. req' \in [Slots -> [st : States, seq : Nat, code : Nat, val : Nat]] BY <1>0, ReplyEffect
  <2>2. req'[<<t, i>>] = a BY <1>0, ReplyEffect
  <2>3. \A u \in Thr, j \in {1, 2} : u # t \/ j # i => req'[<<u, j>>] = req[<<u, j>>] BY <1>0, ReplyEffect
  <2> QED BY <2>1, <2>2, <2>3
<1>2. /\ Heard(t, i) => a = [st |-> "answered", seq |-> req[<<t, i>>].seq, code |-> c, val |-> v]
      /\ ~Heard(t, i) => a = NoReq
  BY DEF Answered, Listens, Heard
<1> HIDE DEF a
<1> USE DEF TunnelInv
<1>3. TunnelTypes' BY <1>1 DEF TunnelTypes, clientVars
<1>4. CASE t \notin {"read", "write"} BY <1>1, <1>3, <1>4, Elsewhere DEF clientVars
<1>5. CASE t = "write"
  <2>1. i = 1 BY <1>5 DEF UpInv
  <2>2. Opening' BY <1>5, <2>1, OpeningOver DEF Opening, clientVars
  <2>3. req'[<<"write", 1>>] = a /\ req'[<<"write", 2>>] = req[<<"write", 2>>] BY <1>1, <1>5, <2>1
  <2>4. UpInv' BY <1>2, NoReqTyped, <1>5, <2>1, <2>3 DEF UpInv, clientVars, RightAnswer, Heard
  <2>5. DownInv' BY <1>1, <1>5, DownFrame DEF clientVars, Thr
  <2> QED BY <1>3, <2>2, <2>4, <2>5
<1>6. CASE t = "read"
  <2>1. Opening' BY <1>6, OpeningOver DEF Opening, clientVars
  <2>2. UpInv' BY <1>1, <1>6, UpFrame DEF clientVars, Thr
  <2>3. req'[<<"read", i>>] = a /\ \A j \in {1, 2} \ {i} : req'[<<"read", j>>] = req[<<"read", j>>] BY <1>1, <1>6
  <2>4. DownInv'
    <3>1. CASE i = 1
      <4>1. req'[<<"read", 1>>] = a /\ req'[<<"read", 2>>] = req[<<"read", 2>>] BY <2>3, <3>1
      <4> QED BY <1>2, NoReqTyped, <1>6, <3>1, <4>1 DEF DownInv, DownRequests, DownData, Get, Kept, clientVars, RightAnswer, Heard
    <3>2. CASE i = 2
      <4>1. req'[<<"read", 2>>] = a /\ req'[<<"read", 1>>] = req[<<"read", 1>>] BY <2>3, <3>2
      <4> QED BY <1>2, NoReqTyped, <1>6, <3>2, <4>1 DEF DownInv, DownRequests, DownData, Get, Kept, clientVars, RightAnswer, Heard
    <3> QED BY <3>1, <3>2
  <2> QED BY <1>3, <2>1, <2>2, <2>4
<1> QED BY <1>4, <1>5, <1>6

\* A request that goes on without leading.
LEMMA GotoInv ==
    ASSUME TunnelInv, NEW t \in Thr, NEW i \in {1, 2}, NEW s \in States \ {"none", "answered", "work"},
           Goto(<<t, i>>, s), req[<<t, i>>].st # "none",
           UNCHANGED <<clientVars, sseq, pend, lastRead, out, into>>,
           t = "write" => s = "loop" /\ req[<<t, i>>].st \in {"net", "loop"},
           t = "read" => s # "closing"
    PROVE  TunnelInv'
<1> USE DEF TunnelInv
<1>1. /\ req' \in [Slots -> [st : States, seq : Nat, code : Nat, val : Nat]]
      /\ req'[<<t, i>>].st = s /\ req'[<<t, i>>].seq = req[<<t, i>>].seq /\ req'[<<t, i>>].val = req[<<t, i>>].val
      /\ \A u \in Thr, j \in {1, 2} : u # t \/ j # i => req'[<<u, j>>] = req[<<u, j>>]
  BY GotoEffect
<1>2. TunnelTypes' BY <1>1 DEF TunnelTypes, clientVars
<1>3. CASE t \notin {"read", "write"} BY <1>1, <1>2, <1>3, Elsewhere DEF clientVars
<1>4. CASE t = "write"
  <2>1. i = 1 BY <1>4 DEF UpInv
  <2>2. Opening' BY <1>4, <2>1, OpeningOver DEF Opening, clientVars
  <2>3. /\ req'[<<"write", 1>>].st = "loop" /\ req'[<<"write", 1>>].seq = req[<<"write", 1>>].seq
        /\ req'[<<"write", 1>>].val = req[<<"write", 1>>].val /\ req'[<<"write", 2>>] = req[<<"write", 2>>]
    BY <1>1, <1>4, <2>1
  <2>4. UpInv' BY <1>4, <2>1, <2>3 DEF UpInv, clientVars
  <2>5. DownInv' BY <1>1, <1>4, DownFrame DEF clientVars, Thr
  <2> QED BY <1>2, <2>2, <2>4, <2>5
<1>5. CASE t = "read"
  <2>1. Opening' BY <1>5, OpeningOver DEF Opening, clientVars
  <2>2. UpInv' BY <1>1, <1>5, UpFrame DEF clientVars, Thr
  <2>3. /\ req'[<<"read", i>>].st = s /\ req'[<<"read", i>>].seq = req[<<"read", i>>].seq
        /\ \A j \in {1, 2} \ {i} : req'[<<"read", j>>] = req[<<"read", j>>]
    BY <1>1, <1>5
  <2>4. DownInv'
    <3>1. CASE i = 1
      <4>1. req'[<<"read", 2>>] = req[<<"read", 2>>] BY <2>3, <3>1
      <4> QED BY <1>5, <2>3, <3>1, <4>1 DEF DownInv, DownRequests, DownData, Get, Kept, clientVars
    <3>2. CASE i = 2
      <4>1. req'[<<"read", 1>>] = req[<<"read", 1>>] BY <2>3, <3>2
      <4> QED BY <1>5, <2>3, <3>2, <4>1 DEF DownInv, DownRequests, DownData, Get, Kept, clientVars
    <3> QED BY <3>1, <3>2
  <2> QED BY <1>2, <2>1, <2>2, <2>4
<1> QED BY <1>3, <1>4, <1>5

\* A request that becomes the leader of its operation.
LEMMA LeadInv ==
    ASSUME TunnelInv, NEW t \in Thr, NEW i \in {1, 2}, Goto(<<t, i>>, "work"),
           req[<<t, i>>].st = "loop", t = "read" => req[<<t, i>>].seq = sseq.read + 1,
           ~pend[t], pend' = [pend EXCEPT ![t] = TRUE],
           UNCHANGED <<clientVars, sseq, lastRead, out, into>>
    PROVE  TunnelInv'
<1> USE DEF TunnelInv
<1>0. "work" \in States BY DEF States
<1>1. /\ req' \in [Slots -> [st : States, seq : Nat, code : Nat, val : Nat]]
      /\ req'[<<t, i>>].st = "work" /\ req'[<<t, i>>].seq = req[<<t, i>>].seq /\ req'[<<t, i>>].val = req[<<t, i>>].val
      /\ \A u \in Thr, j \in {1, 2} : u # t \/ j # i => req'[<<u, j>>] = req[<<u, j>>]
  BY <1>0, GotoEffect
<1>2. pend' \in [Thr -> BOOLEAN] /\ pend'[t] = TRUE /\ \A u \in Thr \ {t} : pend'[u] = pend[u] BY DEF TunnelTypes
<1>3. TunnelTypes' BY <1>1, <1>2 DEF TunnelTypes, clientVars
<1>4. CASE t \notin {"read", "write"}
  <2>1. \A u \in Thr \ {t}, j \in {1, 2} : req'[<<u, j>>] = req[<<u, j>>] BY <1>1
  <2>2. UNCHANGED <<cl, cur, cseq, died, sent, got, lastRead, out, into, sseq.read, sseq.write>> BY DEF clientVars
  <2>3. t \in Thr \ {"read", "write"} BY <1>4
  <2> HIDE DEF TunnelInv
  <2> QED BY <1>2, <1>3, <2>1, <2>2, <2>3, Elsewhere
<1>5. CASE t = "write"
  <2>1. i = 1 BY <1>5 DEF UpInv
  <2>2. Opening' BY <1>5, <2>1, OpeningOver DEF Opening, clientVars
  <2>3. /\ req'[<<"write", 1>>].st = "work" /\ req'[<<"write", 1>>].seq = req[<<"write", 1>>].seq
        /\ req'[<<"write", 1>>].val = req[<<"write", 1>>].val /\ req'[<<"write", 2>>] = req[<<"write", 2>>]
        /\ pend'["write"] /\ req[<<"write", 1>>].st = "loop"
    BY <1>1, <1>2, <1>5, <2>1
  <2>4. UpInv' BY <2>3 DEF UpInv, clientVars
  <2>5. pend'["read"] = pend["read"] BY <1>2, <1>5 DEF Thr
  <2>6. DownInv' BY <1>1, <1>5, <2>5, DownFrame DEF clientVars, Thr
  <2> QED BY <1>3, <2>2, <2>4, <2>6
<1>6. CASE t = "read"
  <2>1. Opening' BY <1>6, OpeningOver DEF Opening, clientVars
  <2>2. pend'["write"] = pend["write"] /\ pend'["read"] /\ ~pend["read"] BY <1>2, <1>6 DEF Thr
  <2>3. UpInv' BY <1>1, <1>6, <2>2, UpFrame DEF clientVars, Thr
  <2>4. /\ req'[<<"read", i>>].st = "work" /\ req'[<<"read", i>>].seq = req[<<"read", i>>].seq
        /\ req[<<"read", i>>].seq = sseq.read + 1 /\ req[<<"read", i>>].st = "loop"
        /\ \A j \in {1, 2} \ {i} : req'[<<"read", j>>] = req[<<"read", j>>]
    BY <1>1, <1>6
  <2>5. DownInv'
    <3>1. CASE i = 1
      <4>1. req'[<<"read", 2>>] = req[<<"read", 2>>] BY <2>4, <3>1
      <4> QED BY <2>2, <2>4, <3>1, <4>1 DEF DownInv, DownRequests, DownData, Get, Kept, clientVars
    <3>2. CASE i = 2
      <4>1. req'[<<"read", 1>>] = req[<<"read", 1>>] BY <2>4, <3>2
      <4> QED BY <2>2, <2>4, <3>2, <4>1 DEF DownInv, DownRequests, DownData, Get, Kept, clientVars
    <3> QED BY <3>1, <3>2
  <2> QED BY <1>3, <2>1, <2>3, <2>5
<1> QED BY <1>4, <1>5, <1>6

\* An answer that the channel is gone is right for every request.
LEMMA GoneInv ==
    ASSUME TunnelInv, NEW t \in Thr, NEW i \in {1, 2}, Reply(<<t, i>>, 410, 0), req[<<t, i>>].st # "none",
           UNCHANGED <<clientVars, sseq, pend, lastRead, out, into>>,
           t = "write" => req[<<t, i>>].st \in {"net", "loop"}
    PROVE  TunnelInv'
<1> DEFINE c == 410
           v == 0
<1>1. c \in Nat /\ v \in Nat /\ Reply(<<t, i>>, c, v) /\ RightAnswer(t, c, v) BY DEF RightAnswer
<1> HIDE DEF c, v
<1> QED BY <1>1, ReplyInv

LEMMA EnterInv == ASSUME TunnelInv, NEW t \in Thr, NEW i \in {1, 2}, Enter(<<t, i>>) PROVE TunnelInv'
<1>0. /\ UNCHANGED <<clientVars, sseq, pend, lastRead, out, into>>
      /\ req[<<t, i>>].st = "net" /\ "loop" \in States \ {"none", "answered", "work"}
      /\ "closing" \in States \ {"none", "answered", "work"}
  BY DEF Enter, States
<1>1. CASE Reply(<<t, i>>, 410, 0) BY <1>0, <1>1, GoneInv
<1>2. CASE Goto(<<t, i>>, "loop") BY <1>0, <1>2, GotoInv
<1>3. CASE t = "del" /\ Goto(<<t, i>>, "closing") BY <1>0, <1>3, GotoInv
<1> QED BY <1>1, <1>2, <1>3 DEF Enter

LEMMA RepeatedTyped == ASSUME TunnelInv, NEW t \in Thr PROVE Repeated(t).code \in Nat /\ Repeated(t).val \in Nat
BY DEF Repeated, Thr, TunnelInv, TunnelTypes

LEMMA TurnInv == ASSUME TunnelInv, NEW t \in Thr, NEW i \in {1, 2}, Turn(<<t, i>>) PROVE TunnelInv'
<1> DEFINE step == req[<<t, i>>].seq - sseq[NumberOf(t)]
<1>0. /\ UNCHANGED <<clientVars, sseq, lastRead, out, into>> /\ req[<<t, i>>].st = "loop"
      /\ "loop" \in States \ {"none", "answered", "work"} /\ "wait0" \in States \ {"none", "answered", "work"}
      /\ "wait1" \in States \ {"none", "answered", "work"} /\ "unready" \in States \ {"none", "answered", "work"}
  BY DEF Turn, States
<1>1. req[<<t, i>>].seq \in Nat /\ sseq.read \in Nat /\ sseq.write \in Nat
  BY SlotTyped DEF TunnelInv, TunnelTypes, Keys
<1>2. t = "write" => step = 1 /\ ~pend[t]
  <2>1. t = "write" => i = 1 /\ req[<<"write", 1>>].st = "loop" BY <1>0 DEF TunnelInv, UpInv
  <2> QED BY <1>0, <1>1, <2>1 DEF TunnelInv, UpInv, NumberOf
<1>3. CASE step = 0 /\ pend[t] /\ Goto(<<t, i>>, "wait0") /\ UNCHANGED pend
  BY <1>0, <1>2, <1>3, GotoInv
<1>4. CASE step = 0 /\ Reply(<<t, i>>, Repeated(t).code, Repeated(t).val) /\ UNCHANGED pend
  <2>1. RightAnswer(t, Repeated(t).code, Repeated(t).val)
    <3>1. CASE t = "read"
      <4>1. req[<<"read", i>>].seq = cseq.read BY <1>0, <3>1 DEF TunnelInv, DownInv, DownRequests, Get
      <4>2. cseq.read = sseq.read BY <1>1, <1>4, <3>1, <4>1 DEF NumberOf
      <4> QED BY <3>1, <4>2 DEF RightAnswer, Repeated
    <3>2. CASE t # "read" BY <1>2, <1>4, <3>2 DEF RightAnswer
    <3> QED BY <3>1, <3>2
  <2> HIDE DEF step
  <2> QED BY <1>0, <1>4, <2>1, RepeatedTyped, ReplyInv
<1>5. CASE step = 1 /\ pend[t] /\ Goto(<<t, i>>, "wait1") /\ UNCHANGED pend
  BY <1>0, <1>2, <1>5, GotoInv
<1>6. CASE step = 1 /\ ~pend[t] /\ Goto(<<t, i>>, "work") /\ pend' = [pend EXCEPT ![t] = TRUE]
  <2>1. t = "read" => req[<<t, i>>].seq = sseq.read + 1 BY <1>1, <1>6 DEF NumberOf
  <2> HIDE DEF step
  <2> QED BY <1>0, <1>6, <2>1, LeadInv
<1>7. CASE Reply(<<t, i>>, 410, 0) /\ UNCHANGED pend BY <1>0, <1>7, GoneInv
<1>8. CASE t = "conn" /\ Goto(<<t, i>>, IF pend[t] THEN "wait0" ELSE "unready") /\ UNCHANGED pend
  <2> HIDE DEF step
  <2>1. CASE pend[t] BY <1>0, <1>8, <2>1, GotoInv
  <2>2. CASE ~pend[t] BY <1>0, <1>8, <2>2, GotoInv
  <2> QED BY <2>1, <2>2
<1> QED BY <1>3, <1>4, <1>5, <1>6, <1>7, <1>8 DEF Turn

LEMMA RelockInv == ASSUME TunnelInv, NEW t \in Thr, NEW i \in {1, 2}, Relock(<<t, i>>) PROVE TunnelInv'
<1>1. /\ UNCHANGED <<clientVars, sseq, pend, lastRead, out, into>> /\ Goto(<<t, i>>, "stuck")
      /\ req[<<t, i>>].st = "woken" /\ "stuck" \in States \ {"none", "answered", "work"}
  BY DEF Relock, States
<1>2. t # "write" BY <1>1 DEF TunnelInv, UpInv
<1> QED BY <1>1, <1>2, GotoInv

LEMMA AwaitReadyInv == ASSUME TunnelInv, NEW t \in Thr, NEW i \in {1, 2}, AwaitReady(<<t, i>>) PROVE TunnelInv'
<1>1. /\ UNCHANGED <<clientVars, sseq, pend, lastRead, out, into>>
      /\ req[<<t, i>>].st = "unready" /\ "loop" \in States \ {"none", "answered", "work"}
  BY DEF AwaitReady, States, channelVars
<1>2. t # "write" BY <1>1 DEF TunnelInv, UpInv
<1>3. CASE Goto(<<t, i>>, "loop") BY <1>1, <1>2, <1>3, GotoInv
<1>4. CASE Reply(<<t, i>>, 410, 0) BY <1>1, <1>2, <1>4, GoneInv
<1> QED BY <1>3, <1>4 DEF AwaitReady

LEMMA RefuseInv == ASSUME TunnelInv, NEW t \in Thr, NEW i \in {1, 2}, Refuse(<<t, i>>) PROVE TunnelInv'
<1>1. /\ UNCHANGED <<clientVars, sseq, pend, lastRead, out, into>> /\ t = "conn"
      /\ req[<<t, i>>].st = "work" /\ Reply(<<t, i>>, 200, 0) /\ RightAnswer(t, 200, 0)
  BY DEF Refuse, channelVars, RightAnswer
<1> QED BY <1>1, ReplyInv

\* The leader of a push or of a heartbeat is done.
LEMMA BroadcastInv ==
    ASSUME TunnelInv, NEW t \in Thr \ {"read", "write"}, NEW i \in {1, 2}, NEW c \in Nat, NEW v \in Nat,
           Broadcast(t, <<t, i>>, c, v),
           UNCHANGED <<cl, cur, cseq, died, sent, got, lastRead, out, into>>,
           sseq' = sseq \/ sseq' = [sseq EXCEPT !.conn = @ + 1]
    PROVE  TunnelInv'
<1>0. TunnelTypes BY DEF TunnelInv
<1>1. /\ req' \in [Slots -> [st : States, seq : Nat, code : Nat, val : Nat]]
      /\ pend' \in [Thr -> BOOLEAN] /\ \A u \in Thr \ {t} : pend'[u] = pend[u]
      /\ \A u \in Thr \ {t}, j \in {1, 2} : req'[<<u, j>>] = req[<<u, j>>]
  BY <1>0, BroadcastEffect
<1>2. sseq' \in [Keys -> Nat] /\ sseq'.read = sseq.read /\ sseq'.write = sseq.write
  BY <1>0 DEF TunnelTypes, Keys
<1>3. TunnelTypes' BY <1>0, <1>1, <1>2 DEF TunnelTypes
<1> QED BY <1>1, <1>2, <1>3, Elsewhere

LEMMA ConnectInv == ASSUME TunnelInv, NEW t \in Thr, NEW i \in {1, 2}, Connect(<<t, i>>) PROVE TunnelInv'
<1>1. /\ t = "conn" /\ Broadcast(t, <<t, i>>, 200, 0) /\ sseq' = [sseq EXCEPT !.conn = @ + 1]
      /\ UNCHANGED <<cl, cur, cseq, died, sent, got, lastRead, out, into>>
  BY DEF Connect, clientVars
<1> QED BY <1>1, BroadcastInv

LEMMA ConnectFailsInv == ASSUME TunnelInv, NEW t \in Thr, NEW i \in {1, 2}, ConnectFails(<<t, i>>) PROVE TunnelInv'
<1> DEFINE c == 410
<1>1. /\ t = "conn" /\ Broadcast(t, <<t, i>>, c, 0) /\ c \in Nat /\ sseq' = [sseq EXCEPT !.conn = @ + 1]
      /\ UNCHANGED <<cl, cur, cseq, died, sent, got, lastRead, out, into>>
  BY DEF ConnectFails
<1> HIDE DEF c
<1> QED BY <1>1, BroadcastInv

LEMMA AcknowledgeInv == ASSUME TunnelInv, NEW t \in Thr, NEW i \in {1, 2}, Acknowledge(<<t, i>>) PROVE TunnelInv'
<1> DEFINE c == IF Active THEN 200 ELSE 410
<1>1. /\ t = "conn" /\ Broadcast(t, <<t, i>>, c, 0) /\ c \in Nat
      /\ sseq' = sseq \/ sseq' = [sseq EXCEPT !.conn = @ + 1]
      /\ UNCHANGED <<cl, cur, cseq, died, sent, got, lastRead, out, into>>
  BY DEF Acknowledge, clientVars
<1> HIDE DEF c
<1> QED BY <1>1, BroadcastInv

LEMMA BeatInv == ASSUME TunnelInv, NEW t \in Thr, NEW i \in {1, 2}, Beat(<<t, i>>) PROVE TunnelInv'
<1> DEFINE c == IF chClosed THEN 410 ELSE 200
<1>1. /\ t = "hb" /\ Broadcast(t, <<t, i>>, c, 0) /\ c \in Nat
      /\ sseq' = [sseq EXCEPT !.conn = @ + 1]
      /\ UNCHANGED <<cl, cur, cseq, died, sent, got, lastRead, out, into>>
  BY DEF Beat, clientVars
<1> HIDE DEF c
<1> QED BY <1>1, BroadcastInv

\* What the leader of a GET fetched is kept under its number.
LEMMA FetchInv == ASSUME TunnelInv, NEW t \in Thr, NEW i \in {1, 2}, Fetch(<<t, i>>) PROVE TunnelInv'
<1> USE DEF TunnelInv
<1>0. /\ t = "read" /\ req[<<"read", i>>].st = "work" /\ sseq' = [sseq EXCEPT !["read"] = sseq["read"] + 1]
      /\ UNCHANGED <<cl, cur, cseq, died, sent, got, into>>
  BY DEF Fetch, clientVars
<1>1. PICK c \in Nat, v \in Nat :
        /\ Broadcast("read", <<"read", i>>, c, v) /\ lastRead' = v
        /\ \/ c = 200 /\ v = out + 1 /\ out' = out + 1
           \/ c = 408 /\ v = 0 /\ out' = out
           \/ c = 410 /\ v = 0 /\ out' = out
  <2>1. 200 \in Nat /\ 408 \in Nat /\ 410 \in Nat /\ 0 \in Nat /\ out + 1 \in Nat BY DEF TunnelTypes
  <2> QED BY <1>0, <2>1 DEF Fetch
<1>2. "read" \in Thr /\ TunnelTypes /\ Broadcast("read", <<"read", i>>, c, v) BY <1>1 DEF Thr
<1>3. /\ req' \in [Slots -> [st : States, seq : Nat, code : Nat, val : Nat]]
      /\ pend' \in [Thr -> BOOLEAN]
      /\ req'[<<"read", i>>] = Answered(<<"read", i>>, c, v)
      /\ \A u \in Thr \ {"read"}, j \in {1, 2} : req'[<<u, j>>] = req[<<u, j>>]
      /\ \A u \in Thr \ {"read"} : pend'[u] = pend[u]
  BY <1>2, BroadcastEffect
<1>4. ASSUME NEW j \in {1, 2}, j # i
      PROVE  /\ req'[<<"read", j>>].st = Awake(req[<<"read", j>>].st)
             /\ req'[<<"read", j>>].seq = req[<<"read", j>>].seq /\ req'[<<"read", j>>].code = req[<<"read", j>>].code
  <2> HIDE DEF TunnelInv
  <2> QED BY <1>2, <1>4, BroadcastWakes
<1>5. sseq' \in [Keys -> Nat] /\ sseq'.read = sseq.read + 1 /\ sseq'.write = sseq.write
  BY <1>0 DEF TunnelTypes, Keys
<1>6. TunnelTypes' BY <1>0, <1>1, <1>3, <1>5 DEF TunnelTypes
<1>7. Opening' BY <1>0, OpeningOver DEF Opening
<1>8. UpInv'
  <2>1. UNCHANGED <<req[<<"write", 1>>], req[<<"write", 2>>], pend["write"]>> BY <1>3 DEF Thr
  <2> QED BY <1>0, <1>5, <2>1, UpFrame
<1>9. /\ cseq.read \in Nat /\ sseq.read \in Nat /\ out \in Nat /\ Len(got) \in Nat BY DEF TunnelTypes, Keys
<1>10. /\ cseq.read = sseq.read + 1 /\ cl["read"] # "ready"
       /\ cl["read"] = "await" => out = Len(got)
  BY <1>0, <1>9 DEF DownInv, DownRequests, DownData, Get
<1> DEFINE a == Answered(<<"read", i>>, c, v)
<1>11. /\ Heard("read", i) => a = [st |-> "answered", seq |-> req[<<"read", i>>].seq, code |-> c, val |-> v]
       /\ ~Heard("read", i) => a = NoReq
  BY DEF Answered, Listens, Heard
<1>12. req'[<<"read", i>>] = a BY <1>3
<1> HIDE DEF a
<1>13. DownData'
  <2>1. cseq'.read = sseq'.read /\ Len(got)' <= out' /\ cl'["read"] # "ready"
    BY <1>0, <1>1, <1>5, <1>9, <1>10 DEF DownInv, DownData
  <2>2. cl'["read"] = "await" => \/ lastRead' = 0 /\ out' = Len(got)'
                                 \/ lastRead' = out' /\ out' = Len(got)' + 1
    BY <1>0, <1>1, <1>10
  <2>3. Kept(i)' BY <1>1, <1>11, <1>12, <2>1, NoReqTyped, <1>9 DEF Kept
  <2>4. \A j \in {1, 2} \ {i} : req'[<<"read", j>>].st = "answered" => req'[<<"read", j>>].code \notin {200, 408}
    <3>1. SUFFICES ASSUME NEW j \in {1, 2} \ {i}
                   PROVE  req[<<"read", j>>].st = "answered" => req[<<"read", j>>].code \notin {200, 408}
      BY <1>4 DEF Awake
    <3>2. CASE i = 1 BY <1>0, <1>9, <1>10, <3>2 DEF DownInv, DownRequests, DownData, Get, Kept
    <3>3. CASE i = 2 BY <1>0, <1>9, <1>10, <3>3 DEF DownInv, DownRequests, DownData, Get, Kept
    <3> QED BY <3>2, <3>3
  <2>5. Kept(1)' /\ Kept(2)' BY <2>3, <2>4 DEF Kept
  <2> QED BY <1>0, <1>5, <1>9, <2>1, <2>2, <2>5 DEF DownData
<1>14. DownRequests'
  <2>1. /\ cseq'.read = cseq.read /\ cl'["read"] = cl["read"] /\ cur'["read"] = cur["read"] /\ died' = died
        /\ cl["read"] # "ready" /\ cur["read"] \in {1, 2}
    BY <1>0, <1>10 DEF TunnelTypes, Thr
  <2>2. CASE i = 1
    <3>1. /\ req'[<<"read", 2>>].seq = req[<<"read", 2>>].seq
          /\ req'[<<"read", 2>>].st = Awake(req[<<"read", 2>>].st)
      BY <1>4, <2>2
    <3> QED BY <1>0, <1>11, <1>12, <2>1, <2>2, <3>1, NoReqTyped DEF DownInv, DownRequests, Get, Heard, Awake
  <2>3. CASE i = 2
    <3>1. /\ req'[<<"read", 1>>].seq = req[<<"read", 1>>].seq
          /\ req'[<<"read", 1>>].st = Awake(req[<<"read", 1>>].st)
      BY <1>4, <2>3
    <3> QED BY <1>0, <1>11, <1>12, <2>1, <2>3, <3>1, NoReqTyped DEF DownInv, DownRequests, Get, Heard, Awake
  <2> QED BY <2>2, <2>3
<1> QED BY <1>6, <1>7, <1>8, <1>13, <1>14 DEF DownInv

\* The answers to a POST other than success.
Refused(c) == c # 200

\* The leader of a POST is done: its chunk is at the target, or the client is
\* told that the channel is gone.
LEMMA StoredInv ==
    ASSUME TunnelInv, NEW i \in {1, 2}, req[<<"write", i>>].st = "work", NEW c \in Nat,
           Broadcast("write", <<"write", i>>, c, 0), sseq' = [sseq EXCEPT !["write"] = sseq["write"] + 1],
           \/ into' = Append(into, req[<<"write", i>>].val)
           \/ into' = into /\ Refused(c),
           UNCHANGED <<cl, cur, cseq, died, sent, got, lastRead, out>>
    PROVE  TunnelInv'
<1> USE DEF TunnelInv
<1>0. "write" \in Thr /\ TunnelTypes /\ 0 \in Nat BY DEF Thr
<1>1. i = 1 BY DEF UpInv
<1> DEFINE a == Answered(<<"write", 1>>, c, 0)
<1>2. /\ req' \in [Slots -> [st : States, seq : Nat, code : Nat, val : Nat]]
      /\ pend' \in [Thr -> BOOLEAN] /\ pend'["write"] = FALSE
      /\ req'[<<"write", i>>] = Answered(<<"write", i>>, c, 0)
      /\ \A u \in Thr \ {"write"}, j \in {1, 2} : req'[<<u, j>>] = req[<<u, j>>]
      /\ \A u \in Thr \ {"write"} : pend'[u] = pend[u]
  BY <1>0, BroadcastEffect
<1>4. req'[<<"write", 2>>].st = "none"
  <2>1. 2 \in {1, 2} /\ 2 # i BY <1>1
  <2>2. req'[<<"write", 2>>].st = Awake(req[<<"write", 2>>].st)
    <3> HIDE DEF TunnelInv
    <3> QED BY <1>0, <2>1, BroadcastWakes
  <2> QED BY <2>2 DEF UpInv, Awake
<1>5. /\ Heard("write", 1) => a = [st |-> "answered", seq |-> req[<<"write", 1>>].seq, code |-> c, val |-> 0]
      /\ ~Heard("write", 1) => a = NoReq
  BY DEF Answered, Listens, Heard
<1>6. req'[<<"write", 1>>] = a BY <1>1, <1>2
<1> HIDE DEF a
<1>7. sseq' \in [Keys -> Nat] /\ sseq'.write = sseq.write + 1 /\ sseq'.read = sseq.read
  BY DEF TunnelTypes, Keys
<1>8. req[<<"write", 1>>].val \in Nat BY SlotTyped DEF TunnelTypes, Thr
<1>9. into' \in Seq(Nat) /\ ((Refused(c) /\ Len(into') = Len(into)) \/ Len(into') = Len(into) + 1)
  <2>1. into \in Seq(Nat) BY DEF TunnelTypes
  <2>2. Append(into, req[<<"write", 1>>].val) \in Seq(Nat)
        /\ Len(Append(into, req[<<"write", 1>>].val)) = Len(into) + 1
    BY <1>8, <2>1
  <2> QED BY <1>1, <2>1, <2>2
<1>10. TunnelTypes' BY <1>2, <1>7, <1>9 DEF TunnelTypes
<1>11. Opening' BY <1>1, OpeningOver DEF Opening
<1>12. /\ sent \in Nat /\ Len(into) \in Nat /\ sseq.write \in Nat /\ cl["write"] # "ready" /\ cur["write"] = 1
       /\ sent = Len(into) + 1 /\ sent = sseq.write + 1 /\ cseq.write = sent
  BY <1>1 DEF UpInv, TunnelTypes, Keys
<1>13. Len(into') <= sent /\ (c = 200 => Len(into') = sent)
  <2>1. (Refused(c) /\ Len(into') = Len(into)) \/ Len(into') = Len(into) + 1 BY <1>9
  <2> QED BY <1>12, <2>1 DEF Refused
<1>14. UpInv'
  <2>1. a.st \in {"answered", "none"} /\ (a.st = "answered" => a.code = c) BY <1>5, NoReqTyped
  <2>2. /\ sent' = sent /\ cseq'.write = sent /\ cur'["write"] = 1 /\ cl'["write"] # "ready"
        /\ sseq'.write = sent /\ ~pend'["write"]
    BY <1>2, <1>7, <1>12
  <2> HIDE DEF TunnelInv
  <2> QED BY <1>4, <1>6, <1>13, <2>1, <2>2 DEF UpInv
<1>15. DownInv'
  <2>1. UNCHANGED <<req[<<"read", 1>>], req[<<"read", 2>>], pend["read"]>> BY <1>2 DEF Thr
  <2> QED BY <1>7, <2>1, DownFrame
<1> QED BY <1>10, <1>11, <1>14, <1>15

LEMMA StoreInv == ASSUME TunnelInv, NEW t \in Thr, NEW i \in {1, 2}, Store(<<t, i>>) PROVE TunnelInv'
<1> DEFINE ok == Active /\ ~(kind = "UDP" /\ chClosed)
           c == IF ok THEN 200 ELSE 410
<1>1. /\ t = "write" /\ req[<<"write", i>>].st = "work" /\ sseq' = [sseq EXCEPT !["write"] = sseq["write"] + 1]
      /\ UNCHANGED <<cl, cur, cseq, died, sent, got, lastRead, out>> /\ Broadcast("write", <<"write", i>>, c, 0)
      /\ \/ into' = Append(into, req[<<"write", i>>].val)
         \/ into' = into /\ Refused(c)
  BY DEF Store, clientVars, Refused
<1>2. c \in Nat OBVIOUS
<1> HIDE DEF c, ok
<1> QED BY <1>1, <1>2, StoredInv

LEMMA StoreFailsInv == ASSUME TunnelInv, NEW t \in Thr, NEW i \in {1, 2}, StoreFails(<<t, i>>) PROVE TunnelInv'
<1> DEFINE c == 410
<1>1. /\ t = "write" /\ req[<<"write", i>>].st = "work" /\ sseq' = [sseq EXCEPT !["write"] = sseq["write"] + 1]
      /\ UNCHANGED <<cl, cur, cseq, died, sent, got, lastRead, out>> /\ Broadcast("write", <<"write", i>>, c, 0)
      /\ into' = into /\ Refused(c) /\ c \in Nat
  BY DEF StoreFails, Refused
<1> HIDE DEF c
<1> QED BY <1>1, StoredInv

LEMMA ReqTimeoutInv == ASSUME TunnelInv, ReqTimeout PROVE TunnelInv'
<1>1. UNCHANGED <<clientVars, req, sseq, pend, lastRead, out, into>> BY DEF ReqTimeout
<1>2. TunnelTypes' BY <1>1 DEF TunnelInv, TunnelTypes, clientVars
<1>3. Opening' BY <1>1, OpeningFrame DEF TunnelInv, clientVars
<1>4. UpInv' BY <1>1, UpFrame DEF TunnelInv, clientVars
<1>5. DownInv' BY <1>1, DownFrame DEF TunnelInv, clientVars
<1> QED BY <1>2, <1>3, <1>4, <1>5 DEF TunnelInv

LEMMA CloseChannelInv == ASSUME TunnelInv, CloseChannel PROVE TunnelInv'
<1> USE DEF TunnelInv
<1>1. UNCHANGED <<clientVars, sseq, pend, lastRead, out, into>> BY DEF CloseChannel
<1>2. \A r \in Slots : req'[r] = IF req[r].st = "closing" THEN Answered(r, 410, 0) ELSE req[r] BY DEF CloseChannel
<1>3. req' \in [Slots -> [st : States, seq : Nat, code : Nat, val : Nat]]
  <2>1. \A r \in Slots : Answered(r, 410, 0) \in [st : States, seq : Nat, code : Nat, val : Nat]
    BY NoReqTyped DEF Answered, States, TunnelTypes
  <2> QED BY <1>2, <2>1 DEF CloseChannel, TunnelTypes
<1>4. TunnelTypes' BY <1>1, <1>3 DEF TunnelTypes, clientVars
<1>5. UNCHANGED <<req[<<"write", 1>>], req[<<"write", 2>>], req[<<"read", 1>>], req[<<"read", 2>>]>>
  <2>1. /\ req[<<"write", 1>>].st # "closing" /\ req[<<"write", 2>>].st # "closing"
        /\ req[<<"read", 1>>].st # "closing" /\ req[<<"read", 2>>].st # "closing"
    BY DEF UpInv, DownInv, DownRequests, Get
  <2>2. <<"write", 1>> \in Slots /\ <<"write", 2>> \in Slots /\ <<"read", 1>> \in Slots /\ <<"read", 2>> \in Slots
    BY DEF Slots, Thr
  <2> QED BY <1>2, <2>1, <2>2
<1>6. Opening' BY <1>1, <1>5, OpeningFrame DEF clientVars
<1>7. UpInv' BY <1>1, <1>5, UpFrame DEF clientVars
<1>8. DownInv' BY <1>1, <1>5, DownFrame DEF clientVars
<1> QED BY <1>4, <1>6, <1>7, <1>8

-----------------------------------------------------------------------------
(* The invariant holds, and every step is a step of the pipes.             *)

LEMMA TunnelInitInv == TunnelInit => TunnelInv
<1> SUFFICES ASSUME TunnelInit PROVE TunnelInv OBVIOUS
<1> USE DEF TunnelInit
<1>1. Len(<<>>) = 0 /\ <<>> \in Seq(Nat) OBVIOUS
<1>2. \A r \in Slots : req[r] = NoReq OBVIOUS
<1>3. req[<<"write", 1>>] = NoReq /\ req[<<"write", 2>>] = NoReq /\ req[<<"read", 1>>] = NoReq /\ req[<<"read", 2>>] = NoReq
  BY <1>2, SlotTyped DEF Thr
<1>4. TunnelTypes BY <1>1, NoReqTyped DEF TunnelTypes, Keys, Thr
<1>5. Opening BY <1>3, NoReqTyped DEF Opening, Thr
<1>6. UpInv BY <1>1, <1>3, NoReqTyped DEF UpInv, Thr
<1>7. DownInv BY <1>1, <1>3, NoReqTyped DEF DownInv, DownRequests, DownData, Get, Kept, Thr
<1> QED BY <1>4, <1>5, <1>6, <1>7 DEF TunnelInv

LEMMA ServeInv ==
    ASSUME TunnelInv, NEW r \in Slots, Serve(r) \/ ConnectFails(r) \/ StoreFails(r)
    PROVE  TunnelInv'
<1>1. PICK t \in Thr, i \in {1, 2} : r = <<t, i>> BY DEF Slots
<1> QED BY <1>1, EnterInv, TurnInv, RelockInv, AwaitReadyInv, RefuseInv, ConnectInv, AcknowledgeInv, BeatInv,
           FetchInv, StoreInv, ConnectFailsInv, StoreFailsInv DEF Serve

LEMMA ThreadInv ==
    ASSUME TunnelInv, NEW t \in Thr, Answer(t) \/ AnswerBad(t) \/ Broken(t) \/ Retried(t)
    PROVE  TunnelInv'
<1>1. CASE AnswerBad(t) \/ Broken(t)
  <2>1. Fails(t) /\ cl[t] = "await" BY <1>1 DEF AnswerBad, Broken, Listens
  <2> QED BY <2>1, FailsInv
<1> QED BY <1>1, AnswerInv, RetriedInv

LEMMA TunnelStep == ASSUME TunnelInv, [TunnelNext]_tunnelVars PROVE TunnelInv'
<1>1. CASE UNCHANGED tunnelVars
  <2>1. UNCHANGED <<clientVars, req, sseq, pend, lastRead, out, into>> BY <1>1 DEF tunnelVars, channelVars
  <2>2. TunnelTypes' BY <2>1 DEF TunnelInv, TunnelTypes, clientVars
  <2>3. Opening' BY <2>1, OpeningFrame DEF TunnelInv, clientVars
  <2>4. UpInv' BY <2>1, UpFrame DEF TunnelInv, clientVars
  <2>5. DownInv' BY <2>1, DownFrame DEF TunnelInv, clientVars
  <2> QED BY <2>2, <2>3, <2>4, <2>5 DEF TunnelInv
<1>2. CASE TunnelNext
  BY <1>2, OpenChannelInv, PushInv, ReadInv, HeartbeatInv, WriteInv, CloseInv, DieInv, ThreadInv, ServeInv,
     ReqTimeoutInv, CloseChannelInv DEF TunnelNext
<1> QED BY <1>1, <1>2

LEMMA UpStep == ASSUME TunnelInv, [TunnelNext]_tunnelVars PROVE [Up!PipeNext]_(Up!pipeVars)
<1> USE DEF Up!PipeNext, Up!Write, Up!Arrive, Up!pipeVars
<1>1. CASE UNCHANGED tunnelVars BY <1>1 DEF tunnelVars, clientVars, channelVars
<1>2. CASE Write BY <1>2 DEF Write, channelVars
<1>3. CASE \E r \in Slots : Store(r)
  <2>1. PICK r \in Slots : Store(r) BY <1>3
  <2>2. PICK t \in Thr, i \in {1, 2} : r = <<t, i>> BY DEF Slots
  <2>3. /\ sent' = sent /\ t = "write" /\ req[<<"write", i>>].st = "work"
        /\ into' = into \/ into' = Append(into, req[<<"write", i>>].val)
    BY <2>1, <2>2 DEF Store, clientVars
  <2>4. sent \in Nat /\ Len(into) \in Nat /\ req[<<"write", i>>].val = Len(into) + 1 /\ Len(into) < sent
    <3>1. i = 1 BY <2>3 DEF TunnelInv, UpInv
    <3>2. sent \in Nat /\ Len(into) \in Nat BY DEF TunnelInv, TunnelTypes
    <3> QED BY <2>3, <3>1, <3>2 DEF TunnelInv, UpInv
  <2> QED BY <2>3, <2>4
<1>4. CASE OpenChannel \/ Push \/ Read \/ Heartbeat \/ Close \/ Die \/ ReqTimeout \/ CloseChannel
  BY <1>4 DEF OpenChannel, Push, Read, Heartbeat, Close, Die, ReqTimeout, CloseChannel, clientVars, channelVars
<1>5. CASE \E t \in Thr : Answer(t) \/ AnswerBad(t) \/ Broken(t) \/ Retried(t)
  <2>1. UNCHANGED <<sent, into>> BY <1>5 DEF Answer, AnswerBad, Broken, Fails, Retried, channelVars
  <2> QED BY <2>1
<1>6. CASE \E r \in Slots : Enter(r) \/ Turn(r) \/ Relock(r) \/ AwaitReady(r) \/ Refuse(r)
  <2>1. UNCHANGED <<sent, into>> BY <1>6 DEF Enter, Turn, Relock, AwaitReady, Refuse, clientVars, channelVars
  <2> QED BY <2>1
<1>7. CASE \E r \in Slots : \/ Connect(r) \/ ConnectFails(r) \/ Acknowledge(r) \/ Beat(r)
                           \/ Fetch(r) \/ StoreFails(r)
  <2>1. UNCHANGED <<sent, into>>
    BY <1>7 DEF Connect, ConnectFails, Acknowledge, Beat, Fetch, StoreFails, clientVars
  <2> QED BY <2>1
<1> HIDE DEF Up!PipeNext, Up!pipeVars
<1> QED BY <1>1, <1>2, <1>3, <1>4, <1>5, <1>6, <1>7 DEF TunnelNext, Serve

LEMMA DownStep == ASSUME TunnelInv, [TunnelNext]_tunnelVars PROVE [Down!PipeNext]_(Down!pipeVars)
<1> USE DEF Down!PipeNext, Down!Write, Down!Arrive, Down!pipeVars
<1>1. CASE UNCHANGED tunnelVars BY <1>1 DEF tunnelVars, clientVars, channelVars
<1>2. CASE \E r \in Slots : Fetch(r)
  <2>1. PICK r \in Slots : Fetch(r) BY <1>2
  <2>2. got' = got /\ (out' = out \/ out' = out + 1) BY <2>1 DEF Fetch, clientVars
  <2> QED BY <2>2
<1>3. CASE \E t \in Thr : Answer(t)
  <2>1. PICK t \in Thr : Answer(t) BY <1>3
  <2>2. out' = out BY <2>1 DEF Answer, channelVars
  <2>3. CASE got' = got BY <2>2, <2>3
  <2>4. CASE got' # got
    <3>1. /\ t = "read" /\ req[<<"read", cur["read"]>>].code = 200 /\ req[<<"read", cur["read"]>>].st = "answered"
          /\ got' = Append(got, req[<<"read", cur["read"]>>].val) /\ cl["read"] = "await"
      BY <2>1, <2>4 DEF Answer, Listens
    <3>2. cur["read"] \in {1, 2} /\ out \in Nat /\ Len(got) \in Nat BY DEF TunnelInv, TunnelTypes, Thr
    <3>3. cseq.read = sseq.read /\ req[<<"read", cur["read"]>>].val = lastRead /\ lastRead # 0
      <4>1. CASE cur["read"] = 1 BY <3>1, <4>1 DEF TunnelInv, DownInv, DownData, Kept
      <4>2. CASE cur["read"] = 2 BY <3>1, <4>2 DEF TunnelInv, DownInv, DownData, Kept
      <4> QED BY <3>2, <4>1, <4>2
    <3>4. lastRead = Len(got) + 1 /\ Len(got) < out BY <3>1, <3>2, <3>3 DEF TunnelInv, DownInv, DownData
    <3> QED BY <2>2, <3>1, <3>3, <3>4
  <2> QED BY <2>3, <2>4
<1>4. CASE OpenChannel \/ Push \/ Read \/ Heartbeat \/ Write \/ Close \/ Die \/ ReqTimeout \/ CloseChannel
  BY <1>4 DEF OpenChannel, Push, Read, Heartbeat, Write, Close, Die, ReqTimeout, CloseChannel, clientVars, channelVars
<1>5. CASE \E t \in Thr : AnswerBad(t) \/ Broken(t) \/ Retried(t)
  <2>1. UNCHANGED <<out, got>> BY <1>5 DEF AnswerBad, Broken, Fails, Retried, channelVars
  <2> QED BY <2>1
<1>6. CASE \E r \in Slots : Enter(r) \/ Turn(r) \/ Relock(r) \/ AwaitReady(r) \/ Refuse(r)
  <2>1. UNCHANGED <<out, got>> BY <1>6 DEF Enter, Turn, Relock, AwaitReady, Refuse, clientVars, channelVars
  <2> QED BY <2>1
<1>7. CASE \E r \in Slots : \/ Connect(r) \/ ConnectFails(r) \/ Acknowledge(r) \/ Beat(r)
                           \/ Store(r) \/ StoreFails(r)
  <2>1. UNCHANGED <<out, got>>
    BY <1>7 DEF Connect, ConnectFails, Acknowledge, Beat, Store, StoreFails, clientVars
  <2> QED BY <2>1
<1> HIDE DEF Down!PipeNext, Down!pipeVars
<1> QED BY <1>1, <1>2, <1>3, <1>4, <1>5, <1>6, <1>7 DEF TunnelNext, Serve

\* Whatever requests and answers are lost, repeated or overtaken by the end of
\* the channel, each direction of a tunnelled connection is a pipe: handleWrite
\* gives the target what Write was called with, and Read gives the application
\* what handleRead fetched, once each, in order and without a gap.
THEOREM TunnelIsPiped == TunnelSpec => Piped
<1>1. TunnelInit => TunnelInv BY TunnelInitInv
<1>2. TunnelInv /\ [TunnelNext]_tunnelVars => TunnelInv' BY TunnelStep
<1>3. TunnelInit => Up!PipeInit /\ Down!PipeInit BY DEF TunnelInit, Up!PipeInit, Down!PipeInit
<1>4. TunnelInv /\ [TunnelNext]_tunnelVars => [Up!PipeNext]_(Up!pipeVars) BY UpStep
<1>5. TunnelInv /\ [TunnelNext]_tunnelVars => [Down!PipeNext]_(Down!pipeVars) BY DownStep
<1> QED BY <1>1, <1>2, <1>3, <1>4, <1>5, PTL
        DEF TunnelSpec, Piped, PipeUp, PipeDown, Up!PipeSpec, Down!PipeSpec

-----------------------------------------------------------------------------
(* No connection to the target is left behind, and the ends agree.         *)
(*                                                                         *)
(* The dial of HEAD 1 is the step that may leak: it must find the channel  *)
(* in the map.  What is needed says how far the Dial of the client is from *)
(* the numbers of both ends and from the requests that the server has.     *)

ChannelTypes ==
    /\ kind \in Kinds /\ faults \in Nat /\ mu \subseteq Slots
    /\ cclosed \in BOOLEAN /\ died \in BOOLEAN /\ chClosed \in BOOLEAN /\ present \in BOOLEAN
    /\ conn \in {"none", "open"} /\ sock \in {"none", "open", "closed"}
    /\ sent <= MaxWrites /\ out <= MaxOut

\* One request of a thread leads at most, and its operation is active.
Leading ==
    \A t \in Thr :
        /\ req[<<t, 1>>].st = "work" => pend[t] /\ req[<<t, 2>>].st # "work"
        /\ req[<<t, 2>>].st = "work" => pend[t]

Success(c) == c = 200

\* Pushes carry the number of the step of Dial the client is at; HEAD 1 leads
\* only while the server has not connected, HEAD 2 succeeds only after that.
HeadNumbered(i) ==
    LET q == req[<<"conn", i>>] IN
    /\ q.st # "none" => (q.seq = 1 /\ cseq.conn = 2) \/ (q.seq = 2 /\ cseq.conn >= 3)
    /\ q.st = "work" /\ q.seq = 1 => sseq.conn = 0
    /\ q.st = "answered" => cl["conn"] = "await" /\ cur["conn"] = i
    /\ q.st = "answered" /\ Success(q.code) /\ q.seq = 2 => sseq.conn >= 1

Dialling ==
    /\ HeadNumbered(1) /\ HeadNumbered(2)
    /\ cl["conn"] = "ready" => cseq.conn <= 2 /\ req[<<"conn", 2>>].st = "none"
    /\ cur["conn"] = 1 => req[<<"conn", 2>>].st = "none"
    /\ cl["conn"] = "await" /\ cur["conn"] = 1 => req[<<"conn", 1>>].st # "none"
    /\ cl["conn"] = "await" /\ cur["conn"] = 2 => req[<<"conn", 2>>].st # "none"

\* Whatever comes after Dial comes after the server has connected.
Late == sseq.conn >= 1 /\ cseq.conn >= 3

Dialled ==
    /\ cclosed \/ cl["conn"] = "done" => Late
    /\ \A t \in Thr \ {"conn"} : cl[t] # "off" \/ req[<<t, 1>>].st # "none" \/ req[<<t, 2>>].st # "none" => Late
    /\ connReady => sseq.conn >= 1
    /\ died => \A t \in Thr : cl[t] = "off"

\* A channel closed before it was connected gets no push to connect it.
Pushes(st) == st \in {"net", "loop", "work"}

Abandoned ==
    chClosed /\ sseq.conn = 0 =>
        /\ ~Pushes(req[<<"conn", 1>>].st) /\ ~Pushes(req[<<"conn", 2>>].st)
        /\ cl["conn"] \notin {"ready", "await"}

SocketKept ==
    /\ (conn = "open") <=> (sock = "open")
    /\ ~present => conn = "none" /\ (cseq.conn > 0 => chClosed)

LeakInv == ChannelTypes /\ Leading /\ Dialling /\ Dialled /\ Abandoned /\ SocketKept

-----------------------------------------------------------------------------
(* Frames.                                                                 *)

LEMMA ConnNumbers == ASSUME TunnelTypes PROVE cseq.conn \in Nat /\ sseq.conn \in Nat
BY DEF TunnelTypes, Keys

LEMMA LeadingFrame ==
    ASSUME Leading, \A t \in Thr : pend'[t] = pend[t],
           \A t \in Thr, i \in {1, 2} : req'[<<t, i>>].st = "work" => req[<<t, i>>].st = "work"
    PROVE  Leading'
BY DEF Leading

\* A step that leaves the pushes, their thread and both numbers alone.
LEMMA DiallingFrame ==
    ASSUME Dialling, UNCHANGED <<cl["conn"], cur["conn"], cseq.conn, sseq.conn>>,
           UNCHANGED <<req[<<"conn", 1>>], req[<<"conn", 2>>]>>
    PROVE  Dialling'
BY DEF Dialling, HeadNumbered

\* A step of the server at a push or a heartbeat.
HeadStep(i) ==
    LET q == req[<<"conn", i>>] IN
    /\ q'.st # "none" => q.st # "none" /\ q'.seq = q.seq
    /\ q'.st = "none" => q.st = "none" \/ ~Heard("conn", i)
    /\ q'.st = "work" /\ q'.seq = 1 => sseq'.conn = 0
    /\ q'.st = "answered" => Heard("conn", i)
    /\ q'.st = "answered" /\ Success(q'.code) /\ q'.seq = 2 => sseq'.conn >= 1

LEMMA DiallingStep ==
    ASSUME Dialling, Dialled, UNCHANGED <<cl, cur, cseq, died>>, HeadStep(1), HeadStep(2)
    PROVE  Dialling'
<1>1. HeadNumbered(1)' BY DEF Dialling, HeadNumbered, HeadStep, Heard
<1>2. HeadNumbered(2)' BY DEF Dialling, HeadNumbered, HeadStep, Heard
<1>3. died => cl["conn"] = "off" BY DEF Dialled, Thr
<1> QED BY <1>1, <1>2, <1>3 DEF Dialling, HeadStep, Heard

LEMMA DialledStep ==
    ASSUME Dialled, UNCHANGED <<cl, cseq, cclosed, died>>, Late => Late', connReady' => sseq'.conn >= 1,
           \A t \in Thr \ {"conn"}, i \in {1, 2} : req'[<<t, i>>].st # "none" => req[<<t, i>>].st # "none"
    PROVE  Dialled'
BY DEF Dialled

-----------------------------------------------------------------------------
(* The server's steps, by what they do to the request.                     *)

\* What the invariant says of requests.
RequestInv == Leading /\ Dialling /\ Dialled /\ Abandoned

\* A request goes on without leading.
LEMMA GotoRequest ==
    ASSUME TunnelTypes, RequestInv, NEW t \in Thr, NEW i \in {1, 2}, NEW s \in States \ {"none", "answered", "work"},
           Goto(<<t, i>>, s), req[<<t, i>>].st # "none",
           UNCHANGED <<cl, cur, cseq, cclosed, died, sseq, pend, connReady>>,
           t = "conn" /\ Pushes(s) => Pushes(req[<<t, i>>].st) \/ sseq.conn # 0,
           chClosed' => chClosed \/ Late
    PROVE  RequestInv'
<1> USE DEF RequestInv
<1>1. /\ req'[<<t, i>>].st = s /\ req'[<<t, i>>].seq = req[<<t, i>>].seq
      /\ \A u \in Thr, j \in {1, 2} : u # t \/ j # i => req'[<<u, j>>] = req[<<u, j>>]
  BY GotoEffect
<1>2. s # "none" /\ s # "answered" /\ s # "work" OBVIOUS
<1>3. \A u \in Thr, j \in {1, 2} : req'[<<u, j>>].st = "work" => req[<<u, j>>].st = "work" BY <1>1, <1>2
<1>4. \A u \in Thr, j \in {1, 2} : req'[<<u, j>>].st # "none" => req[<<u, j>>].st # "none" BY <1>1
<1>5. Leading' BY <1>3, LeadingFrame
<1>6. HeadStep(1) /\ HeadStep(2)
  <2>1. ASSUME NEW j \in {1, 2} PROVE HeadStep(j)
    <3>1. HeadNumbered(j) BY DEF Dialling
    <3>2. died => cl["conn"] = "off" BY DEF Dialled, Thr
    <3>3. CASE t = "conn" /\ j = i BY <1>1, <1>2, <3>1, <3>3 DEF HeadStep, HeadNumbered, Heard
    <3>4. CASE t # "conn" \/ j # i
      <4>1. req'[<<"conn", j>>] = req[<<"conn", j>>] BY <1>1, <3>4 DEF Thr
      <4> QED BY <3>1, <3>2, <4>1 DEF HeadStep, HeadNumbered, Heard
    <3> QED BY <3>3, <3>4
  <2> QED BY <2>1
<1>7. Dialling' BY <1>6, DiallingStep
<1>8. Dialled' BY <1>4, DialledStep DEF Dialled, Late
<1>9. Abandoned'
  <2>1. SUFFICES ASSUME chClosed', sseq.conn = 0
                 PROVE  /\ ~Pushes(req'[<<"conn", 1>>].st) /\ ~Pushes(req'[<<"conn", 2>>].st)
                        /\ cl["conn"] \notin {"ready", "await"}
    BY DEF Abandoned
  <2>2. chClosed BY <2>1, ConnNumbers DEF Late
  <2>3. \A j \in {1, 2} : ~Pushes(req[<<"conn", j>>].st) BY <2>1, <2>2 DEF Abandoned
  <2>4. \A j \in {1, 2} : ~Pushes(req'[<<"conn", j>>].st) BY <1>1, <2>1, <2>3 DEF Thr
  <2> QED BY <2>1, <2>2, <2>4 DEF Abandoned
<1> QED BY <1>5, <1>7, <1>8, <1>9

\* HEAD 2 succeeds only on a connected channel.
SecondLate(t, i, c) == t = "conn" /\ Success(c) /\ req[<<t, i>>].seq = 2 => sseq.conn >= 1

\* A request is answered that does not lead, or whose operation stays active.
LEMMA ReplyRequest ==
    ASSUME TunnelTypes, RequestInv, NEW t \in Thr, NEW i \in {1, 2}, NEW c \in Nat, NEW v \in Nat,
           Reply(<<t, i>>, c, v), req[<<t, i>>].st # "none",
           UNCHANGED <<cl, cur, cseq, cclosed, died, sseq, pend, connReady, chClosed>>,
           SecondLate(t, i, c)
    PROVE  RequestInv'
<1> USE DEF RequestInv
<1> DEFINE a == Answered(<<t, i>>, c, v)
<1>1. /\ req'[<<t, i>>] = a
      /\ \A u \in Thr, j \in {1, 2} : u # t \/ j # i => req'[<<u, j>>] = req[<<u, j>>]
  BY ReplyEffect
<1>2. /\ Heard(t, i) => a.st = "answered" /\ a.seq = req[<<t, i>>].seq /\ a.code = c
      /\ ~Heard(t, i) => a.st = "none"
  BY NoReqTyped DEF Answered, Listens, Heard
<1> HIDE DEF a
<1>3. \A u \in Thr, j \in {1, 2} : req'[<<u, j>>].st = "work" => req[<<u, j>>].st = "work" BY <1>1, <1>2
<1>4. \A u \in Thr, j \in {1, 2} : req'[<<u, j>>].st # "none" => req[<<u, j>>].st # "none" BY <1>1
<1>5. Leading' BY <1>3, LeadingFrame
<1>6. HeadStep(1) /\ HeadStep(2)
  <2>1. ASSUME NEW j \in {1, 2} PROVE HeadStep(j)
    <3>1. HeadNumbered(j) BY DEF Dialling
    <3>2. died => cl["conn"] = "off" BY DEF Dialled, Thr
    <3>3. CASE t = "conn" /\ j = i BY <1>1, <1>2, <3>1, <3>3 DEF HeadStep, HeadNumbered, SecondLate
    <3>4. CASE t # "conn" \/ j # i
      <4>1. req'[<<"conn", j>>] = req[<<"conn", j>>] BY <1>1, <3>4 DEF Thr
      <4> QED BY <3>1, <3>2, <4>1 DEF HeadStep, HeadNumbered, Heard
    <3> QED BY <3>3, <3>4
  <2> QED BY <2>1
<1>7. Dialling' BY <1>6, DiallingStep
<1>8. Dialled' BY <1>4, DialledStep DEF Dialled, Late
<1>9. Abandoned'
  <2>1. \A j \in {1, 2} : Pushes(req'[<<"conn", j>>].st) => Pushes(req[<<"conn", j>>].st)
    BY <1>1, <1>2 DEF Thr, Pushes
  <2> QED BY <2>1 DEF Abandoned
<1> QED BY <1>5, <1>7, <1>8, <1>9

\* A request takes the lead.
LEMMA LeadRequest ==
    ASSUME TunnelTypes, RequestInv, NEW t \in Thr, NEW i \in {1, 2}, Goto(<<t, i>>, "work"),
           req[<<t, i>>].st = "loop", ~pend[t], pend' = [pend EXCEPT ![t] = TRUE],
           t = "conn" => req[<<t, i>>].seq = sseq.conn + 1,
           UNCHANGED <<cl, cur, cseq, cclosed, died, sseq, connReady, chClosed>>
    PROVE  RequestInv'
<1> USE DEF RequestInv
<1>0. "work" \in States BY DEF States
<1>1. /\ req'[<<t, i>>].st = "work" /\ req'[<<t, i>>].seq = req[<<t, i>>].seq
      /\ \A u \in Thr, j \in {1, 2} : u # t \/ j # i => req'[<<u, j>>] = req[<<u, j>>]
  BY <1>0, GotoEffect
<1>2. pend'[t] = TRUE /\ \A u \in Thr : u # t => pend'[u] = pend[u] BY DEF TunnelTypes
<1>4. \A u \in Thr, j \in {1, 2} : req'[<<u, j>>].st # "none" => req[<<u, j>>].st # "none" BY <1>1
<1>5. Leading'
  <2>1. req[<<t, 1>>].st # "work" /\ req[<<t, 2>>].st # "work" BY DEF Leading
  <2>2. \A j \in {1, 2} : j # i => req'[<<t, j>>].st # "work" BY <1>1, <2>1
  <2>3. \A u \in Thr, j \in {1, 2} : u # t => req'[<<u, j>>].st = req[<<u, j>>].st BY <1>1
  <2>4. ASSUME NEW u \in Thr
        PROVE  /\ req'[<<u, 1>>].st = "work" => pend'[u] /\ req'[<<u, 2>>].st # "work"
               /\ req'[<<u, 2>>].st = "work" => pend'[u]
    <3>1. CASE u = t BY <1>2, <2>2, <3>1
    <3>2. CASE u # t
      <4>1. /\ req[<<u, 1>>].st = "work" => pend[u] /\ req[<<u, 2>>].st # "work"
            /\ req[<<u, 2>>].st = "work" => pend[u]
        BY DEF Leading
      <4> QED BY <1>2, <2>3, <3>2, <4>1
    <3> QED BY <3>1, <3>2
  <2> QED BY <2>4 DEF Leading
<1>6. HeadStep(1) /\ HeadStep(2)
  <2>1. ASSUME NEW j \in {1, 2} PROVE HeadStep(j)
    <3>1. HeadNumbered(j) BY DEF Dialling
    <3>2. died => cl["conn"] = "off" BY DEF Dialled, Thr
    <3>3. CASE t = "conn" /\ j = i
      <4>1. req[<<"conn", j>>].seq = 1 => sseq.conn = 0 BY <3>3, ConnNumbers
      <4> QED BY <1>1, <3>1, <3>3, <4>1 DEF HeadStep, HeadNumbered
    <3>4. CASE t # "conn" \/ j # i
      <4>1. req'[<<"conn", j>>] = req[<<"conn", j>>] BY <1>1, <3>4 DEF Thr
      <4> QED BY <3>1, <3>2, <4>1 DEF HeadStep, HeadNumbered, Heard
    <3> QED BY <3>3, <3>4
  <2> QED BY <2>1
<1>7. Dialling' BY <1>6, DiallingStep
<1>8. Dialled' BY <1>4, DialledStep DEF Dialled, Late
<1>9. Abandoned'
  <2>1. \A j \in {1, 2} : Pushes(req'[<<"conn", j>>].st) => Pushes(req[<<"conn", j>>].st)
    BY <1>1 DEF Thr, Pushes
  <2> QED BY <2>1 DEF Abandoned
<1> QED BY <1>5, <1>7, <1>8, <1>9

\* The leader is done and wakes the request that waits for it.
LEMMA BroadcastRequest ==
    ASSUME TunnelTypes, RequestInv, NEW t \in Thr, NEW i \in {1, 2}, NEW c \in Nat, NEW v \in Nat,
           Broadcast(t, <<t, i>>, c, v), req[<<t, i>>].st = "work",
           UNCHANGED <<cl, cur, cseq, cclosed, died>>,
           sseq'.conn \in Nat, sseq'.conn >= sseq.conn, t \notin {"conn", "hb"} => sseq'.conn = sseq.conn,
           t = "conn" /\ Success(c) => sseq'.conn >= 1,
           connReady' => connReady \/ sseq'.conn >= 1,
           chClosed' => chClosed \/ sseq'.conn >= 1
    PROVE  RequestInv'
<1> USE DEF RequestInv
<1> DEFINE a == Answered(<<t, i>>, c, v)
<1>1. /\ req'[<<t, i>>] = a /\ pend'[t] = FALSE /\ \A u \in Thr \ {t} : pend'[u] = pend[u]
      /\ \A u \in Thr \ {t}, j \in {1, 2} : req'[<<u, j>>] = req[<<u, j>>]
  BY BroadcastEffect
<1>2. /\ Heard(t, i) => a.st = "answered" /\ a.seq = req[<<t, i>>].seq /\ a.code = c
      /\ ~Heard(t, i) => a.st = "none"
  BY NoReqTyped DEF Answered, Listens, Heard
<1> HIDE DEF a
<1>3. ASSUME NEW j \in {1, 2}, j # i
      PROVE  /\ req'[<<t, j>>].st = Awake(req[<<t, j>>].st)
             /\ req'[<<t, j>>].seq = req[<<t, j>>].seq /\ req'[<<t, j>>].code = req[<<t, j>>].code
  BY <1>3, BroadcastWakes
<1>4. \A u \in Thr, j \in {1, 2} : req'[<<u, j>>].st # "none" => req[<<u, j>>].st # "none"
  BY <1>1, <1>3 DEF Awake
<1>5. Leading'
  <2>1. ASSUME NEW j \in {1, 2} PROVE req'[<<t, j>>].st # "work"
    <3>1. CASE j = i BY <1>1, <1>2, <3>1
    <3>2. CASE j # i
      <4>1. req[<<t, j>>].st # "work" BY <3>2 DEF Leading
      <4> QED BY <1>3, <3>2, <4>1 DEF Awake
    <3> QED BY <3>1, <3>2
  <2> QED BY <1>1, <2>1 DEF Leading
<1>6. Late => sseq'.conn >= 1 /\ Late' BY ConnNumbers DEF Late
<1>7. HeadStep(1) /\ HeadStep(2)
  <2>1. ASSUME NEW j \in {1, 2} PROVE HeadStep(j)
    <3>1. HeadNumbered(j) BY DEF Dialling
    <3>2. died => cl["conn"] = "off" BY DEF Dialled, Thr
    <3>3. CASE t = "conn" /\ j = i BY <1>1, <1>2, <3>1, <3>3 DEF HeadStep, HeadNumbered
    <3>4. CASE t = "conn" /\ j # i
      <4>1. req[<<"conn", j>>].st # "work" BY <3>4 DEF Leading
      <4>2. /\ req'[<<"conn", j>>].st = Awake(req[<<"conn", j>>].st)
            /\ req'[<<"conn", j>>].seq = req[<<"conn", j>>].seq /\ req'[<<"conn", j>>].code = req[<<"conn", j>>].code
        BY <1>3, <3>4
      <4> QED BY <3>1, <3>2, <4>1, <4>2, ConnNumbers DEF HeadStep, HeadNumbered, Heard, Awake
    <3>5. CASE t # "conn"
      <4>1. req'[<<"conn", j>>] = req[<<"conn", j>>] BY <1>1, <3>5 DEF Thr
      <4>2. Late BY <3>5 DEF Dialled
      <4>3. req[<<"conn", j>>].st = "work" /\ req[<<"conn", j>>].seq = 1 => FALSE
        BY <3>1, <4>2, ConnNumbers DEF HeadNumbered, Late
      <4> QED BY <3>1, <3>2, <4>1, <4>3, <4>2, <1>6 DEF HeadStep, HeadNumbered, Heard
    <3> QED BY <3>3, <3>4, <3>5
  <2> QED BY <2>1
<1>8. Dialling' BY <1>7, DiallingStep
<1>9. Dialled' BY <1>4, <1>6, DialledStep, ConnNumbers DEF Dialled
<1>10. Abandoned'
  <2>1. SUFFICES ASSUME chClosed', sseq'.conn = 0
                 PROVE  /\ ~Pushes(req'[<<"conn", 1>>].st) /\ ~Pushes(req'[<<"conn", 2>>].st)
                        /\ cl["conn"] \notin {"ready", "await"}
    BY DEF Abandoned
  <2>2. chClosed /\ sseq.conn = 0 BY <2>1, ConnNumbers
  <2>3. ~Late BY <2>2 DEF Late
  <2>4. t = "conn" BY <2>3 DEF Dialled
  <2> QED BY <2>2, <2>4 DEF Abandoned, Pushes
<1> QED BY <1>5, <1>8, <1>9, <1>10

-----------------------------------------------------------------------------
(* The server's steps, one by one.                                         *)

LEMMA LeakParts == LeakInv <=> ChannelTypes /\ RequestInv /\ SocketKept
BY DEF LeakInv, RequestInv

LEMMA SocketFrame ==
    ASSUME SocketKept, UNCHANGED <<conn, sock, present>>, cseq'.conn > 0 => cseq.conn > 0 \/ present,
           chClosed => chClosed'
    PROVE  SocketKept'
BY DEF SocketKept

LEMMA ChannelFrame ==
    ASSUME ChannelTypes, UNCHANGED <<kind, conn, sock, sent, out, mu, present>>, faults' \in Nat,
           cclosed' \in BOOLEAN, died' \in BOOLEAN, chClosed' \in BOOLEAN
    PROVE  ChannelTypes'
BY DEF ChannelTypes

LEMMA GoneRequest ==
    ASSUME TunnelTypes, RequestInv, NEW t \in Thr, NEW i \in {1, 2}, Reply(<<t, i>>, 410, 0), req[<<t, i>>].st # "none",
           UNCHANGED <<cl, cur, cseq, cclosed, died, sseq, pend, connReady, chClosed>>
    PROVE  RequestInv'
<1> DEFINE c == 410
           v == 0
<1>1. c \in Nat /\ v \in Nat /\ Reply(<<t, i>>, c, v) /\ ~Success(c) BY DEF Success
<1>2. SecondLate(t, i, c) BY <1>1 DEF SecondLate
<1> HIDE DEF c, v
<1> QED BY <1>1, <1>2, ReplyRequest

LEMMA EnterLeak == ASSUME TunnelInv, LeakInv, NEW t \in Thr, NEW i \in {1, 2}, Enter(<<t, i>>) PROVE LeakInv'
<1>0. TunnelTypes /\ ChannelTypes /\ RequestInv /\ SocketKept BY LeakParts DEF TunnelInv
<1>1. /\ UNCHANGED <<cl, cur, cseq, cclosed, died, sseq, pend, connReady>>
      /\ UNCHANGED <<kind, sent, out, faults, mu, present, conn, sock>>
      /\ req[<<t, i>>].st = "net" /\ "loop" \in States \ {"none", "answered", "work"}
      /\ "closing" \in States \ {"none", "answered", "work"} /\ (chClosed' = chClosed \/ chClosed' = TRUE)
  BY DEF Enter, States, clientVars
<1>2. ChannelTypes' BY <1>0, <1>1, ChannelFrame DEF ChannelTypes
<1>3. SocketKept' BY <1>0, <1>1, SocketFrame
<1>4. RequestInv'
  <2>1. CASE Reply(<<t, i>>, 410, 0) /\ UNCHANGED chClosed BY <1>0, <1>1, <2>1, GoneRequest
  <2>2. CASE Goto(<<t, i>>, "loop") /\ UNCHANGED chClosed
    <3>1. Pushes(req[<<t, i>>].st) BY <1>1 DEF Pushes
    <3> QED BY <1>0, <1>1, <2>2, <3>1, GotoRequest
  <2>3. CASE Goto(<<t, i>>, "closing") /\ t = "del"
    <3>1. req[<<"del", 1>>].st # "none" \/ req[<<"del", 2>>].st # "none" => Late BY <1>0 DEF RequestInv, Dialled, Thr
    <3>2. Late BY <1>1, <2>3, <3>1
    <3> QED BY <1>0, <1>1, <2>3, <3>2, GotoRequest
  <2> QED BY <2>1, <2>2, <2>3 DEF Enter
<1> QED BY <1>2, <1>3, <1>4 DEF LeakInv, RequestInv

LEMMA TurnLeak == ASSUME TunnelInv, LeakInv, NEW t \in Thr, NEW i \in {1, 2}, Turn(<<t, i>>) PROVE LeakInv'
<1> DEFINE step == req[<<t, i>>].seq - sseq[NumberOf(t)]
           c == Repeated(t).code
           v == Repeated(t).val
<1>0. TunnelTypes /\ ChannelTypes /\ RequestInv /\ SocketKept BY LeakParts DEF TunnelInv
<1>1. /\ UNCHANGED <<cl, cur, cseq, cclosed, died, sseq, connReady, chClosed>>
      /\ UNCHANGED <<kind, sent, out, faults, mu, present, conn, sock>>
      /\ req[<<t, i>>].st = "loop" /\ Pushes(req[<<t, i>>].st)
      /\ "wait0" \in States \ {"none", "answered", "work"} /\ "wait1" \in States \ {"none", "answered", "work"}
      /\ "unready" \in States \ {"none", "answered", "work"}
  BY DEF Turn, States, clientVars, Pushes
<1>2. ChannelTypes' BY <1>0, <1>1, ChannelFrame DEF ChannelTypes
<1>3. SocketKept' BY <1>0, <1>1, SocketFrame
<1>4. req[<<t, i>>].seq \in Nat /\ sseq.conn \in Nat /\ c \in Nat /\ v \in Nat
  BY <1>0, SlotTyped, ConnNumbers, RepeatedTyped DEF TunnelTypes
<1>5. RequestInv'
  <2>1. CASE step = 0 /\ Reply(<<t, i>>, c, v) /\ UNCHANGED pend
    <3>1. t = "conn" => req[<<t, i>>].seq = sseq.conn BY <1>4, <2>1 DEF NumberOf
    <3>2. SecondLate(t, i, c) BY <1>4, <3>1 DEF SecondLate
    <3>3. Reply(<<t, i>>, c, v) /\ UNCHANGED pend BY <2>1
    <3> HIDE DEF c, v, step
    <3> QED BY <1>0, <1>1, <1>4, <3>2, <3>3, ReplyRequest
  <2>2. CASE step = 1 /\ ~pend[t] /\ Goto(<<t, i>>, "work") /\ pend' = [pend EXCEPT ![t] = TRUE]
    <3>1. t = "conn" => req[<<t, i>>].seq = sseq.conn + 1 BY <1>4, <2>2 DEF NumberOf
    <3> QED BY <1>0, <1>1, <2>2, <3>1, LeadRequest
  <2>3. CASE (\E s \in {"wait0", "wait1", "unready"} : Goto(<<t, i>>, s)) /\ UNCHANGED pend
    BY <1>0, <1>1, <2>3, GotoRequest
  <2>4. CASE Reply(<<t, i>>, 410, 0) /\ UNCHANGED pend BY <1>0, <1>1, <2>4, GoneRequest
  <2> QED BY <2>1, <2>2, <2>3, <2>4 DEF Turn
<1> QED BY <1>2, <1>3, <1>5 DEF LeakInv, RequestInv

LEMMA RelockLeak == ASSUME TunnelInv, LeakInv, NEW t \in Thr, NEW i \in {1, 2}, Relock(<<t, i>>) PROVE LeakInv'
<1>0. TunnelTypes /\ ChannelTypes /\ RequestInv /\ SocketKept BY LeakParts DEF TunnelInv
<1>1. /\ UNCHANGED <<cl, cur, cseq, cclosed, died, sseq, pend, connReady, chClosed>>
      /\ UNCHANGED <<kind, sent, out, faults, present, conn, sock>> /\ mu' = {<<t, i>>}
      /\ req[<<t, i>>].st = "woken" /\ Goto(<<t, i>>, "stuck")
      /\ "stuck" \in States \ {"none", "answered", "work"} /\ ~Pushes("stuck")
  BY DEF Relock, States, clientVars, Pushes
<1>2. ChannelTypes' BY <1>0, <1>1, SlotTyped DEF ChannelTypes
<1>3. SocketKept' BY <1>0, <1>1, SocketFrame
<1>4. RequestInv' BY <1>0, <1>1, GotoRequest
<1> QED BY <1>2, <1>3, <1>4 DEF LeakInv, RequestInv

LEMMA AwaitReadyLeak == ASSUME TunnelInv, LeakInv, NEW t \in Thr, NEW i \in {1, 2}, AwaitReady(<<t, i>>) PROVE LeakInv'
<1>0. TunnelTypes /\ ChannelTypes /\ RequestInv /\ SocketKept BY LeakParts DEF TunnelInv
<1>1. /\ UNCHANGED <<cl, cur, cseq, cclosed, died, sseq, pend, connReady, chClosed>>
      /\ UNCHANGED <<kind, sent, out, faults, mu, present, conn, sock>>
      /\ req[<<t, i>>].st = "unready" /\ "loop" \in States \ {"none", "answered", "work"}
  BY DEF AwaitReady, States, clientVars, channelVars
<1>2. ChannelTypes' BY <1>0, <1>1, ChannelFrame DEF ChannelTypes
<1>3. SocketKept' BY <1>0, <1>1, SocketFrame
<1>4. CASE connReady /\ Goto(<<t, i>>, "loop")
  <2>1. sseq.conn # 0 BY <1>0, <1>4, ConnNumbers DEF RequestInv, Dialled
  <2>2. RequestInv' BY <1>0, <1>1, <1>4, <2>1, GotoRequest
  <2> QED BY <1>2, <1>3, <2>2 DEF LeakInv, RequestInv
<1>5. CASE Reply(<<t, i>>, 410, 0)
  <2>1. RequestInv' BY <1>0, <1>1, <1>5, GoneRequest
  <2> QED BY <1>2, <1>3, <2>1 DEF LeakInv, RequestInv
<1> QED BY <1>4, <1>5 DEF AwaitReady

LEMMA RefuseLeak == ASSUME TunnelInv, LeakInv, NEW t \in Thr, NEW i \in {1, 2}, Refuse(<<t, i>>) PROVE LeakInv'
<1> DEFINE c == 200
           v == 0
<1>0. TunnelTypes /\ ChannelTypes /\ RequestInv /\ SocketKept BY LeakParts DEF TunnelInv
<1>1. /\ UNCHANGED <<cl, cur, cseq, cclosed, died, sseq, pend, connReady, chClosed>>
      /\ UNCHANGED <<kind, sent, out, faults, mu, present, conn, sock>>
      /\ req[<<t, i>>].st = "work" /\ Reply(<<t, i>>, c, v) /\ c \in Nat /\ v \in Nat /\ SecondLate(t, i, c)
  BY DEF Refuse, SecondLate, clientVars, channelVars
<1> HIDE DEF c, v
<1>2. ChannelTypes' BY <1>0, <1>1, ChannelFrame DEF ChannelTypes
<1>3. SocketKept' BY <1>0, <1>1, SocketFrame
<1>4. RequestInv' BY <1>0, <1>1, ReplyRequest
<1> QED BY <1>2, <1>3, <1>4 DEF LeakInv, RequestInv

\* The dial: the channel is still in the map.
LEMMA ConnectLeak == ASSUME TunnelInv, LeakInv, NEW t \in Thr, NEW i \in {1, 2}, Connect(<<t, i>>) PROVE LeakInv'
<1> DEFINE c == 200
           v == 0
<1>0. TunnelTypes /\ ChannelTypes /\ RequestInv /\ SocketKept BY LeakParts DEF TunnelInv
<1>1. /\ UNCHANGED <<cl, cur, cseq, cclosed, died, chClosed>> /\ UNCHANGED <<kind, sent, out, faults, mu, present>>
      /\ t = "conn" /\ req[<<t, i>>].st = "work" /\ req[<<t, i>>].seq = 1
      /\ Broadcast(t, <<t, i>>, c, v) /\ c \in Nat /\ v \in Nat
  BY DEF Connect, clientVars
<1>8. (conn' = conn /\ sock' = sock) \/ (conn' = "open" /\ sock' = "open") BY DEF Connect
<1>2. sseq'.conn = sseq.conn + 1 BY <1>0 DEF Connect, TunnelTypes, Keys
<1>3. sseq'.conn \in Nat /\ sseq'.conn >= sseq.conn /\ sseq'.conn >= 1 BY <1>0, <1>2, ConnNumbers
<1>4. present
  <2>1. sseq.conn = 0 /\ cseq.conn = 2
    <3>1. HeadNumbered(i) BY <1>0 DEF RequestInv, Dialling
    <3> QED BY <1>1, <3>1 DEF HeadNumbered
  <2>2. Pushes(req[<<"conn", i>>].st) BY <1>1 DEF Pushes
  <2>3. ~chClosed BY <1>0, <2>1, <2>2 DEF RequestInv, Abandoned
  <2> QED BY <1>0, <2>1, <2>3 DEF SocketKept, ChannelTypes
<1>5. ChannelTypes' BY <1>0, <1>1, <1>8 DEF ChannelTypes
<1>6. SocketKept' BY <1>0, <1>1, <1>4, <1>8 DEF SocketKept
<1> HIDE DEF c, v
<1>7. RequestInv' BY <1>0, <1>1, <1>3, BroadcastRequest
<1> QED BY <1>5, <1>6, <1>7 DEF LeakInv, RequestInv

LEMMA ConnectFailsLeak ==
    ASSUME TunnelInv, LeakInv, NEW t \in Thr, NEW i \in {1, 2}, ConnectFails(<<t, i>>)
    PROVE  LeakInv'
<1> DEFINE c == 410
           v == 0
<1>0. TunnelTypes /\ ChannelTypes /\ RequestInv /\ SocketKept BY LeakParts DEF TunnelInv
<1>1. /\ UNCHANGED <<cl, cur, cseq, cclosed, died>> /\ UNCHANGED <<kind, sent, out, mu, present, conn, sock>>
      /\ faults' = faults + 1 /\ chClosed' = TRUE /\ t = "conn" /\ req[<<t, i>>].st = "work"
      /\ Broadcast(t, <<t, i>>, c, v) /\ c \in Nat /\ v \in Nat
  BY DEF ConnectFails
<1>2. sseq'.conn = sseq.conn + 1 BY <1>0 DEF ConnectFails, TunnelTypes, Keys
<1>3. sseq'.conn \in Nat /\ sseq'.conn >= sseq.conn /\ sseq'.conn >= 1 BY <1>0, <1>2, ConnNumbers
<1>4. ChannelTypes' BY <1>0, <1>1 DEF ChannelTypes
<1>5. SocketKept' BY <1>0, <1>1, SocketFrame
<1> HIDE DEF c, v
<1>6. RequestInv' BY <1>0, <1>1, <1>3, BroadcastRequest
<1> QED BY <1>4, <1>5, <1>6 DEF LeakInv, RequestInv

LEMMA AcknowledgeLeak ==
    ASSUME TunnelInv, LeakInv, NEW t \in Thr, NEW i \in {1, 2}, Acknowledge(<<t, i>>)
    PROVE  LeakInv'
<1> DEFINE c == IF Active THEN 200 ELSE 410
           v == 0
<1>0. TunnelTypes /\ ChannelTypes /\ RequestInv /\ SocketKept BY LeakParts DEF TunnelInv
<1>1. /\ UNCHANGED <<cl, cur, cseq, cclosed, died, chClosed, connReady>>
      /\ UNCHANGED <<kind, sent, out, mu, present, conn, sock, faults>>
      /\ t = "conn" /\ req[<<t, i>>].st = "work"
      /\ Broadcast(t, <<t, i>>, c, v) /\ c \in Nat /\ v \in Nat
  BY DEF Acknowledge, clientVars
<1>2. sseq'.conn = IF Active THEN sseq.conn + 1 ELSE sseq.conn BY <1>0 DEF Acknowledge, TunnelTypes, Keys
<1>3. sseq'.conn \in Nat /\ sseq'.conn >= sseq.conn /\ (Success(c) => sseq'.conn >= 1)
  BY <1>0, <1>2, ConnNumbers DEF Success
<1>4. ChannelTypes' BY <1>0, <1>1, ChannelFrame DEF ChannelTypes
<1>5. SocketKept' BY <1>0, <1>1, SocketFrame
<1> HIDE DEF c, v
<1>6. RequestInv' BY <1>0, <1>1, <1>3, BroadcastRequest
<1> QED BY <1>4, <1>5, <1>6 DEF LeakInv, RequestInv

LEMMA BeatLeak == ASSUME TunnelInv, LeakInv, NEW t \in Thr, NEW i \in {1, 2}, Beat(<<t, i>>) PROVE LeakInv'
<1> DEFINE c == IF chClosed THEN 410 ELSE 200
           v == 0
<1>0. TunnelTypes /\ ChannelTypes /\ RequestInv /\ SocketKept BY LeakParts DEF TunnelInv
<1>1. /\ UNCHANGED <<cl, cur, cseq, cclosed, died, chClosed, connReady>>
      /\ UNCHANGED <<kind, sent, out, mu, present, conn, sock, faults>>
      /\ t = "hb" /\ req[<<t, i>>].st = "work"
      /\ Broadcast(t, <<t, i>>, c, v) /\ c \in Nat /\ v \in Nat
  BY DEF Beat, clientVars
<1>2. sseq'.conn = sseq.conn + 1 BY <1>0 DEF Beat, TunnelTypes, Keys
<1>3. sseq'.conn \in Nat /\ sseq'.conn >= sseq.conn BY <1>0, <1>2, ConnNumbers
<1>4. ChannelTypes' BY <1>0, <1>1, ChannelFrame DEF ChannelTypes
<1>5. SocketKept' BY <1>0, <1>1, SocketFrame
<1> HIDE DEF c, v
<1>6. RequestInv' BY <1>0, <1>1, <1>3, BroadcastRequest
<1> QED BY <1>4, <1>5, <1>6 DEF LeakInv, RequestInv

TargetKept == UNCHANGED <<conn, sock>> \/ (conn' = "none" /\ sock' = "closed")

\* The leader of a GET or a POST is done.
LEMMA DataLeak ==
    ASSUME TunnelInv, LeakInv, NEW t \in {"read", "write"}, NEW i \in {1, 2}, NEW c \in Nat, NEW v \in Nat,
           Broadcast(t, <<t, i>>, c, v), req[<<t, i>>].st = "work", sseq' = [sseq EXCEPT ![t] = sseq[t] + 1],
           UNCHANGED <<cl, cur, cseq, cclosed, died, chClosed, connReady, kind, sent, mu, present>>,
           faults' \in Nat, out' <= MaxOut,
           TargetKept
    PROVE  LeakInv'
<1>0. TunnelTypes /\ ChannelTypes /\ RequestInv /\ SocketKept /\ t \in Thr BY LeakParts DEF TunnelInv, Thr
<1>1. sseq'.conn = sseq.conn /\ sseq.conn \in Nat BY <1>0, ConnNumbers DEF TunnelTypes, Keys
<1>2. ChannelTypes' BY <1>0 DEF ChannelTypes, TargetKept
<1>3. SocketKept' BY <1>0 DEF SocketKept, TargetKept
<1>4. t \notin {"conn", "hb"} /\ sseq'.conn \in Nat /\ sseq'.conn >= sseq.conn BY <1>1
<1>5. RequestInv' BY <1>0, <1>1, <1>4, BroadcastRequest
<1> QED BY <1>2, <1>3, <1>5 DEF LeakInv, RequestInv

LEMMA FetchLeak == ASSUME TunnelInv, LeakInv, NEW t \in Thr, NEW i \in {1, 2}, Fetch(<<t, i>>) PROVE LeakInv'
<1>0. /\ t = "read" /\ req[<<t, i>>].st = "work" /\ sseq' = [sseq EXCEPT ![t] = sseq[t] + 1]
      /\ UNCHANGED <<cl, cur, cseq, cclosed, died, chClosed, connReady, kind, sent, mu, present, conn, sock, faults>>
  BY DEF Fetch, clientVars
<1>1. PICK c \in Nat, v \in Nat : Broadcast(t, <<t, i>>, c, v)
  <2>1. 200 \in Nat /\ 408 \in Nat /\ 410 \in Nat /\ 0 \in Nat /\ out + 1 \in Nat BY DEF TunnelInv, TunnelTypes
  <2> QED BY <1>0, <2>1 DEF Fetch
<1>2. faults' \in Nat /\ out' <= MaxOut
  BY <1>0, TunnelAssumption DEF Fetch, LeakInv, ChannelTypes, TunnelInv, TunnelTypes
<1>3. t \in {"read", "write"} /\ TargetKept BY <1>0 DEF TargetKept
<1> QED BY <1>0, <1>1, <1>2, <1>3, DataLeak

LEMMA StoreLeak == ASSUME TunnelInv, LeakInv, NEW t \in Thr, NEW i \in {1, 2}, Store(<<t, i>>) PROVE LeakInv'
<1> DEFINE c == IF Active /\ ~(kind = "UDP" /\ chClosed) THEN 200 ELSE 410
           v == 0
<1>0. /\ t = "write" /\ req[<<t, i>>].st = "work" /\ sseq' = [sseq EXCEPT ![t] = sseq[t] + 1]
      /\ UNCHANGED <<cl, cur, cseq, cclosed, died, chClosed, connReady, kind, sent, mu, present, conn, sock, faults, out>>
      /\ Broadcast(t, <<t, i>>, c, v)
  BY DEF Store, clientVars
<1>1. c \in Nat /\ v \in Nat OBVIOUS
<1> HIDE DEF c, v
<1>2. faults' \in Nat /\ out' <= MaxOut BY <1>0 DEF LeakInv, ChannelTypes
<1>3. t \in {"read", "write"} /\ TargetKept BY <1>0 DEF TargetKept
<1> QED BY <1>0, <1>1, <1>2, <1>3, DataLeak

LEMMA StoreFailsLeak ==
    ASSUME TunnelInv, LeakInv, NEW t \in Thr, NEW i \in {1, 2}, StoreFails(<<t, i>>)
    PROVE  LeakInv'
<1> DEFINE c == 410
           v == 0
<1>0. /\ t = "write" /\ req[<<t, i>>].st = "work" /\ sseq' = [sseq EXCEPT ![t] = sseq[t] + 1]
      /\ UNCHANGED <<cl, cur, cseq, cclosed, died, chClosed, connReady, kind, sent, mu, present, out>>
      /\ faults' = faults + 1 /\ conn' = "none" /\ sock' = "closed" /\ Broadcast(t, <<t, i>>, c, v)
  BY DEF StoreFails
<1>1. c \in Nat /\ v \in Nat OBVIOUS
<1> HIDE DEF c, v
<1>2. faults' \in Nat /\ out' <= MaxOut BY <1>0 DEF LeakInv, ChannelTypes
<1>3. t \in {"read", "write"} /\ TargetKept BY <1>0 DEF TargetKept
<1> QED BY <1>0, <1>1, <1>2, <1>3, DataLeak

\* The timer waits for a push to be answered, unless its dial is slow; a client
\* that is not expected any more sends none.
LEMMA ReqTimeoutLeak == ASSUME ~SlowDial, TunnelInv, LeakInv, ReqTimeout PROVE LeakInv'
<1>0. TunnelTypes /\ ChannelTypes /\ RequestInv /\ SocketKept BY LeakParts DEF TunnelInv
<1>1. /\ UNCHANGED <<cl, cur, cseq, cclosed, died, sseq, pend, connReady, req>> /\ chClosed' = TRUE
      /\ UNCHANGED <<kind, sent, out, faults, mu, present, conn, sock>> /\ ~Expected
      /\ ~Pushing({"net", "loop", "work"})
  BY DEF ReqTimeout, clientVars
<1>2. ChannelTypes' BY <1>0, <1>1, ChannelFrame DEF ChannelTypes
<1>3. SocketKept' BY <1>0, <1>1, SocketFrame
<1>4. Leading' BY <1>0, <1>1, LeadingFrame DEF RequestInv
<1>5. Dialling' BY <1>0, <1>1, DiallingFrame DEF RequestInv
<1>6. Dialled' BY <1>0, <1>1, DialledStep DEF RequestInv, Dialled, Late
<1>7. Abandoned'
  <2>1. \A r \in Slots : r[1] = "conn" => req[r].st \notin {"net", "loop", "work"} BY <1>1 DEF Pushing
  <2>2. <<"conn", 1>> \in Slots /\ <<"conn", 2>> \in Slots BY DEF Slots, Thr
  <2>3. ~Pushes(req[<<"conn", 1>>].st) /\ ~Pushes(req[<<"conn", 2>>].st) BY <2>1, <2>2 DEF Pushes
  <2>4. died => cl["conn"] = "off" BY <1>0 DEF RequestInv, Dialled, Thr
  <2>5. cl["hb"] = "failed" \/ cclosed => sseq.conn # 0
    <3>0. "hb" \in Thr \ {"conn"} BY DEF Thr
    <3>1. (cl["hb"] # "off" => Late) /\ (cclosed => Late) BY <1>0, <3>0 DEF RequestInv, Dialled
    <3> QED BY <1>0, <3>1, ConnNumbers DEF Late
  <2>6. sseq.conn = 0 => cl["conn"] \notin {"ready", "await"} BY <1>1, <2>4, <2>5 DEF Expected
  <2> QED BY <1>1, <2>3, <2>6 DEF Abandoned
<1> QED BY <1>2, <1>3, <1>4, <1>5, <1>6, <1>7 DEF LeakInv

LEMMA CloseChannelLeak == ASSUME TunnelInv, LeakInv, CloseChannel PROVE LeakInv'
<1>0. TunnelTypes /\ ChannelTypes /\ RequestInv /\ SocketKept BY LeakParts DEF TunnelInv
<1>1. /\ UNCHANGED <<cl, cur, cseq, cclosed, died, sseq, pend, connReady>>
      /\ UNCHANGED <<kind, sent, out, faults, mu, chClosed>> /\ chClosed /\ present' = FALSE /\ conn' = "none"
      /\ sock' = (IF conn = "open" THEN "closed" ELSE sock)
  BY DEF CloseChannel, clientVars
<1>2. \A t \in Thr, i \in {1, 2} :
          /\ req[<<t, i>>].st = "closing" => req'[<<t, i>>] = Answered(<<t, i>>, 410, 0)
          /\ req[<<t, i>>].st # "closing" => req'[<<t, i>>] = req[<<t, i>>]
  BY SlotTyped DEF CloseChannel
<1>3. \A t \in Thr, i \in {1, 2} : req[<<t, i>>].st = "closing" => req'[<<t, i>>].st \in {"answered", "none"}
  <2>2. ASSUME NEW t \in Thr, NEW i \in {1, 2}, req[<<t, i>>].st = "closing"
        PROVE  req'[<<t, i>>].st \in {"answered", "none"}
    <3>1. req'[<<t, i>>] = Answered(<<t, i>>, 410, 0) BY <1>2, <2>2
    <3>2. Answered(<<t, i>>, 410, 0).st \in {"answered", "none"} BY NoReqTyped DEF Answered
    <3> QED BY <3>1, <3>2
  <2> QED BY <2>2
<1>4. ChannelTypes' BY <1>0, <1>1 DEF ChannelTypes
<1>5. SocketKept' BY <1>0, <1>1 DEF SocketKept, ChannelTypes
<1>6. Leading' BY <1>0, <1>1, <1>2, <1>3, LeadingFrame DEF RequestInv
<1>7. ASSUME NEW i \in {1, 2} PROVE HeadStep(i)
  <2> DEFINE a == Answered(<<"conn", i>>, 410, 0)
  <2>1. HeadNumbered(i) BY <1>0 DEF RequestInv, Dialling
  <2>2. died => cl["conn"] = "off" BY <1>0 DEF RequestInv, Dialled, Thr
  <2>3. CASE req[<<"conn", i>>].st # "closing"
    <3>1. req'[<<"conn", i>>] = req[<<"conn", i>>] BY <1>2, <2>3 DEF Thr
    <3> QED BY <1>1, <2>1, <2>2, <3>1 DEF HeadStep, HeadNumbered, Heard
  <2>4. CASE req[<<"conn", i>>].st = "closing"
    <3>1. req'[<<"conn", i>>] = a BY <1>2, <2>4 DEF Thr
    <3>2. /\ Heard("conn", i) => a.st = "answered" /\ a.seq = req[<<"conn", i>>].seq /\ ~Success(a.code)
          /\ ~Heard("conn", i) => a.st = "none"
      BY NoReqTyped DEF Answered, Listens, Heard, Success
    <3> HIDE DEF a
    <3> QED BY <2>4, <3>1, <3>2 DEF HeadStep
  <2> QED BY <2>3, <2>4
<1>8. Dialling' BY <1>0, <1>1, <1>7, DiallingStep DEF RequestInv
<1>9. Dialled'
  <2>1. \A t \in Thr \ {"conn"}, i \in {1, 2} : req'[<<t, i>>].st # "none" => req[<<t, i>>].st # "none" BY <1>2
  <2> QED BY <1>0, <1>1, <2>1, DialledStep DEF RequestInv, Dialled, Late
<1>10. Abandoned'
  <2>1. \A i \in {1, 2} : Pushes(req'[<<"conn", i>>].st) => Pushes(req[<<"conn", i>>].st)
    BY <1>2, <1>3 DEF Pushes, Thr
  <2> QED BY <1>0, <1>1, <2>1 DEF RequestInv, Abandoned
<1> QED BY <1>4, <1>5, <1>6, <1>8, <1>9, <1>10 DEF LeakInv

-----------------------------------------------------------------------------
(* The client's steps.                                                     *)

LEMMA SendEffect ==
    ASSUME TunnelTypes, NEW t \in Thr, NEW v \in Nat, Send(t, v)
    PROVE  /\ cl'[t] = "await" /\ \A u \in Thr : u # t => cl'[u] = cl[u]
           /\ cur'[t] = 1 /\ \A u \in Thr : u # t => cur'[u] = cur[u]
           /\ req'[<<t, 1>>].st = "net" /\ (t \in {"conn", "hb"} => req'[<<t, 1>>].seq = cseq.conn)
           /\ \A u \in Thr, j \in {1, 2} : u # t \/ j # 1 => req'[<<u, j>>] = req[<<u, j>>]
           /\ cseq'.conn = IF t \in {"read", "write"} THEN cseq.conn ELSE cseq.conn + 1
<1> DEFINE k == IF t = "del" THEN "conn" ELSE NumberOf(t)
           q == IF k = "conn" THEN cseq.conn ELSE cseq[k] + 1
           n == [st |-> "net", seq |-> q, code |-> 0, val |-> v]
<1>1. /\ cl' = [cl EXCEPT ![t] = "await"] /\ cur' = [cur EXCEPT ![t] = 1]
      /\ cseq' = [cseq EXCEPT ![k] = cseq[k] + 1] /\ req' = [req EXCEPT ![<<t, 1>>] = n]
  BY DEF Send
<1>2. n.st = "net" /\ (t \in {"conn", "hb"} => n.seq = cseq.conn) BY DEF NumberOf
<1>3. /\ cl'[t] = "await" /\ \A u \in Thr : u # t => cl'[u] = cl[u]
      /\ cur'[t] = 1 /\ \A u \in Thr : u # t => cur'[u] = cur[u]
  BY <1>1 DEF TunnelTypes
<1>4. cseq'.conn = IF t \in {"read", "write"} THEN cseq.conn ELSE cseq.conn + 1
  BY <1>1 DEF TunnelTypes, Keys, NumberOf, Thr
<1> HIDE DEF n, k, q
<1>5. 1 \in {1, 2} OBVIOUS
<1>6. req'[<<t, 1>>] = n /\ \A u \in Thr, j \in {1, 2} : u # t \/ j # 1 => req'[<<u, j>>] = req[<<u, j>>]
  BY <1>1, <1>5, SlotUpdate
<1> QED BY <1>2, <1>3, <1>4, <1>6

\* A step of a thread of the opened connection, which is not the pushes'.
LEMMA OtherLeak ==
    ASSUME TunnelTypes, LeakInv, Late, ~died, UNCHANGED <<kind, died, channelVars>>,
           cclosed' \in BOOLEAN, faults' \in Nat, sent' <= MaxWrites,
           UNCHANGED <<cl["conn"], cur["conn"], req[<<"conn", 1>>], req[<<"conn", 2>>]>>,
           cseq'.conn \in Nat, cseq'.conn >= cseq.conn,
           \A t \in Thr, i \in {1, 2} : req'[<<t, i>>].st = "work" => req[<<t, i>>].st = "work"
    PROVE  LeakInv'
<1>1. UNCHANGED <<kind, died, chClosed, mu, present, conn, sock, out, pend, connReady, sseq>> BY DEF channelVars
<1>2. cseq'.conn >= 3 /\ cseq.conn >= 3 /\ sseq.conn >= 1 BY ConnNumbers DEF Late
<1>3. ChannelTypes' BY <1>1 DEF LeakInv, ChannelTypes
<1>4. Leading' BY <1>1, LeadingFrame DEF LeakInv
<1>5. Dialling'
  <2>1. HeadNumbered(1)' /\ HeadNumbered(2)' BY <1>1, <1>2, ConnNumbers DEF LeakInv, Dialling, HeadNumbered
  <2>2. cl["conn"] # "ready" BY <1>2, ConnNumbers DEF LeakInv, Dialling
  <2> QED BY <2>1, <2>2 DEF LeakInv, Dialling
<1>6. Late' BY <1>1, <1>2 DEF Late
<1>7. Dialled' BY <1>1, <1>2, <1>6 DEF Dialled
<1>8. Abandoned' BY <1>1, <1>2, ConnNumbers DEF Abandoned
<1>9. SocketKept' BY <1>1, <1>2, ConnNumbers, SocketFrame DEF LeakInv
<1> QED BY <1>3, <1>4, <1>5, <1>7, <1>8, <1>9 DEF LeakInv

LEMMA SendLate ==
    ASSUME TunnelTypes, LeakInv, Late, ~died, NEW t \in Thr \ {"conn"}, NEW v \in Nat, Send(t, v),
           UNCHANGED <<kind, died, faults, channelVars>>, cclosed' \in BOOLEAN, sent' <= MaxWrites
    PROVE  LeakInv'
<1>1. /\ \A u \in Thr : u # t => cl'[u] = cl[u] /\ cur'[u] = cur[u]
      /\ req'[<<t, 1>>].st = "net"
      /\ \A u \in Thr, j \in {1, 2} : u # t \/ j # 1 => req'[<<u, j>>] = req[<<u, j>>]
      /\ cseq'.conn = IF t \in {"read", "write"} THEN cseq.conn ELSE cseq.conn + 1
  BY SendEffect
<1>2. UNCHANGED <<cl["conn"], cur["conn"], req[<<"conn", 1>>], req[<<"conn", 2>>]>> BY <1>1 DEF Thr
<1>3. cseq'.conn \in Nat /\ cseq'.conn >= cseq.conn BY <1>1, ConnNumbers
<1>4. faults' \in Nat BY DEF LeakInv, ChannelTypes
<1>5. \A u \in Thr, i \in {1, 2} : req'[<<u, i>>].st = "work" => req[<<u, i>>].st = "work" BY <1>1
<1> QED BY <1>2, <1>3, <1>4, <1>5, OtherLeak

\* What a thread of an opened connection is at implies that Dial has returned.
LEMMA ThreadLate ==
    ASSUME Dialled, NEW t \in Thr \ {"conn"}, cl[t] # "off"
    PROVE  Late
BY DEF Dialled

LEMMA OpenChannelLeak == ASSUME TunnelInv, LeakInv, OpenChannel PROVE LeakInv'
<1>0. TunnelTypes /\ ChannelTypes /\ Leading /\ Dialling /\ Dialled /\ Abandoned /\ SocketKept BY DEF TunnelInv, LeakInv
<1>1. /\ cl["conn"] = "ready" /\ cseq.conn = 0 /\ ~died
      /\ UNCHANGED <<kind, cur, cclosed, died, sent, got, req, chClosed, mu, sseq, pend, connReady, conn, sock, out>>
      /\ (faults' = faults \/ faults' = faults + 1) /\ (present' = present \/ present' = TRUE)
      /\ \/ present' = TRUE /\ cseq' = [cseq EXCEPT !["conn"] = 1] /\ cl' = cl
         \/ present' = present /\ cseq' = cseq /\ cl' = [cl EXCEPT !["conn"] = "failed"]
  BY DEF OpenChannel
<1>2. /\ cseq'.conn \in {0, 1} /\ (cseq'.conn = 1 => present')
      /\ cl'["conn"] \in {"ready", "failed"} /\ \A t \in Thr \ {"conn"} : cl'[t] = cl[t]
  <2>1. CASE present' = TRUE /\ cseq' = [cseq EXCEPT !["conn"] = 1] /\ cl' = cl
    BY <1>0, <1>1, <2>1 DEF TunnelTypes, Keys
  <2>2. CASE present' = present /\ cseq' = cseq /\ cl' = [cl EXCEPT !["conn"] = "failed"]
    BY <1>0, <1>1, <2>2 DEF TunnelTypes, Thr
  <2> QED BY <1>1, <2>1, <2>2
<1>3. ChannelTypes'
  <2>1. present' \in BOOLEAN
    <3>1. present \in BOOLEAN BY <1>0 DEF ChannelTypes
    <3> QED BY <1>1, <3>1
  <2>2. faults' \in Nat BY <1>0, <1>1 DEF ChannelTypes
  <2> QED BY <1>0, <1>1, <2>1, <2>2 DEF ChannelTypes
<1>4. Leading' BY <1>0, <1>1, LeadingFrame
<1>5. req[<<"conn", 1>>].st = "none" /\ req[<<"conn", 2>>].st = "none"
  BY <1>0, <1>1 DEF Dialling, HeadNumbered
<1>6. Dialling' BY <1>1, <1>2, <1>5 DEF Dialling, HeadNumbered
<1>7. ~Late BY <1>1 DEF Late
<1>8. Dialled' BY <1>0, <1>1, <1>2, <1>7 DEF Dialled
<1>9. Abandoned' BY <1>0, <1>1 DEF Abandoned
<1>10. SocketKept' BY <1>0, <1>1, <1>2 DEF SocketKept
<1> QED BY <1>3, <1>4, <1>6, <1>8, <1>9, <1>10 DEF LeakInv

LEMMA PushLeak == ASSUME TunnelInv, LeakInv, Push PROVE LeakInv'
<1>0. TunnelTypes /\ ChannelTypes /\ Leading /\ Dialling /\ Dialled /\ Abandoned /\ SocketKept BY DEF TunnelInv, LeakInv
<1>1. /\ cl["conn"] = "ready" /\ cseq.conn > 0 /\ ~died /\ req[<<"conn", 1>>].st = "none" /\ Send("conn", 0)
      /\ UNCHANGED <<kind, cclosed, died, sent, got, faults>>
      /\ UNCHANGED <<present, chClosed, mu, sseq, pend, connReady, conn, sock, out>>
  BY DEF Push, Idle, channelVars
<1>2. "conn" \in Thr /\ 0 \in Nat BY DEF Thr
<1>3. /\ cl'["conn"] = "await" /\ \A u \in Thr : u # "conn" => cl'[u] = cl[u]
      /\ cur'["conn"] = 1
      /\ req'[<<"conn", 1>>].st = "net" /\ req'[<<"conn", 1>>].seq = cseq.conn
      /\ \A u \in Thr, j \in {1, 2} : u # "conn" \/ j # 1 => req'[<<u, j>>] = req[<<u, j>>]
      /\ cseq'.conn = cseq.conn + 1
  BY <1>0, <1>1, <1>2, SendEffect
<1>4. cseq.conn \in {1, 2} /\ req[<<"conn", 2>>].st = "none" /\ req'[<<"conn", 2>>].st = "none"
  BY <1>0, <1>1, <1>2, <1>3, ConnNumbers DEF Dialling
<1>5. ChannelTypes' BY <1>0, <1>1 DEF ChannelTypes
<1>6. Leading' BY <1>0, <1>1, <1>3, LeadingFrame
<1>7. Dialling' BY <1>1, <1>3, <1>4 DEF Dialling, HeadNumbered
<1>8. ~Late BY <1>4 DEF Late
<1>9. Dialled' BY <1>0, <1>1, <1>3, <1>8 DEF Dialled
<1>10. Abandoned' BY <1>0, <1>1 DEF Abandoned
<1>11. SocketKept' BY <1>0, <1>1, <1>3, <1>4, SocketFrame
<1> QED BY <1>5, <1>6, <1>7, <1>9, <1>10, <1>11 DEF LeakInv

LEMMA ReadLeak == ASSUME TunnelInv, LeakInv, Read PROVE LeakInv'
<1>1. /\ "read" \in Thr \ {"conn"} /\ 0 \in Nat /\ cl["read"] # "off" /\ Send("read", 0)
      /\ UNCHANGED <<kind, died, faults, channelVars>> /\ ~died /\ cclosed' = cclosed /\ sent' = sent
  BY DEF Read, Idle, Thr
<1>2. Late BY <1>1, ThreadLate DEF LeakInv
<1>3. cclosed' \in BOOLEAN /\ sent' <= MaxWrites BY <1>1 DEF LeakInv, ChannelTypes
<1> QED BY <1>1, <1>2, <1>3, SendLate DEF TunnelInv

LEMMA HeartbeatLeak == ASSUME TunnelInv, LeakInv, Heartbeat PROVE LeakInv'
<1>1. /\ "hb" \in Thr \ {"conn"} /\ 0 \in Nat /\ cl["hb"] # "off" /\ Send("hb", 0)
      /\ UNCHANGED <<kind, died, faults, channelVars>> /\ ~died /\ cclosed' = cclosed /\ sent' = sent
  BY DEF Heartbeat, Idle, Thr
<1>2. Late BY <1>1, ThreadLate DEF LeakInv
<1>3. cclosed' \in BOOLEAN /\ sent' <= MaxWrites BY <1>1 DEF LeakInv, ChannelTypes
<1> QED BY <1>1, <1>2, <1>3, SendLate DEF TunnelInv

LEMMA WriteLeak == ASSUME TunnelInv, LeakInv, Write PROVE LeakInv'
<1>1. /\ "write" \in Thr \ {"conn"} /\ cl["write"] # "off" /\ Send("write", sent + 1)
      /\ UNCHANGED <<kind, died, faults, channelVars>> /\ ~died /\ cclosed' = cclosed /\ sent' = sent + 1 /\ sent < MaxWrites
  BY DEF Write, Idle, Thr
<1>2. Late BY <1>1, ThreadLate DEF LeakInv
<1>3. cclosed' \in BOOLEAN BY <1>1 DEF LeakInv, ChannelTypes
<1>4. sent + 1 \in Nat /\ sent' <= MaxWrites BY <1>1, TunnelAssumption DEF TunnelInv, TunnelTypes
<1> QED BY <1>1, <1>2, <1>3, <1>4, SendLate DEF TunnelInv

LEMMA CloseLeak == ASSUME TunnelInv, LeakInv, Close PROVE LeakInv'
<1>1. /\ "del" \in Thr \ {"conn"} /\ 0 \in Nat /\ cl["conn"] = "done" /\ Send("del", 0)
      /\ UNCHANGED <<kind, died, faults, channelVars>> /\ ~died /\ cclosed' = TRUE /\ sent' = sent
  BY DEF Close, Thr
<1>2. Late BY <1>1 DEF LeakInv, Dialled
<1>3. cclosed' \in BOOLEAN /\ sent' <= MaxWrites BY <1>1 DEF LeakInv, ChannelTypes
<1> QED BY <1>1, <1>2, <1>3, SendLate DEF TunnelInv

LEMMA DieLeak == ASSUME TunnelInv, LeakInv, Die PROVE LeakInv'
<1>0. TunnelTypes /\ ChannelTypes /\ Leading /\ Dialling /\ Dialled /\ Abandoned /\ SocketKept BY DEF TunnelInv, LeakInv
<1>1. /\ UNCHANGED <<kind, cur, cseq, cclosed, sent, got>> /\ faults' = faults + 1 /\ died' = TRUE
      /\ UNCHANGED <<present, chClosed, mu, sseq, pend, connReady, conn, sock, out>>
      /\ \A t \in Thr : cl'[t] = "off"
  BY DEF Die, channelVars
<1>2. \A t \in Thr, i \in {1, 2} : req'[<<t, i>>] = IF req[<<t, i>>].st = "answered" THEN NoReq ELSE req[<<t, i>>]
  BY SlotTyped DEF Die
<1>3. \A t \in Thr, i \in {1, 2} :
          /\ req'[<<t, i>>].st = "work" => req[<<t, i>>].st = "work"
          /\ req'[<<t, i>>].st # "none" => req'[<<t, i>>] = req[<<t, i>>] /\ req[<<t, i>>].st \notin {"none", "answered"}
  BY <1>2, NoReqTyped
<1>4. ChannelTypes' BY <1>0, <1>1 DEF ChannelTypes
<1>5. Leading' BY <1>0, <1>1, <1>3, LeadingFrame
<1>6. cl'["conn"] = "off" BY <1>1 DEF Thr
<1>7. ASSUME NEW i \in {1, 2} PROVE HeadNumbered(i)'
  <2>1. HeadNumbered(i) BY <1>0 DEF Dialling
  <2>2. req'[<<"conn", i>>].st # "none" =>
            req'[<<"conn", i>>] = req[<<"conn", i>>] /\ req[<<"conn", i>>].st \notin {"none", "answered"}
    BY <1>3 DEF Thr
  <2> QED BY <1>1, <2>1, <2>2 DEF HeadNumbered
<1>8. cur["conn"] = 1 => req'[<<"conn", 2>>].st = "none" BY <1>0, <1>3 DEF Dialling, Thr
<1>9. Dialling' BY <1>1, <1>6, <1>7, <1>8 DEF Dialling
<1>10. Dialled' BY <1>0, <1>1, <1>3 DEF Dialled, Late, Thr
<1>11. \A i \in {1, 2} : Pushes(req'[<<"conn", i>>].st) => Pushes(req[<<"conn", i>>].st) BY <1>3 DEF Pushes, Thr
<1>12. Abandoned' BY <1>0, <1>1, <1>6, <1>11 DEF Abandoned
<1>13. SocketKept' BY <1>0, <1>1, SocketFrame
<1> QED BY <1>4, <1>5, <1>9, <1>10, <1>12, <1>13 DEF LeakInv

LEMMA AnswerLeak == ASSUME TunnelInv, LeakInv, NEW t \in Thr, Answer(t) PROVE LeakInv'
<1> DEFINE i == cur[t]
<1>0. TunnelTypes /\ ChannelTypes /\ Leading /\ Dialling /\ Dialled /\ Abandoned /\ SocketKept BY DEF TunnelInv, LeakInv
<1>1. /\ cl[t] = "await" /\ ~died /\ i \in {1, 2} /\ req[<<t, i>>].st = "answered" /\ req' = [req EXCEPT ![<<t, i>>] = NoReq]
      /\ UNCHANGED <<kind, cur, cseq, cclosed, died, sent, faults, channelVars>>
  BY <1>0 DEF Answer, Listens, TunnelTypes
<1>2. t = "conn" => Success(req[<<t, i>>].code) /\ cl' = Opened(req[<<t, i>>].seq) BY DEF Answer, Good, Success
<1>3. t # "conn" => cl' = [cl EXCEPT ![t] = IF t = "del" THEN "done" ELSE "ready"] BY DEF Answer
<1>4. UNCHANGED <<present, chClosed, mu, sseq, pend, connReady, conn, sock, out>> BY <1>1 DEF channelVars
<1> HIDE DEF i
<1>5. req'[<<t, i>>] = NoReq /\ \A u \in Thr, j \in {1, 2} : u # t \/ j # i => req'[<<u, j>>] = req[<<u, j>>]
  BY <1>0, <1>1, SlotUpdate
<1>6. \A u \in Thr, j \in {1, 2} :
          /\ req'[<<u, j>>].st = "work" => req[<<u, j>>].st = "work"
          /\ req'[<<u, j>>].st # "none" => req'[<<u, j>>] = req[<<u, j>>]
  BY <1>5, NoReqTyped
<1>7. CASE t # "conn"
  <2>1. Late BY <1>0, <1>1, <1>7, ThreadLate
  <2>2. UNCHANGED <<cl["conn"], cur["conn"], req[<<"conn", 1>>], req[<<"conn", 2>>]>>
    BY <1>0, <1>1, <1>3, <1>5, <1>7 DEF Thr, TunnelTypes
  <2>3. cclosed' \in BOOLEAN /\ faults' \in Nat /\ sent' <= MaxWrites BY <1>0, <1>1 DEF ChannelTypes
  <2>4. cseq'.conn \in Nat /\ cseq'.conn >= cseq.conn BY <1>0, <1>1, ConnNumbers
  <2> QED BY <1>0, <1>1, <1>6, <2>1, <2>2, <2>3, <2>4, OtherLeak
<1>8. CASE t = "conn"
  <2>1. ChannelTypes' BY <1>0, <1>1, <1>4 DEF ChannelTypes
  <2>2. Leading' BY <1>0, <1>4, <1>6, LeadingFrame
  <2>3. HeadNumbered(i) BY <1>0, <1>1 DEF Dialling
  <2>4. ASSUME NEW j \in {1, 2} PROVE HeadNumbered(j)' /\ req'[<<"conn", j>>].st # "answered"
    <3>1. HeadNumbered(j) BY <1>0 DEF Dialling
    <3>2. CASE j = i BY <1>5, <1>8, <3>2, NoReqTyped DEF HeadNumbered
    <3>3. CASE j # i
      <4>1. req'[<<"conn", j>>] = req[<<"conn", j>>] BY <1>5, <1>8, <3>3
      <4>2. req[<<"conn", j>>].st # "answered" BY <1>8, <3>1, <3>3 DEF HeadNumbered, i
      <4> QED BY <1>1, <1>4, <3>1, <4>1, <4>2 DEF HeadNumbered
    <3> QED BY <3>2, <3>3
  <2>5. SocketKept' BY <1>0, <1>1, <1>4, SocketFrame
  <2>6. ~(chClosed /\ sseq.conn = 0) BY <1>0, <1>1, <1>8 DEF Abandoned
  <2>7. Abandoned' BY <1>4, <2>6 DEF Abandoned
  <2>8. req'[<<"conn", 2>>].st = "none"
    <3>1. CASE i = 2 BY <1>5, <1>8, <3>1, NoReqTyped
    <3>2. CASE i = 1
      <4>1. req[<<"conn", 2>>].st = "none" BY <1>0, <1>8, <3>2 DEF Dialling, i
      <4> QED BY <1>5, <1>8, <3>2, <4>1
    <3> QED BY <1>1, <3>1, <3>2
  <2>9. CASE req[<<t, i>>].seq = 1
    <3>1. cl' = [cl EXCEPT !["conn"] = "ready"] BY <1>2, <1>8, <2>9 DEF Opened
    <3>2. cl'["conn"] = "ready" /\ \A u \in Thr \ {"conn"} : cl'[u] = cl[u] BY <1>0, <3>1 DEF TunnelTypes, Thr
    <3>3. cseq.conn = 2 BY <1>1, <1>8, <2>3, <2>9 DEF HeadNumbered
    <3>4. Dialling' BY <1>1, <2>4, <2>8, <3>2, <3>3 DEF Dialling
    <3>5. Dialled' BY <1>0, <1>1, <1>4, <1>6, <3>2 DEF Dialled, Late
    <3> QED BY <2>1, <2>2, <2>5, <2>7, <3>4, <3>5 DEF LeakInv
  <2>10. CASE req[<<t, i>>].seq = 2
    <3>1. cl' = [u \in Thr |-> IF u = "conn" THEN "done" ELSE IF u = "del" THEN "off" ELSE "ready"]
      <4>1. cl' = Opened(2) BY <1>2, <1>8, <2>10
      <4> QED BY ONLY <4>1 DEF Opened
    <3>2. cl'["conn"] = "done" BY <3>1 DEF Thr
    <3>n. cseq.conn >= 3 /\ sseq.conn >= 1
      <4>1. Success(req[<<t, i>>].code) /\ req[<<"conn", i>>] = req[<<t, i>>] BY <1>2, <1>8
      <4> QED BY <4>1, <1>1, <2>3, <2>10 DEF HeadNumbered
    <3>3. Late' BY <1>1, <1>4, <3>n DEF Late
    <3>4. Dialling' BY <1>1, <2>4, <2>8, <3>2 DEF Dialling
    <3>5. Dialled' BY <1>0, <1>1, <1>4, <3>3 DEF Dialled
    <3> QED BY <2>1, <2>2, <2>5, <2>7, <3>4, <3>5 DEF LeakInv
  <2> QED BY <1>1, <1>8, <2>3, <2>9, <2>10 DEF HeadNumbered
<1> QED BY <1>7, <1>8

LEMMA FailsLeak ==
    ASSUME TunnelInv, LeakInv, NEW t \in Thr, Fails(t), cl[t] = "await", ~died, faults' \in Nat
    PROVE  LeakInv'
<1>0. TunnelTypes /\ ChannelTypes /\ Leading /\ Dialling /\ Dialled /\ Abandoned /\ SocketKept BY DEF TunnelInv, LeakInv
<1>1. UNCHANGED <<kind, cur, died, sent, got, channelVars>> /\ cclosed' = (cclosed \/ (t = "hb" /\ ~cclosed)) BY DEF Fails
<1>2. UNCHANGED <<present, chClosed, mu, sseq, pend, connReady, conn, sock, out>> BY <1>1 DEF channelVars
<1>3. cclosed' \in BOOLEAN /\ sent' <= MaxWrites BY <1>0, <1>1 DEF ChannelTypes
<1>4. cseq'.conn \in Nat /\ cseq'.conn >= cseq.conn
  <2>1. cseq' = cseq \/ cseq' = [cseq EXCEPT !["conn"] = cseq["conn"] + 1] BY DEF Fails
  <2> QED BY <1>0, <2>1, ConnNumbers DEF TunnelTypes, Keys
<1>5. ASSUME NEW u \in Thr, NEW j \in {1, 2}
      PROVE  req'[<<u, j>>].st = "work" => req[<<u, j>>].st = "work"
  <2> DEFINE d == [NoReq EXCEPT !.st = "net", !.seq = cseq.conn]
  <2>1. d.st = "net" BY DEF NoReq
  <2>2. <<u, j>> \in Slots BY SlotTyped
  <2>3. req'[<<u, j>>] = NoReq \/ req'[<<u, j>>] = d \/ req'[<<u, j>>] = req[<<u, j>>] BY <2>2 DEF Fails
  <2> HIDE DEF d
  <2> QED BY <2>1, <2>3, NoReqTyped
<1>6. CASE t # "conn"
  <2>1. Late BY <1>0, <1>6, ThreadLate
  <2>2. UNCHANGED <<cl["conn"], cur["conn"], req[<<"conn", 1>>], req[<<"conn", 2>>]>>
    BY <1>0, <1>1, <1>6, FailsEffect DEF Thr
  <2> QED BY <1>0, <1>1, <1>3, <1>4, <1>5, <2>1, <2>2, OtherLeak
<1>7. CASE t = "conn"
  <2>1. cl'["conn"] = "failed" /\ cseq' = cseq /\ cclosed' = cclosed /\ \A u \in Thr \ {"conn"} : cl'[u] = cl[u]
    BY <1>0, <1>7 DEF Fails, ChannelTypes, Thr
  <2>2. \A j \in {1, 2} : req'[<<"conn", j>>] =
            IF j = cur["conn"] /\ req[<<"conn", j>>].st = "answered" THEN NoReq ELSE req[<<"conn", j>>]
    BY <1>0, <1>7, FailsEffect
  <2>3. \A u \in Thr \ {"conn"}, j \in {1, 2} : req'[<<u, j>>] = req[<<u, j>>]
    BY <1>7, SlotTyped DEF Fails
  <2>4. ChannelTypes' BY <1>0, <1>1, <1>2, <1>3 DEF ChannelTypes
  <2>5. Leading' BY <1>0, <1>2, <1>5, LeadingFrame
  <2>6. ASSUME NEW j \in {1, 2} PROVE HeadNumbered(j)'
    <3>1. HeadNumbered(j) BY <1>0 DEF Dialling
    <3>2. CASE req[<<"conn", j>>].st = "answered"
      <4>1. req'[<<"conn", j>>] = NoReq BY <2>2, <3>1, <3>2 DEF HeadNumbered
      <4> QED BY <4>1, NoReqTyped DEF HeadNumbered
    <3>3. CASE req[<<"conn", j>>].st # "answered"
      <4>1. req'[<<"conn", j>>] = req[<<"conn", j>>] BY <2>2, <3>3
      <4> QED BY <1>2, <2>1, <3>1, <3>3, <4>1 DEF HeadNumbered
    <3> QED BY <3>2, <3>3
  <2>7. cur["conn"] = 1 => req'[<<"conn", 2>>].st = "none" BY <1>0, <2>2 DEF Dialling
  <2>8. Dialling' BY <1>1, <2>1, <2>6, <2>7 DEF Dialling
  <2>9. Dialled' BY <1>0, <1>1, <1>2, <2>1, <2>3 DEF Dialled, Late
  <2>10. \A j \in {1, 2} : Pushes(req'[<<"conn", j>>].st) => Pushes(req[<<"conn", j>>].st)
    BY <2>2, NoReqTyped DEF Pushes
  <2>11. Abandoned' BY <1>0, <1>2, <2>1, <2>10 DEF Abandoned
  <2>12. SocketKept' BY <1>0, <1>2, <2>1, SocketFrame
  <2> QED BY <2>4, <2>5, <2>8, <2>9, <2>11, <2>12 DEF LeakInv
<1> QED BY <1>6, <1>7

LEMMA RetriedEffect ==
    ASSUME TunnelTypes, NEW t \in Thr, Retried(t)
    PROVE  /\ req'[<<t, 2>>].st = "net" /\ req'[<<t, 2>>].seq = req[<<t, 1>>].seq
           /\ req'[<<t, 1>>] = IF req[<<t, 1>>].st = "answered" THEN NoReq ELSE req[<<t, 1>>]
           /\ \A u \in Thr, i \in {1, 2} : u # t => req'[<<u, i>>] = req[<<u, i>>]
<1> DEFINE n == [req[<<t, 1>>] EXCEPT !.st = "net", !.code = 0, !.val = 0]
           f == [req EXCEPT ![<<t, 2>>] = n]
<1>0. req' = [f EXCEPT ![<<t, 1>>] = IF @.st = "answered" THEN NoReq ELSE @] BY DEF Retried
<1>1. /\ req[<<t, 1>>] \in [st : States, seq : Nat, code : Nat, val : Nat]
      /\ <<t, 1>> \in Slots /\ <<t, 2>> \in Slots
  BY SlotTyped DEF TunnelTypes
<1>2. n \in [st : States, seq : Nat, code : Nat, val : Nat] /\ n.st = "net" /\ n.seq = req[<<t, 1>>].seq
  BY <1>1 DEF States
<1> HIDE DEF n
<1>3. f \in [Slots -> [st : States, seq : Nat, code : Nat, val : Nat]] /\ f[<<t, 2>>] = n
  BY <1>1, <1>2 DEF TunnelTypes
<1>4. \A u \in Thr, i \in {1, 2} : u # t \/ i = 1 => f[<<u, i>>] = req[<<u, i>>]
  BY <1>1, <1>2, SlotTyped DEF TunnelTypes
<1> HIDE DEF f
<1>5. req'[<<t, 2>>] = n BY <1>0, <1>1, <1>3, NoReqTyped
<1>6. \A u \in Thr, i \in {1, 2} : u # t => req'[<<u, i>>] = req[<<u, i>>]
  BY <1>0, <1>3, <1>4, SlotTyped
<1>7. req'[<<t, 1>>] = IF req[<<t, 1>>].st = "answered" THEN NoReq ELSE req[<<t, 1>>]
  BY <1>0, <1>1, <1>3, <1>4
<1> QED BY <1>2, <1>5, <1>6, <1>7

LEMMA RetriedLeak == ASSUME TunnelInv, LeakInv, NEW t \in Thr, Retried(t) PROVE LeakInv'
<1>0. TunnelTypes /\ ChannelTypes /\ Leading /\ Dialling /\ Dialled /\ Abandoned /\ SocketKept BY DEF TunnelInv, LeakInv
<1>1. /\ UNCHANGED <<kind, cl, cseq, cclosed, died, sent, got, channelVars>> /\ t \in {"conn", "read"}
      /\ cl[t] = "await" /\ cur[t] = 1 /\ ~died /\ cur' = [cur EXCEPT ![t] = 2] /\ faults' = faults + 1
  BY DEF Retried, Listens
<1>2. UNCHANGED <<present, chClosed, mu, sseq, pend, connReady, conn, sock, out>> BY <1>1 DEF channelVars
<1>3. cclosed' \in BOOLEAN /\ sent' <= MaxWrites /\ faults' \in Nat BY <1>0, <1>1 DEF ChannelTypes
<1>4. req'[<<t, 2>>].st = "net" /\ req'[<<t, 2>>].seq = req[<<t, 1>>].seq BY <1>0, RetriedEffect
<1>5. req'[<<t, 1>>] = IF req[<<t, 1>>].st = "answered" THEN NoReq ELSE req[<<t, 1>>] BY <1>0, RetriedEffect
<1>6. \A u \in Thr, i \in {1, 2} : u # t => req'[<<u, i>>] = req[<<u, i>>] BY <1>0, RetriedEffect
<1>7. ASSUME NEW u \in Thr, NEW j \in {1, 2}
      PROVE  req'[<<u, j>>].st = "work" => req[<<u, j>>].st = "work"
  BY <1>4, <1>5, <1>6, NoReqTyped
<1>8. CASE t = "read"
  <2>1. Late BY <1>0, <1>1, <1>8, ThreadLate
  <2>2. UNCHANGED <<cl["conn"], cur["conn"], req[<<"conn", 1>>], req[<<"conn", 2>>]>>
    BY <1>0, <1>1, <1>6, <1>8 DEF Thr, TunnelTypes
  <2>3. cseq'.conn \in Nat /\ cseq'.conn >= cseq.conn BY <1>0, <1>1, ConnNumbers
  <2> QED BY <1>0, <1>1, <1>3, <1>7, <2>1, <2>2, <2>3, OtherLeak
<1>9. CASE t = "conn"
  <2>1. cur'["conn"] = 2 BY <1>0, <1>1, <1>9 DEF TunnelTypes, Thr
  <2>2. ChannelTypes' BY <1>0, <1>1, <1>2, <1>3 DEF ChannelTypes
  <2>3. Leading' BY <1>0, <1>2, <1>7, LeadingFrame
  <2>4. req[<<"conn", 1>>].st # "none" /\ req[<<"conn", 2>>].st = "none" BY <1>0, <1>1, <1>9 DEF Dialling
  <2>5. HeadNumbered(1) BY <1>0 DEF Dialling
  <2>6. HeadNumbered(1)' BY <1>1, <1>2, <1>5, <1>9, <2>5, NoReqTyped DEF HeadNumbered
  <2>7. HeadNumbered(2)' BY <1>1, <1>2, <1>4, <1>9, <2>4, <2>5 DEF HeadNumbered
  <2>8. Dialling' BY <1>1, <1>4, <1>9, <2>1, <2>6, <2>7 DEF Dialling
  <2>9. Dialled' BY <1>0, <1>1, <1>2, <1>6, <1>9 DEF Dialled, Late
  <2>10. Abandoned' BY <1>0, <1>1, <1>2, <1>9 DEF Abandoned
  <2>11. SocketKept' BY <1>0, <1>1, <1>2, SocketFrame
  <2> QED BY <2>2, <2>3, <2>8, <2>9, <2>10, <2>11 DEF LeakInv
<1> QED BY <1>1, <1>8, <1>9

LEMMA LeakInit == TunnelInit => LeakInv
<1> SUFFICES ASSUME TunnelInit PROVE LeakInv OBVIOUS
<1> USE DEF TunnelInit
<1>1. \A t \in Thr, i \in {1, 2} : req[<<t, i>>].st = "none" BY SlotTyped, NoReqTyped
<1>2. ChannelTypes
  <2>1. sent <= MaxWrites /\ out <= MaxOut /\ faults \in Nat BY TunnelAssumption
  <2>2. mu \subseteq Slots /\ {cclosed, died, chClosed, present} \subseteq BOOLEAN OBVIOUS
  <2>3. kind \in Kinds /\ conn = "none" /\ sock = "none" OBVIOUS
  <2> HIDE DEF TunnelInit
  <2> QED BY <2>1, <2>2, <2>3 DEF ChannelTypes
<1>3. Leading BY <1>1 DEF Leading
<1>4. "conn" \in Thr BY DEF Thr
<1>5. Dialling BY <1>1, <1>4 DEF Dialling, HeadNumbered
<1>6. Dialled BY <1>1, <1>4 DEF Dialled
<1>7. Abandoned /\ SocketKept BY DEF Abandoned, SocketKept
<1> QED BY <1>2, <1>3, <1>5, <1>6, <1>7 DEF LeakInv

LEMMA LeakStep == ASSUME ~SlowDial, TunnelInv, LeakInv, [TunnelNext]_tunnelVars PROVE LeakInv'
<1>1. CASE UNCHANGED tunnelVars
  <2>1. UNCHANGED <<clientVars, req, channelVars>> BY <1>1 DEF tunnelVars
  <2>2. UNCHANGED <<kind, cl, cur, cseq, cclosed, died, sent, faults, req>> BY <2>1 DEF clientVars
  <2>3. UNCHANGED <<present, chClosed, mu, sseq, pend, connReady, conn, sock, out>> BY <2>1 DEF channelVars
  <2>4. ChannelTypes' BY <2>2, <2>3 DEF LeakInv, ChannelTypes
  <2>5. Leading' BY <2>2, <2>3, LeadingFrame DEF LeakInv
  <2>6. Dialling' BY <2>2, <2>3, DiallingFrame DEF LeakInv
  <2>7. Dialled' BY <2>2, <2>3 DEF LeakInv, Dialled, Late
  <2>8. Abandoned' /\ SocketKept' BY <2>2, <2>3 DEF LeakInv, Abandoned, SocketKept
  <2> QED BY <2>4, <2>5, <2>6, <2>7, <2>8 DEF LeakInv
<1>2. ASSUME NEW t \in Thr, Answer(t) \/ AnswerBad(t) \/ Broken(t) \/ Retried(t) PROVE LeakInv'
  <2>1. CASE AnswerBad(t) \/ Broken(t)
    <3>1. Fails(t) /\ cl[t] = "await" /\ ~died /\ (faults' = faults \/ faults' = faults + 1)
      BY <2>1 DEF AnswerBad, Broken, Listens
    <3>2. faults' \in Nat BY <3>1 DEF LeakInv, ChannelTypes
    <3> QED BY <3>1, <3>2, FailsLeak
  <2> QED BY <1>2, <2>1, AnswerLeak, RetriedLeak
<1>3. ASSUME NEW r \in Slots, Serve(r) \/ ConnectFails(r) \/ StoreFails(r) PROVE LeakInv'
  <2>1. PICK t \in Thr, i \in {1, 2} : r = <<t, i>> BY DEF Slots
  <2> QED BY <1>3, <2>1, EnterLeak, TurnLeak, RelockLeak, AwaitReadyLeak, RefuseLeak, ConnectLeak, AcknowledgeLeak,
             BeatLeak, FetchLeak, StoreLeak, ConnectFailsLeak, StoreFailsLeak DEF Serve
<1>4. CASE TunnelNext
  BY <1>2, <1>3, <1>4, OpenChannelLeak, PushLeak, ReadLeak, HeartbeatLeak, WriteLeak, CloseLeak, DieLeak,
     ReqTimeoutLeak, CloseChannelLeak DEF TunnelNext
<1> QED BY <1>1, <1>4

-----------------------------------------------------------------------------
(* The ends agree as long as no connection breaks.  Then no request is     *)
(* repeated, and the numbers of both ends follow from how far the request  *)
(* under way has come.  The one thing that may go wrong is a refused BIND, *)
(* which leaves the push pending: HEAD 2 waits for it without an answer.   *)

RightCode(t, c) == c = 200 \/ (t = "read" /\ c = 408)

Right(t) ==
    /\ req[<<t, 1>>].st # "unready"
    /\ req[<<t, 1>>].st = "answered" => RightCode(t, req[<<t, 1>>].code)

Calm ==
    /\ \A t \in Thr : cl[t] # "failed" /\ cur[t] = 1 /\ req[<<t, 2>>].st = "none" /\ Right(t)
    /\ req[<<"del", 1>>].st = "none" /\ ~died /\ ~chClosed /\ (cseq.conn > 0 => present)

LeftPending == pend["conn"] /\ req[<<"conn", 1>>].st # "work"

HeadsAgree ==
    LET q == req[<<"conn", 1>>] IN
    /\ LeftPending =>
          /\ sseq.conn = 0
          /\ \/ cseq.conn = 2 /\ q.st \in {"none", "answered"}
             \/ cseq.conn = 3 /\ q.st \in {"net", "loop", "wait0"}
    /\ ~LeftPending =>
          /\ q.st \in {"none", "net", "loop", "work", "answered"}
          /\ q.st \in {"net", "loop", "work"} => q.seq = sseq.conn + 1 /\ cseq.conn = sseq.conn + 2
          /\ q.st = "answered" => cseq.conn = sseq.conn + 1
          /\ cl["conn"] = "ready" => (cseq.conn = 0 /\ sseq.conn = 0) \/ cseq.conn = sseq.conn + 1
    /\ sseq.conn >= 1 => Active

BeatsAgree ==
    LET h == req[<<"hb", 1>>] IN
    cl["conn"] = "done" =>
        /\ req[<<"conn", 1>>].st = "none" /\ ~pend["conn"]
        /\ h.st \in {"none", "net", "loop", "work", "answered"}
        /\ (pend["hb"] <=> h.st = "work")
        /\ h.st \in {"net", "loop", "work"} => h.seq = sseq.conn + 1 /\ cseq.conn = sseq.conn + 2
        /\ h.st \in {"none", "answered"} => cseq.conn = sseq.conn + 1

Unopened ==
    cl["conn"] # "done" => \A t \in Thr \ {"conn"} : cl[t] = "off" /\ req[<<t, 1>>].st = "none" /\ ~pend[t]

InStep == Calm /\ HeadsAgree /\ BeatsAgree /\ Unopened

SyncInv == faults = 0 /\ ~cclosed => InStep

\* A step of one thread, or of the request it waits for.
Confined(t) ==
    /\ \A u \in Thr \ {t} : cl'[u] = cl[u] /\ pend'[u] = pend[u] /\ req'[<<u, 1>>] = req[<<u, 1>>]
    /\ \A u \in Thr : req'[<<u, 2>>].st = "none" /\ cur'[u] = 1

LEMMA CalmStep ==
    ASSUME Calm, NEW t \in Thr \ {"del"}, Confined(t), Right(t)', cl'[t] # "failed",
           ~died', ~chClosed', cseq'.conn > 0 => present'
    PROVE  Calm'
<1>1. ASSUME NEW u \in Thr PROVE cl'[u] # "failed" /\ cur'[u] = 1 /\ req'[<<u, 2>>].st = "none" /\ Right(u)'
  <2>1. CASE u = t BY <2>1 DEF Confined
  <2>2. CASE u # t
    <3>1. cl[u] # "failed" /\ Right(u) BY DEF Calm
    <3>2. cl'[u] = cl[u] /\ req'[<<u, 1>>] = req[<<u, 1>>] BY <2>2 DEF Confined
    <3>3. Right(u)' BY <3>1, <3>2 DEF Right
    <3> QED BY <3>1, <3>2, <3>3 DEF Confined
  <2> QED BY <2>1, <2>2
<1>2. req'[<<"del", 1>>].st = "none" BY DEF Confined, Calm, Thr
<1> QED BY <1>1, <1>2 DEF Calm

LEMMA DataInStep ==
    ASSUME InStep, NEW t \in {"read", "write"}, cl["conn"] = "done", Confined(t), Right(t)', cl'[t] # "failed",
           UNCHANGED <<cseq.conn, sseq.conn, kind, conn, died, chClosed, present>>
    PROVE  InStep'
<1>1. t \in Thr \ {"del"} /\ "conn" \in Thr \ {t} /\ "hb" \in Thr \ {t} BY DEF Thr
<1>2. Calm' BY <1>1, CalmStep DEF InStep, Calm
<1>3. UNCHANGED <<cl["conn"], pend["conn"], req[<<"conn", 1>>], pend["hb"], req[<<"hb", 1>>]>> BY <1>1 DEF Confined
<1>4. HeadsAgree' BY <1>3 DEF InStep, HeadsAgree, LeftPending, Active
<1>5. BeatsAgree' BY <1>3 DEF InStep, BeatsAgree
<1>6. Unopened' BY <1>3 DEF Unopened
<1> QED BY <1>2, <1>4, <1>5, <1>6 DEF InStep

LEMMA BeatInStep ==
    ASSUME InStep, cl["conn"] = "done", Confined("hb"), Right("hb")', cl'["hb"] # "failed",
           BeatsAgree', Active', UNCHANGED <<died, chClosed>>, cseq'.conn > 0 => present'
    PROVE  InStep'
<1>1. "hb" \in Thr \ {"del"} /\ "conn" \in Thr \ {"hb"} BY DEF Thr
<1>2. Calm' BY <1>1, CalmStep DEF InStep, Calm
<1>3. UNCHANGED <<cl["conn"], pend["conn"], req[<<"conn", 1>>]>> BY <1>1 DEF Confined
<1>4. HeadsAgree' BY <1>3 DEF InStep, HeadsAgree, BeatsAgree, LeftPending
<1>5. Unopened' BY <1>3 DEF Unopened
<1> QED BY <1>2, <1>4, <1>5 DEF InStep

LEMMA ConnInStep ==
    ASSUME InStep, cl["conn"] # "done", Confined("conn"), Right("conn")', cl'["conn"] \notin {"done", "failed"},
           HeadsAgree', ~died', ~chClosed', cseq'.conn > 0 => present'
    PROVE  InStep'
<1>1. "conn" \in Thr \ {"del"} BY DEF Thr
<1>2. Calm' BY <1>1, CalmStep DEF InStep
<1>3. BeatsAgree' BY DEF BeatsAgree
<1>4. Unopened' BY DEF InStep, Unopened, Confined
<1> QED BY <1>2, <1>3, <1>4 DEF InStep

-----------------------------------------------------------------------------
(* What a step does to its request.                                        *)

LEMMA GotoConfined ==
    ASSUME TunnelTypes, Calm, NEW t \in Thr, NEW s \in States \ {"unready", "answered"}, Goto(<<t, 1>>, s),
           UNCHANGED <<cl, cur>>, \A u \in Thr \ {t} : pend'[u] = pend[u]
    PROVE  /\ Confined(t) /\ Right(t)'
           /\ req'[<<t, 1>>].st = s /\ req'[<<t, 1>>].seq = req[<<t, 1>>].seq
<1>1. /\ req'[<<t, 1>>].st = s /\ req'[<<t, 1>>].seq = req[<<t, 1>>].seq
      /\ \A u \in Thr, j \in {1, 2} : u # t \/ j # 1 => req'[<<u, j>>] = req[<<u, j>>]
  BY GotoEffect
<1>2. Confined(t)
  <2>1. 1 \in {1, 2} /\ 2 \in {1, 2} /\ 2 # 1 OBVIOUS
  <2>2. \A u \in Thr : req'[<<u, 2>>] = req[<<u, 2>>] BY <1>1, <2>1
  <2>3. \A u \in Thr \ {t} : req'[<<u, 1>>] = req[<<u, 1>>] BY <1>1, <2>1
  <2> QED BY <1>1, <2>2, <2>3 DEF Confined, Calm
<1> QED BY <1>1, <1>2 DEF Right

LEMMA ReplyConfined ==
    ASSUME TunnelTypes, Calm, NEW t \in Thr, NEW c \in Nat, NEW v \in Nat, Reply(<<t, 1>>, c, v), RightCode(t, c),
           UNCHANGED <<cl, cur, pend>>
    PROVE  Confined(t) /\ Right(t)' /\ req'[<<t, 1>>].st \in {"none", "answered"}
<1> DEFINE a == Answered(<<t, 1>>, c, v)
<1>1. a.st = "none" \/ (a.st = "answered" /\ a.code = c) BY NoReqTyped DEF Answered
<1> HIDE DEF a
<1>2. 1 \in {1, 2} OBVIOUS
<1>3. req' = [req EXCEPT ![<<t, 1>>] = a] BY DEF Reply, a
<1>4. req'[<<t, 1>>] = a /\ \A u \in Thr, j \in {1, 2} : u # t \/ j # 1 => req'[<<u, j>>] = req[<<u, j>>]
  BY <1>2, <1>3, SlotUpdate
<1>5. Confined(t)
  <2>1. 1 \in {1, 2} /\ 2 \in {1, 2} /\ 2 # 1 OBVIOUS
  <2>2. \A u \in Thr : req'[<<u, 2>>] = req[<<u, 2>>] BY <1>4, <2>1
  <2>3. \A u \in Thr \ {t} : req'[<<u, 1>>] = req[<<u, 1>>] BY <1>4, <2>1
  <2> QED BY <1>4, <2>2, <2>3 DEF Confined, Calm
<1> QED BY <1>1, <1>4, <1>5 DEF Right

LEMMA BroadcastConfined ==
    ASSUME TunnelTypes, Calm, NEW t \in Thr, NEW c \in Nat, NEW v \in Nat, Broadcast(t, <<t, 1>>, c, v),
           RightCode(t, c), UNCHANGED <<cl, cur>>
    PROVE  Confined(t) /\ Right(t)' /\ req'[<<t, 1>>].st \in {"none", "answered"} /\ pend'[t] = FALSE
<1> DEFINE a == Answered(<<t, 1>>, c, v)
<1>0. 1 \in {1, 2} /\ 2 \in {1, 2} OBVIOUS
<1>1. a.st = "none" \/ (a.st = "answered" /\ a.code = c) BY NoReqTyped DEF Answered
<1>2. /\ req'[<<t, 1>>] = a /\ pend'[t] = FALSE /\ \A u \in Thr \ {t} : pend'[u] = pend[u]
      /\ \A u \in Thr \ {t}, j \in {1, 2} : req'[<<u, j>>] = req[<<u, j>>]
  BY <1>0, BroadcastEffect
<1> HIDE DEF a
<1>3. req'[<<t, 2>>].st = Awake(req[<<t, 2>>].st) BY <1>0, BroadcastWakes
<1>4. req'[<<t, 2>>].st = "none" BY <1>3 DEF Calm, Awake
<1>5. Confined(t) BY <1>2, <1>4 DEF Confined, Calm
<1> QED BY <1>1, <1>2, <1>5 DEF Right

LEMMA SendConfined ==
    ASSUME TunnelTypes, Calm, NEW t \in Thr, NEW v \in Nat, Send(t, v), UNCHANGED pend
    PROVE  Confined(t) /\ Right(t)' /\ cl'[t] # "failed"
<1>1. /\ cl'[t] = "await" /\ \A u \in Thr : u # t => cl'[u] = cl[u]
      /\ cur'[t] = 1 /\ \A u \in Thr : u # t => cur'[u] = cur[u]
      /\ req'[<<t, 1>>].st = "net"
      /\ \A u \in Thr, j \in {1, 2} : u # t \/ j # 1 => req'[<<u, j>>] = req[<<u, j>>]
  BY SendEffect
<1>2. \A u \in Thr : cur'[u] = 1 BY <1>1 DEF Calm
<1>3. Confined(t)
  <2>1. 1 \in {1, 2} /\ 2 \in {1, 2} /\ 2 # 1 OBVIOUS
  <2>2. \A u \in Thr : req'[<<u, 2>>] = req[<<u, 2>>] BY <1>1, <2>1
  <2>3. \A u \in Thr \ {t} : req'[<<u, 1>>] = req[<<u, 1>>] BY <1>1, <2>1
  <2> QED BY <1>1, <1>2, <2>2, <2>3 DEF Confined, Calm
<1> QED BY <1>1, <1>3 DEF Right

\* A request of the server is in its thread's first slot, and one of the opened
\* connection has found it open.
LEMMA OnlyFirst ==
    ASSUME InStep, NEW t \in Thr, NEW i \in {1, 2}, req[<<t, i>>].st # "none"
    PROVE  /\ i = 1 /\ t \in {"conn", "hb", "read", "write"}
           /\ t # "conn" => cl["conn"] = "done"
           /\ t = "conn" => cl["conn"] # "done"
<1>1. i = 1 BY DEF InStep, Calm
<1>2. t # "del" BY <1>1 DEF InStep, Calm
<1> QED BY <1>1, <1>2 DEF InStep, Unopened, BeatsAgree, Thr

-----------------------------------------------------------------------------
(* The server's steps.                                                     *)

\* A request goes on whose thread may be at that state.
LEMMA EnterSync ==
    ASSUME TunnelInv, LeakInv, InStep, NEW t \in Thr, NEW i \in {1, 2}, Enter(<<t, i>>)
    PROVE  InStep'
<1>0. TunnelTypes /\ Calm /\ Dialling /\ Dialled BY DEF TunnelInv, InStep, LeakInv
<1>1. req[<<t, i>>].st = "net" /\ UNCHANGED <<clientVars, present, sseq, pend, conn>> BY DEF Enter
<1>2. /\ i = 1 /\ t \in {"conn", "hb", "read", "write"} /\ (t # "conn" => cl["conn"] = "done")
      /\ (t = "conn" => cl["conn"] # "done")
  BY <1>1, OnlyFirst
<1>3. UNCHANGED <<kind, cl, cur, cseq, died>> BY <1>1 DEF clientVars
<1>4. cseq.conn > 0
  <2>1. CASE t = "conn" BY <1>0, <1>1, <1>2, <2>1, ConnNumbers DEF Dialling, HeadNumbered
  <2>2. CASE t # "conn"
    <3>1. Late BY <1>0, <1>1, <1>2, <2>2 DEF Dialled
    <3> QED BY <1>0, <3>1, ConnNumbers DEF Late
  <2> QED BY <2>1, <2>2
<1>5. present BY <1>0, <1>4 DEF Calm
<1>6. Goto(<<t, 1>>, "loop") /\ chClosed' = chClosed BY <1>2, <1>5 DEF Enter
<1>7. "loop" \in States \ {"unready", "answered"} BY DEF States
<1>8. Confined(t) /\ Right(t)' /\ req'[<<t, 1>>].st = "loop" /\ req'[<<t, 1>>].seq = req[<<t, 1>>].seq
  BY <1>0, <1>1, <1>3, <1>6, <1>7, GotoConfined
<1>9. cl'[t] # "failed" /\ ~died' /\ ~chClosed' /\ present' BY <1>0, <1>1, <1>3, <1>5, <1>6 DEF Calm
<1>10. CASE t = "conn"
  <2>1. HeadsAgree' BY <1>1, <1>2, <1>3, <1>8, <1>10 DEF InStep, HeadsAgree, LeftPending, Active
  <2> QED BY <1>2, <1>3, <1>8, <1>9, <1>10, <2>1, ConnInStep
<1>11. CASE t = "hb"
  <2>1. BeatsAgree' BY <1>1, <1>2, <1>3, <1>8, <1>11 DEF InStep, BeatsAgree, Confined, Thr
  <2>2. Active'
    <3>1. Late BY <1>0, <1>1, <1>2, <1>11 DEF Dialled
    <3> QED BY <1>1, <1>3, <3>1 DEF InStep, HeadsAgree, Late, Active
  <2> QED BY <1>2, <1>3, <1>6, <1>8, <1>9, <1>11, <2>1, <2>2, BeatInStep
<1>12. CASE t \in {"read", "write"} BY <1>1, <1>2, <1>3, <1>6, <1>8, <1>9, <1>12, DataInStep
<1> QED BY <1>2, <1>10, <1>11, <1>12

LEMMA TurnSync ==
    ASSUME TunnelInv, LeakInv, InStep, NEW t \in Thr, NEW i \in {1, 2}, Turn(<<t, i>>)
    PROVE  InStep'
<1> DEFINE step == req[<<t, i>>].seq - sseq[NumberOf(t)]
<1>0. TunnelTypes /\ Calm /\ Dialling /\ Dialled /\ HeadsAgree /\ BeatsAgree BY DEF TunnelInv, InStep, LeakInv
<1>1. req[<<t, i>>].st = "loop" /\ UNCHANGED <<clientVars, present, chClosed, sseq, conn>> BY DEF Turn
<1>2. /\ i = 1 /\ t \in {"conn", "hb", "read", "write"} /\ (t # "conn" => cl["conn"] = "done")
      /\ (t = "conn" => cl["conn"] # "done")
  BY <1>1, OnlyFirst
<1>3. UNCHANGED <<kind, cl, cur, cseq, died>> BY <1>1 DEF clientVars
<1>4. cl'[t] # "failed" /\ ~died' /\ ~chClosed' /\ (cseq'.conn > 0 => present') BY <1>0, <1>1, <1>3 DEF Calm
<1>5. \A s \in {"wait0", "wait1", "work"} : s \in States \ {"unready", "answered"} BY DEF States
<1>6. sseq.conn \in Nat /\ cseq.conn \in Nat BY <1>0, ConnNumbers
<1>7. CASE t = "conn"
  <2>1. CASE LeftPending
    <3>1. req[<<"conn", 1>>].seq = 2 /\ sseq.conn = 0 /\ pend["conn"]
      BY <1>0, <1>1, <1>2, <1>7, <2>1 DEF HeadsAgree, LeftPending, Dialling, HeadNumbered
    <3>2. step = 2 BY <1>2, <1>7, <3>1 DEF NumberOf
    <3>3. Goto(<<t, 1>>, "wait0") /\ UNCHANGED pend BY <1>2, <1>7, <3>1, <3>2 DEF Turn
    <3> HIDE DEF step
    <3>4. Confined(t) /\ Right(t)' /\ req'[<<t, 1>>].st = "wait0" BY <1>0, <1>3, <1>5, <3>3, GotoConfined
    <3>5. HeadsAgree' BY <1>0, <1>1, <1>2, <1>3, <1>7, <2>1, <3>3, <3>4 DEF HeadsAgree, LeftPending, Active
    <3> QED BY <1>2, <1>3, <1>4, <1>7, <3>4, <3>5, ConnInStep
  <2>2. CASE ~LeftPending
    <3>1. req[<<"conn", 1>>].seq = sseq.conn + 1 /\ ~pend["conn"]
      BY <1>0, <1>1, <1>2, <1>7, <2>2 DEF HeadsAgree, LeftPending
    <3>2. step = 1 BY <1>2, <1>6, <1>7, <3>1 DEF NumberOf
    <3>3. Goto(<<t, 1>>, "work") /\ pend' = [pend EXCEPT !["conn"] = TRUE] BY <1>2, <1>7, <3>1, <3>2 DEF Turn
    <3>4. \A u \in Thr \ {t} : pend'[u] = pend[u] BY <1>0, <1>7, <3>3 DEF TunnelTypes
    <3> HIDE DEF step
    <3>5. /\ Confined(t) /\ Right(t)' /\ req'[<<t, 1>>].st = "work" /\ req'[<<t, 1>>].seq = req[<<t, 1>>].seq
      BY <1>0, <1>3, <1>5, <3>3, <3>4, GotoConfined
    <3>6. HeadsAgree' BY <1>0, <1>1, <1>2, <1>3, <1>7, <2>2, <3>5 DEF HeadsAgree, LeftPending, Active
    <3> QED BY <1>2, <1>3, <1>4, <1>7, <3>5, <3>6, ConnInStep
  <2> QED BY <2>1, <2>2
<1>8. CASE t = "hb"
  <2>1. req[<<"hb", 1>>].seq = sseq.conn + 1 /\ ~pend["hb"] BY <1>0, <1>1, <1>2, <1>8 DEF BeatsAgree
  <2>2. step = 1 BY <1>2, <1>6, <1>8, <2>1 DEF NumberOf
  <2>3. Goto(<<t, 1>>, "work") /\ pend' = [pend EXCEPT !["hb"] = TRUE] BY <1>2, <1>8, <2>1, <2>2 DEF Turn
  <2>4. pend'["hb"] = TRUE /\ \A u \in Thr \ {t} : pend'[u] = pend[u] BY <1>0, <1>8, <2>3 DEF TunnelTypes
  <2> HIDE DEF step
  <2>5. /\ Confined(t) /\ Right(t)' /\ req'[<<t, 1>>].st = "work" /\ req'[<<t, 1>>].seq = req[<<t, 1>>].seq
    BY <1>0, <1>3, <1>5, <2>3, <2>4, GotoConfined
  <2>6. BeatsAgree' BY <1>0, <1>1, <1>2, <1>3, <1>8, <2>4, <2>5 DEF BeatsAgree, Confined, Thr
  <2>7. Active'
    <3>1. Late BY <1>0, <1>1, <1>2, <1>8 DEF Dialled
    <3> QED BY <1>0, <1>1, <1>3, <3>1 DEF HeadsAgree, Late, Active
  <2> QED BY <1>1, <1>2, <1>3, <1>4, <1>8, <2>5, <2>6, <2>7, BeatInStep
<1>9. CASE t = "write"
  <2>1. req[<<"write", 1>>].seq = sseq.write + 1 /\ ~pend["write"]
    BY <1>1, <1>2, <1>9 DEF TunnelInv, UpInv
  <2>2. step = 1
    <3>1. sseq.write \in Nat BY <1>0 DEF TunnelTypes, Keys
    <3> QED BY <1>2, <1>9, <2>1, <3>1 DEF NumberOf
  <2>3. Goto(<<t, 1>>, "work") /\ pend' = [pend EXCEPT !["write"] = TRUE] BY <1>2, <1>9, <2>1, <2>2 DEF Turn
  <2>4. \A u \in Thr \ {t} : pend'[u] = pend[u] BY <1>0, <1>9, <2>3 DEF TunnelTypes
  <2> HIDE DEF step
  <2>5. Confined(t) /\ Right(t)' BY <1>0, <1>3, <1>5, <2>3, <2>4, GotoConfined
  <2>6. t \in {"read", "write"} /\ UNCHANGED <<cseq.conn, sseq.conn, kind, conn, died, chClosed, present>>
    BY <1>1, <1>3, <1>9
  <2> QED BY <1>2, <1>4, <1>9, <2>5, <2>6, DataInStep
<1>10. CASE t = "read"
  <2> DEFINE c == Repeated(t).code
             v == Repeated(t).val
  <2>1. step \in {0, 1}
    <3>1. req[<<"read", 1>>].seq = cseq.read /\ (cseq.read = sseq.read \/ cseq.read = sseq.read + 1)
      BY <1>1, <1>2, <1>10 DEF TunnelInv, DownInv, DownRequests, DownData, Get
    <3>2. sseq.read \in Nat BY <1>0 DEF TunnelTypes, Keys
    <3> QED BY <1>2, <1>10, <3>1, <3>2 DEF NumberOf
  <2>2. c \in Nat /\ v \in Nat /\ RightCode(t, c) BY <1>10, RepeatedTyped DEF Repeated, RightCode
  <2>3. \/ \E s \in {"wait0", "wait1", "work"} : Goto(<<t, 1>>, s) /\ \A u \in Thr \ {t} : pend'[u] = pend[u]
        \/ Reply(<<t, 1>>, c, v) /\ UNCHANGED pend
    BY <1>0, <1>2, <1>10, <2>1 DEF Turn, TunnelTypes
  <2> HIDE DEF step, c, v
  <2>4. Confined(t) /\ Right(t)'
    <3>1. CASE Reply(<<t, 1>>, c, v) /\ UNCHANGED pend BY <1>0, <1>3, <2>2, <3>1, ReplyConfined
    <3>2. ASSUME NEW s \in {"wait0", "wait1", "work"}, Goto(<<t, 1>>, s), \A u \in Thr \ {t} : pend'[u] = pend[u]
          PROVE  Confined(t) /\ Right(t)'
      BY <1>0, <1>3, <1>5, <3>2, GotoConfined
    <3> QED BY <2>3, <3>1, <3>2
  <2>5. t \in {"read", "write"} /\ UNCHANGED <<cseq.conn, sseq.conn, kind, conn, died, chClosed, present>>
    BY <1>1, <1>3, <1>10
  <2> QED BY <1>2, <1>4, <1>10, <2>4, <2>5, DataInStep
<1> QED BY <1>2, <1>7, <1>8, <1>9, <1>10

\* Only a GET can have waited for its repetition.
LEMMA RelockSync ==
    ASSUME TunnelInv, LeakInv, InStep, NEW t \in Thr, NEW i \in {1, 2}, Relock(<<t, i>>)
    PROVE  InStep'
<1>0. TunnelTypes /\ Calm BY DEF TunnelInv, InStep
<1>1. /\ req[<<t, i>>].st = "woken" /\ Goto(<<t, i>>, "stuck")
      /\ UNCHANGED <<clientVars, present, chClosed, sseq, pend, conn>>
  BY DEF Relock
<1>2. i = 1 /\ t \in {"conn", "hb", "read", "write"} /\ (t # "conn" => cl["conn"] = "done") BY <1>1, OnlyFirst
<1>3. UNCHANGED <<kind, cl, cur, cseq, died>> BY <1>1 DEF clientVars
<1>4. t = "read" BY <1>1, <1>2 DEF TunnelInv, UpInv, InStep, HeadsAgree, BeatsAgree
<1>5. "stuck" \in States \ {"unready", "answered"} BY DEF States
<1>6. Confined(t) /\ Right(t)' BY <1>0, <1>1, <1>2, <1>3, <1>5, GotoConfined
<1>7. cl'[t] # "failed" BY <1>0, <1>3 DEF Calm
<1>8. t \in {"read", "write"} /\ UNCHANGED <<cseq.conn, sseq.conn, kind, conn, died, chClosed, present>>
  BY <1>1, <1>3, <1>4
<1> QED BY <1>2, <1>4, <1>6, <1>7, <1>8, DataInStep

LEMMA RefuseSync ==
    ASSUME TunnelInv, LeakInv, InStep, NEW t \in Thr, NEW i \in {1, 2}, Refuse(<<t, i>>)
    PROVE  InStep'
<1> DEFINE c == 200
           v == 0
<1>0. TunnelTypes /\ Calm /\ Leading /\ Dialling /\ HeadsAgree BY DEF TunnelInv, InStep, LeakInv
<1>1. /\ t = "conn" /\ req[<<t, i>>].st = "work" /\ req[<<t, i>>].seq = 1 /\ Reply(<<t, i>>, c, v)
      /\ UNCHANGED <<clientVars, channelVars>> /\ c \in Nat /\ v \in Nat /\ RightCode(t, c)
  BY DEF Refuse, RightCode
<1> HIDE DEF c, v
<1>2. i = 1 /\ cl["conn"] # "done" BY <1>1, OnlyFirst
<1>3. UNCHANGED <<kind, cl, cur, cseq, died>> BY <1>1 DEF clientVars
<1>4. UNCHANGED <<present, chClosed, sseq, pend, conn>> BY <1>1 DEF channelVars
<1>5. Confined(t) /\ Right(t)' /\ req'[<<t, 1>>].st \in {"none", "answered"}
  BY <1>0, <1>1, <1>2, <1>3, <1>4, ReplyConfined
<1>6. pend["conn"] /\ cseq.conn = 2 /\ sseq.conn = 0 BY <1>0, <1>1, <1>2 DEF Leading, Dialling, HeadNumbered, Thr
<1>7. HeadsAgree' BY <1>1, <1>3, <1>4, <1>5, <1>6 DEF HeadsAgree, LeftPending
<1>8. cl'["conn"] \notin {"done", "failed"} /\ ~died' /\ ~chClosed' /\ (cseq'.conn > 0 => present')
  BY <1>0, <1>1, <1>2, <1>3, <1>4 DEF Calm
<1> QED BY <1>1, <1>2, <1>5, <1>7, <1>8, ConnInStep

\* A push that leads is answered, with success.
LEMMA PushedSync ==
    ASSUME TunnelInv, LeakInv, InStep, NEW i \in {1, 2}, NEW c \in Nat, NEW v \in Nat, RightCode("conn", c),
           req[<<"conn", i>>].st = "work", Broadcast("conn", <<"conn", i>>, c, v),
           UNCHANGED <<kind, cl, cur, cseq, died, present, chClosed>>, sseq'.conn = sseq.conn + 1, Active'
    PROVE  InStep'
<1>0. TunnelTypes /\ Calm /\ HeadsAgree /\ "conn" \in Thr BY DEF TunnelInv, InStep, Thr
<1>1. i = 1 /\ cl["conn"] # "done" BY <1>0, OnlyFirst
<1>2. Confined("conn") /\ Right("conn")' /\ req'[<<"conn", 1>>].st \in {"none", "answered"} /\ pend'["conn"] = FALSE
  BY <1>0, <1>1, BroadcastConfined
<1>3. cseq.conn = sseq.conn + 2 /\ cl["conn"] # "ready"
  <2>1. sseq.conn \in Nat /\ cseq.conn \in Nat BY <1>0, ConnNumbers
  <2> QED BY <1>0, <1>1, <2>1 DEF HeadsAgree, LeftPending
<1>4. HeadsAgree'
  <2>1. sseq.conn \in Nat BY <1>0, ConnNumbers
  <2> QED BY <1>2, <1>3, <2>1 DEF HeadsAgree, LeftPending
<1>5. cl'["conn"] \notin {"done", "failed"} /\ ~died' /\ ~chClosed' /\ (cseq'.conn > 0 => present')
  BY <1>0, <1>1 DEF Calm
<1> QED BY <1>1, <1>2, <1>4, <1>5, ConnInStep

LEMMA ConnectSync ==
    ASSUME TunnelInv, LeakInv, InStep, NEW t \in Thr, NEW i \in {1, 2}, Connect(<<t, i>>)
    PROVE  InStep'
<1> DEFINE c == 200
           v == 0
<1>1. /\ t = "conn" /\ req[<<"conn", i>>].st = "work" /\ Broadcast("conn", <<"conn", i>>, c, v)
      /\ UNCHANGED <<kind, cl, cur, cseq, died, present, chClosed>> /\ c \in Nat /\ v \in Nat /\ RightCode("conn", c)
  BY DEF Connect, clientVars, RightCode
<1>2. sseq'.conn = sseq.conn + 1 BY DEF Connect, TunnelInv, TunnelTypes, Keys
<1>3. Active' BY <1>1 DEF Connect, Active
<1> HIDE DEF c, v
<1> QED BY <1>1, <1>2, <1>3, PushedSync

LEMMA AcknowledgeSync ==
    ASSUME TunnelInv, LeakInv, InStep, NEW t \in Thr, NEW i \in {1, 2}, Acknowledge(<<t, i>>)
    PROVE  InStep'
<1> DEFINE c == IF Active THEN 200 ELSE 410
           v == 0
<1>0. TunnelTypes /\ HeadsAgree /\ "conn" \in Thr BY DEF TunnelInv, InStep, Thr
<1>1. /\ t = "conn" /\ req[<<"conn", i>>].st = "work" /\ req[<<"conn", i>>].seq = 2
      /\ Broadcast("conn", <<"conn", i>>, c, v)
      /\ UNCHANGED <<kind, conn, cl, cur, cseq, died, present, chClosed>> /\ c \in Nat /\ v \in Nat
  BY DEF Acknowledge, clientVars
<1>2. i = 1 BY <1>0, <1>1, OnlyFirst
<1>3. Active
  <2>1. sseq.conn \in Nat BY <1>0, ConnNumbers
  <2>2. sseq.conn = 1 BY <1>0, <1>1, <1>2, <2>1 DEF HeadsAgree, LeftPending
  <2> QED BY <1>0, <2>2 DEF HeadsAgree
<1>4. sseq'.conn = sseq.conn + 1 BY <1>0, <1>3 DEF Acknowledge, TunnelTypes, Keys
<1>5. Active' BY <1>1, <1>3 DEF Active
<1>6. RightCode("conn", c) BY <1>3 DEF RightCode
<1> HIDE DEF c, v
<1> QED BY <1>1, <1>4, <1>5, <1>6, PushedSync

\* A heartbeat is held until its time is up and then succeeds.
LEMMA BeatSync ==
    ASSUME TunnelInv, LeakInv, InStep, NEW t \in Thr, NEW i \in {1, 2}, Beat(<<t, i>>)
    PROVE  InStep'
<1> DEFINE c == IF chClosed THEN 410 ELSE 200
           v == 0
<1>0. TunnelTypes /\ Calm /\ Dialled /\ HeadsAgree /\ BeatsAgree BY DEF TunnelInv, InStep, LeakInv
<1>1. /\ t = "hb" /\ req[<<t, i>>].st = "work" /\ Broadcast(t, <<t, i>>, c, v)
      /\ UNCHANGED <<clientVars, present, chClosed, conn>> /\ c \in Nat /\ v \in Nat
  BY DEF Beat
<1>2. RightCode(t, c) BY <1>0 DEF RightCode, Calm
<1> HIDE DEF c, v
<1>3. i = 1 /\ cl["conn"] = "done" BY <1>1, OnlyFirst
<1>4. UNCHANGED <<kind, cl, cur, cseq, died>> BY <1>1 DEF clientVars
<1>5. Confined(t) /\ Right(t)' /\ req'[<<t, 1>>].st \in {"none", "answered"} /\ pend'[t] = FALSE
  BY <1>0, <1>1, <1>2, <1>3, <1>4, BroadcastConfined
<1>6. sseq'.conn = sseq.conn + 1 BY <1>0 DEF Beat, TunnelTypes, Keys
<1>7. sseq.conn \in Nat BY <1>0, ConnNumbers
<1>8. UNCHANGED <<pend["conn"], req[<<"conn", 1>>]>> BY <1>1, <1>5 DEF Confined, Thr
<1>9. BeatsAgree' BY <1>0, <1>1, <1>3, <1>4, <1>5, <1>6, <1>7, <1>8 DEF BeatsAgree
<1>10. Active'
  <2>1. Late BY <1>0, <1>1, <1>3 DEF Dialled
  <2> QED BY <1>0, <1>1, <1>4, <2>1 DEF HeadsAgree, Late, Active
<1>11. cl'["hb"] # "failed" /\ (cseq'.conn > 0 => present') BY <1>0, <1>1, <1>4 DEF Calm
<1> QED BY <1>1, <1>3, <1>4, <1>5, <1>9, <1>10, <1>11, BeatInStep

\* A GET or a POST that leads is answered.
LEMMA ServedSync ==
    ASSUME TunnelInv, InStep, NEW t \in {"read", "write"}, NEW i \in {1, 2}, NEW c \in Nat, NEW v \in Nat,
           RightCode(t, c), req[<<t, i>>].st = "work", Broadcast(t, <<t, i>>, c, v),
           UNCHANGED <<kind, conn, cl, cur, cseq, died, present, chClosed>>, sseq'.conn = sseq.conn
    PROVE  InStep'
<1>0. TunnelTypes /\ Calm /\ t \in Thr BY DEF TunnelInv, InStep, Thr
<1>1. i = 1 /\ cl["conn"] = "done" BY <1>0, OnlyFirst
<1>2. Confined(t) /\ Right(t)' BY <1>0, <1>1, BroadcastConfined
<1>3. cl'[t] # "failed" BY <1>0 DEF Calm
<1> QED BY <1>1, <1>2, <1>3, DataInStep

LEMMA FetchSync ==
    ASSUME TunnelInv, LeakInv, InStep, NEW t \in Thr, NEW i \in {1, 2}, Fetch(<<t, i>>)
    PROVE  InStep'
<1>1. /\ t = "read" /\ req[<<t, i>>].st = "work"
      /\ UNCHANGED <<kind, conn, cl, cur, cseq, died, present, chClosed>>
  BY DEF Fetch, clientVars
<1>2. sseq'.conn = sseq.conn BY DEF Fetch, TunnelInv, TunnelTypes, Keys
<1>3. PICK c \in Nat, v \in Nat : RightCode(t, c) /\ Broadcast(t, <<t, i>>, c, v)
  <2>1. ~chClosed /\ out + 1 \in Nat BY DEF InStep, Calm, TunnelInv, TunnelTypes
  <2>2. RightCode(t, 200) /\ RightCode(t, 408) /\ 200 \in Nat /\ 408 \in Nat /\ 0 \in Nat BY <1>1 DEF RightCode
  <2>3. Broadcast(t, <<t, i>>, 200, out + 1) \/ Broadcast(t, <<t, i>>, 408, 0) BY <1>1, <2>1 DEF Fetch
  <2> DEFINE B(c, v) == Broadcast(t, <<t, i>>, c, v)
  <2>4. B(200, out + 1) \/ B(408, 0) BY <2>3
  <2> HIDE DEF B
  <2>5. \E c \in Nat, v \in Nat : RightCode(t, c) /\ B(c, v) BY <2>1, <2>2, <2>4
  <2> QED BY <2>5 DEF B
<1>4. t \in {"read", "write"} BY <1>1
<1> QED BY <1>1, <1>2, <1>3, <1>4, ServedSync

LEMMA StoreSync ==
    ASSUME TunnelInv, LeakInv, InStep, NEW t \in Thr, NEW i \in {1, 2}, Store(<<t, i>>)
    PROVE  InStep'
<1> DEFINE c == IF Active /\ ~(kind = "UDP" /\ chClosed) THEN 200 ELSE 410
           v == 0
<1>1. /\ t = "write" /\ req[<<t, i>>].st = "work" /\ Broadcast(t, <<t, i>>, c, v)
      /\ UNCHANGED <<kind, conn, cl, cur, cseq, died, present, chClosed>> /\ c \in Nat /\ v \in Nat
  BY DEF Store, clientVars
<1>2. sseq'.conn = sseq.conn BY DEF Store, TunnelInv, TunnelTypes, Keys
<1>3. Active /\ ~chClosed
  <2>1. cl["conn"] = "done" BY <1>1, OnlyFirst
  <2>2. Late BY <2>1 DEF LeakInv, Dialled
  <2> QED BY <2>2 DEF InStep, HeadsAgree, Calm, Late
<1>4. RightCode(t, c) BY <1>3 DEF RightCode
<1> HIDE DEF c, v
<1>5. t \in {"read", "write"} BY <1>1
<1> QED BY <1>1, <1>2, <1>4, <1>5, ServedSync

-----------------------------------------------------------------------------
(* The client's steps.                                                     *)

LEMMA OpenChannelSync ==
    ASSUME TunnelInv, LeakInv, InStep, OpenChannel, faults' = 0
    PROVE  InStep'
<1>0. TunnelTypes /\ Calm /\ Dialling /\ HeadsAgree BY DEF TunnelInv, InStep, LeakInv
<1>1. /\ cl["conn"] = "ready" /\ cseq.conn = 0 /\ present' = TRUE /\ cseq' = [cseq EXCEPT !["conn"] = 1]
      /\ UNCHANGED <<kind, cl, cur, died, req, chClosed, sseq, pend, conn>>
  <2>1. faults \in Nat BY DEF LeakInv, ChannelTypes
  <2> QED BY <2>1 DEF OpenChannel
<1>2. cseq'.conn = 1 BY <1>0, <1>1 DEF TunnelTypes, Keys
<1>3. req[<<"conn", 1>>].st = "none" BY <1>0, <1>1 DEF Dialling, HeadNumbered
<1>4. Confined("conn") /\ Right("conn")' BY <1>0, <1>1, <1>3 DEF Confined, Calm, Right
<1>5. HeadsAgree'
  <2>1. sseq.conn \in Nat BY <1>0, ConnNumbers
  <2>2. ~LeftPending BY <1>0, <1>1, <1>3 DEF HeadsAgree
  <2>3. sseq.conn = 0 BY <1>0, <1>1, <2>1, <2>2 DEF HeadsAgree
  <2> QED BY <1>1, <1>2, <1>3, <2>2, <2>3 DEF HeadsAgree, LeftPending
<1>6. ~died' /\ ~chClosed' BY <1>0, <1>1 DEF Calm
<1>7. cl["conn"] # "done" /\ cl'["conn"] \notin {"done", "failed"} BY <1>1
<1> QED BY <1>1, <1>4, <1>5, <1>6, <1>7, ConnInStep

LEMMA PushSync == ASSUME TunnelInv, LeakInv, InStep, Push PROVE InStep'
<1>0. TunnelTypes /\ Calm /\ Dialling /\ HeadsAgree BY DEF TunnelInv, InStep, LeakInv
<1>1. /\ cl["conn"] = "ready" /\ cseq.conn > 0 /\ req[<<"conn", 1>>].st = "none" /\ Send("conn", 0)
      /\ UNCHANGED <<kind, died, present, chClosed, sseq, pend, conn>> /\ "conn" \in Thr /\ 0 \in Nat
  BY DEF Push, Idle, channelVars, Thr
<1>2. /\ cl'["conn"] = "await" /\ req'[<<"conn", 1>>].st = "net" /\ req'[<<"conn", 1>>].seq = cseq.conn
      /\ cseq'.conn = cseq.conn + 1
  BY <1>0, <1>1, SendEffect
<1>3. Confined("conn") /\ Right("conn")' BY <1>0, <1>1, SendConfined
<1>4. HeadsAgree'
  <2>1. sseq.conn \in Nat /\ cseq.conn \in Nat BY <1>0, ConnNumbers
  <2>2. CASE LeftPending BY <1>0, <1>1, <1>2, <2>1, <2>2 DEF HeadsAgree, LeftPending, Active
  <2>3. CASE ~LeftPending BY <1>0, <1>1, <1>2, <2>1, <2>3 DEF HeadsAgree, LeftPending, Active
  <2> QED BY <2>2, <2>3
<1>5. ~died' /\ ~chClosed' /\ present' BY <1>0, <1>1 DEF Calm
<1>6. cl["conn"] # "done" /\ cl'["conn"] \notin {"done", "failed"} BY <1>1, <1>2
<1> QED BY <1>3, <1>4, <1>5, <1>6, ConnInStep

LEMMA HeartbeatSync == ASSUME TunnelInv, LeakInv, InStep, Heartbeat PROVE InStep'
<1>0. TunnelTypes /\ Calm /\ Dialled /\ HeadsAgree /\ BeatsAgree BY DEF TunnelInv, InStep, LeakInv
<1>1. /\ cl["hb"] = "ready" /\ req[<<"hb", 1>>].st = "none" /\ Send("hb", 0)
      /\ UNCHANGED <<kind, died, present, chClosed, sseq, pend, conn>> /\ "hb" \in Thr \ {"conn"} /\ 0 \in Nat
  BY DEF Heartbeat, Idle, channelVars, Thr
<1>2. cl["conn"] = "done" BY <1>1 DEF InStep, Unopened
<1>3. /\ cl'["hb"] = "await" /\ req'[<<"hb", 1>>].st = "net" /\ req'[<<"hb", 1>>].seq = cseq.conn
      /\ cseq'.conn = cseq.conn + 1
  BY <1>0, <1>1, SendEffect
<1>4. Confined("hb") /\ Right("hb")' BY <1>0, <1>1, SendConfined
<1>5. UNCHANGED <<cl["conn"], pend["conn"], req[<<"conn", 1>>]>> BY <1>4 DEF Confined, Thr
<1>6. sseq.conn \in Nat /\ cseq.conn \in Nat BY <1>0, ConnNumbers
<1>7. BeatsAgree' BY <1>0, <1>1, <1>2, <1>3, <1>5, <1>6 DEF BeatsAgree
<1>8. Late BY <1>0, <1>1, ThreadLate
<1>9. Active' BY <1>0, <1>1, <1>8 DEF HeadsAgree, Late, Active
<1>10. present' BY <1>0, <1>1, <1>6, <1>8 DEF Calm, Late
<1>11. cl'["hb"] # "failed" BY <1>3
<1> QED BY <1>1, <1>2, <1>4, <1>7, <1>9, <1>10, <1>11, BeatInStep

\* A GET or a POST is sent.
LEMMA AskedSync ==
    ASSUME TunnelInv, InStep, NEW t \in {"read", "write"}, NEW v \in Nat, Send(t, v), cl[t] = "ready",
           UNCHANGED <<kind, died, channelVars>>
    PROVE  InStep'
<1>0. TunnelTypes /\ Calm /\ t \in Thr \ {"conn"} BY DEF TunnelInv, InStep, Thr
<1>1. UNCHANGED <<present, chClosed, sseq, pend, conn>> BY DEF channelVars
<1>2. cl["conn"] = "done" BY <1>0 DEF InStep, Unopened
<1>3. cseq'.conn = cseq.conn BY <1>0, SendEffect
<1>4. Confined(t) /\ Right(t)' /\ cl'[t] # "failed" BY <1>0, <1>1, SendConfined
<1> QED BY <1>1, <1>2, <1>3, <1>4, DataInStep

LEMMA ReadSync == ASSUME TunnelInv, LeakInv, InStep, Read PROVE InStep'
<1>1. "read" \in {"read", "write"} /\ 0 \in Nat OBVIOUS
<1> QED BY <1>1, AskedSync DEF Read, Idle

LEMMA WriteSync == ASSUME TunnelInv, LeakInv, InStep, Write PROVE InStep'
<1>1. "write" \in {"read", "write"} /\ sent + 1 \in Nat BY DEF TunnelInv, TunnelTypes
<1> QED BY <1>1, AskedSync DEF Write, Idle

LEMMA AnswerSync == ASSUME TunnelInv, LeakInv, InStep, NEW t \in Thr, Answer(t) PROVE InStep'
<1>0. TunnelTypes /\ Calm /\ Dialling /\ Dialled /\ HeadsAgree /\ BeatsAgree BY DEF TunnelInv, InStep, LeakInv
<1>1. cur[t] = 1 BY <1>0 DEF Calm
<1>2. /\ req[<<t, 1>>].st = "answered" /\ req' = [req EXCEPT ![<<t, 1>>] = NoReq] /\ cl[t] = "await"
      /\ UNCHANGED <<kind, cur, cseq, cclosed, died, sent, faults, channelVars>>
      /\ t = "conn" => cl' = Opened(req[<<t, 1>>].seq)
      /\ t \notin {"conn", "del"} => cl' = [cl EXCEPT ![t] = "ready"]
  BY <1>1 DEF Answer, Listens
<1>3. UNCHANGED <<present, chClosed, sseq, pend, conn>> BY <1>2 DEF channelVars
<1>4. 1 \in {1, 2} /\ 2 \in {1, 2} /\ 2 # 1 OBVIOUS
<1>5. /\ t \in {"conn", "hb", "read", "write"} /\ (t # "conn" => cl["conn"] = "done")
      /\ (t = "conn" => cl["conn"] # "done")
  BY <1>2, <1>4, OnlyFirst
<1>6. req'[<<t, 1>>] = NoReq /\ \A u \in Thr, j \in {1, 2} : u # t \/ j # 1 => req'[<<u, j>>] = req[<<u, j>>]
  BY <1>0, <1>2, <1>4, SlotUpdate
<1>7. /\ \A u \in Thr \ {t} : req'[<<u, 1>>] = req[<<u, 1>>]
      /\ \A u \in Thr : req'[<<u, 2>>].st = "none" /\ cur'[u] = 1
  <2>1. \A u \in Thr : req'[<<u, 2>>] = req[<<u, 2>>] BY <1>4, <1>6
  <2> QED BY <1>0, <1>2, <1>4, <1>6, <2>1 DEF Calm
<1>8. req'[<<t, 1>>].st = "none" /\ Right(t)' BY <1>6, NoReqTyped DEF Right
<1>9. ~died' /\ ~chClosed' /\ (cseq'.conn > 0 => present') BY <1>0, <1>2, <1>3 DEF Calm
<1>10. CASE t # "conn"
  <2>1. cl'[t] = "ready" /\ \A u \in Thr \ {t} : cl'[u] = cl[u] BY <1>0, <1>2, <1>5, <1>10 DEF TunnelTypes
  <2>2. Confined(t) BY <1>3, <1>7, <2>1 DEF Confined
  <2>3. CASE t \in {"read", "write"}
    <3>1. UNCHANGED <<cseq.conn, sseq.conn, kind, conn, died, chClosed, present>> BY <1>2, <1>3
    <3> QED BY <1>5, <1>8, <1>10, <2>1, <2>2, <2>3, <3>1, DataInStep
  <2>4. CASE t = "hb"
    <3>1. UNCHANGED <<cl["conn"], req[<<"conn", 1>>]>> BY <1>7, <2>1, <2>4 DEF Thr
    <3>2. BeatsAgree' BY <1>0, <1>2, <1>3, <1>5, <1>8, <2>4, <3>1 DEF BeatsAgree
    <3>3. Late BY <1>0, <1>2, <1>10, ThreadLate
    <3>4. Active' BY <1>0, <1>2, <1>3, <3>3 DEF HeadsAgree, Late, Active
    <3> QED BY <1>2, <1>3, <1>5, <1>8, <1>9, <2>1, <2>2, <2>4, <3>2, <3>4, BeatInStep
  <2> QED BY <1>5, <1>10, <2>3, <2>4
<1>11. CASE t = "conn" /\ req[<<"conn", 1>>].seq = 1
  <2>1. cl' = [cl EXCEPT !["conn"] = "ready"] BY <1>2, <1>11 DEF Opened
  <2>2. cl'["conn"] = "ready" /\ \A u \in Thr \ {t} : cl'[u] = cl[u] BY <1>0, <1>11, <2>1 DEF TunnelTypes, Thr
  <2>3. Confined(t) BY <1>3, <1>7, <2>2 DEF Confined
  <2>4. HeadsAgree' BY <1>0, <1>2, <1>3, <1>8, <1>11 DEF HeadsAgree, LeftPending, Active
  <2>5. cl'["conn"] \notin {"done", "failed"} BY <2>2
  <2> QED BY <1>5, <1>8, <1>9, <1>11, <2>3, <2>4, <2>5, ConnInStep
<1>12. CASE t = "conn" /\ req[<<"conn", 1>>].seq = 2
  <2>1. cl' = [u \in Thr |-> IF u = "conn" THEN "done" ELSE IF u = "del" THEN "off" ELSE "ready"]
    BY <1>2, <1>12 DEF Opened
  <2>2. cl'["conn"] = "done" /\ \A u \in Thr : cl'[u] # "failed" BY <2>1 DEF Thr
  <2>3. cseq.conn \in Nat /\ cseq.conn # 2
    BY <1>0, <1>2, <1>12, ConnNumbers DEF Dialling, HeadNumbered
  <2>4. ~LeftPending /\ ~pend["conn"] /\ cseq.conn = sseq.conn + 1
    BY <1>0, <1>2, <1>12, <2>3 DEF HeadsAgree, LeftPending
  <2>5. \A u \in Thr \ {"conn"} : req[<<u, 1>>].st = "none" /\ ~pend[u] BY <1>5, <1>12 DEF InStep, Unopened
  <2>6. \A u \in Thr : req'[<<u, 1>>].st = "none" BY <1>7, <1>8, <1>12, <2>5
  <2>7. \A u \in Thr : Right(u)' BY <2>6 DEF Right
  <2>8. Calm' BY <1>7, <1>9, <2>2, <2>6, <2>7 DEF Calm, Thr
  <2>9. HeadsAgree' BY <1>0, <1>2, <1>3, <1>12, <1>8, <2>2, <2>4 DEF HeadsAgree, LeftPending, Active
  <2>10. BeatsAgree' BY <1>2, <1>3, <2>4, <2>5, <2>6 DEF BeatsAgree, Thr
  <2>11. Unopened' BY <2>2 DEF Unopened
  <2> QED BY <2>8, <2>9, <2>10, <2>11 DEF InStep
<1>13. t = "conn" => req[<<"conn", 1>>].seq \in {1, 2} BY <1>0, <1>2 DEF Dialling, HeadNumbered
<1> QED BY <1>10, <1>11, <1>12, <1>13

-----------------------------------------------------------------------------
(* The ends agree.                                                         *)

LEMMA SyncInit == TunnelInit => SyncInv
<1> SUFFICES ASSUME TunnelInit PROVE InStep BY DEF SyncInv
<1> USE DEF TunnelInit
<1>1. \A t \in Thr : req[<<t, 1>>].st = "none" /\ req[<<t, 2>>].st = "none" BY SlotTyped, NoReqTyped
<1>2. "conn" \in Thr /\ "hb" \in Thr /\ "del" \in Thr BY DEF Thr
<1>3. \A t \in Thr : Right(t) BY <1>1 DEF Right
<1>4. /\ \A t \in Thr : cl[t] # "failed" /\ cur[t] = 1 /\ ~pend[t] /\ (t # "conn" => cl[t] = "off")
      /\ cl["conn"] = "ready" /\ cseq.conn = 0 /\ sseq.conn = 0 /\ ~died /\ ~chClosed
      /\ ~(cseq.conn > 0) /\ ~(sseq.conn >= 1)
  BY <1>2
<1> HIDE DEF TunnelInit
<1>5. Calm
  <2>1. req[<<"del", 1>>].st = "none" BY <1>1, <1>2
  <2>2. \A t \in Thr : cl[t] # "failed" /\ cur[t] = 1 /\ req[<<t, 2>>].st = "none" /\ Right(t) BY <1>1, <1>3, <1>4
  <2> QED BY <1>4, <2>1, <2>2 DEF Calm
<1>6. HeadsAgree
  <2>1. ~LeftPending BY <1>2, <1>4 DEF LeftPending
  <2>2. req[<<"conn", 1>>].st = "none" BY <1>1, <1>2
  <2> QED BY <1>4, <2>1, <2>2 DEF HeadsAgree
<1>7. BeatsAgree BY <1>2, <1>4 DEF BeatsAgree
<1>8. Unopened BY <1>1, <1>4 DEF Unopened
<1> QED BY <1>5, <1>6, <1>7, <1>8 DEF InStep

\* An answer of the channel is never bad, nothing closes it and its client is
\* expected to send, so only the steps above are left.
LEMMA SyncStep == ASSUME ~SlowDial, TunnelInv, LeakInv, SyncInv, [TunnelNext]_tunnelVars PROVE SyncInv'
<1> SUFFICES ASSUME faults' = 0, ~cclosed' PROVE InStep' BY DEF SyncInv
<1>0. faults \in Nat /\ cclosed \in BOOLEAN BY DEF LeakInv, ChannelTypes
<1>1. CASE UNCHANGED tunnelVars
  <2>1. UNCHANGED <<clientVars, req, channelVars>> BY <1>1 DEF tunnelVars
  <2>2. UNCHANGED <<kind, cl, cur, cseq, died, req, faults, cclosed>> BY <2>1 DEF clientVars
  <2>3. UNCHANGED <<present, chClosed, sseq, pend, conn>> BY <2>1 DEF channelVars
  <2>4. InStep BY <2>2 DEF SyncInv
  <2>5. Calm' BY <2>2, <2>3, <2>4 DEF InStep, Calm, Right
  <2>6. HeadsAgree' BY <2>2, <2>3, <2>4 DEF InStep, HeadsAgree, LeftPending, Active
  <2>7. BeatsAgree' /\ Unopened' BY <2>2, <2>3, <2>4 DEF InStep, BeatsAgree, Unopened
  <2> QED BY <2>5, <2>6, <2>7 DEF InStep
<1>2. CASE OpenChannel
  <2>1. faults = 0 /\ ~cclosed BY <1>0, <1>2 DEF OpenChannel
  <2> QED BY <1>2, <2>1, OpenChannelSync DEF SyncInv
<1>3. CASE Push \/ Read \/ Heartbeat \/ Write
  <2>1. faults = 0 /\ ~cclosed BY <1>3 DEF Push, Read, Heartbeat, Write
  <2> QED BY <1>3, <2>1, PushSync, ReadSync, HeartbeatSync, WriteSync DEF SyncInv
<1>4. CASE Close \/ Die BY <1>0, <1>4 DEF Close, Die
<1>5. ASSUME NEW t \in Thr, Answer(t) \/ AnswerBad(t) \/ Broken(t) \/ Retried(t) PROVE InStep'
  <2>1. CASE Answer(t)
    <3>1. faults = 0 /\ ~cclosed BY <2>1 DEF Answer
    <3> QED BY <2>1, <3>1, AnswerSync DEF SyncInv
  <2>2. CASE AnswerBad(t)
    <3>1. faults = 0 /\ ~cclosed BY <1>0, <2>2 DEF AnswerBad, Fails
    <3>2. Calm BY <3>1 DEF SyncInv, InStep
    <3>3. cur[t] = 1 /\ Right(t) BY <3>2 DEF Calm
    <3>4. req[<<t, 1>>].st = "answered" /\ ~Good(t, req[<<t, 1>>]) BY <2>2, <3>3 DEF AnswerBad
    <3> QED BY <3>3, <3>4 DEF Right, RightCode, Good
  <2>3. CASE Broken(t) \/ Retried(t) BY <1>0, <2>3 DEF Broken, Retried
  <2> QED BY <1>5, <2>1, <2>2, <2>3
<1>6. ASSUME NEW r \in Slots, Serve(r) PROVE InStep'
  <2>1. PICK t \in Thr, i \in {1, 2} : r = <<t, i>> BY DEF Slots
  <2>2. UNCHANGED clientVars
    BY <1>6 DEF Serve, Enter, Turn, Relock, AwaitReady, Refuse, Connect, Acknowledge, Beat, Fetch, Store
  <2>3. InStep BY <2>2 DEF SyncInv, clientVars
  <2>4. ~AwaitReady(<<t, i>>)
    <3>1. ASSUME AwaitReady(<<t, i>>) PROVE FALSE
      <4>1. req[<<t, i>>].st = "unready" BY <3>1 DEF AwaitReady
      <4>2. i = 1 BY <2>3, <4>1, OnlyFirst
      <4> QED BY <2>3, <4>1, <4>2 DEF InStep, Calm, Right
    <3> QED BY <3>1
  <2> QED BY <1>6, <2>1, <2>3, <2>4, EnterSync, TurnSync, RelockSync, RefuseSync, ConnectSync, AcknowledgeSync,
             BeatSync, FetchSync, StoreSync DEF Serve
<1>7. ASSUME NEW r \in Slots, ConnectFails(r) \/ StoreFails(r) PROVE InStep'
  BY <1>0, <1>7 DEF ConnectFails, StoreFails
<1>8. CASE ReqTimeout \/ CloseChannel
  <2>1. UNCHANGED clientVars BY <1>8 DEF ReqTimeout, CloseChannel
  <2>2. Calm /\ ~cclosed BY <2>1 DEF SyncInv, InStep, clientVars
  <2>3. ~CloseChannel BY <2>2 DEF CloseChannel, Calm
  <2>4. Expected BY <2>2 DEF Expected, Calm, Thr
  <2> QED BY <1>8, <2>3, <2>4 DEF ReqTimeout
<1> QED BY <1>1, <1>2, <1>3, <1>4, <1>5, <1>6, <1>7, <1>8 DEF TunnelNext

\* For every kind of channel and any number of chunks, heartbeats and faults: the
\* variables keep their ranges, closeChannel leaves no connection to the target
\* behind, and a client whose connections have not broken is never answered 410.
\* The dial must end within the request timeout: the code gives it 120 s and the
\* timeout 30 s, and a slower dial does leave its connection behind.
THEOREM TunnelIsSound == ASSUME ~SlowDial PROVE TunnelSpec => []TunnelSound
<1>1. TunnelInit => TunnelInv /\ LeakInv /\ SyncInv BY TunnelInitInv, LeakInit, SyncInit
<1>2. TunnelInv /\ LeakInv /\ SyncInv /\ [TunnelNext]_tunnelVars => TunnelInv' /\ LeakInv' /\ SyncInv'
  BY TunnelStep, LeakStep, SyncStep
<1>3. TunnelInv /\ LeakInv /\ SyncInv => TunnelSound
  <2> SUFFICES ASSUME TunnelInv, LeakInv, SyncInv PROVE TunnelSound OBVIOUS
  <2>1. TunnelTypeOK
    <3>1. \A r \in Slots : req[r].st = "work" => pend[r[1]]
      <4>1. ASSUME NEW t \in Thr, NEW i \in {1, 2} PROVE req[<<t, i>>].st = "work" => pend[t]
        BY DEF LeakInv, Leading
      <4>2. ASSUME NEW r \in Slots PROVE req[r].st = "work" => pend[r[1]]
        <5>1. PICK t \in Thr, i \in {1, 2} : r = <<t, i>> BY DEF Slots
        <5> QED BY <4>1, <5>1
      <4> QED BY <4>2
    <3> QED BY <3>1, TunnelAssumption DEF TunnelTypeOK, TunnelInv, TunnelTypes, Keys, LeakInv, ChannelTypes
  <2>2. NoTargetLeak BY DEF NoTargetLeak, LeakInv, SocketKept
  <2>3. InSync
    <3>1. ASSUME NEW r \in Slots, faults = 0, ~cclosed, req[r].st = "answered" PROVE RightCode(r[1], req[r].code)
      <4>1. PICK t \in Thr, i \in {1, 2} : r = <<t, i>> BY DEF Slots
      <4>2. InStep BY <3>1 DEF SyncInv
      <4>3. i = 1 BY <3>1, <4>1, <4>2, OnlyFirst
      <4>4. Right(t) BY <4>2 DEF InStep, Calm
      <4> QED BY <3>1, <4>1, <4>3, <4>4 DEF Right
    <3> QED BY <3>1 DEF InSync, RightCode
  <2> QED BY <2>1, <2>2, <2>3 DEF TunnelSound
<1> QED BY <1>1, <1>2, <1>3, PTL DEF TunnelSpec

-----------------------------------------------------------------------------
(***************************************************************************)
(* Striped lanes, for any lanes, flows, frames and breaks: every frame is   *)
(* in one place, and a flow's frames arrive in order as long as neither the *)
(* lanes nor the table of pins change.                                      *)
(***************************************************************************)

AllLanes == Lanes \cup {0}

\* The frames whose place in line is not promised: their lane was given up, or the
\* lanes changed while they were resolved.
Weak == {n \in DOMAIN stamp : stamp[n].epoch = 0}

\* No frame twice, and none behind a later one except those in K.
InLine(s, K) == \A i, j \in 1 .. Len(s) : i < j => s[i] # s[j] /\ (s[i] < s[j] \/ s[j] \in K)

\* Frame n of the batch under way waits for SendBatch to hand it to lane l.
FirstOf(c, s) == c - Len(s.flow)
UnsentOf(c, s) ==
    {FirstOf(c, s) + i : i \in DOMAIN s.flow}
    \ {FirstOf(c, s) + i : i \in {j \in DOMAIN s.pick : s.pc = "lanes" /\ s.pick[j] = 0}}
WaitingOf(c, s, n, l) ==
    \E i \in DOMAIN s.pick : n = FirstOf(c, s) + i /\ s.pick[i] = l /\ ~ (s.pc = "lanes" /\ l = 0)
Waiting(n, l) == WaitingOf(count, snd, n, l)
OnWire(n, l) == n \in ToSet(wire[l])
Queued(n, l) == l # 0 /\ n \in ToSet(lqueue[l])
Held(n, l) == OnWire(n, l) \/ Queued(n, l)
Pending(n, l) == Held(n, l) \/ Waiting(n, l)

LaneShape ==
    /\ attached \in Seq(Lanes) /\ IsInjective(attached)
    /\ lane \in [Lanes -> {"none", "dialed", "up", "broken", "leaving", "closed"}]
    /\ \A l \in ToSet(attached) : lane[l] \notin {"none", "dialed"}
    /\ \A l, k \in Lanes : lane[l] = "dialed" /\ lane[k] = "dialed" => l = k
    /\ Len(attached) <= MaxLanes
    /\ \A l \in Lanes : lane[l] = "dialed" => Len(attached) < MaxLanes

ShapeOf(c, s, st) ==
    /\ c \in Nat /\ st \in Seq([flow : Flows, epoch : Nat])
    /\ s \in [pc : {"idle", "lookup", "miss", "primary", "lanes"}, flow : Seq(Flows), snap : Seq(Lanes), at : Nat, pick : Seq(AllLanes)]
    /\ s.pc = "idle" => s = Sending
    /\ s.pc # "idle" => Len(s.flow) \in {1, 2}
    /\ s.pc \in {"lookup", "miss"} => Len(s.pick) < Len(s.flow)
    /\ s.pc \in {"primary", "lanes"} => Len(s.pick) = Len(s.flow)
    /\ Len(s.flow) <= c
    /\ Len(st) = FirstOf(c, s) + Len(s.pick)

SendShape ==
    /\ lqueue \in [Lanes -> Seq(Nat)] /\ wire \in [AllLanes -> Seq(Nat)]
    /\ epoch \in Nat \ {0}
    /\ ShapeOf(count, snd, stamp)

\* The table: no pin for a packet without a flow; between the two sections of
\* pickLanePinned the flow has none.
PinShape ==
    /\ affinity \in [Flows -> AllLanes \cup {Unpinned}]
    /\ \A f \in Loose : affinity[f] = Unpinned
    /\ snd.pc = "miss" => affinity[Resolving] = Unpinned /\ snd.snap # <<>>

\* Every frame handed over is in one place, none of the others is anywhere.
Places ==
    /\ \A n \in Nat, l, k \in AllLanes : Held(n, l) /\ Held(n, k) => l = k
    /\ \A n \in Nat, l \in AllLanes : ~ (OnWire(n, l) /\ Queued(n, l))
    /\ \A n \in Nat, l \in AllLanes : Held(n, l) => n \in (1 .. count) \ Unsent /\ n \notin arrived \cup lost
    /\ arrived \subseteq (1 .. count) \ Unsent /\ lost \subseteq (1 .. count) \ Unsent /\ arrived \cap lost = {}
    /\ \A n \in (1 .. count) \ Unsent : n \in arrived \cup lost \/ \E l \in AllLanes : Held(n, l)
    /\ overtaken \subseteq arrived

\* The order on each lane, and that what waits for a lane is newer than what it has.
Lines ==
    /\ \A l \in AllLanes : InLine(wire[l], Weak)
    /\ \A l \in Lanes : InLine(lqueue[l], Weak)
    /\ \A l \in Lanes, n, m \in Nat : OnWire(n, l) /\ Queued(m, l) => n < m \/ m \in Weak
    /\ \A l \in AllLanes, n, m \in Nat : Held(n, l) /\ Waiting(m, l) => n <= First

\* Frames of one flow and epoch, not yet received, are on one lane.
Together ==
    \A n, m \in DOMAIN stamp :
        n < m /\ stamp[n] = stamp[m] /\ n \notin Weak /\ stamp[n].flow \notin Loose =>
            \A l \in AllLanes : Pending(n, l) => Pending(m, l) \/ m \in lost

\* While the epoch lasts the table, or the empty list of lanes, leads to that lane.
Leads(n, l, list) ==
    IF list = <<>> THEN l = 0 ELSE affinity[stamp[n].flow] = l /\ (l = 0 \/ l \in ToSet(list))
Pinned ==
    /\ \A n \in DOMAIN stamp : stamp[n].epoch <= epoch /\ (stamp[n].epoch = epoch /\ snd.pc # "idle" => snd.at = epoch)
    /\ snd.at <= epoch
    /\ tdone = "no" /\ snd.pc # "idle" /\ snd.at = epoch => snd.snap = attached
    /\ \A n \in DOMAIN stamp, l \in AllLanes :
          stamp[n].epoch = epoch /\ stamp[n].flow \notin Loose /\ Pending(n, l) =>
              /\ snd.pc # "idle" => Leads(n, l, snd.snap)
              /\ tdone = "no" => Leads(n, l, attached)

StripeInv == LaneShape /\ SendShape /\ PinShape /\ Places /\ Lines /\ Together /\ Pinned /\ FlowOrder

-----------------------------------------------------------------------------
(* Sequences of frames. *)

LEMMA LineAppend ==
    ASSUME NEW K, NEW s \in Seq(Nat), NEW e \in Nat, InLine(s, K),
           \A a \in ToSet(s) : a # e /\ (a < e \/ e \in K)
    PROVE  InLine(Append(s, e), K)
<1> DEFINE t == Append(s, e)
<1>1. Len(s) \in Nat /\ Len(t) = Len(s) + 1 /\ t[Len(s) + 1] = e /\ \A i \in 1 .. Len(s) : t[i] = s[i] /\ s[i] \in ToSet(s)
  BY AppendProperties, ToSetType, LenProperties
<1> HIDE DEF t
<1>2. ASSUME NEW i \in 1 .. Len(t), NEW j \in 1 .. Len(t), i < j
      PROVE  t[i] # t[j] /\ (t[i] < t[j] \/ t[j] \in K)
  <2>1. i \in 1 .. Len(s) /\ t[i] = s[i] /\ s[i] \in ToSet(s)
    BY <1>1, <1>2
  <2>2. CASE j = Len(s) + 1
    BY <2>1, <2>2, <1>1
  <2>3. CASE j # Len(s) + 1
    BY <2>1, <2>3, <1>1, <1>2 DEF InLine
  <2> QED BY <2>2, <2>3
<1> QED BY <1>2 DEF InLine, t

LEMMA LineTail ==
    ASSUME NEW K, NEW s \in Seq(Nat), s # <<>>, InLine(s, K)
    PROVE  /\ Tail(s) \in Seq(Nat) /\ Head(s) \in ToSet(s) /\ Head(s) \in Nat
           /\ InLine(Tail(s), K)
           /\ \A n : n \in ToSet(Tail(s)) <=> n \in ToSet(s) /\ n # Head(s)
           /\ \A b \in ToSet(Tail(s)) : Head(s) < b \/ b \in K
<1> DEFINE t == Tail(s)
<1>1. /\ t \in Seq(Nat) /\ Len(s) \in Nat \ {0} /\ Len(t) = Len(s) - 1 /\ Head(s) = s[1]
      /\ \A i \in 1 .. Len(t) : t[i] = s[i + 1]
  BY HeadTailProperties, EmptySeq, LenProperties
<1>2. /\ \A n : n \in ToSet(s) <=> \E i \in 1 .. Len(s) : s[i] = n
      /\ \A n : n \in ToSet(t) <=> \E i \in 1 .. Len(t) : t[i] = n
  BY ToSetType, <1>1
<1> HIDE DEF t
<1>3. InLine(t, K)
  <2>1. ASSUME NEW i \in 1 .. Len(t), NEW j \in 1 .. Len(t), i < j
        PROVE  t[i] # t[j] /\ (t[i] < t[j] \/ t[j] \in K)
    <3>1. i + 1 \in 1 .. Len(s) /\ j + 1 \in 1 .. Len(s) /\ i + 1 < j + 1
      BY <2>1, <1>1
    <3> QED BY <3>1, <2>1, <1>1 DEF InLine
  <2> QED BY <2>1 DEF InLine
<1>4. ASSUME NEW i \in 1 .. Len(t) PROVE t[i] # s[1] /\ (s[1] < t[i] \/ t[i] \in K) /\ \E j \in 1 .. Len(s) : s[j] = t[i]
  <2>1. 1 \in 1 .. Len(s) /\ i + 1 \in 1 .. Len(s) /\ 1 < i + 1
    BY <1>1
  <2> QED BY <2>1, <1>1 DEF InLine
<1>5. ASSUME NEW j \in 1 .. Len(s), s[j] # s[1] PROVE \E i \in 1 .. Len(t) : t[i] = s[j]
  <2>1. j - 1 \in 1 .. Len(t) /\ t[j - 1] = s[(j - 1) + 1] /\ (j - 1) + 1 = j
    BY <1>1, <1>5
  <2> QED BY <2>1
<1>6. \A n : n \in ToSet(t) <=> n \in ToSet(s) /\ n # s[1]
  BY <1>2, <1>4, <1>5
<1>7. ASSUME NEW b \in ToSet(t) PROVE s[1] < b \/ b \in K
  <2>1. PICK i \in 1 .. Len(t) : t[i] = b
    BY <1>2
  <2> QED BY <2>1, <1>4
<1>8. s[1] \in ToSet(s) /\ s[1] \in Nat
  BY <1>1, <1>2, ElementOfSeq
<1> QED BY <1>1, <1>3, <1>6, <1>7, <1>8 DEF t

LEMMA LineWeaker ==
    ASSUME NEW K, NEW L, K \subseteq L, NEW s, InLine(s, K)
    PROVE  InLine(s, L)
BY DEF InLine

LEMMA LineEmpty == ASSUME NEW K PROVE InLine(<<>>, K) /\ <<>> \in Seq(Nat) /\ ToSet(<<>>) = {}
<1>1. <<>> \in Seq(Nat)
  BY EmptySeq
<1>2. Len(<<>>) = 0
  BY EmptySeq
<1>3. ToSet(<<>>) = {}
  BY <1>1, ToSetType
<1> QED BY <1>1, <1>2, <1>3 DEF InLine

-----------------------------------------------------------------------------
(* What the steps of SendBatch do to the frames of the batch. *)

LEMMA BatchNumbers ==
    ASSUME NEW c \in Nat, NEW a \in Nat, NEW f \in Nat, f = c - a
    PROVE  /\ \A n \in Nat : f < n /\ n <= c => n - f \in 1 .. a /\ n = f + (n - f)
           /\ \A i \in 1 .. a : f + i \in Nat /\ f < f + i /\ f + i <= c /\ (f + i) - f = i
OBVIOUS

LEMMA BatchShape ==
    ASSUME NEW c, NEW s, NEW st, ShapeOf(c, s, st)
    PROVE  /\ FirstOf(c, s) \in Nat /\ Len(s.flow) \in Nat /\ Len(s.pick) \in Nat /\ Len(st) = FirstOf(c, s) + Len(s.pick)
           /\ DOMAIN s.pick = 1 .. Len(s.pick) /\ DOMAIN s.flow = 1 .. Len(s.flow) /\ DOMAIN st = 1 .. Len(st)
           /\ \A n : n \in UnsentOf(c, s) <=> /\ n \in Nat /\ FirstOf(c, s) < n /\ n <= c
                                              /\ ~ (s.pc = "lanes" /\ s.pick[n - FirstOf(c, s)] = 0)
           /\ \A n, l : WaitingOf(c, s, n, l) => n \in UnsentOf(c, s) /\ n \in DOMAIN st /\ n \in Nat
<1> DEFINE F == FirstOf(c, s)
<1>1. F \in Nat /\ Len(s.flow) \in Nat /\ Len(s.pick) \in Nat /\ Len(st) = F + Len(s.pick) /\ c \in Nat /\ F = c - Len(s.flow)
  BY LenProperties DEF ShapeOf, FirstOf
<1>2. DOMAIN s.pick = 1 .. Len(s.pick) /\ DOMAIN s.flow = 1 .. Len(s.flow) /\ DOMAIN st = 1 .. Len(st)
  BY LenProperties DEF ShapeOf
<1>3. s.pc = "lanes" => Len(s.pick) = Len(s.flow)
  BY DEF ShapeOf
<1>4. Len(s.pick) <= Len(s.flow)
  BY <1>1 DEF ShapeOf, Sending
<1> HIDE DEF F
<1>n. /\ \A n \in Nat : F < n /\ n <= c => n - F \in 1 .. Len(s.flow) /\ n = F + (n - F)
      /\ \A i \in 1 .. Len(s.flow) : F + i \in Nat /\ F < F + i /\ F + i <= c /\ (F + i) - F = i
  BY <1>1, BatchNumbers
<1>m. \A i \in 1 .. Len(s.pick) : i \in 1 .. Len(s.flow) /\ F + i \in 1 .. Len(st)
  BY <1>1, <1>4
<1>5. ASSUME NEW n
      PROVE  n \in UnsentOf(c, s) <=> n \in Nat /\ F < n /\ n <= c /\ ~ (s.pc = "lanes" /\ s.pick[n - F] = 0)
  <2>1. n \in {F + i : i \in DOMAIN s.flow} <=> n \in Nat /\ F < n /\ n <= c
    <3>1. ASSUME n \in Nat, F < n, n <= c PROVE n \in {F + i : i \in DOMAIN s.flow}
      <4>1. n - F \in DOMAIN s.flow /\ n = F + (n - F)
        BY <1>n, <1>2, <3>1
      <4> QED BY <4>1
    <3> QED BY <3>1, <1>n, <1>2
  <2>2. ASSUME n \in Nat, F < n, n <= c
        PROVE  n \in {F + i : i \in {j \in DOMAIN s.pick : s.pc = "lanes" /\ s.pick[j] = 0}}
               <=> s.pc = "lanes" /\ s.pick[n - F] = 0
    <3>1. CASE s.pc = "lanes"
      <4>1. n - F \in DOMAIN s.pick /\ n = F + (n - F)
        BY <1>n, <1>2, <1>3, <2>2, <3>1
      <4>2. \A i \in DOMAIN s.pick : n = F + i => i = n - F
        BY <1>n, <1>m, <1>2
      <4> QED BY <4>1, <4>2, <3>1
    <3> QED BY <3>1
  <2> QED BY <2>1, <2>2 DEF UnsentOf, F
<1>6. ASSUME NEW n, NEW l, WaitingOf(c, s, n, l) PROVE n \in UnsentOf(c, s) /\ n \in DOMAIN st /\ n \in Nat
  <2>1. PICK i \in DOMAIN s.pick : n = F + i /\ s.pick[i] = l /\ ~ (s.pc = "lanes" /\ l = 0)
    BY <1>6 DEF WaitingOf, F
  <2>2. n \in Nat /\ F < n /\ n <= c /\ n - F = i /\ n \in 1 .. Len(st)
    BY <2>1, <1>n, <1>m, <1>2
  <2> QED BY <2>1, <2>2, <1>2, <1>5
<1> QED BY <1>1, <1>2, <1>5, <1>6 DEF F

LEMMA BatchView ==
    /\ Unsent = UnsentOf(count, snd) /\ First = FirstOf(count, snd)
    /\ Unsent' = UnsentOf(count', snd') /\ First' = FirstOf(count', snd')
    /\ SendShape => ShapeOf(count, snd, stamp)
    /\ SendShape' => ShapeOf(count', snd', stamp')
    /\ \A n, l : Waiting(n, l) <=> WaitingOf(count, snd, n, l)
    /\ \A n, l : Waiting(n, l)' <=> WaitingOf(count', snd', n, l)
BY DEF Unsent, UnsentOf, First, FirstOf, SendShape, Waiting

\* A frame more is resolved.
Resolved(s, l, a) ==
    [pc |-> IF Len(s.pick) + 1 = Len(s.flow) THEN "primary" ELSE "lookup",
     flow |-> s.flow, snap |-> s.snap, at |-> a, pick |-> Append(s.pick, l)]
LEMMA PickedShape ==
    ASSUME NEW c, NEW s, NEW st, ShapeOf(c, s, st), s.pc \in {"lookup", "miss"},
           NEW l \in AllLanes, NEW a \in Nat, NEW x \in [flow : Flows, epoch : Nat]
    PROVE  /\ ShapeOf(c, Resolved(s, l, a), Append(st, x)) /\ FirstOf(c, Resolved(s, l, a)) = FirstOf(c, s)
           /\ \A n : n \in UnsentOf(c, Resolved(s, l, a)) <=> n \in UnsentOf(c, s)
           /\ \A n, k : WaitingOf(c, Resolved(s, l, a), n, k) <=> WaitingOf(c, s, n, k) \/ (n = Len(st) + 1 /\ k = l)
<1> DEFINE t == Resolved(s, l, a)
<1>0. t = [pc |-> IF Len(s.pick) + 1 = Len(s.flow) THEN "primary" ELSE "lookup",
           flow |-> s.flow, snap |-> s.snap, at |-> a, pick |-> Append(s.pick, l)]
  BY DEF Resolved
<1> HIDE DEF t
<1> USE <1>0
<1>1. /\ FirstOf(c, s) \in Nat /\ Len(s.flow) \in Nat /\ Len(s.pick) \in Nat /\ Len(st) = FirstOf(c, s) + Len(s.pick)
      /\ DOMAIN s.pick = 1 .. Len(s.pick)
      /\ \A n : n \in UnsentOf(c, s) <=> n \in Nat /\ FirstOf(c, s) < n /\ n <= c
  BY BatchShape
<1>2. /\ Append(s.pick, l) \in Seq(AllLanes) /\ Len(Append(s.pick, l)) = Len(s.pick) + 1
      /\ DOMAIN Append(s.pick, l) = 1 .. Len(s.pick) + 1
      /\ \A i \in 1 .. Len(s.pick) : Append(s.pick, l)[i] = s.pick[i]
      /\ Append(s.pick, l)[Len(s.pick) + 1] = l
  BY <1>1, AppendProperties, LenProperties DEF ShapeOf
<1>3. Append(st, x) \in Seq([flow : Flows, epoch : Nat]) /\ Len(Append(st, x)) = Len(st) + 1
  BY AppendProperties DEF ShapeOf
<1>4. FirstOf(c, t) = FirstOf(c, s)
  BY DEF FirstOf
<1>5. ShapeOf(c, t, Append(st, x))
  <2>1. Len(s.pick) + 1 <= Len(s.flow) /\ Len(s.flow) \in {1, 2} /\ Len(s.flow) <= c
    BY <1>1 DEF ShapeOf
  <2>2. Len(Append(st, x)) = FirstOf(c, t) + Len(t.pick)
    BY <1>1, <1>2, <1>3, <1>4
  <2> QED BY <1>1, <1>2, <1>3, <2>1, <2>2 DEF ShapeOf
<1>6. \A n : n \in UnsentOf(c, t) <=> n \in UnsentOf(c, s)
  <2>1. \A n : n \in UnsentOf(c, t) <=> n \in Nat /\ FirstOf(c, s) < n /\ n <= c
    BY <1>4, <1>5, BatchShape
  <2> QED BY <1>1, <2>1
<1>7. ASSUME NEW n, NEW k PROVE WaitingOf(c, t, n, k) <=> WaitingOf(c, s, n, k) \/ (n = Len(st) + 1 /\ k = l)
  <2>1. WaitingOf(c, s, n, k) <=> \E i \in 1 .. Len(s.pick) : n = FirstOf(c, s) + i /\ s.pick[i] = k
    BY <1>1 DEF WaitingOf
  <2>2. WaitingOf(c, t, n, k) <=> \E i \in 1 .. Len(s.pick) + 1 : n = FirstOf(c, s) + i /\ Append(s.pick, l)[i] = k
    BY <1>2, <1>4 DEF WaitingOf
  <2>3. /\ Len(st) + 1 = FirstOf(c, s) + (Len(s.pick) + 1) /\ Len(s.pick) + 1 \in 1 .. Len(s.pick) + 1
        /\ \A i \in 1 .. Len(s.pick) : i \in 1 .. Len(s.pick) + 1
        /\ \A i \in 1 .. Len(s.pick) + 1 : i \in 1 .. Len(s.pick) \/ i = Len(s.pick) + 1
    <3>1. FirstOf(c, s) \in Nat /\ Len(s.pick) \in Nat /\ Len(st) = FirstOf(c, s) + Len(s.pick)
      BY <1>1
    <3>2. \A f, p \in Nat : (f + p) + 1 = f + (p + 1)
      OBVIOUS
    <3>3. \A p \in Nat : p + 1 \in 1 .. p + 1
      OBVIOUS
    <3>4. \A p \in Nat : \A i \in 1 .. p : i \in 1 .. p + 1
      OBVIOUS
    <3>5. \A p \in Nat : \A i \in 1 .. p + 1 : i \in 1 .. p \/ i = p + 1
      OBVIOUS
    <3> QED BY ONLY <3>1, <3>2, <3>3, <3>4, <3>5
  <2> QED BY <2>1, <2>2, <2>3, <1>2
<1> QED BY <1>4, <1>5, <1>6, <1>7 DEF t

LEMMA NothingSending ==
    /\ Sending.pc = "idle" /\ Sending.flow = <<>> /\ Sending.snap = <<>> /\ Sending.at = 0 /\ Sending.pick = <<>>
    /\ Len(<<>>) = 0 /\ DOMAIN <<>> = {}
    /\ Sending \in [pc : {"idle", "lookup", "miss", "primary", "lanes"}, flow : Seq(Flows), snap : Seq(Lanes), at : Nat, pick : Seq(AllLanes)]
<1>1. <<>> \in Seq(Flows) /\ <<>> \in Seq(Lanes) /\ <<>> \in Seq(AllLanes)
  BY EmptySeq
<1>2. Len(<<>>) = 0
  BY EmptySeq
<1>3. DOMAIN <<>> = {}
  OBVIOUS
<1> QED BY <1>1, <1>2, <1>3 DEF Sending

\* The frames for lane l are handed over.
RestOf(s, l) == [i \in DOMAIN s.pick |-> IF s.pick[i] = l THEN 0 ELSE s.pick[i]]
HandedOn(s, l) == IF \A i \in DOMAIN RestOf(s, l) : RestOf(s, l)[i] = 0 THEN Sending ELSE [s EXCEPT !.pick = RestOf(s, l), !.pc = "lanes"]
LEMMA HandedShape ==
    ASSUME NEW c, NEW s, NEW st, ShapeOf(c, s, st), NEW l \in AllLanes,
           \/ s.pc = "primary" /\ l = 0
           \/ s.pc = "lanes" /\ l # 0,
           NEW su \in Seq([flow : Flows, epoch : Nat]), Len(su) = Len(st)
    PROVE  /\ ShapeOf(c, HandedOn(s, l), su)
           /\ \A n : n \in UnsentOf(c, HandedOn(s, l)) <=> n \in UnsentOf(c, s) /\ ~ WaitingOf(c, s, n, l)
           /\ \A n, k : WaitingOf(c, HandedOn(s, l), n, k) <=> WaitingOf(c, s, n, k) /\ k # l
           /\ \A n, k : WaitingOf(c, HandedOn(s, l), n, k) => FirstOf(c, HandedOn(s, l)) = FirstOf(c, s)
           /\ \/ HandedOn(s, l) = Sending
              \/ HandedOn(s, l).pc = "lanes" /\ HandedOn(s, l).snap = s.snap /\ HandedOn(s, l).at = s.at
<1> DEFINE rest == RestOf(s, l)
           t == HandedOn(s, l)
<1>r. rest = [i \in DOMAIN s.pick |-> IF s.pick[i] = l THEN 0 ELSE s.pick[i]]
  BY DEF RestOf
<1>t. t = IF \A i \in DOMAIN rest : rest[i] = 0 THEN Sending ELSE [s EXCEPT !.pick = rest, !.pc = "lanes"]
  BY DEF HandedOn
<1> HIDE DEF rest, t
<1> USE <1>r, <1>t
<1> DEFINE F == FirstOf(c, s)
<1>1. /\ F \in Nat /\ Len(s.flow) \in Nat /\ Len(s.pick) = Len(s.flow) /\ Len(st) = F + Len(s.pick) /\ c \in Nat
      /\ DOMAIN s.pick = 1 .. Len(s.pick) /\ F + Len(s.flow) = c /\ Len(s.flow) \in {1, 2} /\ Len(s.flow) <= c
      /\ s.pick \in Seq(AllLanes)
      /\ \A i \in 1 .. Len(s.pick) : s.pick[i] \in AllLanes
  BY BatchShape, ElementOfSeq DEF ShapeOf, FirstOf
<1>2. \A n : n \in UnsentOf(c, s) <=> n \in Nat /\ F < n /\ n <= c /\ ~ (s.pc = "lanes" /\ s.pick[n - F] = 0)
  BY BatchShape
<1>3. /\ rest \in Seq(AllLanes) /\ Len(rest) = Len(s.pick) /\ DOMAIN rest = 1 .. Len(s.pick)
      /\ \A i \in 1 .. Len(s.pick) : rest[i] = IF s.pick[i] = l THEN 0 ELSE s.pick[i]
  <2>1. rest \in [1 .. Len(s.pick) -> AllLanes]
    BY <1>1 DEF AllLanes
  <2>2. Len(s.pick) \in Nat
    BY <1>1
  <2>3. rest \in Seq(AllLanes) /\ Len(rest) = Len(s.pick)
    BY <2>1, <2>2, FunctionIsSeq
  <2> QED BY <1>1, <2>3
<1>n. /\ \A n \in Nat : F < n /\ n <= c => n - F \in 1 .. Len(s.pick) /\ n = F + (n - F)
      /\ \A i \in 1 .. Len(s.pick) : F + i \in Nat /\ F < F + i /\ F + i <= c /\ (F + i) - F = i
  BY <1>1
<1>w. \A n, k : WaitingOf(c, s, n, k) <=> /\ n \in Nat /\ F < n /\ n <= c /\ s.pick[n - F] = k
                                          /\ ~ (s.pc = "lanes" /\ k = 0)
  BY <1>n, <1>1 DEF WaitingOf
<1>4. CASE \A i \in DOMAIN rest : rest[i] = 0
  <2>1. t = Sending
    BY <1>4
  <2>2. t.pc = "idle" /\ t.flow = <<>> /\ t.snap = <<>> /\ t.at = 0 /\ t.pick = <<>> /\ Len(t.flow) = 0 /\ Len(t.pick) = 0
        /\ DOMAIN t.flow = {} /\ DOMAIN t.pick = {}
    BY <2>1, NothingSending
  <2>3. ShapeOf(c, t, su)
    <3>0. c \in Nat /\ Len(t.flow) = 0 /\ Len(su) = c
      <4>1. F \in Nat /\ c \in Nat /\ Len(su) = F + Len(s.flow) /\ F + Len(s.flow) = c
        BY <1>1
      <4> QED BY ONLY <4>1, <2>2
    <3>1. FirstOf(c, t) = c /\ Len(su) = c + 0
      BY ONLY <3>0 DEF FirstOf
    <3>2. t \in [pc : {"idle", "lookup", "miss", "primary", "lanes"}, flow : Seq(Flows), snap : Seq(Lanes), at : Nat, pick : Seq(AllLanes)]
      BY <2>1, NothingSending
    <3> QED BY <3>1, <3>2, <2>1, <2>2, <1>1 DEF ShapeOf
  <2>4. (\A n, k : ~ WaitingOf(c, t, n, k)) /\ \A n : n \notin UnsentOf(c, t)
    BY <2>2 DEF WaitingOf, UnsentOf
  <2>5. ASSUME NEW n \in Nat, F < n, n <= c PROVE s.pick[n - F] \in {0, l}
    BY <2>5, <1>n, <1>3, <1>4
  <2>6. \A n, k : ~ (WaitingOf(c, s, n, k) /\ k # l)
    BY <2>5, <1>w
  <2>7. ASSUME NEW n, n \in UnsentOf(c, s) PROVE WaitingOf(c, s, n, l)
    <3>1. n \in Nat /\ F < n /\ n <= c /\ ~ (s.pc = "lanes" /\ s.pick[n - F] = 0)
      BY <2>7, <1>2
    <3>2. s.pick[n - F] = l
      BY <3>1, <2>5
    <3>3. ~ (s.pc = "lanes" /\ l = 0)
      OBVIOUS
    <3> QED BY ONLY <3>1, <3>2, <3>3, <1>w
  <2> QED BY <2>1, <2>3, <2>4, <2>6, <2>7 DEF t
<1>5. CASE ~ \A i \in DOMAIN rest : rest[i] = 0
  <2>1. t.pc = "lanes" /\ t.pick = rest /\ t.flow = s.flow /\ t.snap = s.snap /\ t.at = s.at
        /\ t \in [pc : {"idle", "lookup", "miss", "primary", "lanes"}, flow : Seq(Flows), snap : Seq(Lanes), at : Nat, pick : Seq(AllLanes)]
    BY <1>5, <1>3 DEF ShapeOf
  <2>2. FirstOf(c, t) = F
    BY <2>1 DEF FirstOf
  <2>3. ShapeOf(c, t, su)
    BY <2>1, <2>2, <1>1, <1>3 DEF ShapeOf
  <2>4. \A n : n \in UnsentOf(c, t) <=> n \in Nat /\ F < n /\ n <= c /\ ~ (rest[n - F] = 0)
    <3>1. \A n : n \in UnsentOf(c, t) <=> n \in Nat /\ FirstOf(c, t) < n /\ n <= c /\ ~ (t.pc = "lanes" /\ t.pick[n - FirstOf(c, t)] = 0)
      BY ONLY <2>3, BatchShape
    <3> QED BY <3>1, <2>1, <2>2
  <2>5. \A n, k : WaitingOf(c, t, n, k) <=> n \in Nat /\ F < n /\ n <= c /\ rest[n - F] = k /\ k # 0
    <3>1. \A n, k : WaitingOf(c, t, n, k) <=> \E i \in 1 .. Len(s.pick) : n = F + i /\ rest[i] = k /\ k # 0
      BY <2>1, <2>2, <1>3 DEF WaitingOf
    <3> HIDE DEF F
    <3>2. ASSUME NEW n, NEW k PROVE (\E i \in 1 .. Len(s.pick) : n = F + i /\ rest[i] = k /\ k # 0)
                                     <=> n \in Nat /\ F < n /\ n <= c /\ rest[n - F] = k /\ k # 0
      BY ONLY <1>n
    <3> QED BY ONLY <3>1, <3>2
  <2>6. \A n \in Nat : F < n /\ n <= c => rest[n - F] = IF s.pick[n - F] = l THEN 0 ELSE s.pick[n - F]
    BY <1>3, <1>n
  <2>7. \A n : n \in UnsentOf(c, t) <=> n \in UnsentOf(c, s) /\ ~ WaitingOf(c, s, n, l)
    BY <2>4, <2>6, <1>2, <1>w
  <2>8. ASSUME NEW n, NEW k PROVE WaitingOf(c, t, n, k) <=> WaitingOf(c, s, n, k) /\ k # l
    <3>1. CASE n \in Nat /\ F < n /\ n <= c
      <4>1. rest[n - F] = IF s.pick[n - F] = l THEN 0 ELSE s.pick[n - F]
        BY <3>1, <2>6
      <4> QED BY <4>1, <3>1, <2>5, <1>w
    <3>2. CASE ~ (n \in Nat /\ F < n /\ n <= c)
      BY <3>2, <2>5, <1>w
    <3> QED BY <3>1, <3>2
  <2> QED BY <2>1, <2>2, <2>3, <2>7, <2>8 DEF t
<1> QED BY <1>4, <1>5 DEF t

LEMMA ForLaneView ==
    ASSUME SendShape, NEW l
    PROVE  /\ \A n : n \in ForLane(l) <=> \E i \in DOMAIN snd.pick : n = First + i /\ snd.pick[i] = l
           /\ ~ (snd.pc = "lanes" /\ l = 0) => \A n : n \in ForLane(l) <=> Waiting(n, l)
<1>1. First = FirstOf(count, snd)
  BY BatchView
<1>2. \A n : n \in ForLane(l) <=> \E i \in DOMAIN snd.pick : n = First + i /\ snd.pick[i] = l
  BY DEF ForLane
<1> QED BY <1>1, <1>2 DEF Waiting, WaitingOf

\* The batch for a lane behind what is there.
LEMMA ExtendedLine ==
    ASSUME SendShape, NEW l, NEW K, NEW s \in Seq(Nat), InLine(s, K),
           \A a \in ToSet(s), b \in ForLane(l) : a # b /\ (a < b \/ b \in K)
    PROVE  /\ Extended(s, l) \in Seq(Nat) /\ InLine(Extended(s, l), K)
           /\ \A n : n \in ToSet(Extended(s, l)) <=> n \in ToSet(s) \/ n \in ForLane(l)
<1>1. /\ First \in Nat /\ DOMAIN snd.pick = 1 .. Len(snd.pick) /\ Len(snd.pick) \in Nat /\ Len(snd.pick) <= 2
  <2>1. ShapeOf(count, snd, stamp) /\ First = FirstOf(count, snd)
    BY BatchView
  <2>2. First \in Nat /\ DOMAIN snd.pick = 1 .. Len(snd.pick) /\ Len(snd.pick) \in Nat
    BY <2>1, BatchShape
  <2>3. Len(snd.pick) <= 2
    <3>1. CASE snd.pc = "idle"
      <4>1. snd = Sending
        BY <2>1, <3>1 DEF ShapeOf
      <4> QED BY <4>1, NothingSending
    <3>2. CASE snd.pc # "idle"
      <4>1. /\ Len(snd.flow) = 1 \/ Len(snd.flow) = 2
            /\ Len(snd.pick) < Len(snd.flow) \/ Len(snd.pick) = Len(snd.flow)
        BY <2>1, <3>2 DEF ShapeOf
      <4>2. Len(snd.pick) \in Nat
        BY <2>2
      <4>3. \A a, b \in Nat : (b = 1 \/ b = 2) /\ (a < b \/ a = b) => a <= 2
        OBVIOUS
      <4>4. Len(snd.flow) \in Nat
        BY <2>1, BatchShape
      <4> QED BY ONLY <4>1, <4>2, <4>3, <4>4
    <3> QED BY <3>1, <3>2
  <2> QED BY <2>2, <2>3
<1>2. \A n : n \in ForLane(l) <=> \E i \in DOMAIN snd.pick : n = First + i /\ snd.pick[i] = l
  BY ForLaneView
<1> DEFINE t == With(s, l, 1)
<1>3. CASE ~ (1 \in DOMAIN snd.pick /\ snd.pick[1] = l)
  <2>1. t = s
    BY <1>3 DEF With
  <2>2. CASE 2 \in DOMAIN snd.pick /\ snd.pick[2] = l
    <3>1. Extended(s, l) = Append(s, First + 2) /\ First + 2 \in Nat /\ First + 2 \in ForLane(l)
      BY <2>1, <2>2, <1>1, <1>2 DEF Extended, With
    <3>2. \A n : n \in ForLane(l) <=> n = First + 2
      BY <1>1, <1>2, <1>3, <2>2
    <3> QED BY <3>1, <3>2, LineAppend, AppendLemma
  <2>3. CASE ~ (2 \in DOMAIN snd.pick /\ snd.pick[2] = l)
    <3>1. Extended(s, l) = s
      BY <2>1, <2>3 DEF Extended, With
    <3>2. \A n : n \notin ForLane(l)
      BY <1>1, <1>2, <1>3, <2>3
    <3> QED BY <3>1, <3>2
  <2> QED BY <2>2, <2>3
<1>4. CASE 1 \in DOMAIN snd.pick /\ snd.pick[1] = l
  <2>1. t = Append(s, First + 1) /\ First + 1 \in Nat /\ First + 1 \in ForLane(l)
    BY <1>1, <1>2, <1>4 DEF With
  <2>2. t \in Seq(Nat) /\ InLine(t, K) /\ ToSet(t) = ToSet(s) \cup {First + 1}
    <3>1. \A a \in ToSet(s) : a # First + 1 /\ (a < First + 1 \/ First + 1 \in K)
      BY <2>1
    <3>2. InLine(Append(s, First + 1), K)
      BY <2>1, <3>1, LineAppend
    <3>3. Append(s, First + 1) \in Seq(Nat) /\ ToSet(Append(s, First + 1)) = ToSet(s) \cup {First + 1}
      BY <2>1, AppendLemma
    <3> QED BY <2>1, <3>2, <3>3
  <2> HIDE DEF t
  <2>3. CASE 2 \in DOMAIN snd.pick /\ snd.pick[2] = l
    <3>1. Extended(s, l) = Append(t, First + 2) /\ First + 2 \in Nat /\ First + 2 \in ForLane(l)
      BY <2>3, <1>1, <1>2 DEF Extended, With, t
    <3>2. \A n : n \in ForLane(l) <=> n = First + 1 \/ n = First + 2
      BY <1>1, <1>2, <1>4, <2>3
    <3>3. \A a \in ToSet(t) : a # First + 2 /\ (a < First + 2 \/ First + 2 \in K)
      BY <2>2, <3>1, <1>1
    <3>4. InLine(Append(t, First + 2), K)
      BY <2>2, <3>1, <3>3, LineAppend
    <3>5. Append(t, First + 2) \in Seq(Nat) /\ ToSet(Append(t, First + 2)) = ToSet(t) \cup {First + 2}
      BY <2>2, <3>1, AppendLemma
    <3> QED BY <2>2, <3>1, <3>2, <3>4, <3>5
  <2>4. CASE ~ (2 \in DOMAIN snd.pick /\ snd.pick[2] = l)
    <3>1. Extended(s, l) = t
      BY <2>4 DEF Extended, With, t
    <3>2. \A n : n \in ForLane(l) <=> n = First + 1
      BY <1>1, <1>2, <1>4, <2>4
    <3> QED BY <2>2, <3>1, <3>2
  <2> QED BY <2>3, <2>4
<1> QED BY <1>3, <1>4

-----------------------------------------------------------------------------
(* Frames: what a step may do without disturbing a part of the invariant.  *)

LEMMA TogetherFrame ==
    ASSUME Together, stamp' = stamp, lost \subseteq lost',
           \A n, l : l \in AllLanes /\ Pending(n, l)' => Pending(n, l),
           \A n, l : l \in AllLanes /\ Pending(n, l) => Pending(n, l)' \/ n \in lost'
    PROVE  Together'
<1>1. Weak' = Weak
  BY DEF Weak
<1> QED BY <1>1 DEF Together

\* SendBatch ends or goes on with its snapshot.
GoesOn == snd'.pc # "idle" => snd.pc # "idle" /\ snd'.at = snd.at /\ snd'.snap = snd.snap

LEMMA PinnedFrame ==
    ASSUME Pinned, UNCHANGED <<stamp, epoch, affinity>>,
           tdone' = "no" => tdone = "no" /\ attached' = attached,
           GoesOn, snd'.at <= epoch,
           \A n, l : l \in AllLanes /\ Pending(n, l)' => Pending(n, l)
    PROVE  Pinned'
BY DEF Pinned, GoesOn, Leads

LEMMA PinnedFresh ==
    ASSUME Pinned, SendShape, epoch' = epoch + 1, DOMAIN stamp' = DOMAIN stamp,
           \A n \in DOMAIN stamp : stamp'[n].epoch \in {stamp[n].epoch, 0},
           snd'.at <= epoch, snd'.at \in Nat
    PROVE  Pinned'
<1>1. \A n \in DOMAIN stamp : stamp[n].epoch \in Nat /\ stamp[n].epoch <= epoch
  <2>1. stamp \in Seq([flow : Flows, epoch : Nat])
    BY DEF SendShape, ShapeOf
  <2>2. \A n \in DOMAIN stamp : stamp[n] \in [flow : Flows, epoch : Nat]
    BY <2>1, ElementOfSeq, LenProperties
  <2> QED BY <2>2 DEF Pinned
<1>2. epoch \in Nat
  BY DEF SendShape
<1>3. \A n \in DOMAIN stamp' : stamp'[n].epoch <= epoch' /\ stamp'[n].epoch # epoch'
  BY <1>1, <1>2
<1>4. snd'.at <= epoch' /\ snd'.at # epoch'
  BY <1>2
<1> QED BY <1>3, <1>4 DEF Pinned

LEMMA LaneFrame == ASSUME LaneShape, UNCHANGED <<attached, lane>> PROVE LaneShape'
BY DEF LaneShape

\* Nothing changes of where frames are.
LEMMA PlacesFrame ==
    ASSUME UNCHANGED <<lqueue, wire, snd, count, arrived, overtaken, stamp, lost>>
    PROVE  /\ Places => Places'
           /\ Lines => Lines'
           /\ Together => Together'
           /\ FlowOrder => FlowOrder'
           /\ \A n, l : Pending(n, l)' <=> Pending(n, l)
<1>1. Weak' = Weak /\ Unsent' = Unsent /\ First' = First
  BY DEF Weak, Unsent, First
<1>2. \A n, l : /\ OnWire(n, l)' <=> OnWire(n, l)
                /\ Queued(n, l)' <=> Queued(n, l)
                /\ Waiting(n, l)' <=> Waiting(n, l)
  BY DEF OnWire, Queued, Waiting
<1>3. \A n, l : (Held(n, l)' <=> Held(n, l)) /\ (Pending(n, l)' <=> Pending(n, l))
  BY <1>2 DEF Held, Pending
<1>4. Places => Places'
  BY <1>1, <1>2, <1>3 DEF Places
<1>5. Lines => Lines'
  BY <1>1, <1>2, <1>3 DEF Lines
<1>6. Together => Together'
  BY <1>1, <1>3 DEF Together
<1> QED BY <1>3, <1>4, <1>5, <1>6 DEF FlowOrder

\* Frames are numbers.
LEMMA HeldNat ==
    ASSUME SendShape, NEW n, NEW l \in AllLanes
    PROVE  (OnWire(n, l) => n \in Nat) /\ (Queued(n, l) => n \in Nat) /\ (Held(n, l) => n \in Nat)
<1>1. wire[l] \in Seq(Nat) /\ (l # 0 => lqueue[l] \in Seq(Nat))
  BY DEF SendShape, AllLanes
<1>2. OnWire(n, l) => n \in Nat
  BY <1>1, ToSetType DEF OnWire
<1>3. Queued(n, l) => n \in Nat
  BY <1>1, ToSetType DEF Queued
<1> QED BY <1>2, <1>3 DEF Held

-----------------------------------------------------------------------------
(* The lanes. *)

LEMMA DialInv == ASSUME StripeInv, NEW l \in Lanes, DialStripeLane(l) PROVE StripeInv'
<1> USE DEF StripeInv, DialStripeLane
<1>1. LaneShape'
  <2>1. \A k \in Lanes : lane[k] # "dialed"
    BY DEF Range, LaneShape
  <2> QED BY <2>1 DEF LaneShape, AddDue
<1>2. SendShape' /\ PinShape'
  BY DEF SendShape, PinShape, Resolving
<1>3. Places' /\ Lines' /\ Together' /\ FlowOrder' /\ \A n, k : Pending(n, k)' <=> Pending(n, k)
  BY PlacesFrame
<1>4. Pinned'
  BY <1>3, PinnedFrame DEF GoesOn, Pinned
<1> QED BY <1>1, <1>2, <1>3, <1>4

LEMMA ResolvingFlow == ASSUME SendShape, snd.pc \in {"lookup", "miss"} PROVE Resolving \in Flows
<1>1. Len(snd.pick) < Len(snd.flow) /\ snd.flow \in Seq(Flows) /\ Len(snd.pick) \in Nat /\ Len(snd.flow) \in Nat
  BY LenProperties DEF SendShape, ShapeOf
<1>2. Len(snd.pick) + 1 \in 1 .. Len(snd.flow)
  BY <1>1
<1> QED BY <1>1, <1>2, ElementOfSeq DEF Resolving

LEMMA DropInv ==
    ASSUME StripeInv, DropAffinity, UNCHANGED <<snd, stamp, count>>
    PROVE  /\ PinShape'
           /\ Pinned'
<1>1. PinShape'
  <2>1. Resolving' = Resolving /\ (snd.pc = "miss" => Resolving \in Flows)
    BY ResolvingFlow DEF StripeInv, Resolving
  <2>2. affinity' = [f \in Flows |-> Unpinned] /\ Loose \subseteq Flows
    BY StripeAssumption DEF DropAffinity
  <2> QED BY <2>1, <2>2 DEF StripeInv, PinShape
<1>2. snd'.at <= epoch /\ snd'.at \in Nat
  BY DEF StripeInv, Pinned, SendShape, ShapeOf
<1> QED BY <1>1, <1>2, PinnedFresh DEF StripeInv, DropAffinity

LEMMA AttachInv == ASSUME StripeInv, NEW l \in Lanes, AttachLane(l) PROVE StripeInv'
<1> USE DEF StripeInv, AttachLane
<1>1. LaneShape'
  <2>1. attached \in Seq(Lanes) /\ l \notin ToSet(attached) /\ IsInjective(attached)
    BY DEF LaneShape
  <2>2. attached' \in Seq(Lanes) /\ ToSet(attached') = ToSet(attached) \cup {l} /\ IsInjective(attached')
    BY <2>1, AppendLemma
  <2>3. Len(attached') = Len(attached) + 1 /\ Len(attached) \in Nat
    BY <2>1, AppendProperties, LenProperties
  <2>4. Len(attached) < MaxLanes /\ MaxLanes \in Nat
    BY StripeAssumption DEF LaneShape
  <2>5. \A k \in Lanes : lane'[k] # "dialed"
    BY DEF LaneShape
  <2>6. Len(attached') <= MaxLanes
    BY <2>3, <2>4
  <2>7. lane' \in [Lanes -> {"none", "dialed", "up", "broken", "leaving", "closed"}] /\ \A k \in ToSet(attached') : lane'[k] \notin {"none", "dialed"}
    BY <2>1, <2>2, ToSetType DEF LaneShape
  <2> QED BY <2>2, <2>5, <2>6, <2>7 DEF LaneShape
<1>2. SendShape'
  BY DEF SendShape, DropAffinity
<1>3. PinShape' /\ Pinned'
  BY DropInv
<1>4. Places' /\ Lines' /\ Together' /\ FlowOrder'
  BY PlacesFrame
<1> QED BY <1>1, <1>2, <1>3, <1>4

LEMMA StripeCloseInv == ASSUME StripeInv, CloseStripe PROVE StripeInv'
<1> USE DEF StripeInv
<1>1. UNCHANGED <<lqueue, wire, affinity, snd, count, arrived, overtaken, epoch, stamp, lost, downs>> /\ tdone' # "no"
  BY DEF CloseStripe
<1>2. LaneShape'
  <2>1. CASE UNCHANGED <<attached, lane>>
    BY <2>1, LaneFrame
  <2>2. CASE attached' = attached /\ lane' = [k \in Lanes |-> IF Contains(attached, k) THEN "closed" ELSE lane[k]]
    <3>1. \A k \in Lanes : lane'[k] = "closed" \/ lane'[k] = lane[k]
      BY <2>2
    <3>2. ToSet(attached) \subseteq Lanes
      BY ToSetType DEF LaneShape
    <3> QED BY <2>2, <3>1, <3>2 DEF LaneShape
  <2>3. CASE attached' = <<>> /\ lane' = lane
    <3>1. attached' \in Seq(Lanes) /\ Len(attached') = 0 /\ ToSet(attached') = {} /\ IsInjective(attached')
      BY <2>3, EmptySeq, LineEmpty, NothingSending DEF IsInjective
    <3>2. MaxLanes \in Nat /\ Len(attached) \in Nat
      BY StripeAssumption, LenProperties DEF LaneShape
    <3> QED BY <2>3, <3>1, <3>2 DEF LaneShape
  <2> QED BY <2>1, <2>2, <2>3 DEF CloseStripe
<1>3. SendShape' /\ PinShape'
  BY <1>1 DEF SendShape, PinShape, Resolving
<1>4. Places' /\ Lines' /\ Together' /\ FlowOrder' /\ \A n, k : Pending(n, k)' <=> Pending(n, k)
  BY <1>1, PlacesFrame
<1>5. Pinned'
  BY <1>1, <1>4, PinnedFrame DEF GoesOn, Pinned
<1> QED BY <1>2, <1>3, <1>4, <1>5

LEMMA BreaksInv == ASSUME StripeInv, NEW l \in Lanes, Breaks(l) PROVE StripeInv'
<1> USE DEF StripeInv
<1> USE DEF Breaks
<1>1. LaneShape'
  BY ToSetType DEF LaneShape
<1>2. SendShape' /\ PinShape'
  BY LineEmpty DEF SendShape, PinShape, Resolving, AllLanes
<1>3. /\ Weak' = Weak /\ Unsent' = Unsent /\ First' = First
      /\ \A n, k : Waiting(n, k)' <=> Waiting(n, k)
      /\ \A n, k : Queued(n, k)' <=> Queued(n, k)
  BY DEF Weak, Unsent, First, Waiting, Queued
<1>4. ASSUME NEW n, NEW k \in AllLanes PROVE OnWire(n, k)' <=> OnWire(n, k) /\ k # l
  BY LineEmpty DEF OnWire, SendShape, AllLanes
<1>5. \A n : n \in lost' <=> n \in lost \/ OnWire(n, l)
  BY DEF OnWire, Range, ToSet
<1>6. l \in AllLanes /\ arrived' = arrived /\ overtaken' = overtaken /\ count' = count /\ stamp' = stamp
  BY DEF AllLanes
<1>w. \A k \in AllLanes : InLine(wire'[k], Weak) /\ lqueue' = lqueue
  BY LineEmpty DEF Lines, SendShape
<1> HIDE DEF Breaks
<1>7. Places'
  <2>1. \A n \in lost' : n \in (1 .. count) \ Unsent /\ n \notin arrived
    BY <1>5, <1>6, HeldNat DEF Places, Held
  <2> QED BY <2>1, <1>3, <1>4, <1>5, <1>6 DEF Places, Held
<1>8. Lines'
  BY <1>3, <1>4, <1>w DEF Lines, Held, AllLanes
<1>9. Together'
  BY <1>3, <1>4, <1>5, <1>6, TogetherFrame DEF Pending, Held
<1>10. Pinned'
  BY <1>3, <1>4, PinnedFrame DEF GoesOn, Pinned, Pending, Held, Breaks
<1> QED BY <1>1, <1>2, <1>6, <1>7, <1>8, <1>9, <1>10 DEF FlowOrder

LEMMA RemoveLaneInv == ASSUME StripeInv, NEW l \in Lanes, RemoveLane(l) PROVE StripeInv'
<1> USE DEF StripeInv
<1> USE DEF RemoveLane
<1>1. LaneShape'
  <2>1. /\ attached' \in Seq(Lanes) /\ ToSet(attached') \subseteq ToSet(attached) /\ IsInjective(attached')
        /\ Len(attached') <= Len(attached) /\ Len(attached) \in Nat /\ Len(attached') \in Nat
    BY RemoveFirstLemma, LenProperties DEF LaneShape
  <2>2. MaxLanes \in Nat /\ Len(attached) <= MaxLanes
    BY StripeAssumption DEF LaneShape
  <2>3. lane' \in [Lanes -> {"none", "dialed", "up", "broken", "leaving", "closed"}] /\ ToSet(attached) \subseteq Lanes
    BY ToSetType DEF LaneShape
  <2>4. \A k \in Lanes : lane'[k] = lane[k] \/ lane'[k] = "leaving"
    BY DEF LaneShape
  <2>5. Len(attached') <= MaxLanes
    BY <2>1, <2>2
  <2>6. ASSUME NEW k \in Lanes, lane'[k] = "dialed" PROVE Len(attached') < MaxLanes
    <3>1. Len(attached) < MaxLanes
      BY <2>4, <2>6 DEF LaneShape
    <3> QED BY <3>1, <2>1, <2>2
  <2> QED BY <2>1, <2>3, <2>4, <2>5, <2>6 DEF LaneShape
<1>2. SendShape' /\ PinShape'
  BY LineEmpty DEF SendShape, PinShape, Resolving, AllLanes
<1>3. /\ Weak' = Weak /\ Unsent' = Unsent /\ First' = First
      /\ \A n, k : Waiting(n, k)' <=> Waiting(n, k)
      /\ \A n, k : OnWire(n, k)' <=> OnWire(n, k)
  BY DEF Weak, Unsent, First, Waiting, OnWire
<1>4. ASSUME NEW n, NEW k \in AllLanes PROVE Queued(n, k)' <=> Queued(n, k) /\ ~ (lane[l] = "broken" /\ k = l)
  BY LineEmpty DEF Queued, SendShape, AllLanes
<1>5. \A n : n \in lost' <=> n \in lost \/ (lane[l] = "broken" /\ Queued(n, l))
  BY StripeAssumption DEF Queued, Range, ToSet
<1>6. l \in AllLanes /\ arrived' = arrived /\ overtaken' = overtaken /\ count' = count /\ stamp' = stamp
      /\ epoch' = epoch + 1 /\ snd' = snd
  BY DEF AllLanes
<1>w. \A k \in Lanes : InLine(lqueue'[k], Weak) /\ wire' = wire
  BY LineEmpty DEF Lines, SendShape
<1> HIDE DEF RemoveLane
<1>7. Places'
  <2>1. \A n \in lost' : n \in (1 .. count) \ Unsent /\ n \notin arrived
    BY <1>5, <1>6, HeldNat DEF Places, Held
  <2> QED BY <2>1, <1>3, <1>4, <1>5, <1>6 DEF Places, Held
<1>8. Lines'
  BY <1>3, <1>4, <1>w DEF Lines, Held, AllLanes
<1>9. Together'
  BY <1>3, <1>4, <1>5, <1>6, TogetherFrame DEF Pending, Held
<1>10. Pinned'
  BY <1>6, PinnedFresh DEF Pinned, SendShape, ShapeOf
<1> QED BY <1>1, <1>2, <1>6, <1>7, <1>8, <1>9, <1>10 DEF FlowOrder

LEMMA LaneClosesInv == ASSUME StripeInv, NEW l \in Lanes, LaneCloses(l) PROVE StripeInv'
<1> USE DEF StripeInv
<1> USE DEF LaneCloses
<1>1. LaneShape'
  BY ToSetType DEF LaneShape
<1>2. SendShape'
  BY LineEmpty DEF SendShape, DropAffinity, AllLanes
<1>3. /\ Weak' = Weak /\ Unsent' = Unsent /\ First' = First
      /\ \A n, k : Waiting(n, k)' <=> Waiting(n, k)
  BY DEF Weak, Unsent, First, Waiting
<1>4. ASSUME NEW n, NEW k \in AllLanes
      PROVE  (Queued(n, k)' <=> Queued(n, k) /\ k # l) /\ (OnWire(n, k)' <=> OnWire(n, k) /\ k # l)
  BY LineEmpty DEF Queued, OnWire, SendShape, AllLanes
<1>5. \A n : n \in lost' <=> n \in lost \/ Queued(n, l) \/ OnWire(n, l)
  BY StripeAssumption DEF Queued, OnWire, Range, ToSet
<1>6. l \in AllLanes /\ arrived' = arrived /\ overtaken' = overtaken /\ count' = count /\ stamp' = stamp
  BY DEF AllLanes
<1>w. (\A k \in Lanes : InLine(lqueue'[k], Weak)) /\ \A k \in AllLanes : InLine(wire'[k], Weak)
  BY LineEmpty DEF Lines, SendShape
<1>p. PinShape' /\ Pinned'
  BY DropInv
<1> HIDE DEF LaneCloses
<1>7. Places'
  <2>1. \A n \in lost' : n \in (1 .. count) \ Unsent /\ n \notin arrived
    BY <1>5, <1>6, HeldNat DEF Places, Held
  <2> QED BY <2>1, <1>3, <1>4, <1>5, <1>6 DEF Places, Held
<1>8. Lines'
  BY <1>3, <1>4, <1>w DEF Lines, Held, AllLanes
<1>9. Together'
  BY <1>3, <1>4, <1>5, <1>6, TogetherFrame DEF Pending, Held
<1> QED BY <1>1, <1>2, <1>6, <1>7, <1>8, <1>9, <1>p DEF FlowOrder

\* A frame handed over has been resolved.
LEMMA SentStamped ==
    ASSUME SendShape, NEW n \in (1 .. count) \ Unsent
    PROVE  n \in DOMAIN stamp /\ n \in Nat
<1>1. ShapeOf(count, snd, stamp) /\ First = FirstOf(count, snd) /\ Unsent = UnsentOf(count, snd)
  BY BatchView
<1>2. /\ First \in Nat /\ Len(snd.flow) \in Nat /\ Len(snd.pick) \in Nat /\ Len(stamp) = First + Len(snd.pick)
      /\ DOMAIN stamp = 1 .. Len(stamp) /\ count \in Nat /\ First = count - Len(snd.flow)
      /\ snd.pc = "lanes" => Len(snd.pick) = Len(snd.flow)
  BY <1>1, BatchShape DEF ShapeOf, First
<1>3. n <= First \/ snd.pc = "lanes"
  BY <1>1, <1>2, BatchShape
<1> QED BY <1>2, <1>3

\* What waits is neither received nor lost, nor anywhere else.
LEMMA WaitingFresh ==
    ASSUME SendShape, Places, NEW n, NEW l, Waiting(n, l)
    PROVE  /\ n \in Nat /\ n \in Unsent /\ n \in DOMAIN stamp /\ First < n /\ n <= count
           /\ n \notin arrived /\ n \notin lost
           /\ \A k \in AllLanes : ~ Held(n, k)
<1>1. ShapeOf(count, snd, stamp) /\ First = FirstOf(count, snd) /\ Unsent = UnsentOf(count, snd) /\ WaitingOf(count, snd, n, l)
  BY BatchView
<1>2. n \in Nat /\ n \in Unsent /\ n \in DOMAIN stamp /\ First < n /\ n <= count
  BY <1>1, BatchShape
<1> QED BY <1>2 DEF Places

LEMMA LaneWriteInv == ASSUME StripeInv, NEW l \in Lanes, LaneWrite(l) PROVE StripeInv'
<1> USE DEF StripeInv
<1> DEFINE h == Head(lqueue[l])
           q == lqueue[l]
           w == wire[l]
<1>0. q \in Seq(Nat) /\ w \in Seq(Nat) /\ q # <<>> /\ InLine(q, Weak) /\ InLine(w, Weak) /\ l # 0 /\ l \in AllLanes
  BY StripeAssumption DEF LaneWrite, SendShape, Lines, AllLanes
<1>1. LaneShape'
  BY LaneFrame DEF LaneWrite
<1>t. /\ Tail(q) \in Seq(Nat) /\ h \in ToSet(q) /\ h \in Nat /\ InLine(Tail(q), Weak)
      /\ \A n : n \in ToSet(Tail(q)) <=> n \in ToSet(q) /\ n # h
      /\ \A b \in ToSet(Tail(q)) : h < b \/ b \in Weak
  BY <1>0, LineTail
<1>a. \A a \in ToSet(w) : a # h /\ (a < h \/ h \in Weak)
  <2>1. ASSUME NEW a \in ToSet(w) PROVE a # h /\ (a < h \/ h \in Weak)
    <3>1. a \in Nat /\ OnWire(a, l) /\ Queued(h, l)
      BY <1>0, <1>t, ToSetType DEF OnWire, Queued
    <3> QED BY <3>1, <1>0, <1>t DEF Places, Lines
  <2> QED BY <2>1
<1>b. Append(w, h) \in Seq(Nat) /\ InLine(Append(w, h), Weak) /\ ToSet(Append(w, h)) = ToSet(w) \cup {h}
  BY <1>0, <1>t, <1>a, LineAppend, AppendLemma
<1>c. wire' = [wire EXCEPT ![l] = Append(w, h)] /\ lqueue' = [lqueue EXCEPT ![l] = Tail(q)]
  BY DEF LaneWrite
<1>d. wire \in [AllLanes -> Seq(Nat)] /\ lqueue \in [Lanes -> Seq(Nat)]
  BY DEF SendShape
<1>2. SendShape' /\ PinShape'
  <2>1. wire' \in [AllLanes -> Seq(Nat)] /\ lqueue' \in [Lanes -> Seq(Nat)]
    BY <1>b, <1>c, <1>d, <1>t, <1>0
  <2> QED BY <2>1 DEF SendShape, PinShape, Resolving, LaneWrite
<1>3. /\ Weak' = Weak /\ Unsent' = Unsent /\ First' = First
      /\ \A n, k : Waiting(n, k)' <=> Waiting(n, k)
  BY DEF Weak, Unsent, First, Waiting, LaneWrite
<1>4. ASSUME NEW n, NEW k \in AllLanes
      PROVE  /\ Queued(n, k)' <=> Queued(n, k) /\ ~ (k = l /\ n = h)
             /\ OnWire(n, k)' <=> OnWire(n, k) \/ (k = l /\ n = h)
  <2>1. CASE k = l
    BY <2>1, <1>0, <1>b, <1>c, <1>d, <1>t DEF Queued, OnWire
  <2>2. CASE k # l
    BY <2>2, <1>c, <1>d DEF Queued, OnWire, AllLanes
  <2> QED BY <2>1, <2>2
<1>5. Queued(h, l) /\ h \in Nat
  BY <1>0, <1>t DEF Queued
<1>6. \A n, k : k \in AllLanes => (Held(n, k)' <=> Held(n, k))
  BY <1>4, <1>5 DEF Held
<1>7. Places'
  <2>0. count' = count /\ arrived' = arrived /\ lost' = lost /\ overtaken' = overtaken
    BY DEF LaneWrite
  <2>1. ASSUME NEW n \in Nat, NEW k \in AllLanes PROVE ~ (OnWire(n, k)' /\ Queued(n, k)')
    BY <1>4 DEF Places
  <2> QED BY <2>0, <2>1, <1>3, <1>6 DEF Places
<1>8. Lines'
  <2>1. \A k \in AllLanes : InLine(wire'[k], Weak)
    BY <1>b, <1>c, <1>d DEF Lines
  <2>2. \A k \in Lanes : InLine(lqueue'[k], Weak)
    BY <1>t, <1>c, <1>d DEF Lines
  <2>3. ASSUME NEW k \in Lanes, NEW n \in Nat, NEW m \in Nat, OnWire(n, k)', Queued(m, k)'
        PROVE  n < m \/ m \in Weak
    <3>1. k \in AllLanes /\ Queued(m, k) /\ (OnWire(n, k) \/ (k = l /\ n = h)) /\ ~ (k = l /\ m = h)
      BY <2>3, <1>4 DEF AllLanes
    <3>2. CASE OnWire(n, k)
      BY <3>1, <3>2 DEF Lines
    <3>3. CASE k = l /\ n = h
      BY <3>1, <3>3, <1>t DEF Queued
    <3> QED BY <3>1, <3>2, <3>3
  <2> QED BY <2>1, <2>2, <2>3, <1>3, <1>6 DEF Lines
<1>9. Together'
  BY <1>3, <1>6, TogetherFrame DEF Pending, LaneWrite
<1>10. Pinned'
  BY <1>3, <1>6, PinnedFrame DEF GoesOn, Pinned, Pending, LaneWrite
<1> QED BY <1>1, <1>2, <1>7, <1>8, <1>9, <1>10 DEF FlowOrder, LaneWrite

LEMMA ArrivesInv == ASSUME StripeInv, NEW l \in AllLanes, Arrives(l) PROVE StripeInv'
<1> USE DEF StripeInv
<1> DEFINE h == Head(wire[l])
           w == wire[l]
<1>0. w \in Seq(Nat) /\ w # <<>> /\ InLine(w, Weak) /\ wire \in [AllLanes -> Seq(Nat)]
  BY DEF Arrives, SendShape, Lines
<1>1. LaneShape'
  BY LaneFrame DEF Arrives
<1>t. /\ Tail(w) \in Seq(Nat) /\ h \in ToSet(w) /\ h \in Nat /\ InLine(Tail(w), Weak)
      /\ \A n : n \in ToSet(Tail(w)) <=> n \in ToSet(w) /\ n # h
      /\ \A b \in ToSet(Tail(w)) : h < b \/ b \in Weak
  BY <1>0, LineTail
<1>c. /\ wire' = [wire EXCEPT ![l] = Tail(w)] /\ arrived' = arrived \cup {h}
      /\ UNCHANGED <<attached, lane, lqueue, affinity, snd, count, epoch, stamp, lost, downs, tdone>>
  BY DEF Arrives
<1>o. \A x \in overtaken' : x \in overtaken \/ (x = h /\ \E m \in arrived : m > h /\ stamp[m] = stamp[h] /\ stamp[h].epoch # 0)
  BY DEF Arrives
<1>2. SendShape' /\ PinShape'
  <2>1. wire' \in [AllLanes -> Seq(Nat)]
    BY <1>0, <1>c, <1>t
  <2> QED BY <2>1, <1>c DEF SendShape, PinShape, Resolving
<1>3. /\ Weak' = Weak /\ Unsent' = Unsent /\ First' = First
      /\ \A n, k : Waiting(n, k)' <=> Waiting(n, k)
      /\ \A n, k : Queued(n, k)' <=> Queued(n, k)
  BY <1>c DEF Weak, Unsent, First, Waiting, Queued
<1>h. OnWire(h, l) /\ Held(h, l) /\ h \in (1 .. count) \ Unsent /\ h \notin arrived \cup lost
      /\ h \in Nat /\ h \in DOMAIN stamp
  <2>1. OnWire(h, l) /\ Held(h, l)
    BY <1>t DEF OnWire, Held
  <2>2. h \in (1 .. count) \ Unsent /\ h \notin arrived \cup lost
    BY <2>1, <1>t DEF Places
  <2> QED BY <2>1, <2>2, SentStamped
<1>4. ASSUME NEW n, NEW k \in AllLanes PROVE OnWire(n, k)' <=> OnWire(n, k) /\ n # h
  <2>1. CASE k = l
    BY <2>1, <1>0, <1>c, <1>t DEF OnWire
  <2>2. CASE k # l
    <3>1. ~ Held(h, k)
      BY <2>2, <1>h DEF Places
    <3> QED BY <2>2, <3>1, <1>0, <1>c DEF OnWire, Held
  <2> QED BY <2>1, <2>2
<1>5. \A k \in AllLanes : ~ Queued(h, k)
  BY <1>h DEF Places, Held
<1>6. ASSUME NEW n, NEW k \in AllLanes PROVE Held(n, k)' <=> Held(n, k) /\ n # h
  BY <1>3, <1>4, <1>5 DEF Held
<1>7. Places'
  <2>1. ASSUME NEW n \in Nat, NEW k \in AllLanes PROVE ~ (OnWire(n, k)' /\ Queued(n, k)')
    BY <1>3, <1>4 DEF Places
  <2>2. ASSUME NEW n \in (1 .. count) \ Unsent PROVE n \in arrived' \cup lost \/ \E k \in AllLanes : Held(n, k)'
    BY <1>6, <1>c DEF Places
  <2>3. overtaken' \subseteq arrived'
    BY <1>o, <1>c DEF Places
  <2>4. arrived' \subseteq (1 .. count) \ Unsent /\ arrived' \cap lost = {}
    <3>1. \A x \in arrived : x \in (1 .. count) \ Unsent /\ x \notin lost
      BY DEF Places
    <3>2. \A x \in arrived' : x \in (1 .. count) \ Unsent /\ x \notin lost
      BY <3>1, <1>h, <1>c
    <3> QED BY <3>2
  <2>5. \A n \in Nat, k \in AllLanes : Held(n, k)' => n \in (1 .. count) \ Unsent /\ n \notin arrived' \cup lost
    BY <1>6, <1>c DEF Places
  <2>6. \A n \in Nat, k, j \in AllLanes : Held(n, k)' /\ Held(n, j)' => k = j
    BY <1>6 DEF Places
  <2>7. lost' = lost /\ count' = count /\ lost \subseteq (1 .. count) \ Unsent
    BY <1>c DEF Places
  <2> QED BY <2>1, <2>2, <2>3, <2>4, <2>5, <2>6, <2>7, <1>3 DEF Places
<1>8. Lines'
  <2>1. \A k \in AllLanes : InLine(wire'[k], Weak)
    BY <1>0, <1>c, <1>t DEF Lines
  <2> QED BY <2>1, <1>c, <1>3, <1>4, <1>6 DEF Lines, AllLanes
<1>9. Together'
  <2>1. ASSUME NEW n \in DOMAIN stamp, NEW m \in DOMAIN stamp, n < m, stamp[n] = stamp[m], n \notin Weak, stamp[n].flow \notin Loose,
               NEW k \in AllLanes, Pending(n, k)'
        PROVE  Pending(m, k)' \/ m \in lost
    <3>1. Pending(n, k) /\ (Pending(m, k) \/ m \in lost)
      BY <2>1, <1>3, <1>6 DEF Pending, Together
    <3>2. CASE m = h
      <4>1. k = l
        <5>1. Held(h, k)
          BY <3>1, <3>2, <1>h, WaitingFresh DEF Pending
        <5> QED BY <5>1, <1>h DEF Places
      <4>2. ~ Waiting(n, l)
        <5>1. ASSUME Waiting(n, l) PROVE FALSE
          <6>1. h <= First /\ First < n /\ First \in Nat /\ n \in Nat /\ h \in Nat
            BY <5>1, <1>h, WaitingFresh, BatchView, BatchShape DEF Lines
          <6> QED BY <6>1, <2>1, <3>2
        <5> QED BY <5>1
      <4>3. ~ OnWire(n, l)
        <5>1. ASSUME OnWire(n, l) PROVE FALSE
          <6>0. n \in Nat /\ n \in ToSet(w)
            BY <5>1, HeldNat DEF OnWire
          <6>1. n \in ToSet(Tail(w)) /\ n \in Nat
            BY <6>0, <1>t, <2>1, <3>2
          <6> QED BY <6>1, <1>t, <1>h, <2>1, <3>2
        <5> QED BY <5>1
      <4>4. ~ Queued(n, l)
        <5>1. ASSUME Queued(n, l) PROVE FALSE
          <6>1. l \in Lanes /\ n \in Nat
            BY <5>1, HeldNat DEF Queued, AllLanes
          <6>2. h < n \/ n \in Weak
            BY <5>1, <6>1, <1>h DEF Lines
          <6> QED BY <6>1, <6>2, <1>h, <2>1, <3>2
        <5> QED BY <5>1
      <4> QED BY <3>1, <4>1, <4>2, <4>3, <4>4 DEF Pending, Held
    <3>3. CASE m # h
      BY <3>1, <3>3, <1>3, <1>6 DEF Pending
    <3> QED BY <3>2, <3>3
  <2> QED BY <2>1, <1>3, <1>c DEF Together
<1>10. Pinned'
  BY <1>3, <1>6, <1>c, PinnedFrame DEF GoesOn, Pinned, Pending
<1>11. FlowOrder'
  <2>1. ASSUME NEW m \in arrived, m > h, stamp[m] = stamp[h], stamp[h].epoch # 0, stamp[h].flow \notin Loose PROVE FALSE
    <3>1. m \in DOMAIN stamp /\ m \in Nat /\ m \in (1 .. count) \ Unsent /\ m \notin lost
      BY SentStamped DEF Places
    <3>2. ~ Pending(m, l)
      BY <3>1, WaitingFresh DEF Places, Pending
    <3>3. Pending(h, l) /\ h \notin Weak /\ h < m
      BY <1>h, <2>1, <3>1 DEF Pending, Weak
    <3> QED BY <3>1, <3>2, <3>3, <2>1, <1>h DEF Together
  <2> QED BY <2>1, <1>o, <1>c DEF FlowOrder
<1> QED BY <1>1, <1>2, <1>7, <1>8, <1>9, <1>10, <1>11

-----------------------------------------------------------------------------
(* The sender. *)

LEMMA SendBatchInv == ASSUME StripeInv, SendBatch PROVE StripeInv'
<1> USE DEF StripeInv
<1>1. PICK flows : /\ flows \in Seq(Flows) /\ (Len(flows) = 1 \/ Len(flows) = 2) /\ count' = count + Len(flows)
                   /\ snd' = [Sending EXCEPT !.pc = "lookup", !.flow = flows, !.snap = attached, !.at = epoch]
  <2>1. PICK fs \in Flows \cup (Flows \X Flows) :
           /\ count' = count + Len(IF fs \in Flows THEN <<fs>> ELSE fs)
           /\ snd' = [Sending EXCEPT !.pc = "lookup", !.flow = IF fs \in Flows THEN <<fs>> ELSE fs, !.snap = attached, !.at = epoch]
    BY DEF SendBatch
  <2>2. CASE fs \in Flows
    <3>1. <<fs>> \in Seq(Flows) /\ Len(<<fs>>) = 1
      BY <2>2
    <3> QED BY <2>1, <2>2, <3>1
  <2>3. CASE fs \notin Flows
    <3>1. PICK f, g \in Flows : fs = <<f, g>>
      BY <2>3
    <3>2. fs \in Seq(Flows) /\ Len(fs) = 2
      BY <3>1
    <3> QED BY <2>1, <2>3, <3>2
  <2> QED BY <2>2, <2>3
<1>2. /\ snd.pc = "idle" /\ tdone = "no" /\ tdone' = "no"
      /\ UNCHANGED <<attached, lane, lqueue, wire, affinity, arrived, overtaken, epoch, stamp, lost, downs, tdone>>
  BY DEF SendBatch
<1>3. snd = Sending /\ count \in Nat /\ stamp \in Seq([flow : Flows, epoch : Nat]) /\ epoch \in Nat
  BY <1>2 DEF SendShape, ShapeOf
<1>4. snd'.pc = "lookup" /\ snd'.flow = flows /\ snd'.snap = attached /\ snd'.at = epoch /\ snd'.pick = <<>>
  BY <1>1 DEF Sending
<1>5. snd' \in [pc : {"idle", "lookup", "miss", "primary", "lanes"}, flow : Seq(Flows), snap : Seq(Lanes), at : Nat, pick : Seq(AllLanes)]
  <2>1. snd' = [pc |-> "lookup", flow |-> flows, snap |-> attached, at |-> epoch, pick |-> <<>>]
    BY <1>1 DEF Sending
  <2>2. <<>> \in Seq(AllLanes) /\ attached \in Seq(Lanes)
    BY EmptySeq DEF LaneShape
  <2> QED BY <2>1, <2>2, <1>1, <1>3
<1>6. Len(stamp) = count /\ First = count /\ Unsent = {} /\ \A n, k : ~ Waiting(n, k)
  <2>1. Len(snd.flow) = 0 /\ Len(snd.pick) = 0 /\ DOMAIN snd.flow = {} /\ DOMAIN snd.pick = {}
    BY <1>3, NothingSending
  <2>2. First = count
    BY <2>1, <1>3 DEF First
  <2>3. Len(stamp) = FirstOf(count, snd) + Len(snd.pick) /\ FirstOf(count, snd) = First
    BY BatchView DEF SendShape, ShapeOf
  <2> QED BY <2>1, <2>2, <2>3, <1>3 DEF Unsent, Waiting, WaitingOf
<1>7. Len(snd'.flow) \in Nat /\ Len(snd'.pick) = 0 /\ DOMAIN snd'.pick = {} /\ count' \in Nat /\ Len(snd'.flow) <= count'
      /\ (Len(snd'.flow) = 1 \/ Len(snd'.flow) = 2)
  BY <1>1, <1>3, <1>4, NothingSending
<1>8. FirstOf(count', snd') = count
  BY <1>1, <1>3, <1>4 DEF FirstOf
<1>9. SendShape'
  <2>1. ShapeOf(count', snd', stamp')
    <3>1. Len(stamp') = FirstOf(count', snd') + Len(snd'.pick)
      BY <1>2, <1>3, <1>6, <1>7, <1>8
    <3>a. \A p, q \in Nat : p = 0 /\ (q = 1 \/ q = 2) => p < q
      OBVIOUS
    <3>2. Len(snd'.pick) < Len(snd'.flow)
      BY ONLY <3>a, <1>7
    <3> QED BY <3>1, <3>2, <1>2, <1>3, <1>4, <1>5, <1>7 DEF ShapeOf
  <2> QED BY <2>1, <1>2 DEF SendShape
<1>10. /\ First' = count /\ count \in Nat /\ count <= count'
       /\ \A n : n \in Unsent' <=> n \in Nat /\ count < n /\ n <= count'
       /\ \A n, k : ~ Waiting(n, k)'
  <2>1. \A n : n \in UnsentOf(count', snd') <=> n \in Nat /\ count < n /\ n <= count'
    BY <1>8, <1>9, <1>4, BatchView, BatchShape
  <2>2. \A n, k : ~ WaitingOf(count', snd', n, k)
    BY <1>7 DEF WaitingOf
  <2> QED BY <2>1, <2>2, <1>1, <1>3, <1>8, BatchView
<1>11. /\ Weak' = Weak
       /\ \A n, k : (OnWire(n, k)' <=> OnWire(n, k)) /\ (Queued(n, k)' <=> Queued(n, k)) /\ (Held(n, k)' <=> Held(n, k))
  BY <1>2 DEF Weak, OnWire, Queued, Held
<1>12. \A n, k : Pending(n, k)' <=> Pending(n, k)
  BY <1>6, <1>10, <1>11 DEF Pending
<1>13. \A n : n \in (1 .. count') \ Unsent' <=> n \in (1 .. count) \ Unsent
  BY <1>6, <1>10, <1>7
<1>14. Places'
  BY <1>2, <1>11, <1>13 DEF Places
<1>15. Lines'
  BY <1>2, <1>10, <1>11 DEF Lines
<1>16. Together'
  BY <1>2, <1>12, TogetherFrame
<1>17. Pinned'
  BY <1>2, <1>3, <1>4, <1>12 DEF Pinned, Leads
<1>18. PinShape'
  BY <1>2, <1>4 DEF PinShape
<1>19. LaneShape'
  BY <1>2, LaneFrame
<1> QED BY <1>2, <1>9, <1>14, <1>15, <1>16, <1>17, <1>18, <1>19 DEF FlowOrder

\* A frame is resolved to lane l under the table as it is now.
LEMMA PickedInv ==
    ASSUME StripeInv, snd.pc \in {"lookup", "miss"}, NEW l \in AllLanes, NEW a \in Nat, NEW x \in [flow : Flows, epoch : Nat],
           snd' = Resolved(snd, l, a), stamp' = Append(stamp, x), x.flow = Resolving, x.epoch = IF a = epoch' THEN epoch' ELSE 0,
           UNCHANGED <<attached, lane, lqueue, wire, count, arrived, overtaken, lost, tdone>>,
           \/ epoch' = epoch /\ a = snd.at
           \/ epoch' = epoch + 1 /\ a = snd.at + 1,
           affinity' \in [Flows -> AllLanes \cup {Unpinned}], \A f \in Loose : affinity'[f] = Unpinned,
           Resolving \notin Loose => IF snd.snap = <<>> THEN l = 0 ELSE affinity'[Resolving] = l /\ (l = 0 \/ l \in ToSet(snd.snap)),
           epoch' = epoch => \A n \in DOMAIN stamp, k \in AllLanes :
               stamp[n].epoch = epoch /\ stamp[n].flow \notin Loose /\ Pending(n, k) =>
                   affinity'[stamp[n].flow] = affinity[stamp[n].flow]
    PROVE  StripeInv'
<1> USE DEF StripeInv
<1> DEFINE N == Len(stamp) + 1
<1>1. /\ ShapeOf(count, snd, stamp) /\ First = FirstOf(count, snd) /\ Unsent = UnsentOf(count, snd)
      /\ First' = FirstOf(count, snd') /\ Unsent' = UnsentOf(count, snd') /\ count' = count
  BY BatchView
<1>2. /\ ShapeOf(count, snd', Append(stamp, x)) /\ First' = First
      /\ \A n : n \in Unsent' <=> n \in Unsent
      /\ \A n, k : Waiting(n, k)' <=> Waiting(n, k) \/ (n = N /\ k = l)
  <2>1. /\ ShapeOf(count, snd', Append(stamp, x)) /\ FirstOf(count, snd') = FirstOf(count, snd)
        /\ \A n : n \in UnsentOf(count, snd') <=> n \in UnsentOf(count, snd)
        /\ \A n, k : WaitingOf(count, snd', n, k) <=> WaitingOf(count, snd, n, k) \/ (n = N /\ k = l)
    <3>1. ShapeOf(count, snd, stamp) /\ snd.pc \in {"lookup", "miss"}
      BY <1>1
    <3> QED BY <3>1, PickedShape
  <2>2. \A n, k : Waiting(n, k)' <=> WaitingOf(count, snd', n, k)
    BY <1>1 DEF Waiting
  <2>3. \A n, k : Waiting(n, k) <=> WaitingOf(count, snd, n, k)
    BY DEF Waiting
  <2> HIDE DEF N
  <2> QED BY <2>1, <2>2, <2>3, <1>1
<1>3. SendShape'
  <2>1. epoch' \in Nat \ {0} /\ lqueue' \in [Lanes -> Seq(Nat)] /\ wire' \in [AllLanes -> Seq(Nat)]
    BY DEF SendShape
  <2> QED BY <2>1, <1>1, <1>2 DEF SendShape
<1>4. /\ Len(stamp) \in Nat /\ DOMAIN stamp = 1 .. Len(stamp) /\ DOMAIN stamp' = 1 .. N /\ N \notin DOMAIN stamp
      /\ \A n \in DOMAIN stamp : n \in DOMAIN stamp' /\ stamp'[n] = stamp[n] /\ stamp[n].epoch \in Nat /\ n \in Nat
      /\ \A n \in DOMAIN stamp' : n \in DOMAIN stamp \/ n = N
      /\ N \in DOMAIN stamp' /\ stamp'[N] = x
      /\ \A n, m \in DOMAIN stamp' : n < m => n \in DOMAIN stamp
  <2>1. stamp \in Seq([flow : Flows, epoch : Nat])
    BY DEF SendShape, ShapeOf
  <2>2. Len(stamp) \in Nat /\ DOMAIN stamp = 1 .. Len(stamp) /\ DOMAIN stamp' = 1 .. N /\ stamp'[N] = x
        /\ \A n \in 1 .. Len(stamp) : stamp'[n] = stamp[n]
    BY <2>1, AppendProperties, LenProperties
  <2>3. \A n \in 1 .. Len(stamp) : stamp[n] \in [flow : Flows, epoch : Nat]
    BY <2>1, ElementOfSeq
  <2> QED BY <2>2, <2>3
<1>5. /\ Len(snd.flow) \in Nat /\ First \in Nat /\ count \in Nat
      /\ \A n : n \in Unsent <=> n \in Nat /\ First < n /\ n <= count
  BY <1>1, BatchShape DEF ShapeOf
<1>6. \A n, k : (OnWire(n, k)' <=> OnWire(n, k)) /\ (Queued(n, k)' <=> Queued(n, k)) /\ (Held(n, k)' <=> Held(n, k))
  BY DEF OnWire, Queued, Held
<1>7. Weak \subseteq Weak' /\ \A n \in DOMAIN stamp : n \in Weak' <=> n \in Weak
  BY <1>4 DEF Weak
<1>n. \A k \in AllLanes : ~ Pending(N, k)
  <2>1. ASSUME NEW k \in AllLanes, Held(N, k) PROVE FALSE
    <3>1. N \in (1 .. count) \ Unsent
      BY <2>1, HeldNat DEF Places
    <3> QED BY <3>1, <1>4, SentStamped
  <2> QED BY <2>1, <1>4, WaitingFresh DEF Pending
<1>p. \A n, k : k \in AllLanes => (Pending(n, k)' <=> Pending(n, k) \/ (n = N /\ k = l))
  BY <1>2, <1>6 DEF Pending
<1> HIDE DEF N
<1>8. Places'
  BY <1>1, <1>2, <1>6 DEF Places
<1>9. Lines'
  <2>1. ASSUME NEW k \in AllLanes, NEW n \in Nat, NEW m \in Nat, Held(n, k), Waiting(m, k)' PROVE n <= First
    <3>1. n \in (1 .. count) \ Unsent
      BY <2>1 DEF Places
    <3> QED BY <3>1, <1>5
  <2>2. (\A k \in AllLanes : InLine(wire'[k], Weak')) /\ \A k \in Lanes : InLine(lqueue'[k], Weak')
    BY <1>7, LineWeaker DEF Lines
  <2>3. \A k \in Lanes, n, m \in Nat : OnWire(n, k)' /\ Queued(m, k)' => n < m \/ m \in Weak'
    BY <1>6, <1>7 DEF Lines
  <2> QED BY <2>1, <2>2, <2>3, <1>2, <1>6 DEF Lines
<1>10. \A n \in DOMAIN stamp : stamp[n].epoch <= epoch
  BY DEF Pinned
<1>e. epoch \in Nat \ {0} /\ snd.at \in Nat /\ snd.at <= epoch /\ snd.pc # "idle"
  BY DEF SendShape, ShapeOf, Pinned
<1>11. ASSUME NEW n \in DOMAIN stamp, stamp[n] = x, x.epoch # 0, x.flow \notin Loose, NEW k \in AllLanes, Pending(n, k)
       PROVE  k = l
  <2>1. x.epoch = epoch'
    BY <1>11
  <2>2. epoch' = epoch
    BY <2>1, <1>10, <1>11, <1>e
  <2>3. Leads(n, k, snd.snap)
    BY <2>1, <2>2, <1>11, <1>e DEF Pinned
  <2> QED BY <2>1, <2>2, <2>3, <1>11 DEF Leads
<1>12. Together'
  <2>1. ASSUME NEW n \in DOMAIN stamp', NEW m \in DOMAIN stamp', n < m, stamp'[n] = stamp'[m], n \notin Weak',
               stamp'[n].flow \notin Loose, NEW k \in AllLanes, Pending(n, k)'
        PROVE  Pending(m, k)' \/ m \in lost'
    <3>1. n \in DOMAIN stamp /\ stamp'[n] = stamp[n] /\ n \notin Weak /\ n # N /\ Pending(n, k)
      BY <2>1, <1>4, <1>7, <1>p
    <3>2. CASE m = N
      <4>1. stamp[n] = x /\ x.epoch # 0 /\ x.flow \notin Loose
        BY <2>1, <3>1, <3>2, <1>4 DEF Weak
      <4>2. k = l
        BY <3>1, <4>1, <1>11
      <4> QED BY <3>2, <4>2, <1>p
    <3>3. CASE m # N
      <4>1. m \in DOMAIN stamp /\ stamp[m] = stamp[n]
        BY <2>1, <3>1, <3>3, <1>4
      <4>2. Pending(m, k) \/ m \in lost
        BY <2>1, <3>1, <4>1 DEF Together
      <4> QED BY <4>2, <1>p
    <3> QED BY <3>2, <3>3
  <2> QED BY <2>1 DEF Together
<1>13. Pinned'
  <2>0. snd'.at = a /\ snd'.snap = snd.snap /\ snd'.pc # "idle"
    BY DEF Resolved
  <2>1. ASSUME NEW n \in DOMAIN stamp'
        PROVE  stamp'[n].epoch <= epoch' /\ (stamp'[n].epoch = epoch' => a = epoch')
    <3>1. CASE n = N
      BY <3>1, <1>4, <1>e
    <3>2. CASE n \in DOMAIN stamp
      BY <3>2, <1>4, <1>10, <1>e DEF Pinned
    <3> QED BY <3>1, <3>2, <1>4
  <2>2. a <= epoch' /\ (tdone = "no" /\ a = epoch' => snd.snap = attached)
    BY <1>e DEF Pinned
  <2>3. ASSUME NEW n \in DOMAIN stamp', NEW k \in AllLanes,
               stamp'[n].epoch = epoch', stamp'[n].flow \notin Loose, Pending(n, k)'
        PROVE  Leads(n, k, snd.snap)' /\ (tdone = "no" => Leads(n, k, attached)')
    <3>1. CASE n = N
      <4>1. k = l /\ stamp'[n] = x
        BY <3>1, <2>3, <1>n, <1>p, <1>4
      <4>2. a = epoch' /\ Resolving \notin Loose
        BY <4>1, <2>1, <2>3
      <4>3. Leads(n, k, snd.snap)'
        BY <4>1, <4>2, <2>0 DEF Leads
      <4> QED BY <4>2, <4>3, <2>2, <2>0 DEF Leads
    <3>2. CASE n \in DOMAIN stamp
      <4>1. stamp'[n] = stamp[n] /\ Pending(n, k) /\ stamp[n].epoch = epoch /\ epoch' = epoch
        BY <3>2, <2>3, <1>p, <1>4, <1>10, <1>e
      <4>2. affinity'[stamp[n].flow] = affinity[stamp[n].flow]
        BY <4>1, <3>2, <2>3
      <4>3. Leads(n, k, snd.snap) /\ (tdone = "no" => Leads(n, k, attached))
        BY <4>1, <3>2, <2>3, <1>e DEF Pinned
      <4> QED BY <4>1, <4>2, <4>3, <2>0 DEF Leads
    <3> QED BY <3>1, <3>2, <1>4
  <2> QED BY <2>0, <2>1, <2>2, <2>3 DEF Pinned, Leads
<1>14. PinShape'
  BY DEF PinShape, Resolved
<1>15. LaneShape'
  BY LaneFrame
<1>16. FlowOrder'
  <2>1. \A n \in overtaken : n \in DOMAIN stamp
    BY SentStamped DEF Places
  <2> QED BY <2>1, <1>4 DEF FlowOrder
<1> QED BY <1>3, <1>8, <1>9, <1>12, <1>13, <1>14, <1>15, <1>16


LEMMA PickedSnd ==
    ASSUME SendShape, NEW s, s = snd \/ s = [snd EXCEPT !.at = @ + 1], NEW l, NEW e, Picked(s, l, e)
    PROVE  /\ snd' = Resolved(snd, l, s.at) /\ (s.at = snd.at \/ s.at = snd.at + 1) /\ (s = snd => s.at = snd.at)
           /\ (s # snd => s.at = snd.at + 1)
           /\ stamp' = Append(stamp, [flow |-> Resolving, epoch |-> IF s.at = e THEN e ELSE 0])
           /\ snd.at \in Nat /\ s.at \in Nat
<1>1. snd \in [pc : {"idle", "lookup", "miss", "primary", "lanes"}, flow : Seq(Flows), snap : Seq(Lanes), at : Nat, pick : Seq(AllLanes)]
  BY DEF SendShape, ShapeOf
<1>2. s.flow = snd.flow /\ s.pick = snd.pick /\ s.snap = snd.snap /\ (s = snd \/ s.at = snd.at + 1) /\ snd.at \in Nat /\ s.at \in Nat
      /\ s \in [pc : {"idle", "lookup", "miss", "primary", "lanes"}, flow : Seq(Flows), snap : Seq(Lanes), at : Nat, pick : Seq(AllLanes)]
  BY <1>1
<1>3. snd' = Resolved(snd, l, s.at)
  BY <1>2 DEF Picked, Resolved
<1> QED BY <1>2, <1>3 DEF Picked

LEMMA LookupInv == ASSUME StripeInv, Lookup PROVE StripeInv'
<1> USE DEF StripeInv
<1> DEFINE pin == affinity[Resolving]
           hit == snd.snap = <<>> \/ pin = 0 \/ Contains(snd.snap, pin)
<1>1. /\ snd.pc = "lookup" /\ UNCHANGED <<attached, lane, lqueue, wire, count, arrived, overtaken, epoch, lost, downs, tdone>>
      /\ \/ hit /\ Picked(snd, IF snd.snap = <<>> THEN 0 ELSE pin, epoch) /\ UNCHANGED affinity
         \/ ~hit /\ affinity' = [affinity EXCEPT ![Resolving] = Unpinned] /\ snd' = [snd EXCEPT !.pc = "miss"] /\ UNCHANGED stamp
  BY DEF Lookup
<1>2. /\ Resolving \in Flows /\ snd.snap \in Seq(Lanes) /\ snd.at \in Nat /\ epoch \in Nat
      /\ affinity \in [Flows -> AllLanes \cup {Unpinned}] /\ 0 \in AllLanes /\ Loose \subseteq Flows
  BY <1>1, ResolvingFlow, StripeAssumption DEF SendShape, ShapeOf, PinShape, AllLanes
<1>3. \A e : Contains(snd.snap, e) <=> e \in ToSet(snd.snap)
  BY <1>2, ContainsLemma
<1>4. CASE hit /\ Picked(snd, IF snd.snap = <<>> THEN 0 ELSE pin, epoch) /\ UNCHANGED affinity
  <2> DEFINE l == IF snd.snap = <<>> THEN 0 ELSE pin
             x == [flow |-> Resolving, epoch |-> IF snd.at = epoch THEN epoch ELSE 0]
  <2>1. l \in AllLanes /\ (IF snd.snap = <<>> THEN l = 0 ELSE affinity'[Resolving] = l /\ (l = 0 \/ l \in ToSet(snd.snap)))
    BY <1>2, <1>3, <1>4, ToSetType DEF AllLanes
  <2>2. Picked(snd, l, epoch)
    BY <1>4
  <2> HIDE DEF l
  <2>3. snd' = Resolved(snd, l, snd.at) /\ stamp' = Append(stamp, x)
    BY <2>2, PickedSnd
  <2>4. x \in [flow : Flows, epoch : Nat] /\ x.flow = Resolving /\ x.epoch = IF snd.at = epoch THEN epoch ELSE 0
    BY <1>2
  <2>5. affinity' = affinity /\ \A f \in Loose : affinity'[f] = Unpinned
    BY <1>4 DEF PinShape
  <2> HIDE DEF x
  <2> QED BY <1>1, <1>2, <2>1, <2>3, <2>4, <2>5, PickedInv
<1>5. CASE ~hit /\ affinity' = [affinity EXCEPT ![Resolving] = Unpinned] /\ snd' = [snd EXCEPT !.pc = "miss"] /\ UNCHANGED stamp
  <2>1. /\ snd'.pc = "miss" /\ snd'.flow = snd.flow /\ snd'.pick = snd.pick /\ snd'.at = snd.at /\ snd'.snap = snd.snap
        /\ snd' \in [pc : {"idle", "lookup", "miss", "primary", "lanes"}, flow : Seq(Flows), snap : Seq(Lanes), at : Nat, pick : Seq(AllLanes)]
    BY <1>5 DEF SendShape, ShapeOf
  <2>2. FirstOf(count, snd') = FirstOf(count, snd)
    BY <2>1 DEF FirstOf
  <2>3. SendShape'
    <3>1. ShapeOf(count', snd', stamp')
      BY <1>1, <1>5, <2>1, <2>2 DEF SendShape, ShapeOf
    <3> QED BY <3>1, <1>1 DEF SendShape
  <2>4. /\ Weak' = Weak /\ First' = First /\ Unsent' = Unsent
        /\ \A n, k : Waiting(n, k)' <=> Waiting(n, k)
        /\ \A n, k : (OnWire(n, k)' <=> OnWire(n, k)) /\ (Queued(n, k)' <=> Queued(n, k))
    BY <1>1, <1>5, <2>1 DEF Weak, First, Unsent, Waiting, WaitingOf, FirstOf, OnWire, Queued
  <2>5. \A n, k : (Held(n, k)' <=> Held(n, k)) /\ (Pending(n, k)' <=> Pending(n, k))
    BY <2>4 DEF Held, Pending
  <2>6. Places'
    BY <1>1, <2>4, <2>5 DEF Places
  <2>7. Lines'
    BY <1>1, <2>4, <2>5 DEF Lines
  <2>8. Together'
    BY <1>1, <1>5, <2>5, TogetherFrame
  <2>9. PinShape'
    <3>1. Resolving' = Resolving
      BY <2>1 DEF Resolving
    <3> QED BY <3>1, <1>2, <1>5, <2>1 DEF PinShape
  <2>10. Pinned'
    <3>1. ASSUME NEW n \in DOMAIN stamp, NEW k \in AllLanes, stamp[n].epoch = epoch, stamp[n].flow \notin Loose, Pending(n, k)
          PROVE  Leads(n, k, snd.snap)' /\ (tdone = "no" => Leads(n, k, attached)')
      <4>1. Leads(n, k, snd.snap) /\ (tdone = "no" => Leads(n, k, attached))
        BY <3>1, <1>1 DEF Pinned
      <4>2. snd.snap # <<>> /\ stamp[n].flow # Resolving
        BY <4>1, <1>3, <1>5 DEF Leads
      <4>3. affinity'[stamp[n].flow] = affinity[stamp[n].flow]
        BY <4>2, <1>5, <1>2
      <4> QED BY <4>1, <4>3, <1>1, <1>5, <2>1 DEF Leads
    <3> QED BY <3>1, <1>1, <1>5, <2>1, <2>5 DEF Pinned, Leads
  <2>11. LaneShape' /\ FlowOrder'
    BY <1>1, <1>5, LaneFrame DEF FlowOrder
  <2> QED BY <2>3, <2>6, <2>7, <2>8, <2>9, <2>10, <2>11
<1> QED BY <1>1, <1>4, <1>5

LEMMA PinInv == ASSUME StripeInv, Pin PROVE StripeInv'
<1> USE DEF StripeInv
<1>1. snd.pc = "miss" /\ UNCHANGED <<attached, lane, lqueue, wire, count, arrived, overtaken, lost, downs, tdone>>
  BY DEF Pin
<1>2. /\ Resolving \in Flows /\ snd.snap \in Seq(Lanes) /\ snd.snap # <<>> /\ snd.at \in Nat /\ epoch \in Nat
      /\ affinity \in [Flows -> AllLanes \cup {Unpinned}] /\ affinity[Resolving] = Unpinned /\ Loose \subseteq Flows
      /\ \A f \in Loose : affinity[f] = Unpinned
  BY <1>1, ResolvingFlow, StripeAssumption DEF SendShape, ShapeOf, PinShape
<1>3. PICK l \in Range(snd.snap) \cup {0} :
          IF Resolving \in Loose
          THEN Picked(snd, l, epoch) /\ UNCHANGED <<affinity, epoch>>
          ELSE /\ affinity' = [f \in Flows |-> IF f = Resolving THEN l ELSE IF Full_ THEN Unpinned ELSE affinity[f]]
               /\ epoch' = IF Full_ THEN epoch + 1 ELSE epoch
               /\ Picked(IF Full_ THEN [snd EXCEPT !.at = @ + 1] ELSE snd, l, epoch')
  BY DEF Pin
<1>4. l \in AllLanes /\ (l = 0 \/ l \in ToSet(snd.snap))
  BY <1>2, ToSetType DEF Range, ToSet, AllLanes
<1>5. PICK s : /\ Picked(s, l, epoch') /\ (s = snd \/ s = [snd EXCEPT !.at = @ + 1])
               /\ \/ epoch' = epoch /\ s = snd
                  \/ epoch' = epoch + 1 /\ s = [snd EXCEPT !.at = @ + 1]
  BY <1>3
<1>6. /\ snd' = Resolved(snd, l, s.at) /\ s.at \in Nat
      /\ stamp' = Append(stamp, [flow |-> Resolving, epoch |-> IF s.at = epoch' THEN epoch' ELSE 0])
      /\ \/ epoch' = epoch /\ s.at = snd.at
         \/ epoch' = epoch + 1 /\ s.at = snd.at + 1
  <2>1. snd \in [pc : {"idle", "lookup", "miss", "primary", "lanes"}, flow : Seq(Flows), snap : Seq(Lanes), at : Nat, pick : Seq(AllLanes)]
    BY DEF SendShape, ShapeOf
  <2>2. s = [snd EXCEPT !.at = @ + 1] => s.at = snd.at + 1
    BY <2>1
  <2>3. /\ snd' = Resolved(snd, l, s.at) /\ s.at \in Nat
        /\ stamp' = Append(stamp, [flow |-> Resolving, epoch |-> IF s.at = epoch' THEN epoch' ELSE 0])
    BY <1>5, PickedSnd
  <2> QED BY <2>2, <2>3, <1>5
<1> DEFINE x == [flow |-> Resolving, epoch |-> IF s.at = epoch' THEN epoch' ELSE 0]
<1>7. x \in [flow : Flows, epoch : Nat] /\ x.flow = Resolving /\ x.epoch = IF s.at = epoch' THEN epoch' ELSE 0
  BY <1>2, <1>6
<1>8. affinity' \in [Flows -> AllLanes \cup {Unpinned}] /\ \A f \in Loose : affinity'[f] = Unpinned
  BY <1>2, <1>3, <1>4
<1>9. Resolving \notin Loose => affinity'[Resolving] = l
  BY <1>2, <1>3
<1>10. ASSUME epoch' = epoch, NEW n \in DOMAIN stamp, NEW k \in AllLanes,
              stamp[n].epoch = epoch, stamp[n].flow \notin Loose, Pending(n, k)
       PROVE  affinity'[stamp[n].flow] = affinity[stamp[n].flow]
  <2>1. affinity[stamp[n].flow] = k /\ k # Unpinned
    BY <1>1, <1>2, <1>10, StripeAssumption DEF Pinned, Leads, AllLanes, Unpinned
  <2>2. stamp[n].flow # Resolving /\ stamp[n].flow \in Flows
    <3>1. stamp \in Seq([flow : Flows, epoch : Nat])
      BY DEF SendShape, ShapeOf
    <3>2. stamp[n] \in [flow : Flows, epoch : Nat]
      BY <3>1, ElementOfSeq, LenProperties
    <3> QED BY <3>2, <2>1, <1>2
  <2>3. ~ (Resolving \notin Loose /\ Full_)
    BY <1>2, <1>3, <1>10
  <2> QED BY <2>2, <2>3, <1>3
<1> HIDE DEF x
<1>11. stamp' = Append(stamp, x) /\ snd.pc \in {"lookup", "miss"}
  BY <1>1, <1>6 DEF x
<1> QED BY <1>1, <1>2, <1>4, <1>6, <1>7, <1>8, <1>9, <1>10, <1>11, PickedInv


\* SendBatch hands the frames for lane l over.
LEMMA HandedOver ==
    ASSUME StripeInv, NEW l \in AllLanes,
           \/ snd.pc = "primary" /\ l = 0
           \/ snd.pc = "lanes" /\ l # 0,
           Handed(l), count' = count, stamp' \in Seq([flow : Flows, epoch : Nat]), Len(stamp') = Len(stamp),
           UNCHANGED <<attached, lane>>
    PROVE  /\ ShapeOf(count', snd', stamp') /\ LaneShape' /\ GoesOn
           /\ \A n : n \in Unsent' <=> n \in Unsent /\ n \notin ForLane(l)
           /\ \A n, k : Waiting(n, k)' <=> Waiting(n, k) /\ k # l
           /\ \A n, k : Waiting(n, k)' => First' = First
           /\ \A n : n \in ForLane(l) <=> Waiting(n, l)
           /\ snd'.at <= epoch /\ snd'.at \in Nat /\ snd'.pc # "miss"
<1> USE DEF StripeInv
<1>1. snd' = HandedOn(snd, l)
  BY DEF Handed, HandedOn, RestOf
<1>2. ShapeOf(count, snd, stamp) /\ First = FirstOf(count, snd) /\ Unsent = UnsentOf(count, snd) /\ First' = FirstOf(count, snd') /\ Unsent' = UnsentOf(count, snd')
  BY BatchView
<1>3. /\ ShapeOf(count, snd', stamp')
      /\ \A n : n \in UnsentOf(count, snd') <=> n \in UnsentOf(count, snd) /\ ~ WaitingOf(count, snd, n, l)
      /\ \A n, k : WaitingOf(count, snd', n, k) <=> WaitingOf(count, snd, n, k) /\ k # l
      /\ \A n, k : WaitingOf(count, snd', n, k) => FirstOf(count, snd') = FirstOf(count, snd)
      /\ snd' = Sending \/ (snd'.pc = "lanes" /\ snd'.snap = snd.snap /\ snd'.at = snd.at)
  <2>1. ShapeOf(count, snd, stamp) /\ ((snd.pc = "primary" /\ l = 0) \/ (snd.pc = "lanes" /\ l # 0))
    BY <1>2
  <2>2. /\ ShapeOf(count, HandedOn(snd, l), stamp')
        /\ \A n : n \in UnsentOf(count, HandedOn(snd, l)) <=> n \in UnsentOf(count, snd) /\ ~ WaitingOf(count, snd, n, l)
        /\ \A n, k : WaitingOf(count, HandedOn(snd, l), n, k) <=> WaitingOf(count, snd, n, k) /\ k # l
        /\ \A n, k : WaitingOf(count, HandedOn(snd, l), n, k) => FirstOf(count, HandedOn(snd, l)) = FirstOf(count, snd)
        /\ \/ HandedOn(snd, l) = Sending
           \/ HandedOn(snd, l).pc = "lanes" /\ HandedOn(snd, l).snap = snd.snap /\ HandedOn(snd, l).at = snd.at
    <3>1. stamp' \in Seq([flow : Flows, epoch : Nat]) /\ Len(stamp') = Len(stamp) /\ l \in AllLanes
      OBVIOUS
    <3>2. ShapeOf(count, HandedOn(snd, l), stamp')
      BY ONLY <3>1, <2>1, HandedShape
    <3>3. \A n : n \in UnsentOf(count, HandedOn(snd, l)) <=> n \in UnsentOf(count, snd) /\ ~ WaitingOf(count, snd, n, l)
      BY ONLY <3>1, <2>1, HandedShape
    <3>4. \A n, k : WaitingOf(count, HandedOn(snd, l), n, k) <=> WaitingOf(count, snd, n, k) /\ k # l
      BY ONLY <3>1, <2>1, HandedShape
    <3>6. \/ HandedOn(snd, l) = Sending
          \/ /\ HandedOn(snd, l).pc = "lanes" /\ HandedOn(snd, l).snap = snd.snap /\ HandedOn(snd, l).at = snd.at
             /\ HandedOn(snd, l).flow = snd.flow
      BY <2>1 DEF HandedOn, ShapeOf
    <3>5. \A n, k : WaitingOf(count, HandedOn(snd, l), n, k) => FirstOf(count, HandedOn(snd, l)) = FirstOf(count, snd)
      <4>1. \A n, k : ~ WaitingOf(count, Sending, n, k)
        BY NothingSending DEF WaitingOf
      <4> QED BY <3>6, <4>1 DEF FirstOf
    <3> QED BY ONLY <3>2, <3>3, <3>4, <3>5, <3>6
  <2> QED BY <1>1, <2>2
<1>4. \A n, k : (Waiting(n, k) <=> WaitingOf(count, snd, n, k)) /\ (Waiting(n, k)' <=> WaitingOf(count, snd', n, k))
  BY DEF Waiting
<1>5. \A n : n \in ForLane(l) <=> Waiting(n, l)
  BY ForLaneView
<1>6. epoch \in Nat /\ snd.at \in Nat /\ snd.at <= epoch /\ snd.pc # "idle"
  BY DEF SendShape, ShapeOf, Pinned
<1>7. snd'.at <= epoch /\ snd'.at \in Nat /\ snd'.pc # "miss" /\ GoesOn
  BY <1>3, <1>6, NothingSending DEF GoesOn
<1> QED BY <1>2, <1>3, <1>4, <1>5, <1>7, LaneFrame

\* Frames G go to the wire or the queue of lane d, or are lost.
LEMMA PlacesMove ==
    ASSUME SendShape, Places, NEW G, \A n \in G : n \in Unsent,
           \A n : n \in Unsent' <=> n \in Unsent /\ n \notin G,
           count' = count, arrived' = arrived, overtaken' = overtaken, NEW d \in AllLanes, NEW TO,
           \A n, k : k \in AllLanes => (OnWire(n, k)' <=> OnWire(n, k) \/ (TO = "wire" /\ k = d /\ n \in G)),
           \A n, k : k \in AllLanes => (Queued(n, k)' <=> Queued(n, k) \/ (TO = "queue" /\ k = d /\ n \in G)),
           \A n : n \in lost' <=> n \in lost \/ (TO = "lost" /\ n \in G),
           TO \in {"wire", "queue", "lost"}
    PROVE  Places'
<1>1. \A n, k : k \in AllLanes => (Held(n, k)' <=> Held(n, k) \/ (TO # "lost" /\ k = d /\ n \in G))
  BY DEF Held
<1>2. ShapeOf(count, snd, stamp) /\ Unsent = UnsentOf(count, snd)
  BY BatchView
<1>3. \A n \in Unsent : n \in 1 .. count
  <2>1. FirstOf(count, snd) \in Nat /\ count \in Nat
    BY <1>2, BatchShape DEF ShapeOf
  <2> QED BY <2>1, <1>2, BatchShape
<1>4. \A n \in G : n \in 1 .. count /\ n \notin Unsent' /\ n \notin arrived /\ n \notin lost /\ \A k \in AllLanes : ~ Held(n, k)
  <2>1. ASSUME NEW n \in G PROVE n \in Unsent /\ n \in 1 .. count /\ n \in Nat
    BY <1>3, <1>2, BatchShape
  <2> QED BY <2>1 DEF Places
<1>5. \A n : n \in (1 .. count') \ Unsent' <=> n \in (1 .. count) \ Unsent \/ n \in G
  BY <1>3, <1>4
<1>6. \A n \in Nat, k, j \in AllLanes : Held(n, k)' /\ Held(n, j)' => k = j
  BY <1>1, <1>4 DEF Places
<1>7. \A n \in Nat, k \in AllLanes : ~ (OnWire(n, k)' /\ Queued(n, k)')
  BY <1>4 DEF Places, Held
<1>8. \A n \in Nat, k \in AllLanes : Held(n, k)' => n \in (1 .. count') \ Unsent' /\ n \notin arrived' \cup lost'
  BY <1>1, <1>4, <1>5 DEF Places
<1>9. \A n \in lost' : n \in (1 .. count') \ Unsent' /\ n \notin arrived'
  BY <1>4, <1>5 DEF Places
<1>10. \A n \in arrived' : n \in (1 .. count') \ Unsent'
  BY <1>5 DEF Places
<1>11. \A n \in (1 .. count') \ Unsent' : n \in arrived' \cup lost' \/ \E k \in AllLanes : Held(n, k)'
  <2>1. ASSUME NEW n \in (1 .. count') \ Unsent' PROVE n \in arrived' \cup lost' \/ \E k \in AllLanes : Held(n, k)'
    <3>1. CASE n \in G
      BY <3>1, <1>1
    <3>2. CASE n \in (1 .. count) \ Unsent
      BY <3>2, <1>1 DEF Places
    <3> QED BY <3>1, <3>2, <1>5
  <2> QED BY <2>1
<1>12. overtaken' \subseteq arrived'
  BY DEF Places
<1> QED BY <1>6, <1>7, <1>8, <1>9, <1>10, <1>11, <1>12 DEF Places

\* The frames for lane l may stand behind those that lane d has.
LEMMA BehindHeld ==
    ASSUME StripeInv, NEW l \in AllLanes, ~ (snd.pc = "lanes" /\ l = 0), NEW b \in ForLane(l)
    PROVE  /\ Waiting(b, l) /\ b \in Nat /\ First < b /\ First \in Nat /\ b \in Unsent /\ b \in DOMAIN stamp
           /\ \A n, d : d \in AllLanes /\ Held(n, d) => n # b /\ n \in Nat
           /\ \A n : Held(n, l) => n < b
<1> USE DEF StripeInv
<1>1. Waiting(b, l)
  BY ForLaneView
<1>2. b \in Nat /\ First < b /\ b \in Unsent /\ b \in DOMAIN stamp /\ \A k \in AllLanes : ~ Held(b, k)
  BY <1>1, WaitingFresh
<1>3. First \in Nat
  BY BatchView, BatchShape
<1>4. \A n, d : d \in AllLanes /\ Held(n, d) => n # b /\ n \in Nat
  BY <1>2, HeldNat
<1>5. \A n : Held(n, l) => n <= First
  BY <1>1, <1>2, <1>4 DEF Lines
<1>6. \A n : Held(n, l) => n < b
  BY <1>2, <1>3, <1>4, <1>5
<1> QED BY <1>1, <1>2, <1>3, <1>4, <1>6

LEMMA SendPrimaryInv == ASSUME StripeInv, SendPrimary PROVE StripeInv'
<1> USE DEF StripeInv
<1>1. /\ snd.pc = "primary" /\ wire' = [wire EXCEPT ![0] = Extended(@, 0)] /\ Handed(0)
      /\ UNCHANGED <<attached, lane, lqueue, affinity, count, arrived, overtaken, epoch, stamp, lost, downs, tdone>>
  BY DEF SendPrimary
<1>2. 0 \in AllLanes /\ 0 \notin Lanes /\ wire \in [AllLanes -> Seq(Nat)] /\ lqueue \in [Lanes -> Seq(Nat)]
      /\ stamp \in Seq([flow : Flows, epoch : Nat])
  BY StripeAssumption DEF AllLanes, SendShape, ShapeOf
<1>3. /\ ShapeOf(count', snd', stamp') /\ LaneShape' /\ GoesOn
      /\ \A n : n \in Unsent' <=> n \in Unsent /\ n \notin ForLane(0)
      /\ \A n, k : Waiting(n, k)' <=> Waiting(n, k) /\ k # 0
      /\ \A n, k : Waiting(n, k)' => First' = First
      /\ \A n : n \in ForLane(0) <=> Waiting(n, 0)
      /\ snd'.at <= epoch /\ snd'.at \in Nat /\ snd'.pc # "miss"
  BY <1>1, <1>2, HandedOver
<1>4. /\ Extended(wire[0], 0) \in Seq(Nat) /\ InLine(Extended(wire[0], 0), Weak)
      /\ \A n : n \in ToSet(Extended(wire[0], 0)) <=> n \in ToSet(wire[0]) \/ n \in ForLane(0)
  <2>1. \A c \in ToSet(wire[0]), b \in ForLane(0) : c # b /\ (c < b \/ b \in Weak)
    BY <1>1, <1>2, BehindHeld DEF Held, OnWire
  <2>2. wire[0] \in Seq(Nat) /\ InLine(wire[0], Weak)
    BY <1>2 DEF Lines
  <2> QED BY <2>1, <2>2, ExtendedLine
<1>5. wire' \in [AllLanes -> Seq(Nat)] /\ wire'[0] = Extended(wire[0], 0) /\ \A k \in Lanes : wire'[k] = wire[k]
  BY <1>1, <1>2, <1>4 DEF AllLanes
<1>6. ASSUME NEW n, NEW k \in AllLanes
      PROVE  (OnWire(n, k)' <=> OnWire(n, k) \/ (k = 0 /\ n \in ForLane(0))) /\ (Queued(n, k)' <=> Queued(n, k))
  BY <1>1, <1>2, <1>4, <1>5 DEF OnWire, Queued, AllLanes
<1>7. SendShape' /\ PinShape' /\ Weak' = Weak
  BY <1>1, <1>3, <1>5 DEF SendShape, PinShape, Weak
<1>8. Places'
  <2>1. \A n \in ForLane(0) : n \in Unsent
    BY <1>1, <1>2, BehindHeld
  <2> DEFINE TO == "wire"
  <2>2. /\ \A n, k : k \in AllLanes => (OnWire(n, k)' <=> OnWire(n, k) \/ (TO = "wire" /\ k = 0 /\ n \in ForLane(0)))
        /\ \A n, k : k \in AllLanes => (Queued(n, k)' <=> Queued(n, k) \/ (TO = "queue" /\ k = 0 /\ n \in ForLane(0)))
        /\ \A n : n \in lost' <=> n \in lost \/ (TO = "lost" /\ n \in ForLane(0))
        /\ TO \in {"wire", "queue", "lost"}
    BY <1>1, <1>6
  <2> HIDE DEF TO
  <2> QED BY <2>1, <2>2, <1>1, <1>2, <1>3, PlacesMove, Zenon
<1>9. Lines'
  <2>1. \A k \in AllLanes : InLine(wire'[k], Weak)
    BY <1>4, <1>5 DEF Lines, AllLanes
  <2>2. \A k \in Lanes, n, m \in Nat : OnWire(n, k)' /\ Queued(m, k)' => n < m \/ m \in Weak
    BY <1>2, <1>6 DEF Lines, AllLanes
  <2>3. \A k \in AllLanes, n, m \in Nat : Held(n, k)' /\ Waiting(m, k)' => n <= First'
    BY <1>3, <1>6 DEF Lines, Held
  <2> QED BY <2>1, <2>2, <2>3, <1>1, <1>7 DEF Lines
<1>10. \A n, k : k \in AllLanes => (Pending(n, k)' <=> Pending(n, k))
  BY <1>3, <1>6 DEF Pending, Held
<1>11. Together'
  BY <1>1, <1>10, TogetherFrame
<1>12. Pinned'
  BY <1>1, <1>3, <1>10, PinnedFrame
<1> QED BY <1>1, <1>3, <1>7, <1>8, <1>9, <1>11, <1>12 DEF FlowOrder

LEMMA EnqueueInv == ASSUME StripeInv, NEW l \in Lanes, Enqueue(l) PROVE StripeInv'
<1> USE DEF StripeInv
<1>1. /\ snd.pc = "lanes" /\ Handed(l)
      /\ UNCHANGED <<attached, lane, wire, affinity, count, arrived, overtaken, epoch, stamp, downs, tdone>>
      /\ \/ lost' = lost \cup ForLane(l) /\ lqueue' = lqueue
         \/ lqueue' = [lqueue EXCEPT ![l] = Extended(@, l)] /\ lost' = lost
  BY DEF Enqueue
<1>2. l \in AllLanes /\ l # 0 /\ wire \in [AllLanes -> Seq(Nat)] /\ lqueue \in [Lanes -> Seq(Nat)]
      /\ stamp \in Seq([flow : Flows, epoch : Nat])
  BY StripeAssumption DEF AllLanes, SendShape, ShapeOf
<1>3. /\ ShapeOf(count', snd', stamp') /\ LaneShape' /\ GoesOn
      /\ \A n : n \in Unsent' <=> n \in Unsent /\ n \notin ForLane(l)
      /\ \A n, k : Waiting(n, k)' <=> Waiting(n, k) /\ k # l
      /\ \A n, k : Waiting(n, k)' => First' = First
      /\ \A n : n \in ForLane(l) <=> Waiting(n, l)
      /\ snd'.at <= epoch /\ snd'.at \in Nat /\ snd'.pc # "miss"
  BY <1>1, <1>2, HandedOver
<1>4. \A n \in ForLane(l) : n \in Unsent /\ n \in Nat
  BY <1>1, <1>2, BehindHeld
<1>5. Weak' = Weak /\ \A n, k : OnWire(n, k)' <=> OnWire(n, k)
  BY <1>1 DEF Weak, OnWire
<1>6. CASE lost' = lost \cup ForLane(l) /\ lqueue' = lqueue
  <2>1. \A n, k : Queued(n, k)' <=> Queued(n, k)
    BY <1>6 DEF Queued
  <2>2. SendShape' /\ PinShape'
    BY <1>1, <1>3, <1>6 DEF SendShape, PinShape
  <2>3. Places'
    BY <2>1, <1>1, <1>2, <1>3, <1>4, <1>5, <1>6, PlacesMove
  <2>4. Lines'
    BY <2>1, <1>1, <1>3, <1>5, <1>6 DEF Lines, Held
  <2>5. (\A n, k : k \in AllLanes /\ Pending(n, k)' => Pending(n, k)) /\ \A n, k : k \in AllLanes /\ Pending(n, k) => Pending(n, k)' \/ n \in lost'
    BY <2>1, <1>3, <1>5, <1>6 DEF Pending, Held
  <2>6. Together'
    BY <2>5, <1>1, <1>6, TogetherFrame
  <2>7. Pinned'
    BY <2>5, <1>1, <1>3, PinnedFrame
  <2> QED BY <2>2, <2>3, <2>4, <2>6, <2>7, <1>1, <1>3 DEF FlowOrder
<1>7. CASE lqueue' = [lqueue EXCEPT ![l] = Extended(@, l)] /\ lost' = lost
  <2>1. /\ Extended(lqueue[l], l) \in Seq(Nat) /\ InLine(Extended(lqueue[l], l), Weak)
        /\ \A n : n \in ToSet(Extended(lqueue[l], l)) <=> n \in ToSet(lqueue[l]) \/ n \in ForLane(l)
    <3>1. \A c \in ToSet(lqueue[l]), b \in ForLane(l) : c # b /\ (c < b \/ b \in Weak)
      BY <1>1, <1>2, BehindHeld DEF Held, Queued
    <3>2. lqueue[l] \in Seq(Nat) /\ InLine(lqueue[l], Weak)
      BY <1>2 DEF Lines
    <3> QED BY <3>1, <3>2, ExtendedLine
  <2>2. lqueue' \in [Lanes -> Seq(Nat)] /\ lqueue'[l] = Extended(lqueue[l], l) /\ \A k \in Lanes : k # l => lqueue'[k] = lqueue[k]
    BY <1>2, <1>7, <2>1
  <2>3. ASSUME NEW n, NEW k \in AllLanes PROVE Queued(n, k)' <=> Queued(n, k) \/ (k = l /\ n \in ForLane(l))
    BY <1>2, <2>1, <2>2 DEF Queued, AllLanes
  <2>4. SendShape' /\ PinShape'
    BY <1>1, <1>3, <2>2 DEF SendShape, PinShape
  <2>5. Places'
    <3>1. /\ \A n, k : k \in AllLanes => (OnWire(n, k)' <=> OnWire(n, k) \/ ("queue" = "wire" /\ k = l /\ n \in ForLane(l)))
          /\ \A n, k : k \in AllLanes => (Queued(n, k)' <=> Queued(n, k) \/ ("queue" = "queue" /\ k = l /\ n \in ForLane(l)))
          /\ \A n : n \in lost' <=> n \in lost \/ ("queue" = "lost" /\ n \in ForLane(l))
      BY <1>5, <1>7, <2>3
    <3>2. \A n \in ForLane(l) : n \in Unsent
      BY <1>4
    <3> QED BY <3>1, <3>2, <1>1, <1>2, <1>3, PlacesMove, Zenon
  <2>6. Lines'
    <3>1. \A k \in Lanes : InLine(lqueue'[k], Weak)
      BY <2>1, <2>2 DEF Lines
    <3>2. ASSUME NEW k \in Lanes, NEW n \in Nat, NEW m \in Nat, OnWire(n, k), Queued(m, k)' PROVE n < m \/ m \in Weak
      <4>1. CASE Queued(m, k)
        BY <3>2, <4>1 DEF Lines
      <4>2. CASE k = l /\ m \in ForLane(l)
        BY <3>2, <4>2, <1>1, <1>2, BehindHeld DEF Held
      <4> QED BY <4>1, <4>2, <3>2, <2>3 DEF AllLanes
    <3>3. \A k \in AllLanes, n, m \in Nat : Held(n, k)' /\ Waiting(m, k)' => n <= First'
      BY <2>3, <1>3, <1>5 DEF Lines, Held
    <3> QED BY <3>1, <3>2, <3>3, <1>1, <1>5 DEF Lines
  <2>7. \A n, k : k \in AllLanes => (Pending(n, k)' <=> Pending(n, k))
    BY <2>3, <1>3, <1>5 DEF Pending, Held
  <2>8. Together'
    BY <2>7, <1>1, <1>7, TogetherFrame
  <2>9. Pinned'
    BY <2>7, <1>1, <1>3, PinnedFrame
  <2> QED BY <2>4, <2>5, <2>6, <2>8, <2>9, <1>1, <1>3 DEF FlowOrder
<1> QED BY <1>1, <1>6, <1>7


\* With the transport closed what is left of the batch is dropped.
LEMMA DroppedInv ==
    ASSUME StripeInv, NEW l \in Lanes, FallBack(l), tdone # "no" PROVE StripeInv'
<1> USE DEF StripeInv
<1> DEFINE G == {First + i : i \in {j \in DOMAIN snd.pick : snd.pick[j] # 0}}
<1>1. /\ snd.pc = "lanes" /\ snd' = Sending /\ lost' = lost \cup G
      /\ UNCHANGED <<attached, lane, lqueue, wire, affinity, count, arrived, overtaken, epoch, stamp, downs, tdone>>
  BY DEF FallBack
<1>2. ShapeOf(count, snd, stamp) /\ First = FirstOf(count, snd) /\ Unsent = UnsentOf(count, snd)
  BY BatchView
<1>3. /\ First \in Nat /\ Len(snd.flow) \in Nat /\ Len(snd.pick) = Len(snd.flow) /\ Len(stamp) = First + Len(snd.pick) /\ count \in Nat
      /\ First = count - Len(snd.flow) /\ DOMAIN snd.pick = 1 .. Len(snd.pick)
      /\ \A n : n \in Unsent <=> n \in Nat /\ First < n /\ n <= count /\ snd.pick[n - First] # 0
  <2>1. Len(snd.pick) = Len(snd.flow) /\ count \in Nat
    BY <1>1, <1>2 DEF ShapeOf
  <2>2. First = count - Len(snd.flow)
    BY DEF First
  <2>3. /\ First \in Nat /\ Len(snd.flow) \in Nat /\ Len(stamp) = First + Len(snd.pick) /\ DOMAIN snd.pick = 1 .. Len(snd.pick)
        /\ \A n : n \in Unsent <=> n \in Nat /\ First < n /\ n <= count /\ ~ (snd.pc = "lanes" /\ snd.pick[n - First] = 0)
    BY <1>2, BatchShape
  <2> QED BY <2>1, <2>2, <2>3, <1>1
<1>4. \A n : n \in G <=> n \in Unsent
  <2>1. /\ \A n \in Nat : First < n /\ n <= count => n - First \in DOMAIN snd.pick /\ n = First + (n - First)
        /\ \A i \in DOMAIN snd.pick : First + i \in Nat /\ First < First + i /\ First + i <= count /\ (First + i) - First = i
    <3>1. First \in Nat /\ Len(snd.flow) \in Nat /\ count \in Nat /\ First = count - Len(snd.flow) /\ DOMAIN snd.pick = 1 .. Len(snd.flow)
      BY <1>3
    <3>2. /\ \A n \in Nat : First < n /\ n <= count => n - First \in 1 .. Len(snd.flow) /\ n = First + (n - First)
          /\ \A i \in 1 .. Len(snd.flow) : First + i \in Nat /\ First < First + i /\ First + i <= count /\ (First + i) - First = i
      BY ONLY <3>1, BatchNumbers
    <3> QED BY ONLY <3>1, <3>2
  <2>2. ASSUME NEW n \in Unsent PROVE n \in G
    <3>1. n - First \in DOMAIN snd.pick /\ n = First + (n - First) /\ snd.pick[n - First] # 0
      BY <1>3, <2>1
    <3> QED BY <3>1
  <2>3. ASSUME NEW n \in G PROVE n \in Unsent
    <3>1. PICK i \in DOMAIN snd.pick : n = First + i /\ snd.pick[i] # 0
      BY <2>3
    <3> QED BY <3>1, <1>3, <2>1
  <2> QED BY <2>2, <2>3
<1> HIDE DEF G
<1>5. Unsent' = {} /\ \A n, k : ~ Waiting(n, k)'
  BY <1>1, NothingSending DEF Unsent, Waiting, WaitingOf
<1>6. \A n, k : Waiting(n, k) => n \in G
  BY <1>4, WaitingFresh
<1>7. SendShape'
  <2>1. FirstOf(count, Sending) = count /\ Len(stamp) = count
    BY <1>3, NothingSending DEF FirstOf
  <2>2. ShapeOf(count, Sending, stamp)
    <3>1. stamp \in Seq([flow : Flows, epoch : Nat])
      BY DEF SendShape, ShapeOf
    <3>2. Len(Sending.flow) = 0 /\ Len(Sending.pick) = 0 /\ Len(stamp) = FirstOf(count, Sending) + 0
      BY <2>1, <1>3, NothingSending
    <3> QED BY <3>1, <3>2, <1>3, NothingSending DEF ShapeOf
  <2> QED BY <2>2, <1>1 DEF SendShape
<1>8. Weak' = Weak /\ \A n, k : (OnWire(n, k)' <=> OnWire(n, k)) /\ (Queued(n, k)' <=> Queued(n, k))
  BY <1>1 DEF Weak, OnWire, Queued
<1>9. Places'
  <2> DEFINE TO == "lost"
  <2>1. /\ \A n, k : k \in AllLanes => (OnWire(n, k)' <=> OnWire(n, k) \/ (TO = "wire" /\ k = 0 /\ n \in G))
        /\ \A n, k : k \in AllLanes => (Queued(n, k)' <=> Queued(n, k) \/ (TO = "queue" /\ k = 0 /\ n \in G))
        /\ \A n : n \in lost' <=> n \in lost \/ (TO = "lost" /\ n \in G)
        /\ TO \in {"wire", "queue", "lost"}
    BY <1>1, <1>8
  <2>2. (\A n : n \in Unsent' <=> n \in Unsent /\ n \notin G) /\ (\A n \in G : n \in Unsent) /\ 0 \in AllLanes
    BY <1>4, <1>5 DEF AllLanes
  <2> HIDE DEF TO
  <2> QED BY <2>1, <2>2, <1>1, PlacesMove, Zenon
<1>10. Lines'
  BY <1>1, <1>5, <1>8 DEF Lines
<1>11. (\A n, k : k \in AllLanes /\ Pending(n, k)' => Pending(n, k)) /\ \A n, k : k \in AllLanes /\ Pending(n, k) => Pending(n, k)' \/ n \in lost'
  BY <1>1, <1>5, <1>6, <1>8 DEF Pending, Held
<1>12. Together'
  BY <1>1, <1>11, TogetherFrame
<1>13. Pinned'
  <2>1. GoesOn /\ snd'.at <= epoch
    BY <1>1, NothingSending DEF GoesOn, SendShape
  <2> QED BY <2>1, <1>1, <1>11, PinnedFrame
<1>14. PinShape' /\ LaneShape' /\ FlowOrder'
  BY <1>1, NothingSending, LaneFrame DEF PinShape, FlowOrder
<1> QED BY <1>7, <1>9, <1>10, <1>12, <1>13, <1>14

\* The lane gives out: its frames take the primary, and their flows after them.
LEMMA FallBackInv ==
    ASSUME StripeInv, NEW l \in Lanes, FallBack(l), tdone = "no" PROVE StripeInv'
<1> USE DEF StripeInv
<1>1. /\ snd.pc = "lanes" /\ Handed(l) /\ lost' = lost /\ epoch' = epoch + 1
      /\ affinity' = [f \in Flows |-> IF f \notin Loose /\ \E n \in ForLane(l) : snd.flow[n - First] = f THEN 0 ELSE affinity[f]]
      /\ wire' = [wire EXCEPT ![0] = Extended(@, l)]
      /\ stamp' = [n \in DOMAIN stamp |-> IF n \in ForLane(l) THEN [stamp[n] EXCEPT !.epoch = 0] ELSE stamp[n]]
      /\ UNCHANGED <<attached, lane, lqueue, count, arrived, overtaken, downs, tdone>>
  BY DEF FallBack
<1>2. /\ l \in AllLanes /\ l # 0 /\ 0 \in AllLanes /\ 0 \notin Lanes /\ wire \in [AllLanes -> Seq(Nat)] /\ lqueue \in [Lanes -> Seq(Nat)]
      /\ stamp \in Seq([flow : Flows, epoch : Nat]) /\ epoch \in Nat
  BY StripeAssumption DEF AllLanes, SendShape, ShapeOf
<1>3. /\ stamp' \in Seq([flow : Flows, epoch : Nat]) /\ Len(stamp') = Len(stamp) /\ DOMAIN stamp' = DOMAIN stamp
      /\ \A n \in DOMAIN stamp : /\ n \in ForLane(l) => stamp'[n].epoch = 0 /\ stamp'[n].flow = stamp[n].flow
                                 /\ n \notin ForLane(l) => stamp'[n] = stamp[n]
  <2>1. DOMAIN stamp = 1 .. Len(stamp) /\ Len(stamp) \in Nat /\ \A n \in DOMAIN stamp : stamp[n] \in [flow : Flows, epoch : Nat]
    BY <1>2, LenProperties, ElementOfSeq
  <2>2. stamp' \in [1 .. Len(stamp) -> [flow : Flows, epoch : Nat]]
    BY <1>1, <2>1
  <2>3. stamp' \in Seq([flow : Flows, epoch : Nat]) /\ Len(stamp') = Len(stamp)
    BY <2>1, <2>2, FunctionIsSeq
  <2> QED BY <2>1, <2>3, <1>1
<1>4. /\ ShapeOf(count', snd', stamp') /\ LaneShape' /\ GoesOn
      /\ \A n : n \in Unsent' <=> n \in Unsent /\ n \notin ForLane(l)
      /\ \A n, k : Waiting(n, k)' <=> Waiting(n, k) /\ k # l
      /\ \A n, k : Waiting(n, k)' => First' = First
      /\ \A n : n \in ForLane(l) <=> Waiting(n, l)
      /\ snd'.at <= epoch /\ snd'.at \in Nat /\ snd'.pc # "miss"
  BY <1>1, <1>2, <1>3, HandedOver
<1>5. \A n \in ForLane(l) : n \in Unsent /\ n \in Nat /\ n \in DOMAIN stamp
  BY <1>1, <1>2, BehindHeld
<1>6. \A n : n \in Weak' <=> n \in Weak \/ n \in ForLane(l)
  BY <1>3, <1>5 DEF Weak
<1>7. /\ Extended(wire[0], l) \in Seq(Nat) /\ InLine(Extended(wire[0], l), Weak')
      /\ \A n : n \in ToSet(Extended(wire[0], l)) <=> n \in ToSet(wire[0]) \/ n \in ForLane(l)
  <2>1. \A c \in ToSet(wire[0]), b \in ForLane(l) : c # b /\ (c < b \/ b \in Weak')
    BY <1>1, <1>2, <1>6, BehindHeld DEF Held, OnWire
  <2>2. wire[0] \in Seq(Nat) /\ InLine(wire[0], Weak) /\ Weak \subseteq Weak'
    BY <1>2, <1>6 DEF Lines
  <2>3. InLine(wire[0], Weak')
    BY <2>2, LineWeaker
  <2> QED BY <2>1, <2>2, <2>3, ExtendedLine
<1>8. wire' \in [AllLanes -> Seq(Nat)] /\ wire'[0] = Extended(wire[0], l) /\ \A k \in Lanes : wire'[k] = wire[k]
  BY <1>1, <1>2, <1>7 DEF AllLanes
<1>9. ASSUME NEW n, NEW k \in AllLanes
      PROVE  (OnWire(n, k)' <=> OnWire(n, k) \/ (k = 0 /\ n \in ForLane(l))) /\ (Queued(n, k)' <=> Queued(n, k))
  BY <1>1, <1>2, <1>7, <1>8 DEF OnWire, Queued, AllLanes
<1>10. SendShape'
  BY <1>1, <1>2, <1>4, <1>8 DEF SendShape
<1>11. PinShape'
  <2>1. affinity' \in [Flows -> AllLanes \cup {Unpinned}] /\ \A f \in Loose : affinity'[f] = Unpinned
    BY <1>1, <1>2, StripeAssumption DEF PinShape
  <2> QED BY <2>1, <1>4 DEF PinShape
<1>12. Places'
  <2> DEFINE TO == "wire"
  <2>1. /\ \A n, k : k \in AllLanes => (OnWire(n, k)' <=> OnWire(n, k) \/ (TO = "wire" /\ k = 0 /\ n \in ForLane(l)))
        /\ \A n, k : k \in AllLanes => (Queued(n, k)' <=> Queued(n, k) \/ (TO = "queue" /\ k = 0 /\ n \in ForLane(l)))
        /\ \A n : n \in lost' <=> n \in lost \/ (TO = "lost" /\ n \in ForLane(l))
        /\ TO \in {"wire", "queue", "lost"}
    BY <1>1, <1>9
  <2>2. \A n \in ForLane(l) : n \in Unsent
    BY <1>5
  <2> HIDE DEF TO
  <2> QED BY <2>1, <2>2, <1>1, <1>2, <1>4, PlacesMove, Zenon
<1>13. Lines'
  <2>1. \A k \in AllLanes : InLine(wire'[k], Weak')
    <3>1. \A k \in Lanes : InLine(wire[k], Weak) /\ Weak \subseteq Weak'
      BY <1>6 DEF Lines, AllLanes
    <3> QED BY <3>1, <1>7, <1>8, LineWeaker DEF AllLanes
  <2>2. \A k \in Lanes : InLine(lqueue'[k], Weak')
    <3>1. \A k \in Lanes : InLine(lqueue[k], Weak) /\ Weak \subseteq Weak'
      BY <1>6 DEF Lines
    <3> QED BY <3>1, <1>1, LineWeaker
  <2>3. \A k \in Lanes, n, m \in Nat : OnWire(n, k)' /\ Queued(m, k)' => n < m \/ m \in Weak'
    BY <1>2, <1>6, <1>9 DEF Lines, AllLanes
  <2>4. \A k \in AllLanes, n, m \in Nat : Held(n, k)' /\ Waiting(m, k)' => n <= First'
    <3>1. \A m : ~ Waiting(m, 0)
      BY <1>1 DEF Waiting, WaitingOf
    <3> QED BY <3>1, <1>4, <1>9 DEF Lines, Held
  <2> QED BY <2>1, <2>2, <2>3, <2>4 DEF Lines
<1>14. \A n, k : k \in AllLanes /\ n \notin ForLane(l) => (Pending(n, k)' <=> Pending(n, k))
  BY <1>4, <1>9 DEF Pending, Held
<1>15. Together'
  <2>1. ASSUME NEW n \in DOMAIN stamp', NEW m \in DOMAIN stamp', n < m, stamp'[n] = stamp'[m], n \notin Weak',
               stamp'[n].flow \notin Loose, NEW k \in AllLanes, Pending(n, k)'
        PROVE  Pending(m, k)' \/ m \in lost'
    <3>1. n \notin ForLane(l) /\ n \notin Weak /\ m \notin ForLane(l)
      BY <2>1, <1>3, <1>6 DEF Weak
    <3>2. stamp[n] = stamp[m] /\ stamp[n].flow \notin Loose /\ Pending(n, k)
      BY <2>1, <3>1, <1>3, <1>14
    <3>3. Pending(m, k) \/ m \in lost
      BY <2>1, <3>1, <3>2, <1>3 DEF Together
    <3> QED BY <3>1, <3>3, <1>1, <1>14
  <2> QED BY <2>1 DEF Together
<1>16. Pinned'
  <2>1. \A n \in DOMAIN stamp : stamp'[n].epoch \in {stamp[n].epoch, 0}
    BY <1>3
  <2> QED BY <2>1, <1>1, <1>3, <1>4, PinnedFresh
<1>17. FlowOrder'
  <2>1. \A n \in overtaken : n \in DOMAIN stamp
    BY SentStamped DEF Places
  <2> QED BY <2>1, <1>1, <1>3 DEF FlowOrder
<1> QED BY <1>4, <1>10, <1>11, <1>12, <1>13, <1>15, <1>16, <1>17

-----------------------------------------------------------------------------
(* The specification. *)

LEMMA StripeStarts == ASSUME StripeInit PROVE StripeInv
<1> USE DEF StripeInit
<1>0. snd = Sending /\ count = 0 /\ stamp = <<>> /\ 0 \in AllLanes /\ 0 \notin Lanes
  BY StripeAssumption DEF AllLanes
<1>1. LaneShape
  <2>1. attached \in Seq(Lanes) /\ Len(attached) = 0 /\ ToSet(attached) = {} /\ IsInjective(attached)
    BY EmptySeq, LineEmpty, NothingSending DEF IsInjective
  <2>2. MaxLanes \in Nat
    BY StripeAssumption
  <2> QED BY <2>1, <2>2 DEF LaneShape
<1>2. SendShape
  <2>1. stamp \in Seq([flow : Flows, epoch : Nat]) /\ Len(stamp) = 0
    BY EmptySeq
  <2>a. Len(snd.flow) = 0 /\ Len(snd.pick) = 0
    BY <1>0, NothingSending
  <2>2. FirstOf(count, snd) = 0 /\ Len(snd.flow) = 0 /\ Len(snd.pick) = 0
    BY ONLY <1>0, <2>a DEF FirstOf
  <2>3. ShapeOf(count, snd, stamp)
    BY <2>1, <2>2, <1>0, NothingSending DEF ShapeOf
  <2>4. <<>> \in Seq(Nat)
    BY EmptySeq
  <2> QED BY <2>3, <2>4 DEF SendShape, AllLanes
<1>3. PinShape
  BY <1>0, NothingSending, StripeAssumption DEF PinShape
<1>4. /\ DOMAIN stamp = {} /\ \A n, k : ~ Waiting(n, k)
      /\ \A n, k : k \in AllLanes => ~ OnWire(n, k) /\ ~ Queued(n, k)
  BY <1>0, NothingSending, LineEmpty DEF Waiting, WaitingOf, OnWire, Queued, AllLanes
<1>5. Places
  BY <1>0, <1>4 DEF Places, Held
<1>6. Lines
  BY <1>0, <1>4, LineEmpty DEF Lines, Held, AllLanes
<1>7. Together /\ FlowOrder
  BY <1>4 DEF Together, FlowOrder
<1>8. Pinned
  BY <1>0, <1>4, NothingSending DEF Pinned
<1> QED BY <1>1, <1>2, <1>3, <1>5, <1>6, <1>7, <1>8 DEF StripeInv

LEMMA StripeStutters == ASSUME StripeInv, UNCHANGED stripeVars PROVE StripeInv'
<1> USE DEF StripeInv, stripeVars
<1>1. LaneShape' /\ SendShape' /\ PinShape'
  BY LaneFrame DEF SendShape, PinShape, Resolving
<1>2. Places' /\ Lines' /\ Together' /\ FlowOrder' /\ \A n, k : Pending(n, k)' <=> Pending(n, k)
  BY PlacesFrame
<1>3. Pinned'
  BY <1>2, PinnedFrame DEF GoesOn, Pinned
<1> QED BY <1>1, <1>2, <1>3

LEMMA StripeStep == ASSUME StripeInv, [StripeNext]_stripeVars PROVE StripeInv'
<1>1. CASE SendBatch
  BY <1>1, SendBatchInv
<1>2. CASE SendPrimary
  BY <1>2, SendPrimaryInv
<1>3. CASE Lookup
  BY <1>3, LookupInv
<1>4. CASE Pin
  BY <1>4, PinInv
<1>5. ASSUME NEW l \in Lanes, Enqueue(l) PROVE StripeInv'
  BY <1>5, EnqueueInv
<1>6. ASSUME NEW l \in Lanes, FallBack(l) PROVE StripeInv'
  BY <1>6, FallBackInv, DroppedInv
<1>7. CASE CloseStripe
  BY <1>7, StripeCloseInv
<1>8. ASSUME NEW l \in AllLanes, Arrives(l) PROVE StripeInv'
  BY <1>8, ArrivesInv
<1>9. ASSUME NEW l \in Lanes, LaneWrite(l) PROVE StripeInv'
  BY <1>9, LaneWriteInv
<1>10. ASSUME NEW l \in Lanes, Breaks(l) PROVE StripeInv'
  BY <1>10, BreaksInv
<1>11. ASSUME NEW l \in Lanes, RemoveLane(l) PROVE StripeInv'
  BY <1>11, RemoveLaneInv
<1>12. ASSUME NEW l \in Lanes, LaneCloses(l) PROVE StripeInv'
  BY <1>12, LaneClosesInv
<1>13. ASSUME NEW l \in Lanes, DialStripeLane(l) PROVE StripeInv'
  BY <1>13, DialInv
<1>14. ASSUME NEW l \in Lanes, AttachLane(l) PROVE StripeInv'
  BY <1>14, AttachInv
<1>15. CASE UNCHANGED stripeVars
  BY <1>15, StripeStutters
<1> QED BY <1>1, <1>2, <1>3, <1>4, <1>5, <1>6, <1>7, <1>8, <1>9, <1>10, <1>11, <1>12, <1>13, <1>14, <1>15 DEF StripeNext, Sender, AllLanes

LEMMA StripeImplies == ASSUME StripeInv PROVE StripeSound
<1> USE DEF StripeInv
<1>1. StripeTypeOK
  <2>1. Range(attached) \subseteq Lanes
    <3>1. Range(attached) = ToSet(attached)
      BY DEF Range, ToSet
    <3> QED BY <3>1, ToSetType DEF LaneShape
  <2> QED BY <2>1 DEF StripeTypeOK, LaneShape, PinShape, AllLanes
<1>2. SentOnce
  <2>1. ASSUME NEW n \in 1 .. count PROVE Copies(n) = IF n \in Unsent THEN 0 ELSE 1
    <3>0. count \in Nat /\ n \in Nat /\ 0 \in AllLanes /\ 0 \notin Lanes /\ (\A l \in Lanes : l \in AllLanes /\ l # 0)
      BY StripeAssumption DEF SendShape, ShapeOf, AllLanes
    <3> DEFINE Q == {l \in Lanes : Contains(lqueue[l], n)}
               W == {l \in Lanes \cup {0} : Contains(wire[l], n)}
    <3>1. (\A l \in Lanes : Contains(lqueue[l], n) <=> Queued(n, l)) /\ \A l \in AllLanes : Contains(wire[l], n) <=> OnWire(n, l)
      <4>1. \A l \in Lanes : lqueue[l] \in Seq(Nat)
        BY DEF SendShape
      <4>2. \A l \in AllLanes : wire[l] \in Seq(Nat)
        BY DEF SendShape
      <4> QED BY <4>1, <4>2, <3>0, ContainsLemma DEF Queued, OnWire
    <3>2. \A a, b \in AllLanes : Held(n, a) /\ Held(n, b) => a = b
      BY <3>0 DEF Places
    <3>3. CASE \E l \in Lanes : Queued(n, l)
      <4>1. PICK l \in Lanes : Queued(n, l)
        BY <3>3
      <4>2. Held(n, l) /\ l \in AllLanes
        BY <4>1, <3>0 DEF Held
      <4>3. Q = {l}
        BY <4>1, <4>2, <3>0, <3>1, <3>2 DEF Held
      <4>4. W = {}
        <5>1. \A k \in AllLanes : ~ OnWire(n, k)
          BY <4>1, <4>2, <3>0, <3>2 DEF Places, Held
        <5> QED BY <5>1, <3>1 DEF AllLanes
      <4>5. n \notin arrived /\ n \notin lost /\ n \notin Unsent
        BY <4>2, <3>0 DEF Places
      <4>6. Cardinality(Q) = 1 /\ Cardinality(W) = 0
        BY <4>3, <4>4, FS_Singleton, FS_EmptySet
      <4> QED BY <4>5, <4>6 DEF Copies
    <3>4. CASE \E l \in AllLanes : OnWire(n, l)
      <4>1. PICK l \in AllLanes : OnWire(n, l)
        BY <3>4
      <4>2. Held(n, l)
        BY <4>1 DEF Held
      <4>3. W = {l}
        BY <4>1, <4>2, <3>1, <3>2 DEF Held, AllLanes
      <4>4. Q = {}
        <5>1. \A k \in AllLanes : ~ Queued(n, k)
          BY <4>1, <4>2, <3>0, <3>2 DEF Places, Held
        <5> QED BY <5>1, <3>0, <3>1
      <4>5. n \notin arrived /\ n \notin lost /\ n \notin Unsent
        BY <4>2, <3>0 DEF Places
      <4>6. Cardinality(W) = 1 /\ Cardinality(Q) = 0
        BY <4>3, <4>4, FS_Singleton, FS_EmptySet
      <4> QED BY <4>5, <4>6 DEF Copies
    <3>5. CASE (\A l \in Lanes : ~ Queued(n, l)) /\ \A l \in AllLanes : ~ OnWire(n, l)
      <4>1. Q = {} /\ W = {}
        BY <3>5, <3>1 DEF AllLanes
      <4>2. Cardinality(W) = 0 /\ Cardinality(Q) = 0
        BY <4>1, FS_EmptySet
      <4>3. \A l \in AllLanes : ~ Held(n, l)
        BY <3>5, <3>0 DEF Held, Queued, AllLanes
      <4>4. (n \in arrived /\ n \notin lost /\ n \notin Unsent) \/ (n \in lost /\ n \notin arrived /\ n \notin Unsent)
            \/ (n \notin arrived /\ n \notin lost /\ n \in Unsent)
        BY <4>3 DEF Places
      <4> QED BY <4>2, <4>4 DEF Copies
    <3> QED BY <3>3, <3>4, <3>5
  <2> QED BY <2>1 DEF SentOnce
<1> QED BY <1>1, <1>2 DEF StripeSound

\* SendBatch, pickLanePinned, laneEnqueue and its fallback, the lane writers, and
\* attachLane, removeLane and Close in every order: a frame resolved to a lane is in
\* one place, and between two changes of the lanes or of the table a flow's frames
\* arrive in order, whatever the number of lanes, flows, frames and breaks.
THEOREM StripeIsSound == StripeSpec => []StripeSound
<1>1. StripeInit => StripeInv
  BY StripeStarts
<1>2. StripeInv /\ [StripeNext]_stripeVars => StripeInv'
  BY StripeStep
<1>3. StripeInv => StripeSound
  BY StripeImplies
<1> QED BY <1>1, <1>2, <1>3, PTL DEF StripeSpec

=============================================================================

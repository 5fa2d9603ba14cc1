------------------------------ MODULE LinkProofs ------------------------------
(***************************************************************************)
(* A peer link: the gate that bounds what is in flight on it (WriteGate),  *)
(* the scheduler that shares it between its queues (DrrScheduler), the     *)
(* goroutines that run, stop and replace a peer (PeerLifecycle), the table *)
(* that leads packets and names over the links (MeshEgress), and the pings *)
(* that watch it (LinkPing).                                               *)
(***************************************************************************)
EXTENDS PeerLifecycle, DrrScheduler, WriteGate, MeshEgress, LinkPing, SeqLemmas

-----------------------------------------------------------------------------
(***************************************************************************)
(* The write gate, for any sizes, caps and numbers of frames.              *)
(***************************************************************************)

Urgent == [kind : {"ping", "ack", "gossip"}, bytes : {CtrlBytes}, rx : Nat]
Data   == [kind : {"data"}, bytes : FrameSizes, rx : {0}]
Framed == [kind : {"ping", "ack", "gossip", "data", "empty"}, bytes : Nat, rx : Nat]

GateShapes ==
    /\ urgent \in [Ends -> Seq(Urgent)] /\ out \in [Ends -> Seq(Data)] /\ link \in [Ends -> Seq(Framed)]
    /\ loop \in [Ends -> [pc : {"wait", "count"}, credit : Int, data : Nat, bytes : Nat]]
    /\ wake \in [Ends -> BOOLEAN] /\ gated \in [Ends -> BOOLEAN] /\ wants \in [Ends -> BOOLEAN]
    /\ warned \in [Ends -> BOOLEAN]
    /\ tx \in [Ends -> Nat] /\ rx \in [Ends -> Nat] /\ acked \in [Ends -> Nat]
    /\ reported \in [Ends -> Nat] /\ cap \in [Ends -> CapMin .. CapMax]
    /\ pending \in [Ends -> 0 .. MaxFrames] /\ ctrlLeft \in [Ends -> 0 .. MaxCtrl]
    /\ \A e \in Ends : Len(urgent[e]) <= CtrlDepth

\* No report under way claims more than its sender has received.
ReportsTrue ==
    \A e \in Ends :
        /\ \A i \in 1 .. Len(urgent[e]) : urgent[e][i].rx <= rx[e]
        /\ \A i \in 1 .. Len(link[e]) : link[e][i].rx <= rx[e]

\* The credit the write loop goes by left room below the largest cap when it
\* was read, and reports since have only made more.
CreditHolds ==
    \A e \in Ends : loop[e].credit = Unlimited \/ loop[e].credit + Inflight(e) <= CapMax

\* Of the data in a batch, all but the last frame were within the credit.
DataWithin ==
    \A e \in Ends : loop[e].data > 0 => loop[e].data < loop[e].credit + Max(FrameSizes)

GateInv == GateShapes /\ ReportsTrue /\ BacklogSound /\ CreditHolds /\ DataWithin

LEMMA EndsLemma ==
    ASSUME NEW e \in Ends
    PROVE  Other(e) \in Ends /\ Other(e) # e /\ Other(Other(e)) = e /\ \A d \in Ends : d = e \/ d = Other(e)
<1>1. PICK a, b \in Ends : a # b /\ Ends = {a, b}
  BY GateAssumption
<1>2. ASSUME NEW x \in Ends
      PROVE  Other(x) \in Ends /\ Other(x) # x
  <2>1. \E o \in Ends : o # x
    BY <1>1
  <2> QED
    BY <2>1 DEF Other
<1> QED
  BY <1>1, <1>2

LEMMA LargestFrame == Max(FrameSizes) \in Nat /\ \A n \in FrameSizes : n <= Max(FrameSizes)
<1>1. PICK m \in FrameSizes : \A n \in FrameSizes : n <= m
  BY GateAssumption
<1>2. \A n \in FrameSizes : n \in Nat
  BY GateAssumption
<1>3. \E x \in FrameSizes : \A y \in FrameSizes : x >= y
  BY <1>1, <1>2
<1>4. Max(FrameSizes) \in FrameSizes /\ \A y \in FrameSizes : Max(FrameSizes) >= y
  BY <1>3 DEF Max
<1> QED
  BY <1>2, <1>4

\* The bytes of a sequence of frames.
LEMMA BatchBytesNat ==
    ASSUME NEW s \in Seq(Framed)
    PROVE  BatchBytes(s) \in Nat
<1> DEFINE b == [i \in DOMAIN s |-> s[i].bytes]
<1>1. DOMAIN s = 1 .. Len(s) /\ Len(s) \in Nat /\ DOMAIN b = DOMAIN s
  BY LenProperties
<1>2. \A i \in DOMAIN s : b[i] \in Nat
  <2>1. \A i \in DOMAIN s : s[i] \in Framed
    BY <1>1, ElementOfSeq
  <2> QED
    BY <2>1 DEF Framed
<1>3. IsFiniteSet(DOMAIN s)
  BY <1>1, FS_Interval
<1> HIDE DEF b
<1>4. SumFunctionOnSet(b, DOMAIN s) \in Nat
  BY <1>2, <1>3, SumNat, Zenon
<1> QED
  BY <1>1, <1>4 DEF BatchBytes, SumFunction, b

LEMMA BatchBytesPrefix ==
    ASSUME NEW s \in Seq(Framed), NEW n \in 1 .. Len(s)
    PROVE  /\ BatchBytes(SubSeq(s, 1, n)) = BatchBytes(SubSeq(s, 1, n - 1)) + s[n].bytes
           /\ BatchBytes(SubSeq(s, 1, 0)) = 0
<1> DEFINE b == [i \in DOMAIN s |-> s[i].bytes]
<1>1. DOMAIN s = 1 .. Len(s) /\ Len(s) \in Nat /\ DOMAIN b = DOMAIN s
  BY LenProperties
<1>2. \A i \in DOMAIN s : b[i] \in Nat /\ b[i] = s[i].bytes
  <2>1. \A i \in DOMAIN s : s[i] \in Framed
    BY <1>1, ElementOfSeq
  <2> QED
    BY <2>1 DEF Framed
<1> HIDE DEF b
<1>3. ASSUME NEW k \in 0 .. Len(s)
      PROVE  BatchBytes(SubSeq(s, 1, k)) = SumFunctionOnSet(b, 1 .. k)
  <2> DEFINE t == SubSeq(s, 1, k)
             c == [i \in DOMAIN t |-> t[i].bytes]
  <2>1. DOMAIN t = 1 .. k /\ \A i \in 1 .. k : t[i] = s[i]
    BY <1>1
  <2>2. \A i \in 1 .. k : c[i] = b[i]
    BY <1>1, <1>2, <2>1
  <2>3. DOMAIN c = 1 .. k
    BY <2>1
  <2>4. IsFiniteSet(1 .. k)
    BY FS_Interval
  <2>5. BatchBytes(t) = SumFunctionOnSet(c, 1 .. k)
    BY <2>3, Zenon DEF BatchBytes, SumFunction
  <2> HIDE DEF c
  <2>6. SumFunctionOnSet(c, 1 .. k) = SumFunctionOnSet(b, 1 .. k)
    BY <2>2, <2>4, SumCongruence, Zenon
  <2> QED
    BY <2>5, <2>6, Zenon
<1>4. SumFunctionOnSet(b, 1 .. n) = b[n] + SumFunctionOnSet(b, 1 .. n - 1)
  <2>1. n \in Nat \ {0} /\ \A i \in 1 .. n : b[i] \in Int
    BY <1>1, <1>2
  <2> QED
    BY <2>1, SumLast, Zenon
<1>5. n \in 0 .. Len(s) /\ n - 1 \in 0 .. Len(s) /\ 0 \in 0 .. Len(s) /\ 1 .. 0 = {}
  BY <1>1
<1>6. SumFunctionOnSet(b, 1 .. 0) = 0
  BY <1>5, SumEmpty, Zenon
<1>7. BatchBytes(SubSeq(s, 1, 0)) = 0
  BY <1>3, <1>5, <1>6, Zenon
<1>8. SumFunctionOnSet(b, 1 .. n - 1) \in Nat
  <2>1. /\ IsFiniteSet(1 .. n - 1)
        /\ \A i \in 1 .. n - 1 : b[i] \in Nat
    <3>1. n - 1 \in Int /\ 1 \in Int
      BY <1>1
    <3>2. IsFiniteSet(1 .. n - 1)
      BY <3>1, FS_Interval, Zenon
    <3>3. 1 .. n - 1 \subseteq DOMAIN s
      BY <1>1
    <3> QED
      BY <1>2, <3>2, <3>3
  <2> QED
    BY <2>1, SumNat, Zenon
<1>9. /\ BatchBytes(SubSeq(s, 1, n)) = SumFunctionOnSet(b, 1 .. n)
      /\ BatchBytes(SubSeq(s, 1, n - 1)) = SumFunctionOnSet(b, 1 .. n - 1)
  BY <1>3, <1>5, Zenon
<1>10. b[n] = s[n].bytes /\ b[n] \in Nat
  BY <1>1, <1>2
<1> QED
  BY <1>4, <1>7, <1>8, <1>9, <1>10

LEMMA DataIsFramed == Seq(Data) \subseteq Seq(Framed) /\ Seq(Urgent) \subseteq Seq(Framed)
<1>1. ASSUME NEW f \in Data
      PROVE  f \in Framed
  <2>1. \A n \in FrameSizes : n \in Nat
    BY GateAssumption
  <2>2. f = [kind |-> f.kind, bytes |-> f.bytes, rx |-> f.rx]
    BY DEF Data
  <2>3. f.kind = "data" /\ f.bytes \in Nat /\ f.rx \in Nat
    <3>1. f.kind \in {"data"} /\ f.bytes \in FrameSizes /\ f.rx \in {0}
      BY Zenon DEF Data
    <3> QED
      BY <2>1, <3>1
  <2> QED
    BY <2>2, <2>3 DEF Framed
<1>2. Urgent \subseteq Framed
  BY GateAssumption DEF Urgent, Framed
<1>3. ASSUME NEW S, S \subseteq Framed, NEW s \in Seq(S)
      PROVE  s \in Seq(Framed)
  <2>1. Len(s) \in Nat /\ s \in [1 .. Len(s) -> S]
    BY LenProperties
  <2>2. s \in [1 .. Len(s) -> Framed]
    BY <1>3, <2>1
  <2> QED
    BY <2>1, <2>2, SeqDef
<1> QED
  BY <1>1, <1>2, <1>3

\* collectWriteBatch stops at the first frame that finds no credit left, or
\* when there is no more.
LEMMA CollectedLemma ==
    ASSUME GateShapes, NEW e \in Ends, NEW n \in Nat, NEW room \in Nat, n <= Len(out[e])
    PROVE  /\ Collected(e, n, room) \in n .. Len(out[e])
           /\ \A i \in n + 1 .. Collected(e, n, room) : Fits(e, SubSeq(out[e], 1, i - 1))
<1> DEFINE L == Least(Len(out[e]), n + room)
           End(nd) == nd = L \/ ~ Fits(e, SubSeq(out[e], 1, nd))
           Ok(nd) == (\A i \in n + 1 .. nd : Fits(e, SubSeq(out[e], 1, i - 1))) /\ End(nd)
           Stops == {nd \in n .. L : End(nd)}
           m == Min(Stops)
<1>1. Len(out[e]) \in Nat
  BY DEF GateShapes
<1>2. L \in Nat /\ n <= L /\ L <= Len(out[e])
  BY <1>1 DEF Least
<1> HIDE DEF L
<1>3. Stops \in SUBSET Nat /\ L \in Stops
  BY <1>2
<1>4. m \in Stops /\ \A y \in Stops : m <= y
  <2>1. Stops # {}
    BY <1>3
  <2> HIDE DEF Stops
  <2> QED
    BY <1>3, <2>1, MinOfNats
<1> HIDE DEF m
<1>5. m \in n .. L /\ End(m) /\ m \in Nat
  BY <1>2, <1>4
<1>6. ASSUME NEW i \in n + 1 .. m
      PROVE  Fits(e, SubSeq(out[e], 1, i - 1))
  <2>1. i - 1 \in n .. L /\ ~ (m <= i - 1)
    BY <1>2, <1>5
  <2>2. i - 1 \notin Stops
    <3> HIDE DEF Stops
    <3> QED
      BY <1>4, <2>1
  <2>3. ~ End(i - 1)
    BY <2>1, <2>2
  <2> QED
    BY <2>3
<1>7. \E nd \in n .. L : Ok(nd)
  BY <1>5, <1>6
<1>8. Collected(e, n, room) = CHOOSE nd \in n .. L : Ok(nd)
  BY DEF Collected, L
<1>9. Collected(e, n, room) \in n .. L /\ Ok(Collected(e, n, room))
  <2> HIDE DEF Ok
  <2> QED
    BY <1>7, <1>8
<1> QED
  BY <1>1, <1>2, <1>9

\* What is collected with credit left exceeds it by less than a frame.
LEMMA CollectedWithin ==
    ASSUME GateShapes, NEW e \in Ends, NEW n \in {0, 1}, NEW room \in Nat,
           n <= Len(out[e]), n = 1 => ~Shut(e)
    PROVE  LET d == BatchBytes(SubSeq(out[e], 1, Collected(e, n, room)))
           IN d \in Nat /\ (d > 0 => d < loop[e].credit + Max(FrameSizes))
<1> DEFINE k == Collected(e, n, room)
           d == BatchBytes(SubSeq(out[e], 1, k))
<1>1. n \in Nat
  OBVIOUS
<1>2. k \in n .. Len(out[e]) /\ \A i \in n + 1 .. k : Fits(e, SubSeq(out[e], 1, i - 1))
  BY <1>1, CollectedLemma
<1> HIDE DEF k
<1>3. out[e] \in Seq(Framed) /\ Len(out[e]) \in Nat /\ k \in Nat /\ out[e] \in Seq(Data)
  BY <1>1, <1>2, DataIsFramed DEF GateShapes
<1>4. SubSeq(out[e], 1, k) \in Seq(Framed)
  BY <1>2, <1>3
<1>5. d \in Nat
  BY <1>4, BatchBytesNat
<1>6. loop[e].credit \in Int
  BY DEF GateShapes
<1>7. CASE k = 0
  <2>1. SubSeq(out[e], 1, k) = <<>>
    BY <1>3, <1>7
  <2>2. d = 0
    <3> DEFINE b == [i \in DOMAIN <<>> |-> <<>>[i].bytes]
    <3>1. DOMAIN b = {}
      OBVIOUS
    <3>2. SumFunctionOnSet(b, {}) = 0
      BY SumEmpty
    <3>3. BatchBytes(<<>>) = SumFunctionOnSet(b, DOMAIN b)
      BY Zenon DEF BatchBytes, SumFunction
    <3> HIDE DEF b
    <3> QED
      BY <2>1, <3>1, <3>2, <3>3
  <2> HIDE DEF d
  <2> QED
    BY <1>5, <1>6, <2>2 DEF d, k
<1>8. CASE k # 0
  <2>1. k \in 1 .. Len(out[e])
    BY <1>2, <1>3, <1>8
  <2>2. d = BatchBytes(SubSeq(out[e], 1, k - 1)) + out[e][k].bytes
    BY <1>3, <2>1, BatchBytesPrefix
  <2>3. out[e][k].bytes \in Nat /\ out[e][k].bytes <= Max(FrameSizes)
    <3>1. out[e][k] \in Data
      BY <1>3, <2>1, ElementOfSeq
    <3>2. out[e][k].bytes \in FrameSizes
      BY <3>1 DEF Data
    <3> QED
      BY <3>2, LargestFrame, GateAssumption
  <2>4. BatchBytes(SubSeq(out[e], 1, k - 1)) < loop[e].credit
    <3>1. CASE n = 1 /\ k = 1
      <4>1. BatchBytes(SubSeq(out[e], 1, 0)) = 0
        BY <1>3, <2>1, BatchBytesPrefix
      <4>2. k - 1 = 0
        BY <3>1
      <4>3. loop[e].credit > 0
        BY <3>1, <1>6 DEF Shut
      <4> QED
        BY <4>1, <4>2, <4>3
    <3>2. CASE ~ (n = 1 /\ k = 1)
      <4>1. k \in n + 1 .. k
        BY <1>2, <1>3, <1>8, <3>2
      <4> QED
        BY <1>2, <4>1 DEF Fits
    <3> QED
      BY <3>1, <3>2
  <2>5. SubSeq(out[e], 1, k - 1) \in Seq(Framed)
    BY <1>3, <2>1
  <2>6. BatchBytes(SubSeq(out[e], 1, k - 1)) \in Nat
    BY <2>5, BatchBytesNat
  <2> HIDE DEF d
  <2>7. d < loop[e].credit + Max(FrameSizes)
    BY <1>6, <2>2, <2>3, <2>4, <2>6, LargestFrame
  <2> QED
    BY <1>5, <2>7 DEF d, k
<1> QED
  BY <1>7, <1>8, <1>3

LEMMA UnlimitedInt == Unlimited \in Int
<1>1. MaxFrames \in Int /\ Max(FrameSizes) \in Int
  BY LargestFrame, GateAssumption
<1>2. MaxFrames * Max(FrameSizes) \in Int
  <2> DEFINE m == Max(FrameSizes)
  <2> HIDE DEF m
  <2> QED
    BY <1>1 DEF m
<1> QED
  BY <1>2 DEF Unlimited

LEMMA GateInitInv == GateInit => GateInv
<1> SUFFICES ASSUME GateInit PROVE GateInv
  OBVIOUS
<1> USE GateAssumption, UnlimitedInt, LargestFrame
<1>1. GateShapes
  BY DEF GateInit, GateShapes, Waiting
<1>2. ReportsTrue /\ BacklogSound
  <2>1. \A e \in Ends : Other(e) \in Ends
    BY EndsLemma
  <2> QED
    BY <2>1 DEF GateInit, ReportsTrue, BacklogSound
<1>3. CreditHolds /\ DataWithin
  BY DEF GateInit, CreditHolds, DataWithin, Waiting
<1> QED
  BY <1>1, <1>2, <1>3 DEF GateInv

\* The bound on what an end queues is not overdrawn.
LEMMA PendingShrinks ==
    ASSUME GateInv, NEW e \in Ends, pending[e] > 0, pending' = [pending EXCEPT ![e] = @ - 1]
    PROVE  pending' \in [Ends -> 0 .. MaxFrames]
<1>1. MaxFrames \in Nat
  BY GateAssumption
<1>2. pending[e] \in 0 .. MaxFrames /\ pending \in [Ends -> 0 .. MaxFrames]
  BY DEF GateInv, GateShapes
<1>3. pending[e] - 1 \in 0 .. MaxFrames
  BY <1>1, <1>2
<1> QED
  BY <1>2, <1>3

LEMMA QueueDataKeeps ==
    ASSUME GateInv, NEW e \in Ends, NEW n \in FrameSizes, QueueData(e, n)
    PROVE  GateInv'
<1>1. GateShapes'
  <2>1. Frame("data", n, 0) \in Data
    BY DEF Frame, Data
  <2>2. out[e] \in Seq(Data)
    BY DEF GateInv, GateShapes
  <2>3. Append(out[e], Frame("data", n, 0)) \in Seq(Data)
    BY <2>1, <2>2
  <2>4. out' \in [Ends -> Seq(Data)]
    BY <2>3 DEF GateInv, GateShapes, QueueData
  <2>5. pending' \in [Ends -> 0 .. MaxFrames]
    BY PendingShrinks DEF QueueData
  <2> QED
    BY <2>4, <2>5 DEF GateInv, GateShapes, QueueData, flowVars, rxVars
<1> QED
  BY <1>1 DEF GateInv, QueueData, flowVars, rxVars, ReportsTrue, BacklogSound, CreditHolds, DataWithin, Inflight

\* A control frame that claims no more than was received keeps the reports true.
LEMMA QueueControlKeeps ==
    ASSUME GateInv, NEW e \in Ends, NEW k \in {"ping", "ack", "gossip"}, NEW v \in Nat, v <= rx[e],
           QueueControl(e, k, v), rx' = rx, link' = link
    PROVE  /\ urgent' \in [Ends -> Seq(Urgent)] /\ ctrlLeft' \in [Ends -> 0 .. MaxCtrl]
           /\ \A d \in Ends : Len(urgent'[d]) <= CtrlDepth
           /\ ReportsTrue'
<1> DEFINE f == Frame(k, CtrlBytes, v)
           s == urgent[e]
<1>1. f \in Urgent /\ f.rx = v
  BY DEF Frame, Urgent
<1>2. s \in Seq(Urgent) /\ Len(s) \in Nat /\ Len(s) <= CtrlDepth
  BY DEF GateInv, GateShapes
<1>3. urgent' = [urgent EXCEPT ![e] = IF Len(s) < CtrlDepth THEN Append(s, f) ELSE s]
  BY DEF QueueControl, GateInv, GateShapes
<1>4. ctrlLeft' \in [Ends -> 0 .. MaxCtrl]
  <2>1. CtrlBytes \in Nat /\ MaxCtrl \in Nat
    BY GateAssumption
  <2>2. ctrlLeft[e] \in 0 .. MaxCtrl /\ ctrlLeft \in [Ends -> 0 .. MaxCtrl]
    BY DEF GateInv, GateShapes
  <2>3. ctrlLeft' = [ctrlLeft EXCEPT ![e] = @ - CtrlBytes] /\ ctrlLeft[e] >= CtrlBytes
    BY DEF QueueControl
  <2>4. ctrlLeft[e] - CtrlBytes \in 0 .. MaxCtrl
    BY <2>1, <2>2, <2>3
  <2> QED
    BY <2>2, <2>3, <2>4
<1> HIDE DEF f
<1>5. /\ Append(s, f) \in Seq(Urgent) /\ Len(Append(s, f)) = Len(s) + 1
      /\ \A i \in 1 .. Len(s) : Append(s, f)[i] = s[i]
      /\ Append(s, f)[Len(s) + 1] = f
  BY <1>1, <1>2
<1>6. urgent' \in [Ends -> Seq(Urgent)]
  BY <1>2, <1>3, <1>5 DEF GateInv, GateShapes
<1>7. urgent'[e] = IF Len(s) < CtrlDepth THEN Append(s, f) ELSE s
  BY <1>3 DEF GateInv, GateShapes
<1>8. \A d \in Ends \ {e} : urgent'[d] = urgent[d]
  BY <1>3 DEF GateInv, GateShapes
<1>9. \A i \in 1 .. Len(urgent'[e]) : urgent'[e][i].rx <= rx[e]
  <2>1. \A i \in 1 .. Len(s) : s[i].rx <= rx[e]
    BY DEF GateInv, ReportsTrue
  <2>2. CASE Len(s) < CtrlDepth
    <3> SUFFICES ASSUME NEW i \in 1 .. Len(s) + 1
                 PROVE  Append(s, f)[i].rx <= rx[e]
      BY <1>5, <1>7, <2>2
    <3>1. CASE i = Len(s) + 1
      BY <1>1, <1>5, <3>1
    <3>2. CASE i # Len(s) + 1
      <4>1. i \in 1 .. Len(s)
        BY <1>2, <3>2
      <4> QED
        BY <1>5, <2>1, <4>1
    <3> QED
      BY <3>1, <3>2
  <2>3. CASE ~ (Len(s) < CtrlDepth)
    BY <1>7, <2>1, <2>3
  <2> QED
    BY <2>2, <2>3
<1>10. Len(urgent'[e]) <= CtrlDepth
  BY <1>2, <1>5, <1>7, GateAssumption
<1>11. \A d \in Ends : Len(urgent'[d]) <= CtrlDepth
  BY <1>8, <1>10 DEF GateInv, GateShapes
<1>12. ReportsTrue'
  BY <1>8, <1>9 DEF GateInv, ReportsTrue
<1> QED
  BY <1>4, <1>6, <1>11, <1>12

LEMMA QueueUrgentKeeps ==
    ASSUME GateInv, NEW e \in Ends, QueueUrgent(e)
    PROVE  GateInv'
<1>1. 0 \in Nat /\ 0 <= rx[e] /\ "ping" \in {"ping", "ack", "gossip"}
  BY DEF GateInv, GateShapes
<1>2. QueueControl(e, "ping", 0) /\ rx' = rx /\ link' = link
  BY DEF QueueUrgent, rxVars
<1>3. /\ urgent' \in [Ends -> Seq(Urgent)] /\ ctrlLeft' \in [Ends -> 0 .. MaxCtrl]
      /\ \A d \in Ends : Len(urgent'[d]) <= CtrlDepth
      /\ ReportsTrue'
  BY <1>1, <1>2, QueueControlKeeps
<1>4. pending' \in [Ends -> 0 .. MaxFrames]
  BY PendingShrinks DEF QueueUrgent
<1> QED
  BY <1>3, <1>4 DEF GateInv, GateShapes, QueueUrgent, flowVars, rxVars, BacklogSound, CreditHolds, DataWithin, Inflight

LEMMA GossipKeeps ==
    ASSUME GateInv, NEW e \in Ends, Gossip(e)
    PROVE  GateInv'
<1>1. GossipRx(e) \in Nat /\ GossipRx(e) <= rx[e] /\ "gossip" \in {"ping", "ack", "gossip"}
  BY DEF GateInv, GateShapes, GossipRx
<1>2. QueueControl(e, "gossip", GossipRx(e)) /\ rx' = rx /\ link' = link
  BY DEF Gossip, rxVars
<1>3. /\ urgent' \in [Ends -> Seq(Urgent)] /\ ctrlLeft' \in [Ends -> 0 .. MaxCtrl]
      /\ \A d \in Ends : Len(urgent'[d]) <= CtrlDepth
      /\ ReportsTrue'
  BY <1>1, <1>2, QueueControlKeeps
<1> QED
  BY <1>3 DEF GateInv, GateShapes, Gossip, flowVars, rxVars, BacklogSound, CreditHolds, DataWithin, Inflight

\* The credit is read: as much as the cap, which is not above CapMax, leaves.
LEMMA CreditRead ==
    ASSUME GateInv, NEW e \in Ends
    PROVE  /\ Inflight(e) \in Int /\ WriteCredit(e) \in Int
           /\ WriteCredit(e) = Unlimited \/ WriteCredit(e) + Inflight(e) <= CapMax
<1>1. tx[e] \in Nat /\ acked[e] \in Nat /\ cap[e] \in CapMin .. CapMax
  BY DEF GateInv, GateShapes
<1>2. CapMin \in Nat /\ CapMax \in Nat /\ Unlimited \in Int
  BY GateAssumption, UnlimitedInt
<1> QED
  BY <1>1, <1>2 DEF WriteCredit, Inflight

\* The write loop's record is replaced.
LEMMA LoopSet ==
    ASSUME GateInv, NEW e \in Ends, NEW p \in {"wait", "count"}, NEW c \in Int, NEW d \in Nat, NEW b \in Nat,
           loop' = [loop EXCEPT ![e] = [pc |-> p, credit |-> c, data |-> d, bytes |-> b]]
    PROVE  /\ loop' \in [Ends -> [pc : {"wait", "count"}, credit : Int, data : Nat, bytes : Nat]]
           /\ loop'[e].credit = c /\ loop'[e].data = d
           /\ \A x \in Ends \ {e} : loop'[x] = loop[x]
<1> DEFINE T == [pc : {"wait", "count"}, credit : Int, data : Nat, bytes : Nat]
           r == [pc |-> p, credit |-> c, data |-> d, bytes |-> b]
<1>1. r \in T /\ r.credit = c /\ r.data = d
  OBVIOUS
<1>2. loop \in [Ends -> T]
  BY DEF GateInv, GateShapes
<1> HIDE DEF T, r
<1>3. loop' = [loop EXCEPT ![e] = r]
  BY DEF r
<1>4. loop' \in [Ends -> T] /\ loop'[e] = r /\ \A x \in Ends \ {e} : loop'[x] = loop[x]
  BY <1>1, <1>2, <1>3
<1> QED
  BY <1>1, <1>4 DEF T

LEMMA WakeOpenKeeps ==
    ASSUME GateInv, NEW e \in Ends, WakeOpen(e)
    PROVE  GateInv'
<1> DEFINE c == WriteCredit(e)
<1>1. c \in Int /\ (c = Unlimited \/ c + Inflight(e) <= CapMax)
  BY CreditRead
<1> HIDE DEF c
<1>2. loop' = [loop EXCEPT ![e] = [pc |-> "wait", credit |-> c, data |-> 0, bytes |-> 0]]
  BY DEF WakeOpen, Waiting, c
<1>0. /\ loop' \in [Ends -> [pc : {"wait", "count"}, credit : Int, data : Nat, bytes : Nat]]
      /\ loop'[e].credit = c /\ loop'[e].data = 0
      /\ \A x \in Ends \ {e} : loop'[x] = loop[x]
  <2>1. 0 \in Nat /\ "wait" \in {"wait", "count"}
    OBVIOUS
  <2> QED
    BY <1>1, <1>2, <2>1, LoopSet
<1>3. GateShapes'
  <2>1. wake' \in [Ends -> BOOLEAN]
    BY DEF GateInv, GateShapes, WakeOpen
  <2> QED
    BY <1>0, <2>1 DEF GateInv, GateShapes, WakeOpen, queueVars, flowVars, rxVars
<1>4. CreditHolds' /\ DataWithin'
  <2>1. tx' = tx /\ acked' = acked
    BY DEF WakeOpen, flowVars
  <2>2. ASSUME NEW d \in Ends
        PROVE  /\ loop'[d].credit = Unlimited \/ loop'[d].credit + (tx[d] - acked[d]) <= CapMax
               /\ loop'[d].data > 0 => loop'[d].data < loop'[d].credit + Max(FrameSizes)
    <3>1. CASE d = e
      BY <1>0, <1>1, <3>1 DEF Inflight
    <3>2. CASE d # e
      BY <1>0, <3>2 DEF GateInv, CreditHolds, DataWithin, Inflight
    <3> QED
      BY <3>1, <3>2
  <2> QED
    BY <2>1, <2>2 DEF CreditHolds, DataWithin, Inflight
<1> QED
  BY <1>3, <1>4 DEF GateInv, WakeOpen, queueVars, flowVars, rxVars, ReportsTrue, BacklogSound

\* A batch goes onto the link: what the control frames in it claim is true, and
\* the data in it is within the credit but for a part of its last frame.
LEMMA WriteKeeps ==
    ASSUME GateInv, NEW e \in Ends, NEW head \in Seq(Framed), \A i \in 1 .. Len(head) : head[i].rx = 0,
           NEW nu \in 0 .. Len(urgent[e]), NEW nd \in 0 .. Len(out[e]),
           BatchBytes(SubSeq(out[e], 1, nd)) > 0 =>
               BatchBytes(SubSeq(out[e], 1, nd)) < loop[e].credit + Max(FrameSizes),
           Write(e, head, nu, nd), wake' \in [Ends -> BOOLEAN],
           UNCHANGED <<pending, ctrlLeft, tx, flowVars, rxVars>>
    PROVE  GateInv'
<1> DEFINE u     == SubSeq(urgent[e], 1, nu)
           data  == SubSeq(out[e], 1, nd)
           batch == head \o u \o data
           rest  == SubSeq(urgent[e], nu + 1, Len(urgent[e]))
           more  == SubSeq(out[e], nd + 1, Len(out[e]))
<1>1. /\ urgent[e] \in Seq(Urgent) /\ out[e] \in Seq(Data) /\ link[e] \in Seq(Framed)
      /\ Len(urgent[e]) \in Nat /\ Len(out[e]) \in Nat /\ nu \in Nat /\ nd \in Nat /\ rx[e] \in Nat
      /\ Len(urgent[e]) <= CtrlDepth /\ CtrlDepth \in Nat
  <2>1. /\ urgent[e] \in Seq(Urgent) /\ out[e] \in Seq(Data) /\ link[e] \in Seq(Framed)
        /\ rx[e] \in Nat /\ Len(urgent[e]) <= CtrlDepth
    BY DEF GateInv, GateShapes
  <2>2. CtrlDepth \in Nat
    BY GateAssumption
  <2>3. Len(urgent[e]) \in Nat /\ Len(out[e]) \in Nat
    BY <2>1
  <2> QED
    BY <2>1, <2>2, <2>3
<1>2. /\ u \in Seq(Urgent) /\ Len(u) = nu /\ \A i \in 1 .. nu : u[i] = urgent[e][i]
  BY <1>1
<1>3. /\ data \in Seq(Data) /\ Len(data) = nd /\ \A i \in 1 .. nd : data[i] = out[e][i]
  BY <1>1
<1>4. /\ rest \in Seq(Urgent) /\ Len(rest) = Len(urgent[e]) - nu
      /\ \A i \in 1 .. Len(urgent[e]) - nu : rest[i] = urgent[e][nu + i]
  BY <1>1
<1>5. more \in Seq(Data)
  BY <1>1
<1>6. u \in Seq(Framed) /\ data \in Seq(Framed)
  BY <1>2, <1>3, DataIsFramed
<1>7. \A i \in 1 .. Len(urgent[e]) : urgent[e][i].rx <= rx[e]
  BY DEF GateInv, ReportsTrue
<1>8. \A i \in 1 .. Len(link[e]) : link[e][i].rx <= rx[e]
  BY DEF GateInv, ReportsTrue
<1>9. \A i \in 1 .. nu : u[i].rx <= rx[e]
  BY <1>1, <1>2, <1>7
<1>10. \A i \in 1 .. nd : data[i].rx <= rx[e]
  <2> TAKE i \in 1 .. nd
  <2>1. data[i] \in Data
    BY <1>3, ElementOfSeq
  <2>2. data[i].rx = 0
    BY <2>1 DEF Data
  <2> QED
    BY <1>1, <2>2
<1>11. /\ link' = [link EXCEPT ![e] = @ \o batch]
       /\ urgent' = [urgent EXCEPT ![e] = rest] /\ out' = [out EXCEPT ![e] = more]
       /\ loop' = [loop EXCEPT ![e] = [pc |-> "count", credit |-> @.credit,
                                       data |-> BatchBytes(data), bytes |-> BatchBytes(batch)]]
  BY DEF Write
<1> HIDE DEF u, data, rest, more
<1>12. batch \in Seq(Framed) /\ Len(batch) \in Nat /\ \A i \in 1 .. Len(batch) : batch[i].rx <= rx[e]
  <2> DEFINE h == head \o u
  <2>1. Len(head) \in Nat /\ \A i \in 1 .. Len(head) : head[i].rx <= rx[e]
    BY <1>1
  <2>2. h \in Seq(Framed) /\ Len(h) = Len(head) + nu
    BY <1>2, <1>6, ConcatProperties
  <2>3. \A i \in 1 .. Len(h) : h[i].rx <= rx[e]
    <3> TAKE i \in 1 .. Len(h)
    <3>1. CASE i <= Len(head)
      <4>1. h[i] = head[i] /\ i \in 1 .. Len(head)
        BY <1>6, <2>1, <2>2, <3>1
      <4> QED
        BY <2>1, <4>1
    <3>2. CASE i > Len(head)
      <4>1. h[i] = u[i - Len(head)] /\ i - Len(head) \in 1 .. nu
        BY <1>2, <1>6, <1>1, <2>1, <2>2, <3>2
      <4> QED
        BY <1>9, <4>1
    <3> QED
      BY <2>1, <2>2, <3>1, <3>2
  <2> HIDE DEF h
  <2>4. batch = h \o data
    BY DEF h
  <2>5. batch \in Seq(Framed) /\ Len(batch) = Len(h) + nd /\ Len(h) \in Nat
    BY <1>3, <1>6, <2>2, <2>4, ConcatProperties, LenProperties
  <2>6. ASSUME NEW i \in 1 .. Len(batch)
        PROVE  batch[i].rx <= rx[e]
    <3>1. CASE i <= Len(h)
      <4>1. batch[i] = h[i] /\ i \in 1 .. Len(h)
        BY <1>6, <2>2, <2>4, <2>5, <3>1
      <4> QED
        BY <2>3, <4>1
    <3>2. CASE i > Len(h)
      <4>0. i - Len(h) \in 1 .. nd
        BY <1>1, <2>5, <3>2
      <4>1. batch[i] = data[i - Len(h)]
        <5>1. i \in 1 .. Len(h) + Len(data) /\ ~ (i <= Len(h))
          BY <1>1, <1>3, <2>5, <3>2
        <5> HIDE DEF batch
        <5> QED
          BY <1>6, <2>2, <2>4, <5>1, ConcatProperties
      <4> QED
        BY <1>10, <4>0, <4>1
    <3> QED
      BY <2>5, <3>1, <3>2
  <2>7. Len(batch) \in Nat
    BY <2>5, LenProperties
  <2> HIDE DEF batch
  <2> QED
    BY <2>5, <2>6, <2>7
<1> HIDE DEF batch
<1>13. link' \in [Ends -> Seq(Framed)] /\ link'[e] = link[e] \o batch
  <2>1. link[e] \o batch \in Seq(Framed)
    BY <1>1, <1>12
  <2> QED
    BY <1>11, <2>1 DEF GateInv, GateShapes
<1>14. \A i \in 1 .. Len(link'[e]) : link'[e][i].rx <= rx[e]
  <2> DEFINE l == link[e]
  <2> SUFFICES ASSUME NEW i \in 1 .. Len(l \o batch)
               PROVE  (l \o batch)[i].rx <= rx[e]
    BY <1>13
  <2>1. Len(l) \in Nat /\ Len(l \o batch) = Len(l) + Len(batch)
    BY <1>1, <1>12
  <2>2. CASE i <= Len(l)
    <3>1. (l \o batch)[i] = l[i] /\ i \in 1 .. Len(l)
      BY <1>1, <1>12, <2>1, <2>2
    <3> QED
      BY <1>8, <3>1
  <2>3. CASE i > Len(l)
    <3>1. (l \o batch)[i] = batch[i - Len(l)] /\ i - Len(l) \in 1 .. Len(batch)
      BY <1>1, <1>12, <2>1, <2>3
    <3> QED
      BY <1>12, <3>1
  <2> QED
    BY <2>1, <2>2, <2>3
<1>15. \A i \in 1 .. Len(rest) : rest[i].rx <= rx[e]
  <2> TAKE i \in 1 .. Len(rest)
  <2>1. rest[i] = urgent[e][nu + i] /\ nu + i \in 1 .. Len(urgent[e])
    BY <1>1, <1>4
  <2> QED
    BY <1>7, <2>1
<1>16. ReportsTrue'
  <2>1. rx' = rx
    BY DEF rxVars
  <2>2. urgent'[e] = rest /\ \A d \in Ends \ {e} : urgent'[d] = urgent[d] /\ link'[d] = link[d]
    BY <1>11 DEF GateInv, GateShapes
  <2> QED
    BY <1>14, <1>15, <2>1, <2>2 DEF GateInv, ReportsTrue
<1>17. BatchBytes(data) \in Nat /\ BatchBytes(batch) \in Nat
  BY <1>6, <1>12, BatchBytesNat
<1>18. /\ loop' \in [Ends -> [pc : {"wait", "count"}, credit : Int, data : Nat, bytes : Nat]]
       /\ loop'[e].credit = loop[e].credit /\ loop'[e].data = BatchBytes(data)
       /\ \A d \in Ends \ {e} : loop'[d] = loop[d]
  <2> DEFINE c == loop[e].credit
             d == BatchBytes(data)
             b == BatchBytes(batch)
  <2>1. c \in Int /\ d \in Nat /\ b \in Nat /\ "count" \in {"wait", "count"}
    BY <1>17 DEF GateInv, GateShapes
  <2>2. loop' = [loop EXCEPT ![e] = [pc |-> "count", credit |-> c, data |-> d, bytes |-> b]]
    BY <1>11
  <2> HIDE DEF c, d, b
  <2>3. /\ loop' \in [Ends -> [pc : {"wait", "count"}, credit : Int, data : Nat, bytes : Nat]]
        /\ loop'[e].credit = c /\ loop'[e].data = d
        /\ \A x \in Ends \ {e} : loop'[x] = loop[x]
    BY <2>1, <2>2, LoopSet
  <2> QED
    BY <2>3 DEF c, d
<1>19. GateShapes'
  <2>1. urgent' \in [Ends -> Seq(Urgent)] /\ out' \in [Ends -> Seq(Data)]
    BY <1>4, <1>5, <1>11 DEF GateInv, GateShapes
  <2>2. \A d \in Ends : Len(urgent'[d]) <= CtrlDepth
    <3> TAKE d \in Ends
    <3>1. CASE d = e
      <4>1. urgent'[d] = rest
        BY <1>11, <3>1 DEF GateInv, GateShapes
      <4> QED
        BY <1>1, <1>4, <4>1
    <3>2. CASE d # e
      BY <1>11, <3>2 DEF GateInv, GateShapes
    <3> QED
      BY <3>1, <3>2
  <2> QED
    BY <1>13, <1>18, <2>1, <2>2 DEF GateInv, GateShapes, flowVars, rxVars
<1>20. CreditHolds' /\ DataWithin'
  <2>1. tx' = tx /\ acked' = acked
    BY DEF flowVars
  <2>2. CreditHolds'
    <3> SUFFICES ASSUME NEW d \in Ends
                 PROVE  loop'[d].credit = Unlimited \/ loop'[d].credit + (tx[d] - acked[d]) <= CapMax
      BY <2>1 DEF CreditHolds, Inflight
    <3> QED
      BY <1>18 DEF GateInv, CreditHolds, Inflight
  <2>3. DataWithin'
    <3> SUFFICES ASSUME NEW d \in Ends, loop'[d].data > 0
                 PROVE  loop'[d].data < loop'[d].credit + Max(FrameSizes)
      BY DEF DataWithin
    <3>1. CASE d = e
      BY <1>18, <3>1 DEF data
    <3>2. CASE d # e
      BY <1>18, <3>2 DEF GateInv, DataWithin
    <3> QED
      BY <3>1, <3>2
  <2> QED
    BY <2>2, <2>3
<1> QED
  BY <1>16, <1>19, <1>20 DEF GateInv, BacklogSound, flowVars, rxVars

LEMMA WriteBatchKeeps ==
    ASSUME GateInv, NEW e \in Ends, WriteBatch(e)
    PROVE  GateInv'
<1>1. GateShapes /\ wake' = wake /\ wake \in [Ends -> BOOLEAN]
  BY DEF GateInv, GateShapes, WriteBatch
<1>2. UNCHANGED <<pending, ctrlLeft, tx, flowVars, rxVars>>
  BY DEF WriteBatch
<1>3. GateBatch \in Nat /\ GateBatch > 0
  BY GateAssumption
<1>4. urgent[e] \in Seq(Urgent) /\ Len(urgent[e]) \in Nat /\ out[e] \in Seq(Data) /\ Len(out[e]) \in Nat
  BY <1>1 DEF GateShapes
<1>5. <<>> \in Seq(Framed) /\ \A i \in 1 .. Len(<<>>) : <<>>[i].rx = 0
  OBVIOUS
<1>6. ASSUME NEW n \in {0, 1}, NEW nu, nu = Least(Len(urgent[e]), GateBatch - n), n <= Len(out[e]), n = 1 => ~Shut(e),
             Write(e, <<>>, nu, Collected(e, n, GateBatch - nu - n))
      PROVE  GateInv'
  <2> DEFINE room == GateBatch - nu - n
             nd == Collected(e, n, room)
  <2>1. nu \in 0 .. Len(urgent[e]) /\ room \in Nat /\ n \in Nat
    <3> DEFINE l == Len(urgent[e])
    <3>1. l \in Nat /\ n \in Nat /\ n <= 1 /\ nu = Least(l, GateBatch - n)
      BY <1>4, <1>6
    <3> HIDE DEF l
    <3>2. nu \in 0 .. l /\ room \in Nat
      BY <1>3, <3>1 DEF Least
    <3> QED
      BY <3>1, <3>2 DEF l
  <2> HIDE DEF room
  <2>2. nd \in n .. Len(out[e])
    BY <1>1, <1>6, <2>1, CollectedLemma
  <2>3. nd \in 0 .. Len(out[e])
    BY <1>4, <2>1, <2>2
  <2>4. BatchBytes(SubSeq(out[e], 1, nd)) > 0 =>
            BatchBytes(SubSeq(out[e], 1, nd)) < loop[e].credit + Max(FrameSizes)
    BY <1>1, <1>6, <2>1, CollectedWithin
  <2>5. Write(e, <<>>, nu, nd)
    BY <1>6 DEF room
  <2> HIDE DEF nd
  <2> QED
    BY <1>1, <1>2, <1>5, <2>1, <2>3, <2>4, <2>5, WriteKeeps
<1>7. CASE /\ ~Shut(e) /\ out[e] # <<>>
           /\ Write(e, <<>>, Least(Len(urgent[e]), GateBatch - 1),
                    Collected(e, 1, GateBatch - Least(Len(urgent[e]), GateBatch - 1) - 1))
  <2>1. 1 <= Len(out[e]) /\ 1 \in {0, 1}
    BY <1>4, <1>7
  <2> QED
    BY <1>6, <1>7, <2>1
<1>8. CASE /\ urgent[e] # <<>>
           /\ Write(e, <<>>, Least(Len(urgent[e]), GateBatch - 0),
                    Collected(e, 0, GateBatch - Least(Len(urgent[e]), GateBatch - 0) - 0))
  <2>1. 0 <= Len(out[e]) /\ 0 \in {0, 1} /\ ~ (0 = 1)
    BY <1>4
  <2> QED
    BY <1>6, <1>8, <2>1
<1> QED
  BY <1>7, <1>8 DEF WriteBatch

LEMMA WakeShutKeeps ==
    ASSUME GateInv, NEW e \in Ends, WakeShut(e)
    PROVE  GateInv'
<1> DEFINE nu == Least(Len(urgent[e]), GateBatch - 1)
           room == GateBatch - nu - 1
           nd == Collected(e, 0, room)
<1>1. GateShapes /\ wake' \in [Ends -> BOOLEAN]
  BY DEF GateInv, GateShapes, WakeShut
<1>2. UNCHANGED <<pending, ctrlLeft, tx, flowVars, rxVars>>
  BY DEF WakeShut
<1>3. GateBatch \in Nat /\ GateBatch > 0
  BY GateAssumption
<1>4. Len(urgent[e]) \in Nat /\ Len(out[e]) \in Nat
  BY <1>1 DEF GateShapes
<1>5. nu \in 0 .. Len(urgent[e]) /\ room \in Nat /\ 0 \in Nat /\ 0 <= Len(out[e])
  BY <1>3, <1>4 DEF Least
<1>6. <<Empty>> \in Seq(Framed) /\ \A i \in 1 .. Len(<<Empty>>) : <<Empty>>[i].rx = 0
  <2>1. Empty \in Framed /\ Empty.rx = 0
    BY DEF Empty, Frame, Framed
  <2> QED
    BY <2>1
<1>7. Write(e, <<Empty>>, nu, nd)
  BY DEF WakeShut
<1> HIDE DEF nu, room
<1>8. nd \in 0 .. Len(out[e])
  BY <1>1, <1>5, CollectedLemma
<1>9. BatchBytes(SubSeq(out[e], 1, nd)) > 0 =>
          BatchBytes(SubSeq(out[e], 1, nd)) < loop[e].credit + Max(FrameSizes)
  <2>1. 0 \in {0, 1} /\ ~ (0 = 1)
    OBVIOUS
  <2> QED
    BY <1>1, <1>5, <2>1, CollectedWithin
<1> HIDE DEF nd
<1> QED
  BY <1>1, <1>2, <1>5, <1>6, <1>7, <1>8, <1>9, WriteKeeps

LEMMA CountKeeps ==
    ASSUME GateInv, NEW e \in Ends, Count(e)
    PROVE  GateInv'
<1> DEFINE c == WriteCredit(e)'
           b == loop[e].bytes
<1>1. /\ tx' = [tx EXCEPT ![e] = @ + b] /\ acked' = acked /\ cap' = cap /\ gated' = gated
      /\ loop' = [loop EXCEPT ![e] = [pc |-> "wait", credit |-> c, data |-> 0, bytes |-> 0]]
  BY DEF Count, flowVars, Waiting
<1>2. b \in Nat /\ tx \in [Ends -> Nat] /\ acked[e] \in Nat /\ cap[e] \in CapMin .. CapMax
  BY DEF GateInv, GateShapes
<1>3. tx' \in [Ends -> Nat] /\ tx'[e] = tx[e] + b /\ \A d \in Ends \ {e} : tx'[d] = tx[d]
  <2> HIDE DEF b
  <2> QED
    BY <1>1, <1>2
<1>4. c \in Int /\ (c = Unlimited \/ c + (tx'[e] - acked[e]) <= CapMax)
  <2>1. c = IF gated[e] THEN cap[e] - (tx'[e] - acked[e]) ELSE Unlimited
    BY <1>1 DEF WriteCredit, Inflight, Unlimited
  <2>2. CapMin \in Nat /\ CapMax \in Nat /\ Unlimited \in Int /\ tx'[e] \in Nat
    BY <1>3, GateAssumption, UnlimitedInt
  <2> HIDE DEF c
  <2> QED
    BY <1>2, <2>1, <2>2
<1> HIDE DEF c, b
<1>5. /\ loop' \in [Ends -> [pc : {"wait", "count"}, credit : Int, data : Nat, bytes : Nat]]
      /\ loop'[e].credit = c /\ loop'[e].data = 0
      /\ \A x \in Ends \ {e} : loop'[x] = loop[x]
  <2>1. 0 \in Nat /\ "wait" \in {"wait", "count"}
    OBVIOUS
  <2> QED
    BY <1>1, <1>4, <2>1, LoopSet
<1>6. GateShapes'
  BY <1>3, <1>5 DEF GateInv, GateShapes, Count, queueVars, flowVars, rxVars
<1>7. ReportsTrue'
  BY DEF GateInv, ReportsTrue, Count, queueVars, rxVars
<1>8. CreditHolds' /\ DataWithin'
  <2>1. ASSUME NEW d \in Ends
        PROVE  /\ loop'[d].credit = Unlimited \/ loop'[d].credit + (tx'[d] - acked[d]) <= CapMax
               /\ loop'[d].data > 0 => loop'[d].data < loop'[d].credit + Max(FrameSizes)
    <3>1. CASE d = e
      BY <1>4, <1>5, <3>1
    <3>2. CASE d # e
      BY <1>3, <1>5, <3>2 DEF GateInv, CreditHolds, DataWithin, Inflight
    <3> QED
      BY <3>1, <3>2
  <2> QED
    BY <1>1, <2>1 DEF CreditHolds, DataWithin, Inflight
<1>9. BacklogSound'
  <2>1. rx' = rx
    BY DEF Count, rxVars
  <2> SUFFICES ASSUME NEW d \in Ends
               PROVE  acked[d] <= tx'[d] /\ acked[d] <= rx[Other(d)]
    BY <1>1, <2>1 DEF BacklogSound
  <2>2. acked[d] <= tx[d] /\ acked[d] <= rx[Other(d)] /\ acked[d] \in Nat /\ tx[d] \in Nat
    BY DEF GateInv, BacklogSound, GateShapes
  <2> QED
    BY <1>2, <1>3, <2>2
<1> QED
  BY <1>6, <1>7, <1>8, <1>9 DEF GateInv

\* A report is believed up to what was sent, and is true of the other end.
LEMMA RecvKeeps ==
    ASSUME GateInv, NEW e \in Ends, Recv(e)
    PROVE  GateInv'
<1> DEFINE o == Other(e)
           f == Head(link[o])
<1>1. o \in Ends /\ o # e /\ Other(o) = e /\ \A d \in Ends : d = e \/ d = o
  BY EndsLemma
<1> HIDE DEF o
<1>2. /\ link[o] \in Seq(Framed) /\ link[o] # <<>>
      /\ link' = [link EXCEPT ![o] = Tail(@)]
      /\ rx' = [rx EXCEPT ![e] = @ + f.bytes]
      /\ IF f.kind = "ack" \/ FoldsGossip(f) THEN OnAck(e, f.rx) ELSE UNCHANGED <<acked, gated>>
      /\ wants' = [wants EXCEPT ![e] = @ \/ f.kind = "gossip"]
      /\ wake' = [wake EXCEPT ![e] = @ \/ f.kind \in {"ack", "gossip"}]
      /\ UNCHANGED <<queueVars, loop, tx, cap, warned, reported>>
  BY <1>1 DEF Recv, GateInv, GateShapes, o
<1>3. f \in Framed /\ f.bytes \in Nat /\ f.rx \in Nat
  <2>1. f \in Framed
    BY <1>2, HeadTailProperties
  <2> HIDE DEF f
  <2> QED
    BY <2>1 DEF Framed
<1>4. f.rx <= rx[o]
  <2>1. 1 \in 1 .. Len(link[o]) /\ f = link[o][1]
    BY <1>2
  <2> QED
    BY <1>1, <2>1 DEF GateInv, ReportsTrue
<1>5. /\ Tail(link[o]) \in Seq(Framed)
      /\ \A i \in 1 .. Len(Tail(link[o])) : Tail(link[o])[i].rx <= rx[o]
  <2>1. /\ Tail(link[o]) \in Seq(Framed) /\ Len(Tail(link[o])) = Len(link[o]) - 1
        /\ \A i \in 1 .. Len(link[o]) - 1 : Tail(link[o])[i] = link[o][i + 1]
    BY <1>2
  <2>2. \A i \in 1 .. Len(link[o]) : link[o][i].rx <= rx[o]
    BY <1>1 DEF GateInv, ReportsTrue
  <2>3. Len(link[o]) \in Nat
    BY <1>2
  <2>4. ASSUME NEW i \in 1 .. Len(Tail(link[o]))
        PROVE  Tail(link[o])[i].rx <= rx[o]
    <3>1. i \in 1 .. Len(link[o]) - 1 /\ i + 1 \in 1 .. Len(link[o])
      BY <2>1, <2>3
    <3> QED
      BY <2>1, <2>2, <3>1
  <2> QED
    BY <2>1, <2>4
<1> HIDE DEF f
<1>6. /\ rx \in [Ends -> Nat] /\ acked \in [Ends -> Nat] /\ tx \in [Ends -> Nat] /\ gated \in [Ends -> BOOLEAN]
      /\ tx' = tx /\ link \in [Ends -> Seq(Framed)]
  BY <1>2 DEF GateInv, GateShapes
<1>7. rx' \in [Ends -> Nat] /\ rx'[o] = rx[o] /\ rx'[e] = rx[e] + f.bytes /\ rx[e] <= rx'[e]
  <2> DEFINE v == rx[e] + f.bytes
  <2>1. v \in Nat /\ rx[e] <= v
    BY <1>3, <1>6
  <2>2. rx' = [rx EXCEPT ![e] = v]
    BY <1>2
  <2> HIDE DEF v
  <2>3. rx' \in [Ends -> Nat] /\ rx'[o] = rx[o] /\ rx'[e] = v
    BY <1>1, <1>6, <2>1, <2>2
  <2> QED
    BY <2>1, <2>3 DEF v
<1>8. /\ acked' \in [Ends -> Nat] /\ gated' \in [Ends -> BOOLEAN]
      /\ acked'[o] = acked[o] /\ acked[e] <= acked'[e]
      /\ acked'[e] = acked[e] \/ (acked'[e] <= f.rx /\ acked'[e] <= tx[e])
  <2>1. CASE f.kind = "ack" \/ FoldsGossip(f)
    <3> DEFINE w == Clamped(e, f.rx)
    <3>1. w \in Nat /\ w <= f.rx /\ w <= tx[e]
      BY <1>3, <1>6 DEF Clamped, Least
    <3> HIDE DEF w
    <3>2. /\ acked' = [acked EXCEPT ![e] = IF w < @ THEN @ ELSE w]
          /\ gated' = [gated EXCEPT ![e] = @ \/ w >= acked[e]]
      BY <1>2, <2>1 DEF OnAck, w
    <3>3. gated' \in [Ends -> BOOLEAN]
      BY <1>6, <3>2, Zenon
    <3>4. acked' \in [Ends -> Nat] /\ acked'[o] = acked[o] /\ acked'[e] = IF w < acked[e] THEN acked[e] ELSE w
      BY <1>1, <1>6, <3>1, <3>2
    <3>5. acked[e] \in Nat
      BY <1>6
    <3>6. acked[e] <= acked'[e]
      BY <3>1, <3>4, <3>5
    <3>7. acked'[e] = acked[e] \/ (acked'[e] <= f.rx /\ acked'[e] <= tx[e])
      BY <3>1, <3>4, <3>5
    <3> QED
      BY <3>3, <3>4, <3>6, <3>7, Zenon
  <2>2. CASE ~ (f.kind = "ack" \/ FoldsGossip(f))
    <3>1. acked' = acked /\ gated' = gated
      BY <1>2, <2>2
    <3>2. acked[e] <= acked[e]
      BY <1>6
    <3> QED
      BY <1>6, <3>1, <3>2, Zenon
  <2> QED
    BY <2>1, <2>2
<1>9. GateShapes'
  <2>1. wants' \in [Ends -> BOOLEAN] /\ wake' \in [Ends -> BOOLEAN]
    <3>1. wants \in [Ends -> BOOLEAN] /\ wake \in [Ends -> BOOLEAN]
      BY DEF GateInv, GateShapes
    <3> QED
      BY <1>2, <3>1, Zenon
  <2>2. link' \in [Ends -> Seq(Framed)]
    BY <1>1, <1>2, <1>5, <1>6
  <2> QED
    BY <1>2, <1>7, <1>8, <2>1, <2>2 DEF GateInv, GateShapes, queueVars
<1>10. ReportsTrue'
  <2>0. link'[o] = Tail(link[o]) /\ link'[e] = link[e] /\ urgent' = urgent
    BY <1>1, <1>2, <1>6 DEF queueVars
  <2>1. ASSUME NEW i \in 1 .. Len(urgent[e])
        PROVE  urgent[e][i].rx <= rx'[e]
    <3>1. urgent[e][i].rx <= rx[e]
      BY DEF GateInv, ReportsTrue
    <3>2. urgent[e][i] \in Urgent
      <4>1. urgent[e] \in Seq(Urgent)
        BY DEF GateInv, GateShapes
      <4> QED
        BY <4>1, ElementOfSeq
    <3>3. urgent[e][i].rx \in Nat /\ rx[e] \in Nat /\ rx'[e] \in Nat
      BY <1>6, <1>7, <3>2 DEF Urgent
    <3> QED
      BY <1>7, <3>1, <3>3
  <2>2. ASSUME NEW i \in 1 .. Len(link[e])
        PROVE  link[e][i].rx <= rx'[e]
    <3>1. link[e][i].rx <= rx[e]
      BY DEF GateInv, ReportsTrue
    <3>2. link[e][i] \in Framed
      <4>1. link[e] \in Seq(Framed)
        BY DEF GateInv, GateShapes
      <4> QED
        BY <4>1, ElementOfSeq
    <3>3. link[e][i].rx \in Nat /\ rx[e] \in Nat /\ rx'[e] \in Nat
      BY <1>6, <1>7, <3>2 DEF Framed
    <3> QED
      BY <1>7, <3>1, <3>3
  <2>3. \A i \in 1 .. Len(urgent[o]) : urgent[o][i].rx <= rx'[o]
    BY <1>1, <1>7 DEF GateInv, ReportsTrue
  <2>4. \A i \in 1 .. Len(link'[o]) : link'[o][i].rx <= rx'[o]
    BY <1>5, <1>7, <2>0
  <2> SUFFICES ASSUME NEW d \in Ends
               PROVE  /\ \A i \in 1 .. Len(urgent'[d]) : urgent'[d][i].rx <= rx'[d]
                      /\ \A i \in 1 .. Len(link'[d]) : link'[d][i].rx <= rx'[d]
    BY DEF ReportsTrue
  <2>5. CASE d = e
    BY <2>0, <2>1, <2>2, <2>5
  <2>6. CASE d = o
    BY <2>0, <2>3, <2>4, <2>6
  <2> QED
    BY <1>1, <2>5, <2>6
<1>11. BacklogSound'
  <2>1. acked[e] <= tx[e] /\ acked[e] <= rx[o] /\ acked[o] <= tx[o] /\ acked[o] <= rx[e]
    BY <1>1 DEF GateInv, BacklogSound, o
  <2>2. /\ acked[o] \in Nat /\ rx[e] \in Nat /\ rx'[e] \in Nat /\ rx[o] \in Nat /\ acked'[e] \in Nat
    BY <1>1, <1>6, <1>7, <1>8
  <2>3. acked'[e] <= tx[e] /\ acked'[e] <= rx'[o]
    BY <1>3, <1>4, <1>7, <1>8, <2>1, <2>2
  <2>4. acked'[o] <= tx[o] /\ acked'[o] <= rx'[e]
    BY <1>7, <1>8, <2>1, <2>2
  <2>5. Other(e) = o /\ Other(o) = e
    BY <1>1 DEF o
  <2> SUFFICES ASSUME NEW d \in Ends
               PROVE  acked'[d] <= tx[d] /\ acked'[d] <= rx'[Other(d)]
    BY <1>6 DEF BacklogSound
  <2> QED
    BY <1>1, <2>3, <2>4, <2>5
<1>12. CreditHolds' /\ DataWithin'
  <2>1. ASSUME NEW d \in Ends
        PROVE  loop[d].credit = Unlimited \/ loop[d].credit + (tx[d] - acked'[d]) <= CapMax
    <3>1. loop[d].credit = Unlimited \/ loop[d].credit + (tx[d] - acked[d]) <= CapMax
      BY DEF GateInv, CreditHolds, Inflight
    <3>2. loop[d].credit \in Int /\ tx[d] \in Nat /\ acked[d] \in Nat /\ acked'[d] \in Nat /\ CapMax \in Nat
      BY <1>6, <1>8, GateAssumption DEF GateInv, GateShapes
    <3>3. acked[d] <= acked'[d]
      BY <1>1, <1>8, <3>2
    <3> QED
      BY <3>1, <3>2, <3>3
  <2>2. loop' = loop
    BY <1>2
  <2> QED
    BY <1>6, <2>1, <2>2 DEF GateInv, CreditHolds, DataWithin, Inflight
<1> QED
  BY <1>9, <1>10, <1>11, <1>12 DEF GateInv

\* What the cap may become stays between its limits.
LEMMA AdjustedRange ==
    ASSUME GateInv, NEW e \in Ends, NEW c \in Adjusted(e)
    PROVE  c \in CapMin .. CapMax
<1>1. cap[e] \in CapMin .. CapMax /\ CapMin \in Nat /\ CapMax \in Nat /\ CapMin <= CapMax
  <2>1. cap[e] \in CapMin .. CapMax
    BY DEF GateInv, GateShapes
  <2>2. CapMin \in Nat /\ CapMax \in Nat /\ CapInitial \in CapMin .. CapMax
    BY GateAssumption
  <2> QED
    BY <2>1, <2>2
<1> DEFINE k == cap[e]
           h == k \div 2
           q == k \div 4
<1>2. k \in Nat /\ h \in Nat /\ h <= k /\ q \in Nat
  BY <1>1
<1> HIDE DEF h, q, k
<1>3. c = k \/ c = (IF h < CapMin THEN CapMin ELSE h) \/ c = Least(CapMax, k + 1 + q)
  <2>1. Adjusted(e) \subseteq {k} \cup {IF h < CapMin THEN CapMin ELSE h} \cup {Least(CapMax, k + 1 + q)}
    BY Zenon DEF Adjusted, k, h, q
  <2> QED
    BY <2>1
<1>4. k \in CapMin .. CapMax
  BY <1>1 DEF k
<1> QED
  BY <1>1, <1>2, <1>3, <1>4 DEF Least

LEMMA FlowTickKeeps ==
    ASSUME GateInv, NEW e \in Ends, FlowTick(e)
    PROVE  GateInv'
<1>1. /\ SendLaneAcks(e) /\ wake' = [wake EXCEPT ![e] = TRUE]
      /\ UNCHANGED <<out, pending, loop, link, tx, acked, rx, wants>>
  BY DEF FlowTick
<1>2. PICK c \in Adjusted(e), s \in Stalls(e) :
        /\ cap' = [cap EXCEPT ![e] = c]
        /\ gated' = [gated EXCEPT ![e] = @ /\ ~s]
        /\ warned' = [warned EXCEPT ![e] = @ \/ s]
  BY DEF FlowTick
<1>3. cap' \in [Ends -> CapMin .. CapMax]
  <2>1. c \in CapMin .. CapMax
    BY AdjustedRange
  <2>2. cap \in [Ends -> CapMin .. CapMax]
    BY DEF GateInv, GateShapes
  <2> QED
    BY <1>2, <2>1, <2>2
<1>4. gated' \in [Ends -> BOOLEAN] /\ warned' \in [Ends -> BOOLEAN] /\ wake' \in [Ends -> BOOLEAN]
  <2>1. gated \in [Ends -> BOOLEAN] /\ warned \in [Ends -> BOOLEAN] /\ wake \in [Ends -> BOOLEAN]
    BY DEF GateInv, GateShapes
  <2> QED
    BY <1>1, <1>2, <2>1, Zenon
<1>5. /\ urgent' \in [Ends -> Seq(Urgent)] /\ ctrlLeft' \in [Ends -> 0 .. MaxCtrl]
      /\ \A d \in Ends : Len(urgent'[d]) <= CtrlDepth
      /\ ReportsTrue' /\ reported' \in [Ends -> Nat]
  <2>1. CASE wants[e] /\ rx[e] # reported[e]
    <3>1. QueueControl(e, "ack", rx[e]) /\ reported' = [reported EXCEPT ![e] = rx[e]]
      BY <1>1, <2>1 DEF SendLaneAcks
    <3>2. rx[e] \in Nat /\ rx[e] <= rx[e] /\ "ack" \in {"ping", "ack", "gossip"} /\ rx' = rx /\ link' = link
      BY <1>1 DEF GateInv, GateShapes
    <3>3. reported' \in [Ends -> Nat]
      BY <3>1, <3>2 DEF GateInv, GateShapes
    <3> QED
      BY <3>1, <3>2, <3>3, QueueControlKeeps
  <2>2. CASE ~ (wants[e] /\ rx[e] # reported[e])
    <3>1. urgent' = urgent /\ ctrlLeft' = ctrlLeft /\ reported' = reported
      BY <1>1, <2>2 DEF SendLaneAcks
    <3> QED
      BY <1>1, <3>1 DEF GateInv, GateShapes, ReportsTrue
  <2> QED
    BY <2>1, <2>2
<1>6. GateShapes'
  BY <1>1, <1>3, <1>4, <1>5 DEF GateInv, GateShapes
<1>7. BacklogSound' /\ CreditHolds' /\ DataWithin'
  BY <1>1 DEF GateInv, BacklogSound, CreditHolds, DataWithin, Inflight
<1> QED
  BY <1>5, <1>6, <1>7 DEF GateInv

LEMMA GateNextKeeps ==
    ASSUME GateInv, [GateNext]_gateVars
    PROVE  GateInv'
<1>1. CASE UNCHANGED gateVars
  BY <1>1 DEF gateVars, queueVars, flowVars, rxVars, GateInv, GateShapes, ReportsTrue, BacklogSound,
              CreditHolds, DataWithin, Inflight
<1>2. CASE GateNext
  BY <1>2, QueueDataKeeps, QueueUrgentKeeps, GossipKeeps, WakeOpenKeeps, WakeShutKeeps, WriteBatchKeeps,
     CountKeeps, RecvKeeps, FlowTickKeeps DEF GateNext, WriteLoop
<1> QED
  BY <1>1, <1>2

LEMMA GateInvSound == GateInv => GateSound
<1> SUFFICES ASSUME GateInv PROVE GateSound
  OBVIOUS
<1>1. GateTypeOK
  <2>1. ASSUME NEW e \in Ends
        PROVE  /\ \A f \in ToSet(urgent[e]) : f.kind \in {"ping", "ack", "gossip"}
               /\ \A f \in ToSet(out[e]) : f.kind = "data"
    <3>1. ToSet(urgent[e]) \subseteq Urgent
      <4>1. urgent[e] \in Seq(Urgent)
        BY DEF GateInv, GateShapes
      <4> QED
        BY <4>1, ToSetType
    <3>2. ToSet(out[e]) \subseteq Data
      <4>1. out[e] \in Seq(Data)
        BY DEF GateInv, GateShapes
      <4> QED
        BY <4>1, ToSetType
    <3> QED
      BY <3>1, <3>2 DEF Urgent, Data
  <2> QED
    BY <2>1 DEF GateInv, GateShapes, GateTypeOK
<1>2. GateHolds
  <2> SUFFICES ASSUME NEW e \in Ends, loop[e].credit # Unlimited, loop[e].data > 0
               PROVE  Inflight(e) + loop[e].data < CapMax + Max(FrameSizes)
    BY DEF GateHolds
  <2>1. loop[e].credit + Inflight(e) <= CapMax
    BY DEF GateInv, CreditHolds
  <2>2. loop[e].data < loop[e].credit + Max(FrameSizes)
    BY DEF GateInv, DataWithin
  <2>3. loop[e].credit \in Int /\ loop[e].data \in Nat /\ tx[e] \in Nat /\ acked[e] \in Nat
    BY DEF GateInv, GateShapes
  <2>4. CapMax \in Nat /\ Max(FrameSizes) \in Nat
    BY GateAssumption, LargestFrame
  <2> QED
    BY <2>1, <2>2, <2>3, <2>4 DEF Inflight
<1> QED
  BY <1>1, <1>2 DEF GateInv, GateSound

\* GateSound: whatever the sizes of the frames, the caps and the order of
\* reports, gossip, cap changes and writes at the two ends, a sender takes
\* nothing for delivered that was not sent and has not arrived, and a batch
\* written against a credit overshoots the cap by less than one frame.
THEOREM GateIsSound == GateSpec => []GateSound
<1>1. GateSpec => []GateInv
  BY GateInitInv, GateNextKeeps, PTL DEF GateSpec
<1> QED
  BY <1>1, GateInvSound, PTL

LEMMA WrapIn ==
    ASSUME NEW i \in Queues, NEW s \in 0 .. N
    PROVE  Wrap(i + s) \in Queues
BY DrrAssumption DEF Wrap, Queues

-----------------------------------------------------------------------------
(***************************************************************************)
(* The budget and the deficits, for any number of producers and queues and *)
(* any sizes.  The sums of BudgetExact change with the one queue and the   *)
(* one producer that a step changes.                                       *)
(***************************************************************************)

\* The bytes of the first k frames are those of the first k indices.
LEMMA BytesUpTo ==
    ASSUME NEW s \in Seq(Sizes), NEW k \in 0 .. Len(s)
    PROVE  /\ Bytes(SubSeq(s, 1, k)) = SumFunctionOnSet(s, 1 .. k)
           /\ SumFunctionOnSet(s, 1 .. k) \in Nat
           /\ \A i \in 1 .. Len(s) : s[i] \in Nat
           /\ IsFiniteSet(1 .. k)
<1> DEFINE t == SubSeq(s, 1, k)
<1>1. Len(s) \in Nat
  BY LenProperties
<1>2. DOMAIN t = 1 .. k /\ \A i \in 1 .. k : t[i] = s[i]
  BY <1>1
<1>3. \A i \in 1 .. Len(s) : s[i] \in Nat
  <2> TAKE i \in 1 .. Len(s)
  <2>1. s[i] \in Sizes
    BY ElementOfSeq
  <2> QED
    BY <2>1, DrrAssumption
<1>4. IsFiniteSet(1 .. k)
  BY FS_Interval
<1>5. 1 .. k \subseteq 1 .. Len(s)
  BY <1>1
<1> HIDE DEF t
<1>6. SumFunctionOnSet(t, 1 .. k) = SumFunctionOnSet(s, 1 .. k)
  BY <1>2, <1>4, SumCongruence, Zenon
<1>7. Bytes(t) = SumFunctionOnSet(t, 1 .. k)
  BY <1>2, Zenon DEF Bytes, SumFunction
<1>8. SumFunctionOnSet(s, 1 .. k) \in Nat
  <2>1. \A i \in 1 .. k : s[i] \in Nat
    BY <1>3, <1>5
  <2> QED
    BY <1>4, <2>1, SumNat, Zenon
<1> QED
  BY <1>3, <1>4, <1>6, <1>7, <1>8, Zenon DEF t

LEMMA BytesNat ==
    ASSUME NEW s \in Seq(Sizes)
    PROVE  Bytes(s) \in Nat /\ Bytes(s) = SumFunctionOnSet(s, 1 .. Len(s))
<1>1. Len(s) \in Nat /\ DOMAIN s = 1 .. Len(s)
  BY LenProperties
<1>2. Len(s) \in 0 .. Len(s)
  BY <1>1
<1>3. Bytes(s) = SumFunctionOnSet(s, 1 .. Len(s))
  BY <1>1, Zenon DEF Bytes, SumFunction
<1> QED
  BY <1>2, <1>3, BytesUpTo

LEMMA BytesAppend ==
    ASSUME NEW s \in Seq(Sizes), NEW n \in Sizes
    PROVE  Bytes(Append(s, n)) = Bytes(s) + n
<1> DEFINE t == Append(s, n)
           l == Len(s)
<1>1. l \in Nat /\ t \in Seq(Sizes) /\ Len(t) = l + 1 /\ t[l + 1] = n /\ \A i \in 1 .. l : t[i] = s[i]
  BY AppendProperties, LenProperties
<1> HIDE DEF t, l
<1>2. \A i \in 1 .. l + 1 : t[i] \in Nat
  <2>1. Len(t) \in 0 .. Len(t)
    BY <1>1
  <2> QED
    BY <1>1, <2>1, BytesUpTo
<1> DEFINE m == l + 1
<1>3. m \in Nat \ {0} /\ m - 1 = l /\ \A i \in 1 .. m : t[i] \in Int
  BY <1>1, <1>2
<1> HIDE DEF m
<1>4. SumFunctionOnSet(t, 1 .. m) = t[m] + SumFunctionOnSet(t, 1 .. l)
  <2>1. SumFunctionOnSet(t, 1 .. m) = t[m] + SumFunctionOnSet(t, 1 .. m - 1)
    BY <1>3, SumLast, Zenon
  <2> QED
    BY <1>3, <2>1, Zenon
<1>5. SumFunctionOnSet(t, 1 .. l) = SumFunctionOnSet(s, 1 .. l)
  <2>1. IsFiniteSet(1 .. l)
    BY <1>1, FS_Interval
  <2> QED
    BY <1>1, <2>1, SumCongruence, Zenon
<1>6. Bytes(t) = SumFunctionOnSet(t, 1 .. m)
  BY <1>1, BytesNat DEF m
<1>7. Bytes(s) = SumFunctionOnSet(s, 1 .. l) /\ Bytes(s) \in Nat
  BY BytesNat DEF l
<1>8. t[m] = n /\ n \in Nat
  BY <1>1, DrrAssumption DEF m
<1> QED
  BY <1>4, <1>5, <1>6, <1>7, <1>8 DEF t

LEMMA BytesPrefix ==
    ASSUME NEW s \in Seq(Sizes), NEW k \in 1 .. Len(s)
    PROVE  /\ Bytes(SubSeq(s, 1, k)) = Bytes(SubSeq(s, 1, k - 1)) + s[k]
           /\ Bytes(SubSeq(s, 1, k - 1)) \in Nat /\ s[k] \in Sizes
<1>1. Len(s) \in Nat
  BY LenProperties
<1>2. k \in 0 .. Len(s) /\ k - 1 \in 0 .. Len(s) /\ k \in Nat \ {0} /\ s[k] \in Sizes
  BY <1>1, ElementOfSeq
<1>3. /\ Bytes(SubSeq(s, 1, k)) = SumFunctionOnSet(s, 1 .. k)
      /\ \A i \in 1 .. Len(s) : s[i] \in Nat
  BY <1>2, BytesUpTo
<1>4. /\ Bytes(SubSeq(s, 1, k - 1)) = SumFunctionOnSet(s, 1 .. k - 1)
      /\ SumFunctionOnSet(s, 1 .. k - 1) \in Nat
  <2> DEFINE j == k - 1
  <2>1. j \in 0 .. Len(s)
    BY <1>2
  <2> HIDE DEF j
  <2>2. /\ Bytes(SubSeq(s, 1, j)) = SumFunctionOnSet(s, 1 .. j)
        /\ SumFunctionOnSet(s, 1 .. j) \in Nat
    BY <2>1, BytesUpTo
  <2> QED
    BY <2>2 DEF j
<1>5. SumFunctionOnSet(s, 1 .. k) = s[k] + SumFunctionOnSet(s, 1 .. k - 1)
  <2>1. \A i \in 1 .. k : s[i] \in Int
    BY <1>1, <1>3
  <2> QED
    BY <1>2, <2>1, SumLast, Zenon
<1>6. s[k] \in Nat
  BY <1>3
<1> QED
  BY <1>2, <1>3, <1>4, <1>5, <1>6

LEMMA BytesSplit ==
    ASSUME NEW s \in Seq(Sizes), NEW k \in 0 .. Len(s)
    PROVE  /\ Bytes(s) = Bytes(SubSeq(s, 1, k)) + Bytes(SubSeq(s, k + 1, Len(s)))
           /\ Bytes(SubSeq(s, 1, k)) \in Nat
           /\ SubSeq(s, k + 1, Len(s)) \in Seq(Sizes)
           /\ Len(SubSeq(s, k + 1, Len(s))) = Len(s) - k
<1> DEFINE t == SubSeq(s, k + 1, Len(s))
           n == Len(s) - k
<1>1. Len(s) \in Nat /\ k \in Nat /\ n \in Nat /\ k + n = Len(s)
  BY LenProperties
<1>2. t \in Seq(Sizes) /\ Len(t) = n /\ \A i \in 1 .. n : t[i] = s[k + i]
  <2>1. t \in Seq(Sizes)
    BY <1>1
  <2>2. Len(t) = n
    <3>1. Len(t) = IF k + 1 <= Len(s) THEN Len(s) - (k + 1) + 1 ELSE 0
      <4>1. k + 1 \in Int /\ Len(s) \in Int /\ \A i \in k + 1 .. Len(s) : s[i] \in Sizes
        BY <1>1, ElementOfSeq
      <4> QED
        BY <4>1, SubSeqProperties
    <3> DEFINE l == Len(s)
    <3>2. l \in Int /\ k \in Int /\ k <= l
      BY <1>1
    <3>3. Len(t) = IF k + 1 <= l THEN l - (k + 1) + 1 ELSE 0
      BY <3>1
    <3> HIDE DEF t, l
    <3>4. Len(t) = l - k
      BY <3>2, <3>3
    <3> QED
      BY <3>4 DEF l
  <2>3. ASSUME NEW i \in 1 .. n
        PROVE  t[i] = s[k + i]
    <3>1. (k + 1) + i - 1 = k + i /\ i \in 1 .. Len(s) - (k + 1) + 1
      BY <1>1
    <3>2. t[i] = s[(k + 1) + i - 1]
      BY <1>1, <3>1
    <3> QED
      BY <3>1, <3>2
  <2> QED
    BY <2>1, <2>2, <2>3
<1> HIDE DEF t, n
<1>3. \A i \in 1 .. k + n : s[i] \in Int
  BY <1>1, BytesUpTo
<1>4. SumFunctionOnSet(s, 1 .. k + n) = SumFunctionOnSet(s, 1 .. k) + SumFunctionOnSet(t, 1 .. n)
  <2>1. k \in Nat /\ n \in Nat
    BY <1>1
  <2>2. \A i \in 1 .. n : t[i] = s[k + i]
    BY <1>2
  <2>3. PICK w, u, m, v, c : w = k + n /\ u = t /\ m = n /\ v = s /\ c = k
    OBVIOUS
  <2>4. m \in Nat /\ w \in Nat /\ w = c + m /\ c \in Nat
    BY <2>1, <2>3
  <2>5. \A i \in 1 .. w : v[i] \in Int
    BY <1>3, <2>3
  <2>6. \A i \in 1 .. m : u[i] = v[c + i]
    BY <2>2, <2>3
  <2>7. SumFunctionOnSet(v, 1 .. w) = SumFunctionOnSet(v, 1 .. c) + SumFunctionOnSet(u, 1 .. m)
    BY ONLY <2>4, <2>5, <2>6, SumSplit
  <2> QED
    BY <2>3, <2>7
<1>5. Bytes(s) = SumFunctionOnSet(s, 1 .. k + n)
  BY <1>1, BytesNat
<1>6. Bytes(t) = SumFunctionOnSet(t, 1 .. n)
  BY <1>2, BytesNat
<1>7. Bytes(SubSeq(s, 1, k)) = SumFunctionOnSet(s, 1 .. k) /\ Bytes(SubSeq(s, 1, k)) \in Nat
  BY BytesUpTo
<1> QED
  BY <1>2, <1>4, <1>5, <1>6, <1>7 DEF t, n

QueueTypes ==
    /\ queue \in [Queues -> Seq(Sizes)]
    /\ prod \in [Producers -> [pc : {"idle", "push", "notify"}, q : Queues, size : Sizes \cup {0}]]
    /\ \A p \in Producers : prod[p].pc = "push" => prod[p].size \in Sizes
    /\ budget \in Nat

RoundTypes ==
    /\ \A i \in Queues : Len(queue[i]) <= Depth
    /\ notified \in BOOLEAN /\ stopped \in BOOLEAN
    /\ deficit \in [Queues -> Int] /\ round \in Queues
    /\ drr \in [pc : {"round", "wait", "send", "done"}, seen : 0 .. N, batch : 0 .. MaxBatch]
    /\ output \in 0 .. OutDepth

BudgetInv == QueueTypes /\ RoundTypes /\ BudgetExact /\ DeficitBounded

\* What the queues hold and what the producers hold.
InQueues == SumFunction([i \in Queues |-> Bytes(queue[i])])
InHands  == SumFunction([p \in Producers |-> Reserved(p)])

LEMMA QueuesFinite == IsFiniteSet(Queues) /\ IsFiniteSet(Producers)
<1>1. 0 \in Int /\ N - 1 \in Int
  BY DrrAssumption
<1> QED
  BY <1>1, FS_Interval, DrrAssumption DEF Queues

LEMMA InQueuesNat ==
    ASSUME QueueTypes
    PROVE  InQueues \in Nat /\ InHands \in Nat
<1> DEFINE f == [i \in Queues |-> Bytes(queue[i])]
           g == [p \in Producers |-> Reserved(p)]
<1>1. \A i \in Queues : f[i] \in Nat
  BY BytesNat DEF QueueTypes
<1>2. \A p \in Producers : g[p] \in Nat
  BY DrrAssumption DEF QueueTypes, Reserved
<1>3. DOMAIN f = Queues /\ DOMAIN g = Producers
  OBVIOUS
<1> HIDE DEF f, g
<1>4. SumFunctionOnSet(f, Queues) \in Nat /\ SumFunctionOnSet(g, Producers) \in Nat
  BY <1>1, <1>2, QueuesFinite, SumNat, Zenon
<1> QED
  BY <1>3, <1>4, Zenon DEF InQueues, InHands, SumFunction, f, g

\* The queues hold more by as much as the one that changed.
LEMMA OneQueueChanges ==
    ASSUME QueueTypes, QueueTypes', NEW i \in Queues, \A j \in Queues \ {i} : queue'[j] = queue[j]
    PROVE  InQueues' = InQueues - Bytes(queue[i]) + Bytes(queue'[i])
<1> DEFINE f == [j \in Queues |-> Bytes(queue[j])]
           g == [j \in Queues |-> Bytes(queue'[j])]
<1>1. \A j \in Queues : f[j] \in Int /\ g[j] \in Int
  BY BytesNat DEF QueueTypes
<1>2. \A j \in Queues \ {i} : g[j] = f[j]
  OBVIOUS
<1>3. DOMAIN f = Queues /\ DOMAIN g = Queues /\ f[i] = Bytes(queue[i]) /\ g[i] = Bytes(queue'[i])
  OBVIOUS
<1>4. InQueues = SumFunctionOnSet(f, Queues)
  BY <1>3, Zenon DEF InQueues, SumFunction
<1>5. InQueues' = SumFunctionOnSet(g, Queues)
  BY <1>3, Zenon DEF InQueues, SumFunction, Bytes
<1> HIDE DEF f, g
<1>6. SumFunctionOnSet(g, Queues) = SumFunctionOnSet(f, Queues) - f[i] + g[i]
  BY <1>1, <1>2, QueuesFinite, SumUpdate
<1> QED
  BY <1>3, <1>4, <1>5, <1>6

LEMMA OneProducerChanges ==
    ASSUME QueueTypes, QueueTypes', NEW p \in Producers, \A r \in Producers \ {p} : prod'[r] = prod[r]
    PROVE  InHands' = InHands - Reserved(p) + Reserved(p)'
<1> DEFINE f == [r \in Producers |-> Reserved(r)]
           g == [r \in Producers |-> Reserved(r)']
<1>0. \A n \in Sizes : n \in Int
  BY DrrAssumption
<1>1. \A r \in Producers : f[r] \in Int /\ g[r] \in Int
  <2> TAKE r \in Producers
  <2>1. Reserved(r) \in Int
    BY <1>0 DEF QueueTypes, Reserved
  <2>2. Reserved(r)' \in Int
    BY <1>0 DEF QueueTypes, Reserved
  <2> QED
    BY <2>1, <2>2
<1>2. \A r \in Producers \ {p} : g[r] = f[r]
  BY DEF Reserved
<1>3. DOMAIN f = Producers /\ DOMAIN g = Producers /\ f[p] = Reserved(p) /\ g[p] = Reserved(p)'
  OBVIOUS
<1>4. InHands = SumFunctionOnSet(f, Producers)
  BY <1>3, Zenon DEF InHands, SumFunction
<1>5. InHands' = SumFunctionOnSet(g, Producers)
  <2>1. InHands' = SumFunctionOnSet(g, DOMAIN g)
    BY Zenon DEF InHands, SumFunction, Reserved
  <2> QED
    BY <1>3, <2>1, Zenon
<1> HIDE DEF f, g
<1>6. SumFunctionOnSet(g, Producers) = SumFunctionOnSet(f, Producers) - f[p] + g[p]
  BY <1>1, <1>2, QueuesFinite, SumUpdate
<1> QED
  BY <1>3, <1>4, <1>5, <1>6

\* A step that leaves queues and producers alone keeps both sums.
LEMMA SumsFrame ==
    ASSUME queue' = queue
    PROVE  InQueues' = InQueues
BY DEF InQueues, SumFunction, Bytes

LEMMA HandsFrame ==
    ASSUME prod' = prod
    PROVE  InHands' = InHands
BY Zenon DEF InHands, SumFunction, Reserved

LEMMA BudgetIs == BudgetExact <=> budget + InQueues + InHands = Budget
BY Zenon DEF BudgetExact, InQueues, InHands

\* The same, of the state after a step.
LEMMA BudgetIsNext == BudgetExact' <=> budget' + InQueues' + InHands' = Budget
BY Zenon DEF BudgetExact, InQueues, InHands

\* A step that leaves the scheduler, the queues, the producers and the budget
\* alone or changes only its own place.
LEMMA BudgetFrame ==
    ASSUME BudgetInv, RoundTypes', queue' = queue, prod' = prod, budget' = budget, deficit' = deficit
    PROVE  BudgetInv'
<1>1. QueueTypes'
  BY DEF BudgetInv, QueueTypes
<1>2. BudgetExact'
  BY SumsFrame, HandsFrame, BudgetIs, BudgetIsNext DEF BudgetInv
<1>3. DeficitBounded'
  BY DEF BudgetInv, DeficitBounded
<1> QED
  BY <1>1, <1>2, <1>3 DEF BudgetInv

LEMMA BudgetInitInv == DrrInit => BudgetInv
<1> SUFFICES ASSUME DrrInit PROVE BudgetInv
  OBVIOUS
<1>1. /\ queue = [i \in Queues |-> <<>>] /\ budget = Budget
      /\ prod = [p \in Producers |-> [pc |-> "idle", q |-> 0, size |-> 0]] /\ notified = FALSE
      /\ deficit = [i \in Queues |-> 0] /\ round = 0
      /\ drr = [pc |-> "round", seen |-> 0, batch |-> 0]
      /\ output = 0 /\ stopped = FALSE
  BY DEF DrrInit, Off, Round0
<1>2. 0 \in Queues /\ N \in Nat /\ MaxBatch \in Nat /\ OutDepth \in Nat /\ Depth \in Nat /\ Budget \in Nat
  BY DrrAssumption DEF Queues
<1>3. QueueTypes
  BY <1>1, <1>2 DEF QueueTypes
<1>4. RoundTypes
  BY <1>1, <1>2 DEF RoundTypes
<1>5. DeficitBounded
  <2>1. PICK n \in Sizes : TRUE
    BY DrrAssumption
  <2>2. n \in Nat /\ n # 0 /\ Quantum \in Nat
    BY DrrAssumption
  <2>3. 0 - n < 0 /\ 0 <= Quantum
    BY <2>2
  <2> QED
    BY <1>1, <2>3 DEF DeficitBounded
<1>6. InQueues = 0
  <2> DEFINE f == [i \in Queues |-> Bytes(queue[i])]
  <2>1. \A i \in Queues : f[i] = 0
    <3>1. Bytes(<<>>) = 0
      <4>1. DOMAIN <<>> = {}
        OBVIOUS
      <4> QED
        BY <4>1, SumEmpty, Zenon DEF Bytes, SumFunction
    <3> QED
      BY <1>1, <3>1
  <2> HIDE DEF f
  <2>2. SumFunctionOnSet(f, Queues) = 0
    BY <2>1, QueuesFinite, SumZero
  <2> QED
    BY <2>2, Zenon DEF InQueues, SumFunction, f
<1>7. InHands = 0
  <2> DEFINE f == [p \in Producers |-> Reserved(p)]
  <2>1. \A p \in Producers : f[p] = 0
    BY <1>1 DEF Reserved
  <2> HIDE DEF f
  <2>2. SumFunctionOnSet(f, Producers) = 0
    BY <2>1, QueuesFinite, SumZero
  <2> QED
    BY <2>2, Zenon DEF InHands, SumFunction, f
<1>8. BudgetExact
  <2>1. budget + InQueues + InHands = Budget
    BY <1>1, <1>2, <1>6, <1>7
  <2> QED
    BY <2>1, BudgetIs
<1> QED
  BY <1>3, <1>4, <1>5, <1>8 DEF BudgetInv

LEMMA ReserveBudget ==
    ASSUME BudgetInv, NEW p \in Producers, NEW i \in Queues, NEW n \in Sizes, Reserve(p, i, n)
    PROVE  BudgetInv'
<1>0. n \in Nat /\ budget \in Nat
  BY DrrAssumption DEF BudgetInv, QueueTypes
<1>1. /\ queue' = queue /\ deficit' = deficit /\ budget' = budget - n
      /\ prod' = [prod EXCEPT ![p] = [pc |-> "push", q |-> i, size |-> n]]
  BY DEF Reserve, schedVars
<1>2. prod'[p].pc = "push" /\ prod'[p].size = n /\ \A r \in Producers \ {p} : prod'[r] = prod[r]
  BY <1>1 DEF BudgetInv, QueueTypes
<1>3. QueueTypes'
  <2>1. prod' \in [Producers -> [pc : {"idle", "push", "notify"}, q : Queues, size : Sizes \cup {0}]]
    BY <1>1 DEF BudgetInv, QueueTypes
  <2>2. \A r \in Producers : prod'[r].pc = "push" => prod'[r].size \in Sizes
    BY <1>2 DEF BudgetInv, QueueTypes
  <2>3. budget' \in Nat
    BY <1>0, <1>1 DEF Reserve
  <2> QED
    BY <1>1, <2>1, <2>2, <2>3 DEF BudgetInv, QueueTypes
<1>4. RoundTypes'
  BY <1>1 DEF BudgetInv, RoundTypes, Reserve, schedVars
<1>5. BudgetExact'
  <2>1. InHands' = InHands - Reserved(p) + Reserved(p)'
    BY <1>2, <1>3, OneProducerChanges DEF BudgetInv
  <2>2. Reserved(p) = 0 /\ Reserved(p)' = n
    BY <1>2 DEF Reserve, Reserved
  <2>3. InQueues' = InQueues
    BY <1>1, SumsFrame
  <2>4. InQueues \in Nat /\ InHands \in Nat
    BY InQueuesNat DEF BudgetInv
  <2>5. budget + InQueues + InHands = Budget
    BY BudgetIs DEF BudgetInv
  <2>6. budget' + InQueues' + InHands' = Budget
    BY <1>0, <1>1, <2>1, <2>2, <2>3, <2>4, <2>5
  <2> QED
    BY <2>6, BudgetIsNext
<1>6. DeficitBounded'
  BY <1>1 DEF BudgetInv, DeficitBounded
<1> QED
  BY <1>3, <1>4, <1>5, <1>6 DEF BudgetInv

LEMMA PushBudget ==
    ASSUME BudgetInv, NEW p \in Producers, Push(p)
    PROVE  BudgetInv'
<1> DEFINE i == prod[p].q
           n == prod[p].size
<1>0. /\ prod[p].pc = "push" /\ i \in Queues /\ n \in Sizes /\ budget \in Nat
      /\ queue[i] \in Seq(Sizes) /\ Len(queue[i]) < Depth
  BY DEF BudgetInv, QueueTypes, Push
<1>1. /\ queue' = [queue EXCEPT ![i] = Append(@, n)] /\ prod' = [prod EXCEPT ![p].pc = "notify"]
      /\ deficit' = deficit /\ budget' = budget
  BY DEF Push, schedVars
<1>2. prod'[p].pc = "notify" /\ \A r \in Producers \ {p} : prod'[r] = prod[r]
  BY <1>1 DEF BudgetInv, QueueTypes
<1>3. prod' \in [Producers -> [pc : {"idle", "push", "notify"}, q : Queues, size : Sizes \cup {0}]]
  BY <1>1 DEF BudgetInv, QueueTypes
<1> HIDE DEF i, n
<1>4. queue' \in [Queues -> Seq(Sizes)] /\ queue'[i] = Append(queue[i], n) /\ \A j \in Queues \ {i} : queue'[j] = queue[j]
  BY <1>0, <1>1, AppendProperties DEF BudgetInv, QueueTypes
<1>5. QueueTypes'
  BY <1>1, <1>2, <1>3, <1>4 DEF BudgetInv, QueueTypes
<1>6. RoundTypes'
  <2>1. \A j \in Queues : Len(queue'[j]) <= Depth
    <3> TAKE j \in Queues
    <3>1. CASE j = i
      <4>1. Len(queue'[j]) = Len(queue[i]) + 1 /\ Len(queue[i]) \in Nat /\ Depth \in Nat
        BY <1>0, <1>4, <3>1, DrrAssumption, AppendProperties, LenProperties
      <4> QED
        BY <1>0, <4>1
    <3>2. CASE j # i
      BY <1>4, <3>2 DEF BudgetInv, RoundTypes
    <3> QED
      BY <3>1, <3>2
  <2> QED
    BY <2>1 DEF BudgetInv, RoundTypes, Push, schedVars
<1>7. BudgetExact'
  <2>1. InHands' = InHands - Reserved(p) + Reserved(p)'
    BY <1>2, <1>5, OneProducerChanges DEF BudgetInv
  <2>2. Reserved(p) = n /\ Reserved(p)' = 0
    BY <1>0, <1>2 DEF Reserved, n
  <2>3. InQueues' = InQueues - Bytes(queue[i]) + Bytes(queue'[i])
    BY <1>0, <1>4, <1>5, OneQueueChanges DEF BudgetInv
  <2>4. Bytes(queue'[i]) = Bytes(queue[i]) + n /\ Bytes(queue[i]) \in Nat
    BY <1>0, <1>4, BytesAppend, BytesNat
  <2>5. InQueues \in Nat /\ InHands \in Nat
    BY InQueuesNat DEF BudgetInv
  <2>6. budget + InQueues + InHands = Budget
    BY BudgetIs DEF BudgetInv
  <2>7. n \in Nat
    BY <1>0, DrrAssumption
  <2>8. budget' + InQueues' + InHands' = Budget
    BY <1>0, <1>1, <2>1, <2>2, <2>3, <2>4, <2>5, <2>6, <2>7
  <2> QED
    BY <2>8, BudgetIsNext
<1>8. DeficitBounded'
  BY <1>1 DEF BudgetInv, DeficitBounded
<1> QED
  BY <1>5, <1>6, <1>7, <1>8 DEF BudgetInv

\* A producer that is done, with its frame returned or announced.
LEMMA OffBudget ==
    ASSUME BudgetInv, NEW p \in Producers, Refuse(p) \/ Notify(p)
    PROVE  BudgetInv'
<1> DEFINE n == Reserved(p)
<1>0. n \in Nat /\ budget \in Nat
  BY DrrAssumption DEF BudgetInv, QueueTypes, Reserved
<1>1. queue' = queue /\ deficit' = deficit /\ prod' = [prod EXCEPT ![p] = [pc |-> "idle", q |-> 0, size |-> 0]]
  BY DEF Refuse, Notify, schedVars, Off
<1>2. budget' = budget + n
  <2>1. CASE Refuse(p)
    BY <2>1 DEF Refuse, Reserved
  <2>2. CASE Notify(p)
    BY <1>0, <2>2 DEF Notify, Reserved
  <2> QED
    BY <2>1, <2>2
<1>3. prod'[p].pc = "idle" /\ \A r \in Producers \ {p} : prod'[r] = prod[r]
  BY <1>1 DEF BudgetInv, QueueTypes
<1>4. QueueTypes'
  <2>0. 0 \in Queues
    BY DrrAssumption DEF Queues
  <2>1. prod' \in [Producers -> [pc : {"idle", "push", "notify"}, q : Queues, size : Sizes \cup {0}]]
    BY <1>1, <2>0 DEF BudgetInv, QueueTypes
  <2>2. \A r \in Producers : prod'[r].pc = "push" => prod'[r].size \in Sizes
    BY <1>3 DEF BudgetInv, QueueTypes
  <2>3. budget' \in Nat
    BY <1>0, <1>2
  <2> QED
    BY <1>1, <2>1, <2>2, <2>3 DEF BudgetInv, QueueTypes
<1>5. RoundTypes'
  BY <1>1 DEF BudgetInv, RoundTypes, Refuse, Notify, schedVars
<1>6. BudgetExact'
  <2>1. InHands' = InHands - Reserved(p) + Reserved(p)'
    BY <1>3, <1>4, OneProducerChanges DEF BudgetInv
  <2>2. Reserved(p)' = 0
    BY <1>3 DEF Reserved
  <2>3. InQueues' = InQueues
    BY <1>1, SumsFrame
  <2>4. InQueues \in Nat /\ InHands \in Nat
    BY InQueuesNat DEF BudgetInv
  <2>5. budget + InQueues + InHands = Budget
    BY BudgetIs DEF BudgetInv
  <2>6. budget' + InQueues' + InHands' = Budget
    BY <1>0, <1>2, <2>1, <2>2, <2>3, <2>4, <2>5
  <2> QED
    BY <2>6, BudgetIsNext
<1>7. DeficitBounded'
  BY <1>1 DEF BudgetInv, DeficitBounded
<1> QED
  BY <1>4, <1>5, <1>6, <1>7 DEF BudgetInv

\* A visit with deficit d in 1 .. Quantum overdraws it by less than the last
\* frame taken, and leaves no more than it found.
LEMMA DeficitAfter ==
    ASSUME NEW s \in Seq(Sizes), NEW d \in 1 .. Quantum, NEW room \in Nat, NEW k \in 0 .. Len(s),
           Takes(s, d, room, k)
    PROVE  /\ Remaining(s, d, k, room) \in Int /\ Remaining(s, d, k, room) <= Quantum
           /\ \E n \in Sizes : 0 - n < Remaining(s, d, k, room)
<1> DEFINE b == Bytes(SubSeq(s, 1, k))
           left == d - b
<1>1. b \in Nat /\ Len(s) \in Nat
  BY BytesSplit, LenProperties
<1>2. Quantum \in Nat /\ \A n \in Sizes : n \in Nat /\ n # 0
  BY DrrAssumption
<1>3. PICK m \in Sizes : TRUE
  BY DrrAssumption
<1>4. \E n \in Sizes : 0 - n < left
  <2>1. CASE k = 0
    <3>1. SubSeq(s, 1, k) = <<>>
      BY <2>1
    <3>2. b = 0
      <4>1. DOMAIN <<>> = {}
        OBVIOUS
      <4>2. Bytes(<<>>) = 0
        BY <4>1, SumEmpty, Zenon DEF Bytes, SumFunction
      <4> QED
        BY <3>1, <4>2
    <3> HIDE DEF b
    <3>3. 0 - m < left
      BY <1>2, <1>3, <3>2
    <3> QED
      BY <1>3, <3>3
  <2>2. CASE k # 0
    <3>1. k \in 1 .. Len(s)
      BY <1>1, <2>2
    <3>2. b = Bytes(SubSeq(s, 1, k - 1)) + s[k] /\ Bytes(SubSeq(s, 1, k - 1)) \in Nat /\ s[k] \in Sizes
      BY <3>1, BytesPrefix
    <3>3. Bytes(SubSeq(s, 1, k - 1)) < d
      <4>1. CASE k = 1
        <5>0. k - 1 = 0
          BY <4>1
        <5>1. SubSeq(s, 1, k - 1) = <<>>
          <6> DEFINE z == k - 1
          <6>1. z = 0
            BY <5>0
          <6> HIDE DEF z
          <6>2. SubSeq(s, 1, z) = <<>>
            BY <6>1
          <6> QED
            BY <6>2 DEF z
        <5>2. DOMAIN <<>> = {}
          OBVIOUS
        <5>3. Bytes(<<>>) = 0
          BY <5>2, SumEmpty, Zenon DEF Bytes, SumFunction
        <5>4. Bytes(SubSeq(s, 1, k - 1)) = 0
          BY <5>1, <5>3, Zenon
        <5>5. 0 < d
          BY <1>2
        <5> QED
          BY <5>4, <5>5, Zenon
      <4>2. CASE k # 1
        <5>1. k \in 2 .. k
          BY <3>1, <4>2
        <5> QED
          BY <5>1 DEF Takes
      <4> QED
        BY <4>1, <4>2
    <3> HIDE DEF b
    <3>4. 0 - s[k] < left
      BY <1>2, <3>2, <3>3
    <3> QED
      BY <3>2, <3>4
  <2> QED
    BY <2>1, <2>2
<1>5. left \in Int /\ left <= Quantum
  <2> HIDE DEF b
  <2> QED
    BY <1>1, <1>2
<1>6. Remaining(s, d, k, room) = IF k = Len(s) /\ k < room /\ left > 0 THEN 0 ELSE left
  BY DEF Remaining
<1>7. 0 - m < 0
  BY <1>2, <1>3
<1> HIDE DEF left
<1> QED
  BY <1>2, <1>4, <1>5, <1>6, <1>7

LEMMA VisitBudget ==
    ASSUME BudgetInv, Visit
    PROVE  BudgetInv'
<1> DEFINE i == Wrap(round + drr.seen)
           d == Replenished(deficit[i])
           room == MaxBatch - drr.batch
<1>1. /\ drr.pc = "round" /\ drr.seen \in 0 .. N - 1 /\ drr.batch \in 0 .. MaxBatch /\ round \in Queues
      /\ room > 0 /\ MaxBatch \in Nat /\ N \in Nat
  BY DrrAssumption DEF BudgetInv, RoundTypes, Visit
<1>2. i \in Queues
  BY <1>1, WrapIn
<1> HIDE DEF i
<1>3. PICK k \in 0 .. Len(queue[i]) :
        /\ Takes(queue[i], d, room, k)
        /\ queue' = [queue EXCEPT ![i] = SubSeq(@, k + 1, Len(@))]
        /\ deficit' = [deficit EXCEPT ![i] = Remaining(queue[i], d, k, room)]
        /\ budget' = budget + Bytes(SubSeq(queue[i], 1, k))
        /\ drr' = [drr EXCEPT !.seen = @ + 1, !.batch = @ + k]
  BY DEF Visit, i
<1>4. prod' = prod /\ notified' = notified /\ round' = round /\ output' = output /\ stopped' = stopped
  BY DEF Visit
<1>5. queue[i] \in Seq(Sizes) /\ Len(queue[i]) \in Nat /\ budget \in Nat /\ Len(queue[i]) <= Depth /\ room \in Nat
  BY <1>1, <1>2 DEF BudgetInv, QueueTypes, RoundTypes
<1> DEFINE t == SubSeq(queue[i], k + 1, Len(queue[i]))
           b == Bytes(SubSeq(queue[i], 1, k))
<1>6. Bytes(queue[i]) = b + Bytes(t) /\ b \in Nat /\ t \in Seq(Sizes) /\ Len(t) = Len(queue[i]) - k
  BY <1>5, BytesSplit
<1>7. queue' = [queue EXCEPT ![i] = t] /\ budget' = budget + b
  BY <1>3
<1> HIDE DEF t, b
<1>8. queue' \in [Queues -> Seq(Sizes)] /\ queue'[i] = t /\ \A j \in Queues \ {i} : queue'[j] = queue[j]
  BY <1>2, <1>6, <1>7 DEF BudgetInv, QueueTypes
<1>9. QueueTypes'
  <2>1. budget' \in Nat
    BY <1>5, <1>6, <1>7
  <2> QED
    BY <1>4, <1>8, <2>1 DEF BudgetInv, QueueTypes
<1>10. BudgetExact'
  <2>1. InQueues' = InQueues - Bytes(queue[i]) + Bytes(t)
    BY <1>2, <1>8, <1>9, OneQueueChanges DEF BudgetInv
  <2>2. InHands' = InHands
    BY <1>4, HandsFrame
  <2>3. InQueues \in Nat /\ InHands \in Nat
    BY InQueuesNat DEF BudgetInv
  <2>4. budget + InQueues + InHands = Budget
    BY BudgetIs DEF BudgetInv
  <2>5. Bytes(t) \in Nat
    BY <1>6, BytesNat
  <2>6. budget' + InQueues' + InHands' = Budget
    BY <1>5, <1>6, <1>7, <2>1, <2>2, <2>3, <2>4, <2>5
  <2> QED
    BY <2>6, BudgetIsNext
<1>11. d \in 1 .. Quantum
  <2>1. deficit[i] <= Quantum /\ deficit[i] \in Int
    BY <1>2 DEF BudgetInv, DeficitBounded, RoundTypes
  <2>2. PICK n \in Sizes : 0 - n < deficit[i]
    BY <1>2 DEF BudgetInv, DeficitBounded
  <2>3. n \in Nat /\ n <= Quantum /\ Quantum \in Nat
    BY DrrAssumption
  <2> QED
    BY <2>1, <2>2, <2>3 DEF Replenished
<1> DEFINE e == Remaining(queue[i], d, k, room)
<1>12. e \in Int /\ e <= Quantum /\ \E n \in Sizes : 0 - n < e
  <2> HIDE DEF d, room
  <2> QED
    BY <1>3, <1>5, <1>11, DeficitAfter
<1>13. deficit' = [deficit EXCEPT ![i] = e] /\ deficit \in [Queues -> Int]
  BY <1>3 DEF BudgetInv, RoundTypes
<1> HIDE DEF e
<1>14. deficit' \in [Queues -> Int] /\ DeficitBounded'
  <2>1. deficit' \in [Queues -> Int] /\ deficit'[i] = e /\ \A j \in Queues \ {i} : deficit'[j] = deficit[j]
    BY <1>2, <1>12, <1>13
  <2>2. ASSUME NEW j \in Queues
        PROVE  deficit'[j] <= Quantum /\ \E n \in Sizes : 0 - n < deficit'[j]
    <3>1. CASE j = i
      BY <1>12, <2>1, <3>1
    <3>2. CASE j # i
      BY <2>1, <3>2 DEF BudgetInv, DeficitBounded
    <3> QED
      BY <3>1, <3>2
  <2> QED
    BY <2>1, <2>2 DEF DeficitBounded
<1>15. RoundTypes'
  <2>1. drr' \in [pc : {"round", "wait", "send", "done"}, seen : 0 .. N, batch : 0 .. MaxBatch]
    <3>1. drr' = [pc |-> drr.pc, seen |-> drr.seen + 1, batch |-> drr.batch + k]
      BY <1>3 DEF BudgetInv, RoundTypes
    <3>2. k <= room
      BY <1>3 DEF Takes
    <3>3. drr.seen + 1 \in 0 .. N /\ drr.batch + k \in 0 .. MaxBatch
      BY <1>1, <1>5, <3>2
    <3> QED
      BY <1>1, <3>1, <3>3
  <2>2. \A j \in Queues : Len(queue'[j]) <= Depth
    <3> TAKE j \in Queues
    <3>1. CASE j = i
      <4>1. Depth \in Nat
        BY DrrAssumption
      <4> QED
        BY <1>5, <1>6, <1>8, <3>1, <4>1
    <3>2. CASE j # i
      BY <1>8, <3>2 DEF BudgetInv, RoundTypes
    <3> QED
      BY <3>1, <3>2
  <2> QED
    BY <1>4, <1>14, <2>1, <2>2 DEF BudgetInv, RoundTypes
<1> QED
  BY <1>9, <1>10, <1>14, <1>15 DEF BudgetInv

LEMMA DrrRestBudget ==
    ASSUME BudgetInv, RoundEnds \/ Wake \/ Forward \/ Quit \/ Consume \/ Stop \/ UNCHANGED drrVars
    PROVE  BudgetInv'
<1>0. /\ drr.pc \in {"round", "wait", "send", "done"} /\ drr.seen \in 0 .. N /\ drr.batch \in 0 .. MaxBatch
      /\ round \in Queues /\ output \in 0 .. OutDepth /\ N \in Nat /\ MaxBatch \in Nat /\ OutDepth \in Nat
  BY DrrAssumption DEF BudgetInv, RoundTypes
<1>1. queue' = queue /\ prod' = prod /\ budget' = budget /\ deficit' = deficit
  BY DEF RoundEnds, Wake, Forward, Quit, Consume, Stop, drrVars, schedVars
<1>2. round' \in Queues
  <2>1. Wrap(round + drr.seen) \in Queues
    BY <1>0, WrapIn
  <2> QED
    BY <1>0, <2>1 DEF RoundEnds, NextStart, Wake, Forward, Quit, Consume, Stop, drrVars, schedVars
<1>3. output' \in 0 .. OutDepth
  BY <1>0 DEF RoundEnds, Wake, Forward, Quit, Consume, Stop, drrVars, schedVars
<1>4. notified' \in BOOLEAN /\ stopped' \in BOOLEAN
  <2>1. notified \in BOOLEAN /\ stopped \in BOOLEAN
    BY DEF BudgetInv, RoundTypes
  <2> QED
    BY <2>1 DEF RoundEnds, Wake, Forward, Quit, Consume, Stop, drrVars, schedVars
<1>5. drr' \in [pc : {"round", "wait", "send", "done"}, seen : 0 .. N, batch : 0 .. MaxBatch]
  <2>1. CASE RoundEnds
    <3>1. drr' = [pc |-> IF drr.batch > 0 THEN "send" ELSE "wait", seen |-> 0, batch |-> drr.batch]
      BY <2>1 DEF RoundEnds, Round0
    <3> QED
      BY <1>0, <3>1
  <2>2. CASE Wake
    <3>1. drr' = [pc |-> "round", seen |-> 0, batch |-> 0]
      BY <2>2 DEF Wake, Round0
    <3> QED
      BY <1>0, <3>1
  <2>3. CASE Forward
    <3>1. CASE drr.batch > 1
      <4>1. drr' = [pc |-> drr.pc, seen |-> drr.seen, batch |-> drr.batch - 1]
        BY <2>3, <3>1 DEF Forward, BudgetInv, RoundTypes
      <4> QED
        BY <1>0, <3>1, <4>1
    <3>2. CASE ~(drr.batch > 1)
      <4>1. drr' = [pc |-> "round", seen |-> 0, batch |-> 0]
        BY <2>3, <3>2 DEF Forward, Round0
      <4> QED
        BY <1>0, <4>1
    <3> QED
      BY <3>1, <3>2
  <2>4. CASE Quit
    <3>1. drr' = [pc |-> "done", seen |-> 0, batch |-> 0]
      BY <2>4 DEF Quit, Round0
    <3> QED
      BY <1>0, <3>1
  <2>5. CASE Consume \/ Stop \/ UNCHANGED drrVars
    BY <2>5 DEF Consume, Stop, drrVars, schedVars, BudgetInv, RoundTypes
  <2> QED
    BY <2>1, <2>2, <2>3, <2>4, <2>5
<1>6. RoundTypes'
  BY <1>1, <1>2, <1>3, <1>4, <1>5 DEF BudgetInv, RoundTypes
<1> QED
  BY <1>1, <1>6, BudgetFrame

LEMMA BudgetNextKeeps ==
    ASSUME BudgetInv, [DrrNext]_drrVars
    PROVE  BudgetInv'
BY ReserveBudget, PushBudget, OffBudget, VisitBudget, DrrRestBudget DEF DrrNext, Schedule, Produce

LEMMA BudgetInvTypes == BudgetInv => DrrTypeOK
<1> SUFFICES ASSUME BudgetInv PROVE DrrTypeOK
  OBVIOUS
<1>1. budget \in 0 .. Budget
  <2>1. InQueues \in Nat /\ InHands \in Nat /\ budget + InQueues + InHands = Budget /\ budget \in Nat
    BY InQueuesNat, BudgetIs DEF BudgetInv, QueueTypes
  <2>2. budget \in Nat
    BY DEF BudgetInv, QueueTypes
  <2> QED
    BY <2>1, <2>2, DrrAssumption
<1> QED
  BY <1>1 DEF BudgetInv, QueueTypes, RoundTypes, DrrTypeOK

-----------------------------------------------------------------------------
(***************************************************************************)
(* Proofs about PeerLifecycle, for any number of concurrent runs, saves and *)
(* stalls.                                                                 *)
(***************************************************************************)

\* The functions a step updates at one run are functions on Runs.
PeerShapes ==
    /\ DOMAIN pc = Runs /\ DOMAIN stopCh = Runs /\ DOMAIN flag = Runs /\ DOMAIN tr = Runs
    /\ mapped \in Runs \cup {None}
    /\ peers \subseteq Runs /\ halfA \subseteq Runs /\ halfB \subseteq Runs

PeerInv == PeerShapes /\ NoOrphan /\ StopHonoured /\ StopIsFinal

USE LifecycleAssumption

LEMMA PeerInitInv == PeerInit => PeerInv
BY DEF PeerInit, PeerInv, PeerShapes, NoOrphan, StopHonoured, StopIsFinal, Live, Counted

\* One call of StartPeer, step by step.
LEMMA StartPeerKeeps ==
    ASSUME PeerInv, NEW r \in Runs, StartPeer(r)
    PROVE  PeerInv'
<1> USE DEF PeerInv, PeerShapes, NoOrphan, StopHonoured, StopIsFinal, Live, Counted, Goto, At, mapVars
<1>1. CASE Check(r)
  BY <1>1 DEF Check, Proceed, Return
<1>2. CASE BeginSession(r)
  BY <1>2 DEF BeginSession, Refused, Proceed, Return
<1>3. CASE Register(r)
  BY <1>3 DEF Register, Taken, Refused, Proceed, Return
<1>4. CASE Loop(r)
  BY <1>4 DEF Loop
<1>5. CASE DialFails(r)
  BY <1>5 DEF DialFails
<1>6. CASE Sleep(r)
  BY <1>6 DEF Sleep
<1>7. CASE DialOk(r)
  BY <1>7 DEF DialOk
<1>8. CASE Assign(r)
  BY <1>8 DEF Assign, StoppedMeanwhile
<1>9. CASE Start(r)
  BY <1>9 DEF Start
<1>10. CASE SessionEnds(r)
  BY <1>10 DEF SessionEnds
<1>11. CASE Disconnect(r)
  BY <1>11 DEF Disconnect
<1>12. CASE Unmap(r)
  BY <1>12 DEF Unmap, LeaveMaps
<1>13. CASE Backoff(r)
  BY <1>13 DEF Backoff
<1>14. CASE Exit(r)
  BY <1>14 DEF Exit
<1>15. CASE Leave(r)
  BY <1>15 DEF Leave, LeaveMaps, Return
<1>16. CASE \E q \in Runs \ {r} : Respawn(r, q)
  BY <1>16 DEF Respawn, Fork
<1> QED
  BY <1>1, <1>2, <1>3, <1>4, <1>5, <1>6, <1>7, <1>8, <1>9, <1>10, <1>11, <1>12, <1>13, <1>14,
     <1>15, <1>16 DEF StartPeer

\* The watcher of the database.
LEMMA SyncKeeps ==
    ASSUME PeerInv, Sync
    PROVE  PeerInv'
<1> USE DEF PeerInv, PeerShapes, NoOrphan, StopHonoured, StopIsFinal, Live, Counted, Goto, At, mapVars,
            runVars
<1>1. CASE SyncRead
  BY <1>1 DEF SyncRead
<1>2. CASE SyncDecide
  BY <1>2 DEF SyncDecide
<1>3. CASE SyncStop
  BY <1>3 DEF SyncStop, StopByProxyName
<1>4. CASE SyncDone
  BY <1>4 DEF SyncDone
<1>5. CASE \E r \in Runs : SyncStart(r)
  BY <1>5 DEF SyncStart, Fork
<1> QED
  BY <1>1, <1>2, <1>3, <1>4, <1>5 DEF Sync

\* Stops, and what happens to a connection from outside.
LEMMA PeerOthersKeep ==
    ASSUME PeerInv, NEW r \in Runs,
           Establish(r) \/ StopBegin(r) \/ StopFinish(r) \/ StopStalled(r) \/ Drop(r) \/ Age(r)
    PROVE  PeerInv'
<1> USE DEF PeerInv, PeerShapes, NoOrphan, StopHonoured, StopIsFinal, Live, Counted, Goto, At, mapVars,
            runVars
<1>1. CASE Establish(r)
  BY <1>1 DEF Establish
<1>2. CASE StopBegin(r)
  BY <1>2 DEF StopBegin
<1>3. CASE StopFinish(r)
  BY <1>3 DEF StopFinish
<1>4. CASE StopStalled(r)
  BY <1>4 DEF StopStalled
<1>5. CASE Drop(r)
  BY <1>5 DEF Drop
<1>6. CASE Age(r)
  BY <1>6 DEF Age
<1> QED
  BY <1>1, <1>2, <1>3, <1>4, <1>5, <1>6

LEMMA PeerNextKeeps ==
    ASSUME PeerInv, [PeerNext]_peerVars
    PROVE  PeerInv'
<1> USE DEF PeerInv, PeerShapes, NoOrphan, StopHonoured, StopIsFinal, Live, Counted, mapVars, runVars
<1>1. CASE \E r \in Runs : StartPeer(r)
  BY <1>1, StartPeerKeeps
<1>2. CASE Sync
  BY <1>2, SyncKeeps
<1>3. CASE \E r \in Runs : Establish(r) \/ Stopping(r) \/ StopStalled(r) \/ Drop(r) \/ Age(r)
  BY <1>3, PeerOthersKeep DEF Stopping
<1>4. CASE StopManager
  BY <1>4 DEF StopManager
<1>5. CASE StopReturns
  BY <1>5 DEF StopReturns
<1>6. CASE \E on \in BOOLEAN : Save(on)
  BY <1>6 DEF Save
<1>7. CASE UNCHANGED peerVars
  BY <1>7 DEF peerVars
<1> QED
  BY <1>1, <1>2, <1>3, <1>4, <1>5, <1>6, <1>7 DEF PeerNext

\* Every run that has or seeks a connection is the one StopPeerByProxyName
\* finds, or a stop has been issued for it.
THEOREM NoOrphanHolds == PeerSpec => []NoOrphan
<1>1. PeerSpec => []PeerInv
  BY PeerInitInv, PeerNextKeeps, PTL DEF PeerSpec
<1> QED
  BY <1>1, PTL DEF PeerInv

\* A peer whose stop has gone through has no open transport, whether its dial
\* was before, during or after the stop.
THEOREM StopHonouredHolds == PeerSpec => []StopHonoured
<1>1. PeerSpec => []PeerInv
  BY PeerInitInv, PeerNextKeeps, PTL DEF PeerSpec
<1> QED
  BY <1>1, PTL DEF PeerInv

\* When the manager's Stop has returned, no StartPeer is at work and none will
\* begin to be.
THEOREM StopIsFinalHolds == PeerSpec => []StopIsFinal
<1>1. PeerSpec => []PeerInv
  BY PeerInitInv, PeerNextKeeps, PTL DEF PeerSpec
<1> QED
  BY <1>1, PTL DEF PeerInv

\* PeerSound: what a run checks of three sessions and two saves holds for any
\* number of either.
THEOREM PeerIsSound == PeerSpec => []PeerSound
<1>1. NoOrphan /\ StopHonoured => PeerSound
  BY DEF PeerSound
<1> QED
  BY <1>1, NoOrphanHolds, StopHonouredHolds, PTL

-----------------------------------------------------------------------------
(***************************************************************************)
(* No wake-up of the scheduler is lost, for any number of producers and     *)
(* queues.  The property speaks of a scheduler that sleeps; it is kept by   *)
(* what holds during the round before: every queue the round has passed     *)
(* without finding anything is empty, or somebody has notified or will.    *)
(***************************************************************************)

\* The queues this round has been to.
Passed(i) == \E s \in 0 .. N - 1 : s < drr.seen /\ i = Wrap(round + s)

\* The queues the scheduler will not look at before it is woken.
Left(i) == drr.pc = "wait" \/ (drr.pc = "round" /\ drr.batch = 0 /\ Passed(i))

Told == notified \/ \E p \in Producers : prod[p].pc = "notify"

DrrShapes ==
    /\ queue \in [Queues -> Seq(Nat)]
    /\ prod \in [Producers -> [pc : {"idle", "push", "notify"}, q : Queues, size : Nat]]
    /\ round \in Queues
    /\ drr \in [pc : {"round", "wait", "send", "done"}, seen : 0 .. N, batch : Nat]

NothingLeft == \A i \in Queues : Left(i) /\ queue[i] # <<>> => Told

DrrInv == DrrShapes /\ NothingLeft

USE DrrAssumption

\* A round over all queues passes every one of them.
LEMMA FullRound ==
    ASSUME NEW r \in Queues, NEW i \in Queues
    PROVE  \E s \in 0 .. N - 1 : i = Wrap(r + s)
<1>1. CASE i >= r
  <2>1. i - r \in 0 .. N - 1 /\ i = Wrap(r + (i - r))
    BY <1>1 DEF Queues, Wrap
  <2> QED
    BY <2>1
<1>2. CASE i < r
  <2>1. i - r + N \in 0 .. N - 1 /\ i = Wrap(r + (i - r + N))
    BY <1>2 DEF Queues, Wrap
  <2> QED
    BY <2>1
<1> QED
  BY <1>1, <1>2 DEF Queues

LEMMA DrrInitInv == DrrInit => DrrInv
<1> SUFFICES ASSUME DrrInit PROVE DrrInv
  OBVIOUS
<1>1. DrrShapes
  BY DEF DrrInit, DrrShapes, Off, Round0, Queues
<1>2. NothingLeft
  BY DEF DrrInit, NothingLeft
<1> QED
  BY <1>1, <1>2 DEF DrrInv

LEMMA ReserveKeeps ==
    ASSUME DrrInv, NEW p \in Producers, NEW i \in Queues, NEW n \in Sizes, Reserve(p, i, n)
    PROVE  DrrInv'
BY DEF DrrInv, DrrShapes, NothingLeft, Left, Passed, Told, Reserve, schedVars, Wrap

LEMMA ProduceKeeps ==
    ASSUME DrrInv, NEW p \in Producers, Produce(p)
    PROVE  DrrInv'
<1>0. prod[p].q \in Queues /\ prod[p].size \in Nat
  BY DEF DrrInv, DrrShapes
<1>1. CASE Push(p)
  <2>1. DrrShapes'
    <3>1. queue[prod[p].q] \in Seq(Nat)
      BY <1>0 DEF DrrInv, DrrShapes
    <3>2. Append(queue[prod[p].q], prod[p].size) \in Seq(Nat)
      BY <1>0, <3>1
    <3>3. queue' \in [Queues -> Seq(Nat)]
      BY <1>0, <1>1, <3>2 DEF DrrInv, DrrShapes, Push
    <3>4. prod' \in [Producers -> [pc : {"idle", "push", "notify"}, q : Queues, size : Nat]]
      BY <1>0, <1>1 DEF DrrInv, DrrShapes, Push
    <3> QED
      BY <1>1, <3>3, <3>4 DEF DrrInv, DrrShapes, Push, schedVars
  <2>2. prod'[p].pc = "notify"
    BY <1>1 DEF DrrInv, DrrShapes, Push
  <2> QED
    BY <2>1, <2>2 DEF DrrInv, NothingLeft, Told
<1>2. CASE Refuse(p)
  <2>1. DrrShapes'
    BY <1>2 DEF DrrInv, DrrShapes, Refuse, schedVars, Off, Queues
  <2>2. NothingLeft'
    BY <1>2 DEF DrrInv, DrrShapes, Refuse, schedVars, Off, NothingLeft, Left, Passed, Told, Wrap
  <2> QED
    BY <2>1, <2>2 DEF DrrInv
<1>3. CASE Notify(p)
  <2>1. DrrShapes'
    BY <1>3 DEF DrrInv, DrrShapes, Notify, schedVars, Off, Queues
  <2>2. Told'
    BY <1>3 DEF Notify, Told
  <2> QED
    BY <2>1, <2>2 DEF DrrInv, NothingLeft
<1> QED
  BY <1>1, <1>2, <1>3 DEF Produce

\* A visit that takes nothing has found its queue empty.
LEMMA VisitKeeps ==
    ASSUME DrrInv, Visit
    PROVE  DrrInv'
<1> DEFINE i == Wrap(round + drr.seen)
           d == Replenished(deficit[i])
           room == MaxBatch - drr.batch
<1>1. /\ drr.pc = "round" /\ drr.seen \in 0 .. N - 1 /\ drr.batch \in Nat /\ round \in Queues
      /\ room > 0
  BY DEF DrrInv, DrrShapes, Visit
<1>2. i \in Queues
  BY <1>1, WrapIn
<1> HIDE DEF i, d
<1>3. PICK k \in 0 .. Len(queue[i]) :
        /\ Takes(queue[i], d, room, k)
        /\ queue' = [queue EXCEPT ![i] = SubSeq(@, k + 1, Len(@))]
        /\ drr' = [drr EXCEPT !.seen = @ + 1, !.batch = @ + k]
  BY DEF Visit, i, d
<1>4. /\ prod' = prod /\ notified' = notified /\ round' = round
  BY DEF Visit
<1>5. queue[i] \in Seq(Nat) /\ Len(queue[i]) \in Nat /\ k \in Nat
  BY <1>2 DEF DrrInv, DrrShapes
<1>6. DrrShapes'
  <2>1. SubSeq(queue[i], k + 1, Len(queue[i])) \in Seq(Nat)
    BY <1>5
  <2>2. queue' \in [Queues -> Seq(Nat)]
    BY <1>2, <1>3, <2>1 DEF DrrInv, DrrShapes
  <2>3. drr' \in [pc : {"round", "wait", "send", "done"}, seen : 0 .. N, batch : Nat]
    <3>1. drr' = [pc |-> drr.pc, seen |-> drr.seen + 1, batch |-> drr.batch + k]
      BY <1>3 DEF DrrInv, DrrShapes
    <3>2. drr.seen + 1 \in 0 .. N /\ drr.batch + k \in Nat
      BY <1>1, <1>5
    <3> QED
      BY <1>1, <3>1, <3>2
  <2> QED
    BY <1>4, <2>2, <2>3 DEF DrrInv, DrrShapes
<1>7. NothingLeft'
  <2> SUFFICES ASSUME NEW j \in Queues, Left(j)', queue'[j] # <<>>
               PROVE  Told'
    BY DEF NothingLeft
  <2>1. drr'.pc = "round" /\ drr'.batch = drr.batch + k /\ drr'.seen = drr.seen + 1
    BY <1>1, <1>3 DEF DrrInv, DrrShapes
  <2>2. k = 0 /\ drr.batch = 0
    BY <1>1, <1>5, <2>1 DEF Left
  <2>3. Len(queue[i]) = 0
    BY <1>1, <1>3, <1>5, <2>2 DEF Takes
  <2>4. queue[i] = <<>>
    BY <1>5, <2>3
  <2>5. SubSeq(queue[i], k + 1, Len(queue[i])) = <<>>
    BY <1>5, <2>2, <2>3, <2>4
  <2>6. j # i
    BY <1>2, <1>3, <2>5 DEF DrrInv, DrrShapes
  <2>7. queue'[j] = queue[j]
    BY <1>2, <1>3, <2>6 DEF DrrInv, DrrShapes
  <2>8. PICK s \in 0 .. N - 1 : s < drr.seen + 1 /\ j = Wrap(round + s)
    BY <1>4, <2>1 DEF Left, Passed, Wrap
  <2>9. s # drr.seen
    BY <2>6, <2>8 DEF i
  <2>10. Passed(j)
    BY <1>1, <2>8, <2>9 DEF Passed
  <2>11. Left(j) /\ queue[j] # <<>>
    BY <1>1, <2>2, <2>7, <2>10 DEF Left
  <2> QED
    BY <1>4, <2>11 DEF DrrInv, NothingLeft, Told
<1> QED
  BY <1>6, <1>7 DEF DrrInv

\* When a round that found nothing ends, it has passed all queues.
LEMMA RoundEndsKeeps ==
    ASSUME DrrInv, RoundEnds
    PROVE  DrrInv'
<1>1. /\ drr.pc = "round" /\ drr.seen \in 0 .. N /\ drr.batch \in Nat /\ round \in Queues
      /\ drr.seen = N \/ drr.batch = MaxBatch
  BY DEF DrrInv, DrrShapes, RoundEnds
<1>2. /\ queue' = queue /\ prod' = prod /\ notified' = notified
      /\ round' = Wrap(round + drr.seen)
      /\ drr' = [pc |-> IF drr.batch > 0 THEN "send" ELSE "wait", seen |-> 0, batch |-> drr.batch]
  BY DEF RoundEnds, NextStart, Round0
<1>3. DrrShapes'
  <2>1. Wrap(round + drr.seen) \in Queues
    BY <1>1, WrapIn
  <2>2. drr' \in [pc : {"round", "wait", "send", "done"}, seen : 0 .. N, batch : Nat]
    BY <1>1, <1>2
  <2> QED
    BY <1>2, <2>1, <2>2 DEF DrrInv, DrrShapes
<1>4. NothingLeft'
  <2> SUFFICES ASSUME NEW j \in Queues, Left(j)', queue'[j] # <<>>
               PROVE  Told'
    BY DEF NothingLeft
  <2>1. drr.batch = 0
    BY <1>1, <1>2 DEF Left
  <2>2. drr.seen = N
    BY <1>1, <2>1
  <2>3. Passed(j)
    BY <1>1, <2>2, FullRound DEF Passed
  <2> QED
    BY <1>1, <1>2, <2>1, <2>3 DEF DrrInv, NothingLeft, Left, Told
<1> QED
  BY <1>3, <1>4 DEF DrrInv

LEMMA DrrOthersKeep ==
    ASSUME DrrInv, Wake \/ Forward \/ Quit \/ Consume \/ Stop \/ UNCHANGED drrVars
    PROVE  DrrInv'
<1>1. CASE Wake
  <2>1. DrrShapes'
    BY <1>1 DEF DrrInv, DrrShapes, Wake, Round0
  <2>2. NothingLeft'
    BY <1>1 DEF Wake, Round0, NothingLeft, Left, Passed
  <2> QED
    BY <2>1, <2>2 DEF DrrInv
<1>2. CASE Forward
  <2>0. /\ drr.batch \in Nat /\ drr.pc = "send" /\ drr.seen \in 0 .. N
        /\ drr' = IF drr.batch > 1 THEN [drr EXCEPT !.batch = @ - 1] ELSE Round0
    BY <1>2 DEF DrrInv, DrrShapes, Forward
  <2>1. DrrShapes'
    <3>1. drr' \in [pc : {"round", "wait", "send", "done"}, seen : 0 .. N, batch : Nat]
      <4>1. CASE drr.batch > 1
        <5>1. drr' = [pc |-> drr.pc, seen |-> drr.seen, batch |-> drr.batch - 1]
          BY <2>0, <4>1 DEF DrrInv, DrrShapes
        <5> QED
          BY <2>0, <4>1, <5>1
      <4>2. CASE ~(drr.batch > 1)
        BY <2>0, <4>2 DEF Round0
      <4> QED
        BY <4>1, <4>2
    <3> QED
      BY <1>2, <3>1 DEF DrrInv, DrrShapes, Forward
  <2>2. \A i \in Queues : ~Left(i)'
    <3>1. drr'.pc = "send" \/ (drr'.pc = "round" /\ drr'.seen = 0)
      BY <1>2 DEF DrrInv, DrrShapes, Forward, Round0
    <3> QED
      BY <3>1 DEF Left, Passed
  <2>3. NothingLeft'
    BY <2>2 DEF NothingLeft
  <2> QED
    BY <2>1, <2>3 DEF DrrInv
<1>3. CASE Quit
  <2>0. drr' = [pc |-> "done", seen |-> 0, batch |-> 0]
    BY <1>3 DEF Quit, Round0
  <2>1. DrrShapes'
    <3>1. drr' \in [pc : {"round", "wait", "send", "done"}, seen : 0 .. N, batch : Nat]
      BY <2>0, DrrAssumption
    <3> QED
      BY <1>3, <3>1 DEF DrrInv, DrrShapes, Quit
  <2>2. NothingLeft'
    BY <1>3, <2>0 DEF Quit, NothingLeft, Left
  <2> QED
    BY <2>1, <2>2 DEF DrrInv
<1>4. CASE Consume \/ Stop \/ UNCHANGED drrVars
  BY <1>4 DEF DrrInv, DrrShapes, Consume, Stop, drrVars, schedVars, NothingLeft, Left, Passed, Told, Wrap
<1> QED
  BY <1>1, <1>2, <1>3, <1>4

LEMMA DrrNextKeeps ==
    ASSUME DrrInv, [DrrNext]_drrVars
    PROVE  DrrInv'
BY ReserveKeeps, ProduceKeeps, VisitKeeps, RoundEndsKeeps, DrrOthersKeep DEF DrrNext, Schedule

\* A scheduler that sleeps while a frame waits has a notification to wake it,
\* or a producer that is about to give one.
THEOREM NoLostWakeupHolds == DrrSpec => []NoLostWakeup
<1>1. DrrSpec => []DrrInv
  BY DrrInitInv, DrrNextKeeps, PTL DEF DrrSpec
<1>2. DrrInv => NoLostWakeup
  BY DEF DrrInv, NothingLeft, Left, NoLostWakeup, Told
<1> QED
  BY <1>1, <1>2, PTL

\* DrrSound: every byte of the budget is free, queued or reserved, a scheduler
\* that sleeps over a frame is about to be woken, and no queue saves up more
\* than a quantum or is overdrawn by a frame or more.
THEOREM DrrIsSound == DrrSpec => []DrrSound
<1>1. DrrSpec => []BudgetInv
  BY BudgetInitInv, BudgetNextKeeps, PTL DEF DrrSpec
<1>2. BudgetInv /\ NoLostWakeup => DrrSound
  BY BudgetInvTypes DEF BudgetInv, DrrSound
<1> QED
  BY <1>1, <1>2, NoLostWakeupHolds, PTL

-----------------------------------------------------------------------------
(* The route table and the egress node: the inductive invariant. *)

\* What a peer in the list has said.
Heard(p) ==
    /\ DOMAIN p.says.claims \subseteq Nat /\ p.says.claims \in [DOMAIN p.says.claims -> Nat]
    /\ p.says.routes \in [Range(Nets) -> Seq(Nat)]

EgressTypeOK ==
    /\ links_ \in Seq(Range(links_)) /\ \A p \in Range(links_) : Heard(p)
    /\ setting \in Settings
    /\ chosen \in [Looked -> Range(chosen)]

\* The table was computed from these peers: what they passed on for a prefix one of
\* them claims, and a path begins at one of them.
ComputedFrom(ps) ==
    /\ \A x \in DOMAIN rt.routes : \A e \in Range(rt.routes[x]) :
          e[2] = "dynamic" /\ e[1] # Own => \E p \in Range(ps) : HasClaim(p, e[1])
    /\ \A n \in DOMAIN rt.paths : rt.paths[n].cost \in Nat /\ \E p \in Range(ps) : p.node = rt.paths[n].next

TableRight == OwnersKnown /\ (rt.of = <<>> \/ ComputedFrom(rt.of[1]))

EgressInv == EgressTypeOK /\ TableRight

-----------------------------------------------------------------------------
(* The lists the table is made of.                                         *)

JoinEntry(f, s, n) == IF n = 0 THEN <<>> ELSE f[n - 1] \o s[n]
JoinTable(f, s) == \A n \in 0 .. Len(s) : f[n] = JoinEntry(f, s, n)

LEMMA JoinTableExists ==
    ASSUME NEW s, Len(s) \in Nat
    PROVE  \E f : f = [n \in 0 .. Len(s) |-> JoinEntry(f, s, n)]
<1> DEFINE OK(f, k) == f = [n \in 0 .. k |-> JoinEntry(f, s, n)]
           Bad == {k \in Nat : ~ \E f : OK(f, k)}
<1>1. Bad = {}
  <2> SUFFICES ASSUME Bad # {} PROVE FALSE OBVIOUS
  <2>1. PICK m : m = Min(Bad) OBVIOUS
  <2>2. m \in Bad /\ \A y \in Bad : m <= y BY <2>1, MinOfNats
  <2>3. m \in Nat BY <2>2
  <2>4. CASE m = 0
    <3>1. OK([n \in 0 .. 0 |-> <<>>], 0) BY DEF JoinEntry
    <3> QED BY <2>2, <2>4, <3>1
  <2>5. CASE m # 0
    <3>1. m - 1 \in Nat /\ m - 1 \notin Bad
      <4> HIDE DEF Bad
      <4> QED BY <2>2, <2>3, <2>5
    <3>2. PICK f : OK(f, m - 1) BY <3>1
    <3> DEFINE g == [n \in 0 .. m |-> IF n = m THEN JoinEntry(f, s, m) ELSE f[n]]
               h == [n \in 0 .. m |-> JoinEntry(g, s, n)]
    <3>3. ASSUME NEW n \in 0 .. m PROVE g[n] = h[n]
      <4>1. h[n] = JoinEntry(g, s, n) OBVIOUS
      <4>2. n # 0 => g[n - 1] = f[n - 1]
        <5>1. n # 0 => n - 1 \in 0 .. m /\ n - 1 # m BY <2>3
        <5> QED BY <5>1
      <4>3. JoinEntry(g, s, n) = JoinEntry(f, s, n) BY <4>2 DEF JoinEntry
      <4>4. CASE n = m
        <5>1. g[n] = JoinEntry(f, s, n) BY <4>4
        <5> QED BY <4>1, <4>3, <5>1
      <4>5. CASE n # m
        <5>1. n \in 0 .. (m - 1) BY <2>3, <4>5
        <5>2. g[n] = f[n] BY <4>5
        <5>3. f[n] = JoinEntry(f, s, n)
          <6> DEFINE r == [i \in 0 .. (m - 1) |-> JoinEntry(f, s, i)]
          <6>1. r[n] = JoinEntry(f, s, n) BY <5>1
          <6>2. f = r BY <3>2
          <6> QED BY <6>1, <6>2
        <5> QED BY <4>1, <4>3, <5>2, <5>3
      <4> QED BY <4>4, <4>5
    <3>4. g = h BY <3>3, Zenon
    <3>5. OK(g, m) BY <3>4
    <3> QED BY <2>2, <3>5
  <2> QED BY <2>4, <2>5
<1> QED BY <1>1

LEMMA JoinIsTable ==
    ASSUME NEW s, Len(s) \in Nat
    PROVE  \E f : JoinTable(f, s) /\ OverPeers(s) = f[Len(s)]
<1> DEFINE Tab(f) == f = [n \in 0 .. Len(s) |-> IF n = 0 THEN <<>> ELSE f[n - 1] \o s[n]]
           F == CHOOSE f : Tab(f)
<1>1. \E f : Tab(f) BY JoinTableExists DEF JoinEntry
<1>2. Tab(F) BY <1>1
<1>3. OverPeers(s) = F[Len(s)] BY DEF OverPeers
<1> HIDE DEF F
<1>4. JoinTable(F, s) BY <1>2 DEF JoinTable, JoinEntry
<1> QED BY <1>3, <1>4

\* What the peers pass on is made of what each passes on.
LEMMA OverPeersType ==
    ASSUME NEW S, NEW n \in Nat, NEW s, Len(s) = n, \A i \in 1 .. n : s[i] \in Seq(S)
    PROVE  OverPeers(s) \in Seq(S)
<1>1. PICK f : JoinTable(f, s) /\ OverPeers(s) = f[n] BY JoinIsTable
<1> DEFINE Bad == {k \in 0 .. n : f[k] \notin Seq(S)}
<1>2. Bad = {}
  <2> SUFFICES ASSUME Bad # {} PROVE FALSE OBVIOUS
  <2>1. PICK m : m = Min(Bad) OBVIOUS
  <2>2. Bad \in SUBSET Nat OBVIOUS
  <2>3. m \in Bad /\ \A y \in Bad : m <= y BY <2>1, <2>2, MinOfNats
  <2>4. m \in 0 .. n /\ f[m] \notin Seq(S) BY <2>3
  <2>5. f[m] = JoinEntry(f, s, m) BY <1>1, <2>4 DEF JoinTable
  <2>6. m # 0 BY <2>4, <2>5 DEF JoinEntry
  <2>7. m - 1 \in 0 .. n /\ m - 1 \notin Bad
    <3> HIDE DEF Bad
    <3> QED BY <2>3, <2>4, <2>6
  <2>8. f[m - 1] \in Seq(S) BY <2>7
  <2>9. s[m] \in Seq(S) BY <2>4, <2>6
  <2>10. f[m - 1] \o s[m] \in Seq(S) BY <2>8, <2>9, ConcatProperties
  <2> QED BY <2>4, <2>5, <2>6, <2>10 DEF JoinEntry
<1>3. n \in 0 .. n OBVIOUS
<1> QED BY <1>1, <1>2, <1>3

LEMMA DistinctType ==
    ASSUME NEW S, NEW s \in Seq(S)
    PROVE  Distinct(s) \in Seq(S)
<1>1. Len(s) \in Nat /\ DOMAIN s = 1 .. Len(s) BY LenProperties
<1>2. PICK D : D = 1 .. Len(s) OBVIOUS
<1>3. PICK u : u = [i \in D |-> i] OBVIOUS
<1>4. u \in Seq(D)
  <2>1. u \in [1 .. Len(s) -> D] BY <1>2, <1>3
  <2> QED BY <1>1, <2>1, FunctionIsSeq
<1>5. PICK F : F = {i \in DOMAIN s : \A j \in DOMAIN s : j < i => s[j] # s[i]} OBVIOUS
<1>6. PICK at : at = Only(u, F) OBVIOUS
<1>7. at \in Seq(D) BY <1>4, <1>6, OnlyLemma
<1>8. Len(at) \in Nat /\ DOMAIN at = 1 .. Len(at) /\ \A k \in 1 .. Len(at) : at[k] \in D
  BY <1>7, LenProperties, ElementOfSeq
<1>9. PICK g : g = [k \in DOMAIN at |-> s[at[k]]] OBVIOUS
<1>10. Distinct(s) = g BY <1>1, <1>2, <1>3, <1>5, <1>6, <1>9 DEF Distinct
<1>11. g \in [1 .. Len(at) -> S]
  <2>1. \A i \in D : s[i] \in S BY <1>2, ElementOfSeq
  <2> QED BY <1>8, <1>9, <2>1
<1>12. g \in Seq(S) BY <1>8, <1>11, FunctionIsSeq
<1> QED BY <1>10, <1>12

LEMMA TaggedType ==
    ASSUME NEW S, NEW s \in Seq(S), NEW src
    PROVE  Tagged(s, src) \in Seq(S \X {src})
<1>1. Len(s) \in Nat /\ DOMAIN s = 1 .. Len(s) /\ \A i \in 1 .. Len(s) : s[i] \in S BY LenProperties, ElementOfSeq
<1>2. PICK g : g = Tagged(s, src) OBVIOUS
<1>3. g \in [1 .. Len(s) -> S \X {src}] BY <1>1, <1>2 DEF Tagged
<1> QED BY <1>1, <1>2, <1>3, FunctionIsSeq

\* Every dynamic entry of a prefix is this node's own or has an owner that one of the
\* peers claims.
LEMMA EntriesClaimed ==
    ASSUME NEW x \in Range(Nets), NEW R, NEW ps \in Seq(R), \A p \in Range(ps) : Heard(p), NEW st \in Settings,
           NEW e \in Range(EntriesOf(x, ps, st)), e[2] = "dynamic", e[1] # Own
    PROVE  \E p \in Range(ps) : HasClaim(p, e[1])
<1> DEFINE C == {n \in Nat : \E p \in Range(ps) : HasClaim(p, n)}
<1>1. Len(ps) \in Nat /\ DOMAIN ps = 1 .. Len(ps) BY LenProperties
<1>2. PICK cs : cs = [k \in DOMAIN ps |-> Copies(ps[k], x)] OBVIOUS
<1>3. ASSUME NEW k \in 1 .. Len(ps) PROVE cs[k] \in Seq(C)
  <2>1. PICK p : p = ps[k] OBVIOUS
  <2>2. p \in Range(ps) BY <1>1, <2>1 DEF Range
  <2>3. PICK r : r = p.says.routes[x] OBVIOUS
  <2>4. r \in Seq(Nat) BY <2>2, <2>3 DEF Heard
  <2>5. PICK T : T = {n \in Range(r) : HasClaim(p, n)} OBVIOUS
  <2>6. Range(r) \subseteq Nat
    <3>1. DOMAIN r = 1 .. Len(r) /\ \A i \in 1 .. Len(r) : r[i] \in Nat BY <2>4, LenProperties, ElementOfSeq
    <3> QED BY <3>1 DEF Range
  <2>7. T \subseteq C BY <2>2, <2>5, <2>6
  <2>8. Only(r, T) \in Seq(T) BY <2>4, OnlyLemma
  <2>9. Only(r, T) \in Seq(C)
    <3> HIDE DEF C
    <3>1. PICK o : o = Only(r, T) OBVIOUS
    <3>2. o \in Seq(T) BY <2>8, <3>1
    <3>3. o \in Seq(C) BY ONLY <2>7, <3>2
    <3> QED BY <3>1, <3>3
  <2>10. cs[k] = Only(r, T) BY <1>1, <1>2, <2>1, <2>3, <2>5 DEF Copies
  <2> QED BY <2>9, <2>10
<1>4. Len(cs) = Len(ps)
  <2>1. PICK V : V = Range(cs) OBVIOUS
  <2>2. cs \in [1 .. Len(ps) -> V] BY <1>1, <1>2, <2>1 DEF Range
  <2> QED BY <1>1, <2>2, FunctionIsSeq
<1> HIDE DEF C
<1>5. OverPeers(cs) \in Seq(C) BY <1>1, <1>3, <1>4, OverPeersType
<1>6. Distinct(OverPeers(cs)) \in Seq(C) BY <1>5, DistinctType
<1>7. PICK ty : ty = C \X {"dynamic"} OBVIOUS
<1>8. Tagged(Distinct(OverPeers(cs)), "dynamic") \in Seq(ty) BY <1>6, <1>7, TaggedType
<1>9. Tagged(st.static[x], "static") \in Seq(Nat \X {"static"})
  <2>1. st.static[x] \in Seq(Nat) BY EgressAssumption
  <2> QED BY <2>1, TaggedType
<1>10. PICK U : U = (Nat \X {"static"}) \cup ty \cup {<<Own, "dynamic">>} OBVIOUS
<1>11. PICK a, b : /\ a = Tagged(st.static[x], "static")
                   /\ b = IF x \in st.own THEN <<<<Own, "dynamic">>>> ELSE Tagged(Distinct(OverPeers(cs)), "dynamic")
  OBVIOUS
<1>12. a \in Seq(U) BY <1>9, <1>10, <1>11
<1>13. b \in Seq(U)
  <2>1. CASE x \in st.own
    <3>1. PICK o : o = <<Own, "dynamic">> OBVIOUS
    <3>2. o \in U BY <1>10, <3>1
    <3>3. <<o>> \in Seq(U) BY <3>2
    <3> QED BY <1>11, <2>1, <3>1, <3>3
  <2>2. CASE x \notin st.own BY <1>8, <1>10, <1>11, <2>2
  <2> QED BY <2>1, <2>2
<1>14. a \o b \in Seq(U) BY <1>12, <1>13, ConcatProperties
<1>15. EntriesOf(x, ps, st) = a \o b BY <1>2, <1>11 DEF EntriesOf
<1>16. e \in U
  <2>1. PICK c : c = a \o b OBVIOUS
  <2>2. DOMAIN c = 1 .. Len(c) /\ \A i \in 1 .. Len(c) : c[i] \in U BY <1>14, <2>1, LenProperties, ElementOfSeq
  <2> QED BY <1>15, <2>1, <2>2 DEF Range
<1>17. e \in ty BY <1>10, <1>16
<1>18. e[1] \in C BY <1>7, <1>17
<1> QED BY <1>18 DEF C

-----------------------------------------------------------------------------
(* The route table: the steps.                                             *)

LEMMA RecomputeKeeps ==
    ASSUME EgressTypeOK, NEW reach, NEW cost \in [reach -> 1..2], Recompute(reach, cost)
    PROVE  TableRight'
<1>1. PICK E : E = [x \in Range(Nets) |-> EntriesOf(x, links_, setting)] OBVIOUS
<1>2. PICK r : r = rt' OBVIOUS
<1>3. /\ r.routes = Routed(E) /\ r.known = Known(links_) /\ r.of = <<links_, setting>>
      /\ r.paths = [n \in reach |-> [next |-> IF n \in {p.node : p \in Range(links_)} THEN n
                                              ELSE (CHOOSE p \in Range(links_) : HasClaim(p, n)).node,
                                     cost |-> cost[n]]]
      /\ reach \subseteq Known(links_) \ {Own}
  BY <1>1, <1>2 DEF Recompute
<1>4. ASSUME NEW x \in DOMAIN r.routes PROVE x \in Range(Nets) /\ r.routes[x] = EntriesOf(x, links_, setting)
  BY <1>1, <1>3, <1>4 DEF Routed
<1>5. ASSUME NEW x \in DOMAIN r.routes, NEW e \in Range(r.routes[x]), e[2] = "dynamic", e[1] # Own
      PROVE  \E p \in Range(links_) : HasClaim(p, e[1])
  BY <1>4, <1>5, EntriesClaimed DEF EgressTypeOK
<1>6. ASSUME NEW n \in reach
      PROVE  r.paths[n].cost \in Nat /\ \E p \in Range(links_) : p.node = r.paths[n].next
  <2>1. r.paths[n].cost = cost[n] /\ cost[n] \in Nat BY <1>3
  <2>2. CASE n \in {p.node : p \in Range(links_)}
    <3>1. r.paths[n].next = n BY <1>3, <2>2
    <3> QED BY <2>1, <2>2, <3>1
  <2>3. CASE n \notin {p.node : p \in Range(links_)}
    <3>1. PICK q : q = CHOOSE p \in Range(links_) : HasClaim(p, n) OBVIOUS
    <3>2. \E p \in Range(links_) : HasClaim(p, n) BY <1>3, <2>3 DEF Known, HasClaim
    <3>3. q \in Range(links_) BY <3>1, <3>2
    <3>4. r.paths[n].next = q.node BY <1>3, <2>3, <3>1
    <3> QED BY <2>1, <3>3, <3>4
  <2> QED BY <2>2, <2>3
<1>7. OwnersKnown'
  <2>1. ASSUME NEW x \in DOMAIN r.routes, NEW e \in Range(r.routes[x]), e[2] = "dynamic" PROVE e[1] \in r.known
    <3>1. CASE e[1] = Own BY <1>3, <3>1 DEF Known
    <3>2. CASE e[1] # Own
      <4>1. PICK p \in Range(links_) : HasClaim(p, e[1]) BY <1>5, <2>1, <3>2
      <4> QED BY <1>3, <4>1 DEF Known, HasClaim
    <3> QED BY <3>1, <3>2
  <2> QED BY <1>2, <2>1 DEF OwnersKnown
<1>8. r.of[1] = links_ BY <1>3
<1>9. ComputedFrom(rt.of[1])'
  <2>1. DOMAIN r.paths = reach BY <1>3
  <2> QED BY <1>2, <1>5, <1>6, <1>8, <2>1 DEF ComputedFrom, HasClaim
<1> QED BY <1>7, <1>9 DEF TableRight

\* A peer's message puts what it said in its place, or at the end.
LEMMA PeerSaysKeeps ==
    ASSUME EgressTypeOK, NEW n \in Direct, NEW s \in Sayings, PeerSays(n, s)
    PROVE  EgressTypeOK'
<1>1. PICK e : e = [node |-> n, says |-> [s EXCEPT !.claims = [k \in DOMAIN @ \cup {n} |-> IF k = n THEN 1 ELSE @[k]]]]
  OBVIOUS
<1>2. Heard(e)
  <2>1. PICK c : c = [k \in DOMAIN s.claims \cup {n} |-> IF k = n THEN 1 ELSE s.claims[k]] OBVIOUS
  <2>2. DOMAIN c \subseteq Nat /\ c \in [DOMAIN c -> Nat] BY <2>1, EgressAssumption
  <2>3. PICK y : y = [s EXCEPT !.claims = c] OBVIOUS
  <2>4. y.claims = c /\ y.routes = s.routes BY <2>3, EgressAssumption
  <2>5. e.says = y BY <1>1, <2>1, <2>3
  <2> QED BY <2>2, <2>4, <2>5, EgressAssumption DEF Heard
<1>3. PICK L : L = links_' OBVIOUS
<1>4. Len(links_) \in Nat /\ DOMAIN links_ = 1 .. Len(links_) BY LenProperties DEF EgressTypeOK
<1>5. \/ L = [i \in DOMAIN links_ |-> IF links_[i].node = n THEN e ELSE links_[i]]
      \/ L = Append(links_, e)
  BY <1>1, <1>3 DEF PeerSays
<1>6. L \in Seq(Range(L)) /\ Range(L) \subseteq Range(links_) \cup {e}
  <2>1. CASE L = [i \in DOMAIN links_ |-> IF links_[i].node = n THEN e ELSE links_[i]]
    <3>1. L \in [1 .. Len(links_) -> Range(L)] BY <1>4, <2>1 DEF Range
    <3>2. L \in Seq(Range(L)) BY <1>4, <3>1, FunctionIsSeq
    <3>3. Range(L) \subseteq Range(links_) \cup {e} BY <2>1 DEF Range
    <3> QED BY <3>2, <3>3
  <2>2. CASE L = Append(links_, e)
    <3>1. PICK R : R = Range(links_) \cup {e} OBVIOUS
    <3>2. links_ \in Seq(R) /\ e \in R BY <3>1 DEF EgressTypeOK
    <3>3. L \in Seq(R) BY <2>2, <3>2, AppendProperties
    <3>4. DOMAIN L = 1 .. Len(L) /\ Len(L) \in Nat /\ (\A i \in 1 .. Len(L) : L[i] \in R) BY <3>3, LenProperties, ElementOfSeq
    <3>5. Range(L) \subseteq R BY <3>4 DEF Range
    <3>6. L \in [1 .. Len(L) -> Range(L)]
      <4>1. L = [i \in 1 .. Len(L) |-> L[i]] BY <3>3
      <4> QED BY <3>4, <4>1 DEF Range
    <3> QED BY <3>1, <3>4, <3>5, <3>6, FunctionIsSeq
  <2> QED BY <1>5, <2>1, <2>2
<1>7. \A p \in Range(L) : Heard(p) BY <1>2, <1>6 DEF EgressTypeOK
<1> QED BY <1>3, <1>6, <1>7 DEF EgressTypeOK, PeerSays, Heard

LEMMA PeerLeavesKeeps ==
    ASSUME EgressTypeOK, NEW n \in Direct, PeerLeaves(n)
    PROVE  EgressTypeOK'
<1>1. PICK T : T = {p \in Range(links_) : p.node # n} OBVIOUS
<1>2. PICK L : L = links_' OBVIOUS
<1>3. L = Only(links_, T) BY <1>1, <1>2 DEF PeerLeaves, Without
<1>4. L \in Seq(T) BY <1>3, OnlyLemma DEF EgressTypeOK
<1>5. DOMAIN L = 1 .. Len(L) /\ Len(L) \in Nat /\ (\A i \in 1 .. Len(L) : L[i] \in T) BY <1>4, LenProperties, ElementOfSeq
<1>6. Range(L) \subseteq Range(links_) BY <1>1, <1>5 DEF Range
<1>7. L \in [1 .. Len(L) -> Range(L)]
  <2>1. L = [i \in 1 .. Len(L) |-> L[i]] BY <1>4
  <2> QED BY <1>5, <2>1 DEF Range
<1>8. L \in Seq(Range(L)) BY <1>5, <1>7, FunctionIsSeq
<1> QED BY <1>2, <1>6, <1>8 DEF EgressTypeOK, PeerLeaves, Heard

\* A lookup changes the egress node of what is looked up, and only if it is not
\* among the owners any more.
LEMMA SelectLemma ==
    ASSUME chosen \in [Looked -> Range(chosen)], NEW q \in Looked, NEW av, NEW hash, Select(q, av, hash)
    PROVE  /\ chosen' \in [Looked -> Range(chosen')]
           /\ \A k \in Looked \ {q} : chosen'[k] = chosen[k]
           /\ Stays(q, av) => chosen'[q] = chosen[q]
<1>1. PICK c, v : c = chosen' /\ v = IF av = <<>> \/ Stays(q, av) THEN chosen[q] ELSE av[(hash % Len(av)) + 1][1] OBVIOUS
<1>2. c = [chosen EXCEPT ![q] = v] BY <1>1 DEF Select
<1>3. c = [k \in Looked |-> IF k = q THEN v ELSE chosen[k]] BY <1>2
<1>4. c \in [Looked -> Range(c)] BY <1>3 DEF Range
<1> QED BY <1>1, <1>3, <1>4

\* What Sticks says of a step.
Kept ==
    \A q \in Looked :
        LET av == Available(IF q = "address" THEN OwnersIn(rt.routes, Nets) ELSE OwnersIn(rt.names, Zones))
        IN  chosen[q] \in {e[1] : e \in Range(av)} => chosen'[q] = chosen[q]

LEMMA EgressStep ==
    ASSUME EgressInv, [EgressNext]_egressVars
    PROVE  EgressInv' /\ Kept
<1>0. EgressTypeOK /\ TableRight BY DEF EgressInv
<1>1. ASSUME UNCHANGED <<rt>> PROVE TableRight' BY <1>0, <1>1 DEF TableRight, OwnersKnown, ComputedFrom, HasClaim
<1>2. ASSUME UNCHANGED chosen PROVE Kept BY <1>2 DEF Kept
<1>3. ASSUME UNCHANGED <<links_, setting>>, chosen' \in [Looked -> Range(chosen')] PROVE EgressTypeOK'
  BY <1>0, <1>3 DEF EgressTypeOK, Heard
<1>4. ASSUME NEW n \in Direct, NEW s \in Sayings, PeerSays(n, s) PROVE EgressInv' /\ Kept
  BY <1>0, <1>1, <1>2, <1>4, PeerSaysKeeps DEF EgressInv, PeerSays
<1>5. ASSUME NEW n \in Direct, PeerLeaves(n) PROVE EgressInv' /\ Kept
  BY <1>0, <1>1, <1>2, <1>5, PeerLeavesKeeps DEF EgressInv, PeerLeaves
<1>6. ASSUME NEW s \in Settings, SetStaticRoutes(s) PROVE EgressInv' /\ Kept
  <2>1. EgressTypeOK' BY <1>0, <1>6 DEF SetStaticRoutes, EgressTypeOK, Heard
  <2> QED BY <1>1, <1>2, <1>6, <2>1 DEF EgressInv, SetStaticRoutes
<1>7. ASSUME NEW reach, NEW f \in [reach -> 1..2], Recompute(reach, f) PROVE EgressInv' /\ Kept
  <2>1. EgressTypeOK' BY <1>0, <1>3, <1>7 DEF Recompute, EgressTypeOK
  <2>2. TableRight' BY <1>0, <1>7, RecomputeKeeps
  <2> QED BY <1>2, <1>7, <2>1, <2>2 DEF EgressInv, Recompute
<1>8. ASSUME NEW hash, ResolveNodeIDForIP(hash) PROVE EgressInv' /\ Kept
  <2>1. PICK av : av = Available(OwnersIn(rt.routes, Nets)) OBVIOUS
  <2>2. Select("address", av, hash) /\ UNCHANGED <<links_, setting, rt>> BY <1>8, <2>1 DEF ResolveNodeIDForIP
  <2>3. chosen \in [Looked -> Range(chosen)] BY <1>0 DEF EgressTypeOK
  <2>4. "address" \in Looked BY DEF Looked
  <2>5. /\ chosen' \in [Looked -> Range(chosen')]
        /\ \A k \in Looked \ {"address"} : chosen'[k] = chosen[k]
        /\ Stays("address", av) => chosen'["address"] = chosen["address"]
    BY <2>2, <2>3, <2>4, SelectLemma
  <2>6. Kept BY <2>1, <2>5 DEF Kept, Stays
  <2> QED BY <1>1, <1>3, <2>2, <2>5, <2>6 DEF EgressInv
<1>9. ASSUME NEW hash, ResolveDomainSubnet(hash) PROVE EgressInv' /\ Kept
  <2>1. PICK av : av = Available(OwnersIn(rt.names, Zones)) OBVIOUS
  <2>2. Select("domain", av, hash) /\ UNCHANGED <<links_, setting, rt>> BY <1>9, <2>1 DEF ResolveDomainSubnet
  <2>3. chosen \in [Looked -> Range(chosen)] BY <1>0 DEF EgressTypeOK
  <2>4. "domain" \in Looked BY DEF Looked
  <2>5. /\ chosen' \in [Looked -> Range(chosen')]
        /\ \A k \in Looked \ {"domain"} : chosen'[k] = chosen[k]
        /\ Stays("domain", av) => chosen'["domain"] = chosen["domain"]
    BY <2>2, <2>3, <2>4, SelectLemma
  <2>6. Kept BY <2>1, <2>5 DEF Kept, Stays, Looked
  <2> QED BY <1>1, <1>3, <2>2, <2>5, <2>6 DEF EgressInv
<1>10. CASE UNCHANGED egressVars
  <2>1. EgressTypeOK' BY <1>0, <1>3, <1>10 DEF egressVars, EgressTypeOK
  <2> QED BY <1>1, <1>2, <1>10, <2>1 DEF EgressInv, egressVars
<1> QED BY <1>4, <1>5, <1>6, <1>7, <1>8, <1>9, <1>10 DEF EgressNext

\* The prefix a lookup finds has an entry.
LEMMA OwnersLemma ==
    ASSUME NEW f, NEW e \in Range(OwnersIn(f, Nets))
    PROVE  \E x \in DOMAIN f : OwnersIn(f, Nets) = f[x]
<1>1. PICK hit : hit = {i \in DOMAIN Nets : Nets[i] \in DOMAIN f} OBVIOUS
<1>2. PICK x : x = First(Nets, DOMAIN f) OBVIOUS
<1>3. x # None_
  <2>1. SUFFICES ASSUME x = None_ PROVE FALSE OBVIOUS
  <2>2. OwnersIn(f, Nets) = <<>> BY <1>2, <2>1 DEF OwnersIn
  <2>3. Range(<<>>) = {} BY DEF Range
  <2> QED BY <2>2, <2>3
<1>4. hit # {} BY <1>1, <1>2, <1>3 DEF First
<1>5. hit \in SUBSET Nat
  <2>1. DOMAIN Nets = 1 .. Len(Nets) /\ Len(Nets) \in Nat BY EgressAssumption, LenProperties
  <2> QED BY <1>1, <2>1
<1>6. Min(hit) \in hit BY <1>4, <1>5, MinOfNats
<1>7. x = Nets[Min(hit)] BY <1>1, <1>2, <1>4 DEF First
<1>8. x \in DOMAIN f BY <1>1, <1>6, <1>7
<1>9. OwnersIn(f, Nets) = f[x] BY <1>2, <1>3 DEF OwnersIn
<1> QED BY <1>8, <1>9

\* Where an owner is claimed by a peer, some peer is nearest.
LEMMA FallbackLemma ==
    ASSUME EgressTypeOK, NEW owners, NEW o \in owners, NEW p \in Range(links_), HasClaim(p, o)
    PROVE  FindNextHopsFallback(owners) # {}
<1>1. PICK cs : cs = Candidates(owners) OBVIOUS
<1>2. <<p.node, IF p.node = o THEN 1 ELSE p.says.claims[o]>> \in cs BY <1>1 DEF Candidates
<1>3. ASSUME NEW c \in cs PROVE c[2] \in Nat
  <2>1. PICK n \in owners, q \in Range(links_) :
           (q.node = n \/ HasClaim(q, n)) /\ c = <<q.node, IF q.node = n THEN 1 ELSE q.says.claims[n]>>
    BY <1>1, <1>3 DEF Candidates
  <2>2. q.says.claims \in [DOMAIN q.says.claims -> Nat] BY DEF EgressTypeOK, Heard
  <2> QED BY <2>1, <2>2 DEF HasClaim
<1>4. PICK H : H = {c[2] : c \in cs} OBVIOUS
<1>5. H \in SUBSET Nat /\ H # {} BY <1>2, <1>3, <1>4
<1>6. PICK m : m = Min(H) OBVIOUS
<1>7. m \in H /\ \A y \in H : m <= y BY <1>5, <1>6, MinOfNats
<1>8. PICK c \in cs : c[2] = m BY <1>4, <1>7
<1>9. \A d \in cs : c[2] <= d[2] BY <1>4, <1>7, <1>8
<1>10. c[1] \in SelectBestPeers(cs) BY <1>8, <1>9 DEF SelectBestPeers
<1> QED BY <1>1, <1>10 DEF FindNextHopsFallback

LEMMA InvDeliverable == ASSUME EgressInv PROVE Deliverable
<1>1. PICK es : es = OwnersIn(rt.routes, Nets) OBVIOUS
<1>2. SUFFICES ASSUME rt.of = <<links_, setting>>, NEW e \in Range(es), e[1] # Own, e[2] = "dynamic" PROVE FindNextHops # {}
  BY <1>1 DEF Deliverable
<1>3. ComputedFrom(links_)
  <2>1. rt.of # <<>> /\ rt.of[1] = links_ BY <1>2
  <2> QED BY <2>1 DEF EgressInv, TableRight
<1>4. PICK x \in DOMAIN rt.routes : es = rt.routes[x] BY <1>1, <1>2, OwnersLemma
<1>5. PICK p \in Range(links_) : HasClaim(p, e[1]) BY <1>2, <1>3, <1>4 DEF ComputedFrom
<1>6. PICK owners : owners = {d[1] : d \in Range(es)} \ {Own} OBVIOUS
<1>7. e[1] \in owners BY <1>2, <1>6
<1>8. PICK there : there = {n \in owners : n \in DOMAIN rt.paths} OBVIOUS
<1>9. CASE there = {}
  <2>1. FindNextHopsFallback(owners) # {} BY <1>5, <1>7, FallbackLemma DEF EgressInv
  <2>2. FindNextHops = FindNextHopsFallback(owners) BY <1>1, <1>6, <1>8, <1>9 DEF FindNextHops
  <2> QED BY <2>1, <2>2
<1>10. CASE there # {}
  <2>1. PICK best : best = CHOOSE n \in there : \A k \in there : rt.paths[n].cost <= rt.paths[k].cost OBVIOUS
  <2>2. \A n \in there : rt.paths[n].cost \in Nat /\ \E q \in Range(links_) : q.node = rt.paths[n].next
    BY <1>3, <1>8 DEF ComputedFrom
  <2>3. best \in there
    <3>1. PICK H : H = {rt.paths[n].cost : n \in there} OBVIOUS
    <3>2. H \in SUBSET Nat /\ H # {} BY <1>10, <2>2, <3>1
    <3>3. PICK m : m = Min(H) OBVIOUS
    <3>4. m \in H /\ \A y \in H : m <= y BY <3>2, <3>3, MinOfNats
    <3>5. PICK n \in there : rt.paths[n].cost = m BY <3>1, <3>4
    <3>6. \A k \in there : rt.paths[n].cost <= rt.paths[k].cost BY <3>1, <3>4, <3>5
    <3> QED BY <2>1, <3>5, <3>6
  <2>4. PICK q \in Range(links_) : q.node = rt.paths[best].next BY <2>2, <2>3
  <2>5. FindNextHops = {r.node : r \in {z \in Range(links_) : z.node = rt.paths[best].next}}
    BY <1>1, <1>6, <1>8, <1>10, <2>1 DEF FindNextHops
  <2> QED BY <2>4, <2>5
<1> QED BY <1>9, <1>10

LEMMA EgressStart == ASSUME EgressInit PROVE EgressInv
<1>1. links_ \in Seq(Range(links_)) /\ \A p \in Range(links_) : Heard(p)
  <2>1. links_ = <<>> /\ Range(<<>>) = {} BY DEF EgressInit, Range
  <2>2. <<>> \in Seq({}) OBVIOUS
  <2> QED BY <2>1, <2>2
<1>2. setting \in Settings BY EgressAssumption DEF EgressInit
<1>3. chosen \in [Looked -> Range(chosen)] BY DEF EgressInit, Range
<1>4. TableRight
  <2>1. rt.routes = NoRoutes /\ rt.of = <<>> BY DEF EgressInit
  <2> QED BY <2>1 DEF TableRight, OwnersKnown, NoRoutes
<1> QED BY <1>1, <1>2, <1>3, <1>4 DEF EgressInv, EgressTypeOK

\* For any peers, prefixes, suffixes, sayings and settings and any number of changes: an
\* owner that was passed on is known to the table; with a table of the present peers
\* an address with a claimed owner has a next hop, by a path or by the peer that claims
\* it at the fewest hops; and a destination keeps its egress node while that is an owner.
THEOREM EgressIsRight == EgressSpec => EgressRight
<1>1. EgressInit => EgressInv BY EgressStart
<1>2. EgressInv /\ [EgressNext]_egressVars => EgressInv' BY EgressStep
<1>3. EgressInv => OwnersKnown /\ Deliverable BY InvDeliverable DEF EgressInv, TableRight
<1>4. EgressInv /\ [EgressNext]_egressVars =>
        [\A q \in Looked :
            LET av == Available(IF q = "address" THEN OwnersIn(rt.routes, Nets) ELSE OwnersIn(rt.names, Zones))
            IN  chosen[q] \in {e[1] : e \in Range(av)} => chosen'[q] = chosen[q]]_egressVars
  BY EgressStep DEF Kept
<1>5. EgressSpec => []EgressInv BY <1>1, <1>2, PTL DEF EgressSpec
<1>6. EgressSpec => [](OwnersKnown /\ Deliverable) BY <1>3, <1>5, PTL
<1>7. EgressSpec => Sticks BY <1>4, <1>5, PTL DEF EgressSpec, Sticks
<1> QED BY <1>6, <1>7, PTL DEF EgressRight
-----------------------------------------------------------------------------
(* The loss window of a link: the inductive invariant. *)

Sample == [age : 0 .. Forgotten_, acked : BOOLEAN]

\* What LossExact says, of a window and the pongs heard.
Exact(w, h) ==
    \A i, j \in DOMAIN w :
        /\ w[i].age < Forgotten_ => (w[i].acked <=> w[i].age \in h)
        /\ i # j /\ w[i].age = w[j].age => w[i].age = Forgotten_

\* A ping in flight has no sample yet.
Unsampled(w, P) == \A i \in DOMAIN w : w[i].age \notin P

PingTypeOK ==
    /\ pend \subseteq 0 .. PongTimeout /\ grace \subseteq (PongTimeout + 1) .. LateGrace
    /\ heard \subseteq 0 .. LateGrace /\ window \in Seq(Sample)
    /\ lost \in Nat /\ silent \in 0 .. FailThreshold

PingInv ==
    /\ PingTypeOK
    /\ heard \cap pend = {} /\ heard \cap grace = {}
    /\ Exact(window, heard) /\ Unsampled(window, pend)
    /\ lost <= silent

-----------------------------------------------------------------------------
(* The loss window: its operators.                                         *)

\* A new sample goes to the end, and a full window loses its first.
LEMMA SampledLemma ==
    ASSUME NEW w \in Seq(Sample), NEW s \in Sample, NEW h, NEW P,
           Exact(w, h), Unsampled(w, P),
           s.age < Forgotten_ => (s.acked <=> s.age \in h),
           \A i \in DOMAIN w : w[i].age = s.age => s.age = Forgotten_,
           s.age \notin P
    PROVE  Sampled(w, s) \in Seq(Sample) /\ Exact(Sampled(w, s), h) /\ Unsampled(Sampled(w, s), P)
<1>1. PICK v : v = Append(w, s) OBVIOUS
<1>2. Len(w) \in Nat /\ DOMAIN w = 1 .. Len(w) BY LenProperties
<1>3. /\ v \in Seq(Sample) /\ Len(v) = Len(w) + 1 /\ v[Len(w) + 1] = s /\ (\A i \in 1 .. Len(w) : v[i] = w[i])
      /\ DOMAIN v = 1 .. Len(v)
  BY <1>1, AppendProperties, LenProperties
<1>4. Exact(v, h)
  <2>1. ASSUME NEW i \in DOMAIN v PROVE v[i].age < Forgotten_ => (v[i].acked <=> v[i].age \in h)
    <3>1. CASE i \in 1 .. Len(w) BY <1>2, <1>3, <3>1 DEF Exact
    <3>2. CASE i = Len(w) + 1 BY <1>3, <3>2
    <3> QED BY <1>2, <1>3, <3>1, <3>2
  <2>2. ASSUME NEW i \in DOMAIN v, NEW j \in DOMAIN v, i # j, v[i].age = v[j].age PROVE v[i].age = Forgotten_
    <3>1. CASE i \in 1 .. Len(w) /\ j \in 1 .. Len(w) BY <1>2, <1>3, <2>2, <3>1 DEF Exact
    <3>2. CASE i = Len(w) + 1 /\ j \in 1 .. Len(w) BY <1>2, <1>3, <2>2, <3>2
    <3>3. CASE j = Len(w) + 1 /\ i \in 1 .. Len(w) BY <1>2, <1>3, <2>2, <3>3
    <3> QED BY <1>2, <1>3, <2>2, <3>1, <3>2, <3>3
  <2> QED BY <2>1, <2>2 DEF Exact
<1>5. Unsampled(v, P)
  <2>1. SUFFICES ASSUME NEW i \in DOMAIN v PROVE v[i].age \notin P BY DEF Unsampled
  <2>2. CASE i \in 1 .. Len(w) BY <1>2, <1>3, <2>2 DEF Unsampled
  <2>3. CASE i = Len(w) + 1 BY <1>3, <2>3
  <2> QED BY <1>2, <1>3, <2>2, <2>3
<1>6. CASE Len(v) > LossWindow
  <2>1. PICK t : t = Tail(v) OBVIOUS
  <2>2. v # <<>> BY <1>2, <1>3, EmptySeq
  <2>3. t \in Seq(Sample) /\ Len(t) = Len(v) - 1 /\ (\A i \in 1 .. Len(t) : t[i] = v[i + 1]) /\ DOMAIN t = 1 .. Len(t) /\ Len(t) \in Nat
    BY <1>3, <2>1, <2>2, HeadTailProperties, LenProperties
  <2>4. \A i \in DOMAIN t : i + 1 \in DOMAIN v /\ t[i] = v[i + 1] BY <1>2, <1>3, <2>3
  <2>5. Exact(t, h)
    <3>1. ASSUME NEW i \in DOMAIN t, NEW j \in DOMAIN t
          PROVE  /\ t[i].age < Forgotten_ => (t[i].acked <=> t[i].age \in h)
                 /\ i # j /\ t[i].age = t[j].age => t[i].age = Forgotten_
      <4>1. i + 1 \in DOMAIN v /\ j + 1 \in DOMAIN v /\ t[i] = v[i + 1] /\ t[j] = v[j + 1] BY <2>4
      <4>2. i # j => i + 1 # j + 1 BY <2>3
      <4> QED BY <1>4, <4>1, <4>2 DEF Exact
    <3> QED BY <3>1 DEF Exact
  <2>6. Unsampled(t, P) BY <1>5, <2>4 DEF Unsampled
  <2>7. Sampled(w, s) = t BY <1>1, <1>6, <2>1 DEF Sampled
  <2> QED BY <2>3, <2>5, <2>6, <2>7
<1>7. CASE ~ (Len(v) > LossWindow)
  <2>1. Sampled(w, s) = v BY <1>1, <1>7 DEF Sampled
  <2> QED BY <1>3, <1>4, <1>5, <2>1
<1> QED BY <1>6, <1>7

\* Ages move on together.
LEMMA AgedLemma == ASSUME NEW A \in SUBSET Nat, NEW b PROVE b \in Aged(A) <=> b # Forgotten_ /\ \E a \in A : b = a + 1
BY DEF Aged

-----------------------------------------------------------------------------
(* The loss window: the steps.                                             *)

LEMMA RecordPingKeeps ==
    ASSUME PingInv, NEW sent \in BOOLEAN, RecordPing(sent), silent' = UpTo(silent + 1, FailThreshold)
    PROVE  PingInv'
<1>1. PICK stale : stale = {a \in pend : TooOld(a)} OBVIOUS
<1>2. PICK w : w = [i \in DOMAIN window |-> [window[i] EXCEPT !.age = Older(@)]] OBVIOUS
<1>3. /\ pend' = Aged(pend \ stale) \cup (IF sent THEN {0} ELSE {})
      /\ grace' = Aged(grace \cup stale)
      /\ window' = IF stale = {} THEN w ELSE Sampled(w, [age |-> PongTimeout + 1, acked |-> FALSE])
      /\ lost' = UpTo(lost + Cardinality(stale), FailThreshold)
      /\ heard' = Aged(heard)
  BY <1>1, <1>2 DEF RecordPing
<1>4. PingTypeOK /\ heard \cap pend = {} /\ heard \cap grace = {} /\ Exact(window, heard) /\ Unsampled(window, pend) /\ lost <= silent
  BY DEF PingInv
<1>5. PongTimeout \in Nat /\ LateGrace \in Nat /\ PongTimeout < LateGrace /\ Forgotten_ = LateGrace + 1 /\ FailThreshold \in Nat
  BY PingAssumption DEF Forgotten_
<1>6. \A a : a \in stale <=> a \in pend /\ a = PongTimeout
  <2>1. pend \subseteq 0 .. PongTimeout BY <1>4 DEF PingTypeOK
  <2>2. \A a \in 0 .. PongTimeout : TooOld(a) <=> a = PongTimeout BY <1>5 DEF TooOld
  <2> QED BY <1>1, <2>1, <2>2
<1>7. pend \in SUBSET Nat /\ grace \in SUBSET Nat /\ heard \in SUBSET Nat /\ stale \in SUBSET Nat
  BY <1>4, <1>5, <1>6 DEF PingTypeOK
<1>8. \A b : b \in pend' <=> (sent /\ b = 0) \/ \E a \in pend : a # PongTimeout /\ b = a + 1
  <2>1. \A b : b \in Aged(pend \ stale) <=> b # Forgotten_ /\ \E a \in pend \ stale : b = a + 1 BY <1>7, AgedLemma
  <2>2. \A a \in pend : a + 1 # Forgotten_ BY <1>4, <1>5 DEF PingTypeOK
  <2> QED BY <1>3, <1>6, <2>1, <2>2
<1>9. \A b : b \in grace' <=> b # Forgotten_ /\ \E a \in grace \cup stale : b = a + 1
  BY <1>3, <1>7, AgedLemma
<1>10. \A b : b \in heard' <=> b # Forgotten_ /\ \E a \in heard : b = a + 1
  BY <1>3, <1>7, AgedLemma
<1>11. pend' \subseteq 0 .. PongTimeout
  BY <1>4, <1>5, <1>8 DEF PingTypeOK
<1>12. grace' \subseteq (PongTimeout + 1) .. LateGrace
  BY <1>4, <1>5, <1>6, <1>9 DEF PingTypeOK
<1>13. heard' \subseteq 0 .. LateGrace
  BY <1>4, <1>5, <1>10 DEF PingTypeOK
<1>14. heard' \cap pend' = {}
  <2>1. ASSUME NEW b, b \in heard', b \in pend' PROVE FALSE
    <3>1. PICK a \in heard : b = a + 1 BY <1>10, <2>1
    <3>2. a \in Nat /\ b # 0 BY <1>7, <3>1
    <3>3. PICK c \in pend : b = c + 1 BY <1>8, <2>1, <3>2
    <3>4. a = c BY <1>7, <3>1, <3>2, <3>3
    <3> QED BY <1>4, <3>4
  <2> QED BY <2>1
<1>15. heard' \cap grace' = {}
  <2>1. ASSUME NEW b, b \in heard', b \in grace' PROVE FALSE
    <3>1. PICK a \in heard : b = a + 1 BY <1>10, <2>1
    <3>2. PICK c \in grace \cup stale : b = c + 1 BY <1>9, <2>1
    <3>3. a = c BY <1>7, <3>1, <3>2
    <3> QED BY <1>4, <1>6, <3>3
  <2> QED BY <2>1
<1>16. Len(window) \in Nat /\ DOMAIN window = 1 .. Len(window) /\ \A i \in DOMAIN window : window[i] \in Sample
  BY <1>4, LenProperties, ElementOfSeq DEF PingTypeOK
<1>17. ASSUME NEW i \in DOMAIN window
       PROVE  /\ w[i] \in Sample /\ w[i].acked = window[i].acked
              /\ w[i].age = IF window[i].age < Forgotten_ THEN window[i].age + 1 ELSE window[i].age
  <2>1. w[i] = [window[i] EXCEPT !.age = Older(@)] BY <1>2
  <2>2. PICK x : x = window[i] OBVIOUS
  <2>3. x \in Sample BY <1>16, <2>2
  <2>4. PICK o : o = Older(x.age) OBVIOUS
  <2>5. o = IF x.age < Forgotten_ THEN x.age + 1 ELSE x.age BY <2>4 DEF Older
  <2>6. o \in 0 .. Forgotten_ BY <1>5, <2>3, <2>5 DEF Sample
  <2>7. w[i] = [x EXCEPT !.age = o] BY <2>1, <2>2, <2>4
  <2>8. w[i] \in Sample /\ w[i].age = o /\ w[i].acked = x.acked BY <2>3, <2>6, <2>7 DEF Sample
  <2> QED BY <2>2, <2>5, <2>8
<1>18. DOMAIN w = DOMAIN window /\ w \in Seq(Sample)
  <2>1. DOMAIN w = DOMAIN window BY <1>2
  <2>2. w \in [1 .. Len(window) -> Sample] BY <1>2, <1>16, <1>17
  <2> QED BY <1>16, <2>1, <2>2, FunctionIsSeq
<1>19. Exact(w, heard')
  <2>1. ASSUME NEW i \in DOMAIN w, w[i].age < Forgotten_ PROVE w[i].acked <=> w[i].age \in heard'
    <3>1. window[i].age \in Nat /\ window[i].age < Forgotten_ /\ w[i].age = window[i].age + 1 /\ w[i].acked = window[i].acked
      BY <1>5, <1>16, <1>17, <1>18, <2>1 DEF Sample
    <3>2. window[i].acked <=> window[i].age \in heard BY <1>4, <1>18, <3>1 DEF Exact
    <3>3. w[i].age \in heard' <=> window[i].age \in heard
      <4>1. PICK x \in Nat : x = window[i].age BY <3>1
      <4>2. \A a \in heard : a + 1 = x + 1 => a = x BY <1>7, <4>1
      <4>3. w[i].age = x + 1 /\ x + 1 # Forgotten_ BY <1>5, <2>1, <3>1, <4>1
      <4>4. x + 1 \in heard' <=> x \in heard BY <1>10, <4>2, <4>3
      <4> QED BY <4>1, <4>3, <4>4
    <3> QED BY <3>1, <3>2, <3>3
  <2>2. ASSUME NEW i \in DOMAIN w, NEW j \in DOMAIN w, i # j, w[i].age = w[j].age PROVE w[i].age = Forgotten_
    <3>1. /\ window[i].age \in 0 .. Forgotten_ /\ window[j].age \in 0 .. Forgotten_
          /\ w[i].age = (IF window[i].age < Forgotten_ THEN window[i].age + 1 ELSE window[i].age)
          /\ w[j].age = (IF window[j].age < Forgotten_ THEN window[j].age + 1 ELSE window[j].age)
      BY <1>16, <1>17, <1>18 DEF Sample
    <3>2. window[i].age = window[j].age => window[i].age = Forgotten_ BY <1>4, <1>18, <2>2 DEF Exact
    <3>3. PICK m \in 0 .. Forgotten_, n \in 0 .. Forgotten_ : m = window[i].age /\ n = window[j].age BY <3>1
    <3>4. (IF m < Forgotten_ THEN m + 1 ELSE m) = (IF n < Forgotten_ THEN n + 1 ELSE n) BY <2>2, <3>1, <3>3
    <3>5. m = n => m = Forgotten_ BY <3>2, <3>3
    <3>6. (IF m < Forgotten_ THEN m + 1 ELSE m) = Forgotten_ BY <1>5, <3>4, <3>5
    <3> QED BY <3>1, <3>3, <3>6
  <2> QED BY <2>1, <2>2 DEF Exact
<1>20. ASSUME NEW i \in DOMAIN w, NEW a \in pend PROVE w[i].age # a + 1
  <2>1. /\ window[i].age \in 0 .. Forgotten_ /\ window[i].age # a
        /\ w[i].age = (IF window[i].age < Forgotten_ THEN window[i].age + 1 ELSE window[i].age)
    BY <1>4, <1>16, <1>17, <1>18 DEF Sample, Unsampled
  <2>2. a \in 0 .. PongTimeout BY <1>4 DEF PingTypeOK
  <2> QED BY <1>5, <2>1, <2>2
<1>21. Unsampled(w, pend')
  <2>1. SUFFICES ASSUME NEW i \in DOMAIN w, w[i].age \in pend' PROVE FALSE BY DEF Unsampled
  <2>2. w[i].age # 0
    <3>1. window[i].age \in 0 .. Forgotten_ /\ w[i].age = (IF window[i].age < Forgotten_ THEN window[i].age + 1 ELSE window[i].age)
      BY <1>16, <1>17, <1>18 DEF Sample
    <3> QED BY <1>5, <3>1
  <2>3. PICK a \in pend : w[i].age = a + 1 BY <1>8, <2>1, <2>2
  <2> QED BY <1>20, <2>3
<1>22. window' \in Seq(Sample) /\ Exact(window', heard') /\ Unsampled(window', pend')
  <2>1. CASE stale = {}
    <3>1. window' = w BY <1>3, <2>1
    <3> QED BY <1>18, <1>19, <1>21, <3>1
  <2>2. CASE stale # {}
    <3>1. PongTimeout \in pend BY <1>6, <2>2
    <3>2. PICK s : s = [age |-> PongTimeout + 1, acked |-> FALSE] OBVIOUS
    <3>3. s \in Sample /\ s.age = PongTimeout + 1 /\ s.acked = FALSE BY <1>5, <3>2 DEF Sample
    <3>4. s.age \notin heard'
      <4>1. SUFFICES ASSUME s.age \in heard' PROVE FALSE OBVIOUS
      <4>2. PICK a \in heard : PongTimeout + 1 = a + 1 BY <1>10, <3>3, <4>1
      <4>3. a = PongTimeout BY <1>5, <1>7, <4>2
      <4> QED BY <1>4, <3>1, <4>3
    <3>5. s.age \notin pend' BY <1>5, <1>11, <3>3
    <3>6. \A i \in DOMAIN w : w[i].age # s.age BY <1>20, <3>1, <3>3
    <3>7. PICK h, P : h = heard' /\ P = pend' OBVIOUS
    <3>8. Exact(w, h) /\ Unsampled(w, P) BY <1>19, <1>21, <3>7
    <3>9. Sampled(w, s) \in Seq(Sample) /\ Exact(Sampled(w, s), h) /\ Unsampled(Sampled(w, s), P)
      <4>1. s.age < Forgotten_ => (s.acked <=> s.age \in h) BY <3>3, <3>4, <3>7
      <4>2. \A i \in DOMAIN w : w[i].age = s.age => s.age = Forgotten_ BY <3>6
      <4>3. s.age \notin P BY <3>5, <3>7
      <4> QED BY ONLY <1>18, <3>3, <3>8, <4>1, <4>2, <4>3, SampledLemma
    <3>10. window' = Sampled(w, s) BY <1>3, <2>2, <3>2
    <3> QED BY <3>7, <3>9, <3>10
  <2> QED BY <2>1, <2>2
<1>23. lost' \in Nat /\ silent' \in 0 .. FailThreshold /\ lost' <= silent'
  <2>1. Cardinality(stale) \in 0 .. 1
    <3>1. stale = {} \/ stale = {PongTimeout} BY <1>6
    <3>2. CASE stale = {} BY <3>2, FS_EmptySet
    <3>3. CASE stale = {PongTimeout}
      <4>1. Cardinality({PongTimeout}) = 1 BY FS_Singleton
      <4> QED BY <3>3, <4>1
    <3> QED BY <3>1, <3>2, <3>3
  <2>2. lost \in Nat /\ silent \in Nat BY <1>4, <1>5 DEF PingTypeOK
  <2>3. PICK c \in 0 .. 1 : c = Cardinality(stale) BY <2>1
  <2>4. lost' = (IF lost + c < FailThreshold THEN lost + c ELSE FailThreshold) BY <1>3, <2>3 DEF UpTo
  <2>5. silent' = (IF silent + 1 < FailThreshold THEN silent + 1 ELSE FailThreshold) BY DEF UpTo
  <2> QED BY <1>4, <1>5, <2>2, <2>4, <2>5
<1>24. PingTypeOK' BY <1>11, <1>12, <1>13, <1>22, <1>23 DEF PingTypeOK
<1> QED BY <1>14, <1>15, <1>22, <1>23, <1>24 DEF PingInv

\* A pong that comes in time adds a sample, a late one turns the sample its
\* ping has.
LEMMA RecordPongKeeps ==
    ASSUME PingInv, NEW a \in 0 .. LateGrace, RecordPong(a)
    PROVE  PingInv'
<1>1. PingTypeOK /\ heard \cap pend = {} /\ heard \cap grace = {} /\ Exact(window, heard) /\ Unsampled(window, pend) /\ lost <= silent
  BY DEF PingInv
<1>2. PongTimeout \in Nat /\ LateGrace \in Nat /\ PongTimeout < LateGrace /\ Forgotten_ = LateGrace + 1
  BY PingAssumption DEF Forgotten_
<1>3. /\ pend \subseteq 0 .. PongTimeout /\ grace \subseteq (PongTimeout + 1) .. LateGrace /\ heard \subseteq 0 .. LateGrace
      /\ window \in Seq(Sample)
  BY <1>1 DEF PingTypeOK
<1>4. heard' = heard \cup {a} /\ lost' = 0 /\ silent' = 0 BY DEF RecordPong
<1>5. heard' \subseteq 0 .. LateGrace /\ lost' \in Nat /\ silent' \in 0 .. FailThreshold /\ lost' <= silent' BY <1>3, <1>4, PingAssumption
<1>6. DOMAIN window = 1 .. Len(window) /\ Len(window) \in Nat /\ \A i \in DOMAIN window : window[i] \in Sample
  BY <1>3, LenProperties, ElementOfSeq
<1>7. CASE /\ a \in pend /\ pend' = pend \ {a} /\ window' = Sampled(window, [age |-> a, acked |-> TRUE])
           /\ UNCHANGED grace
  <2>1. a \notin grace BY <1>2, <1>3, <1>7
  <2>2. heard' \cap pend' = {} /\ heard' \cap grace' = {} BY <1>1, <1>4, <1>7, <2>1
  <2>3. pend' \subseteq 0 .. PongTimeout /\ grace' \subseteq (PongTimeout + 1) .. LateGrace BY <1>3, <1>7
  <2>4. PICK s : s = [age |-> a, acked |-> TRUE] OBVIOUS
  <2>5. s \in Sample /\ s.age = a /\ s.acked = TRUE BY <1>2, <2>4 DEF Sample
  <2>6. PICK h, P : h = heard' /\ P = pend' OBVIOUS
  <2>7. \A i \in DOMAIN window : window[i].age # a BY <1>1, <1>7 DEF Unsampled
  <2>8. Exact(window, h) BY <1>1, <1>4, <2>6, <2>7 DEF Exact
  <2>9. Unsampled(window, P) BY <1>1, <1>7, <2>6 DEF Unsampled
  <2>10. s.age < Forgotten_ => (s.acked <=> s.age \in h) BY <1>4, <2>5, <2>6
  <2>11. \A i \in DOMAIN window : window[i].age = s.age => s.age = Forgotten_ BY <2>5, <2>7
  <2>12. s.age \notin P BY <1>7, <2>5, <2>6
  <2>13. Sampled(window, s) \in Seq(Sample) /\ Exact(Sampled(window, s), h) /\ Unsampled(Sampled(window, s), P)
    BY ONLY <1>3, <2>5, <2>8, <2>9, <2>10, <2>11, <2>12, SampledLemma
  <2>14. window' \in Seq(Sample) /\ Exact(window', heard') /\ Unsampled(window', pend') BY <1>7, <2>4, <2>6, <2>13
  <2>15. PingTypeOK' BY <1>5, <2>3, <2>14 DEF PingTypeOK
  <2> QED BY <1>5, <2>2, <2>14, <2>15 DEF PingInv
<1>8. CASE /\ a \in grace /\ grace' = grace \ {a} /\ window' = Overturned(window, a)
           /\ UNCHANGED pend
  <2>1. a \notin pend BY <1>2, <1>3, <1>8
  <2>2. heard' \cap pend' = {} /\ heard' \cap grace' = {} BY <1>1, <1>4, <1>8, <2>1
  <2>3. pend' \subseteq 0 .. PongTimeout /\ grace' \subseteq (PongTimeout + 1) .. LateGrace BY <1>3, <1>8
  <2>4. PICK w : w = Overturned(window, a) OBVIOUS
  <2>5. w = [i \in DOMAIN window |-> IF window[i].age = a THEN [window[i] EXCEPT !.acked = TRUE] ELSE window[i]]
    BY <2>4 DEF Overturned
  <2>6. ASSUME NEW i \in DOMAIN window
        PROVE  w[i] \in Sample /\ w[i].age = window[i].age /\ w[i].acked = (IF window[i].age = a THEN TRUE ELSE window[i].acked)
    <3>1. PICK x \in Sample : x = window[i] BY <1>6
    <3>2. w[i] = IF x.age = a THEN [x EXCEPT !.acked = TRUE] ELSE x BY <2>5, <3>1
    <3>3. [x EXCEPT !.acked = TRUE] \in Sample /\ [x EXCEPT !.acked = TRUE].age = x.age /\ [x EXCEPT !.acked = TRUE].acked = TRUE BY <3>1 DEF Sample
    <3> QED BY <3>1, <3>2, <3>3
  <2>7. DOMAIN w = DOMAIN window BY <2>5
  <2>8. w \in Seq(Sample)
    <3>1. w \in [1 .. Len(window) -> Sample] BY <1>6, <2>5, <2>6
    <3> QED BY <1>6, <3>1, FunctionIsSeq
  <2>9. Exact(w, heard')
    <3>1. ASSUME NEW i \in DOMAIN w, w[i].age < Forgotten_ PROVE w[i].acked <=> w[i].age \in heard'
      <4>1. CASE window[i].age = a BY <1>4, <2>6, <2>7, <4>1
      <4>2. CASE window[i].age # a
        <5>1. window[i].acked <=> window[i].age \in heard BY <1>1, <2>6, <2>7, <3>1 DEF Exact
        <5> QED BY <1>4, <2>6, <2>7, <4>2, <5>1
      <4> QED BY <4>1, <4>2
    <3>2. ASSUME NEW i \in DOMAIN w, NEW j \in DOMAIN w, i # j, w[i].age = w[j].age PROVE w[i].age = Forgotten_
      BY <1>1, <2>6, <2>7, <3>2 DEF Exact
    <3> QED BY <3>1, <3>2 DEF Exact
  <2>10. Unsampled(w, pend') BY <1>1, <1>8, <2>6, <2>7 DEF Unsampled
  <2>11. window' \in Seq(Sample) /\ Exact(window', heard') /\ Unsampled(window', pend') BY <1>8, <2>4, <2>8, <2>9, <2>10
  <2>12. PingTypeOK' BY <1>5, <2>3, <2>11 DEF PingTypeOK
  <2> QED BY <1>5, <2>2, <2>11, <2>12 DEF PingInv
<1> QED BY <1>7, <1>8 DEF RecordPong

LEMMA PingStart == ASSUME PingInit PROVE PingInv
<1>1. window = <<>> /\ DOMAIN window = {} /\ window \in Seq(Sample) BY DEF PingInit
<1> QED BY <1>1, PingAssumption DEF PingInit, PingInv, PingTypeOK, Exact, Unsampled

\* Steps that leave the window and the counts alone.
LEMMA PingUnchanged ==
    ASSUME PingInv, pend' = pend, grace' = grace, window' = window, lost' = lost, heard' = heard,
           silent' \in 0 .. FailThreshold, silent <= silent'
    PROVE  PingInv'
<1>1. PingTypeOK' /\ (lost <= silent)' BY PingAssumption DEF PingInv, PingTypeOK
<1> QED BY <1>1 DEF PingInv, Exact, Unsampled

\* The count of lost pings never exceeds the time without a pong, which is what
\* keeps a link open whose pongs are only delayed.
LEMMA PingStep ==
    ASSUME PingInv, [PingNext]_pingVars
    PROVE  PingInv' /\ (open /\ ~open' => silent >= FailThreshold /\ quiet >= InboundQuiet)
<1>1. lost \in Nat /\ silent \in 0 .. FailThreshold /\ lost <= silent /\ FailThreshold \in Nat BY PingAssumption DEF PingInv, PingTypeOK
<1>2. ASSUME NEW sent \in BOOLEAN, SendPing(sent) PROVE PingInv' /\ (open /\ ~open' => silent >= FailThreshold /\ quiet >= InboundQuiet)
  <2>1. silent' = UpTo(silent + 1, FailThreshold) BY <1>2 DEF SendPing
  <2>2. CASE ~GiveUp /\ RecordPing(sent) /\ UNCHANGED open BY <1>2, <2>1, <2>2, RecordPingKeeps
  <2>3. CASE GiveUp /\ UNCHANGED <<pend, grace, window, lost, wire, heard>>
    <3>1. lost >= FailThreshold /\ quiet >= InboundQuiet BY <2>3 DEF GiveUp
    <3>2. silent >= FailThreshold BY <1>1, <3>1
    <3>3. silent' = FailThreshold BY <1>1, <2>1, <3>2 DEF UpTo
    <3>4. silent' \in 0 .. FailThreshold /\ silent <= silent' BY <1>1, <3>3
    <3> QED BY <2>3, <3>1, <3>2, <3>4, PingUnchanged
  <2> QED BY <1>2, <2>2, <2>3 DEF SendPing
<1>3. ASSUME NEW a \in 0 .. LateGrace, RecordPong(a) PROVE PingInv' /\ open' = open
  <2>1. open' = open BY <1>3 DEF RecordPong
  <2> QED BY <1>3, <2>1, RecordPongKeeps
<1>4. ASSUME NEW a \in 0 .. LateGrace, LosePing(a) PROVE PingInv' /\ open' = open BY <1>1, <1>4, PingUnchanged DEF LosePing
<1>5. ASSUME Inbound PROVE PingInv' /\ open' = open BY <1>1, <1>5, PingUnchanged DEF Inbound
<1>6. ASSUME Vanish PROVE PingInv' /\ open' = open BY <1>1, <1>6, PingUnchanged DEF Vanish
<1>7. ASSUME UNCHANGED pingVars PROVE PingInv' /\ open' = open BY <1>1, <1>7, PingUnchanged DEF pingVars
<1> QED BY <1>2, <1>3, <1>4, <1>5, <1>6, <1>7 DEF PingNext

\* The loss window of a link is exact at every moment, and sendPing closes only
\* a link without a pong for FailThreshold pings and without any frame for
\* InboundQuiet, for every choice of the five constants of p2p.go.
THEOREM PingIsExact == PingSpec => []LossExact /\ KilledOnlyDead
<1>1. PingInit => PingInv BY PingStart
<1>2. PingInv /\ [PingNext]_pingVars => PingInv' BY PingStep
<1>3. PingInv => LossExact BY DEF PingInv, Exact, LossExact
<1>4. PingInv /\ [PingNext]_pingVars => [open /\ ~open' => silent >= FailThreshold /\ quiet >= InboundQuiet]_pingVars BY PingStep
<1> QED BY <1>1, <1>2, <1>3, <1>4, PTL DEF PingSpec, KilledOnlyDead
=============================================================================

---------------------------- MODULE ReverseProofs ----------------------------
(***************************************************************************)
(* The reverse service: the passive end's connection pool, the handshake   *)
(* on one reverse connection, the control plane that registers its         *)
(* clients, the registry that matches dialers with connections, and the    *)
(* UDP channel through one connection.  They share no variable, and each   *)
(* has an inductive invariant of its own.                                  *)
(***************************************************************************)
EXTENDS ReversePool, ReverseHandshake, ControlPlane, ReverseRegistry, ReverseUdp, SeqLemmas, FiniteSetTheorems

-----------------------------------------------------------------------------
(***************************************************************************)
(* The safety of the reverse connection pool for any pool size, any finite *)
(* set of sockets and any number of pending retry timers.                  *)
(***************************************************************************)

\* The pool is the set of connections whose goroutine has not removed itself,
\* and the manager holds exactly one fresh socket between dial and insert.
Membership ==
    /\ connections = {c \in Sockets : cpc[c] \in {"wait", "leave", "accept"}}
    /\ mgr = "add" <=> dialed # NoConn
    /\ mgr = "add" => cpc[dialed] = "unused"

\* The decision to dial stays valid while the lock is released, because only
\* the manager inserts.
RoomKept == mgr \in {"dial", "add"} => Cardinality(connections) < MaxConns

\* What CloseForce has still to close is in its snapshot.
ForceProgress ==
    /\ force # "idle" => serverClosed
    /\ force = "closing" => connections \cap open \subseteq victims

PoolInv ==
    PoolTypeOK /\ Membership /\ PoolBound /\ RoomKept /\ WakeupPending
    /\ NoOrphanSocket /\ ForceProgress /\ ForceClosedPool

\* A pool has a size.
LEMMA PoolSize == ASSUME NEW S \in SUBSET Sockets PROVE Cardinality(S) \in Nat
  BY PoolAssumption, FS_Subset, FS_CardinalityType

\* A pool grows by one at most when a connection joins, and never when one
\* leaves.
LEMMA PoolSizes ==
    ASSUME NEW S \in SUBSET Sockets, NEW c \in Sockets
    PROVE  /\ Cardinality(S) \in Nat
           /\ Cardinality(S \cup {c}) \in Nat
           /\ Cardinality(S \cup {c}) <= Cardinality(S) + 1
           /\ Cardinality(S \ {c}) \in Nat
           /\ Cardinality(S \ {c}) <= Cardinality(S)
<1>1. IsFiniteSet(S) /\ IsFiniteSet(S \cup {c}) /\ IsFiniteSet(S \ {c})
  BY PoolAssumption, FS_Subset
<1>2. Cardinality(S) \in Nat /\ Cardinality(S \cup {c}) \in Nat /\ Cardinality(S \ {c}) \in Nat
  BY <1>1, FS_CardinalityType
<1>3. Cardinality(S \cup {c}) = IF c \in S THEN Cardinality(S) ELSE Cardinality(S) + 1
  BY <1>1, FS_AddElement
<1>4. Cardinality(S \ {c}) = IF c \in S THEN Cardinality(S) - 1 ELSE Cardinality(S)
  BY <1>1, FS_RemoveElement
<1> QED
  BY <1>2, <1>3, <1>4

\* A fresh pool is empty and the first token is on its way.
LEMMA PoolInitInv == PoolInit => PoolInv
<1> SUFFICES ASSUME PoolInit PROVE PoolInv
  OBVIOUS
<1>1. Cardinality({}) = 0
  BY FS_EmptySet
<1>2. PoolTypeOK
  <2>1. timers \in 0 .. MaxTimers
    BY PoolAssumption DEF PoolInit
  <2>2. serverClosed \in BOOLEAN /\ token \in BOOLEAN
    BY Zenon DEF PoolInit
  <2> QED
    BY <2>1, <2>2 DEF PoolInit, PoolTypeOK, MgrPcs, ConnPcs
<1>3. Membership /\ NoOrphanSocket /\ WakeupPending
  BY DEF PoolInit, Membership, NoOrphanSocket, WakeupPending
<1>4. PoolBound /\ RoomKept
  BY <1>1, PoolAssumption DEF PoolInit, PoolBound, RoomKept
<1>5. ForceProgress /\ ForceClosedPool
  BY DEF PoolInit, ForceProgress, ForceClosedPool
<1> QED
  BY <1>2, <1>3, <1>4, <1>5 DEF PoolInv

\* Every step keeps the types.
LEMMA PoolNextTypes == PoolInv /\ [PoolNext]_poolVars => PoolTypeOK'
<1> SUFFICES ASSUME PoolInv, [PoolNext]_poolVars PROVE PoolTypeOK'
  OBVIOUS
<1> USE PoolAssumption DEF PoolInv, PoolTypeOK, MgrPcs, ConnPcs, Membership, NotifyNeedConn
<1>1. CASE ManagerStops BY <1>1 DEF ManagerStops
<1>2. CASE GenConnection BY <1>2 DEF GenConnection
<1>3. CASE DialFail BY <1>3 DEF DialFail, ArmRetry
<1>4. CASE AddConnection BY <1>4 DEF AddConnection
<1>5. CASE DropDialed BY <1>5 DEF DropDialed
<1>6. CASE ManagerNotify BY <1>6 DEF ManagerNotify
<1>7. CASE RetryTimer
  <2>1. timers' \in 0 .. MaxTimers
    BY <1>7 DEF RetryTimer
  <2>2. token' \in BOOLEAN
    BY <1>7, Zenon DEF RetryTimer
  <2> QED
    BY <1>7, <2>1, <2>2 DEF RetryTimer
<1>8. CASE Close \/ CloseForce \/ ForceSnapshot \/ ForceReturns
  BY <1>8 DEF Close, CloseForce, ForceSnapshot, ForceReturns
<1>9. ASSUME NEW c \in Sockets, DialOk(c) PROVE PoolTypeOK' BY <1>9 DEF DialOk
<1>10. ASSUME NEW c \in Sockets, ConnEnds(c) \/ ConnAccepted(c) PROVE PoolTypeOK'
  BY <1>10 DEF ConnEnds, ConnAccepted
<1>11. ASSUME NEW c \in Sockets, RemoveConnection(c) PROVE PoolTypeOK' BY <1>11 DEF RemoveConnection
<1>12. ASSUME NEW c \in Sockets, RemoveNotify(c) PROVE PoolTypeOK' BY <1>12 DEF RemoveNotify
<1>13. ASSUME NEW c \in Sockets, ConnClose(c) PROVE PoolTypeOK' BY <1>13 DEF ConnClose
<1>14. ASSUME NEW c \in Sockets, ForceCloseOne(c) PROVE PoolTypeOK' BY <1>14 DEF ForceCloseOne
<1>15. CASE UNCHANGED poolVars BY <1>15 DEF poolVars
<1> QED
  BY <1>1, <1>2, <1>3, <1>4, <1>5, <1>6, <1>7, <1>8, <1>9, <1>10, <1>11, <1>12, <1>13, <1>14,
     <1>15 DEF PoolNext

\* Every step keeps pool and goroutines in agreement and every open socket
\* in somebody's hands.
LEMMA PoolNextMembers == PoolInv /\ [PoolNext]_poolVars => Membership' /\ NoOrphanSocket'
<1> SUFFICES ASSUME PoolInv, [PoolNext]_poolVars PROVE Membership' /\ NoOrphanSocket'
  OBVIOUS
<1> USE PoolAssumption DEF PoolInv, PoolTypeOK, MgrPcs, ConnPcs, Membership, NoOrphanSocket
<1>1. CASE ManagerStops \/ GenConnection \/ DialFail \/ ManagerNotify \/ RetryTimer
  BY <1>1 DEF ManagerStops, GenConnection, DialFail, ManagerNotify, RetryTimer
<1>2. CASE AddConnection BY <1>2 DEF AddConnection
<1>3. CASE DropDialed BY <1>3 DEF DropDialed
<1>4. CASE Close \/ CloseForce \/ ForceSnapshot \/ ForceReturns
  BY <1>4 DEF Close, CloseForce, ForceSnapshot, ForceReturns
<1>5. ASSUME NEW c \in Sockets, DialOk(c) PROVE Membership' /\ NoOrphanSocket'
  BY <1>5 DEF DialOk
<1>6. ASSUME NEW c \in Sockets, ConnEnds(c) PROVE Membership' /\ NoOrphanSocket'
  BY <1>6 DEF ConnEnds
<1>7. ASSUME NEW c \in Sockets, ConnAccepted(c) PROVE Membership' /\ NoOrphanSocket'
  BY <1>7 DEF ConnAccepted
<1>8. ASSUME NEW c \in Sockets, RemoveConnection(c) PROVE Membership' /\ NoOrphanSocket'
  BY <1>8 DEF RemoveConnection
<1>9. ASSUME NEW c \in Sockets, RemoveNotify(c) PROVE Membership' /\ NoOrphanSocket'
  BY <1>9 DEF RemoveNotify
<1>10. ASSUME NEW c \in Sockets, ConnClose(c) PROVE Membership' /\ NoOrphanSocket'
  BY <1>10 DEF ConnClose
<1>11. ASSUME NEW c \in Sockets, ForceCloseOne(c) PROVE Membership' /\ NoOrphanSocket'
  BY <1>11 DEF ForceCloseOne
<1>12. CASE UNCHANGED poolVars BY <1>12 DEF poolVars
<1> QED
  BY <1>1, <1>2, <1>3, <1>4, <1>5, <1>6, <1>7, <1>8, <1>9, <1>10, <1>11, <1>12 DEF PoolNext

\* Every step keeps the pool within its bound, and a decision to dial valid:
\* only an insert grows the pool and only GenConnection starts a dial.
LEMMA PoolNextBound == PoolInv /\ [PoolNext]_poolVars => PoolBound' /\ RoomKept'
<1> SUFFICES ASSUME PoolInv, [PoolNext]_poolVars PROVE PoolBound' /\ RoomKept'
  OBVIOUS
<1> USE PoolAssumption DEF PoolInv, PoolTypeOK, PoolBound, RoomKept
<1>1. CASE GenConnection
  <2>1. Cardinality(connections) \in Nat
    BY PoolSize
  <2> QED
    BY <1>1, <2>1 DEF GenConnection, GenWanted, Full
<1>2. CASE AddConnection
  <2>1. dialed \in Sockets /\ Cardinality(connections) < MaxConns
    BY <1>2 DEF AddConnection, Membership
  <2>2. connections' = connections \cup {dialed} /\ mgr' = "notify"
    BY <1>2 DEF AddConnection
  <2>3. /\ Cardinality(connections) \in Nat
        /\ Cardinality(connections \cup {dialed}) \in Nat
        /\ Cardinality(connections \cup {dialed}) <= Cardinality(connections) + 1
    BY <2>1, PoolSizes
  <2> QED
    BY <2>1, <2>2, <2>3
<1>3. ASSUME NEW c \in Sockets, RemoveConnection(c) PROVE PoolBound' /\ RoomKept'
  <2>1. connections \in SUBSET Sockets
    OBVIOUS
  <2>2. connections' = connections \ {c} /\ mgr' = mgr
    BY <1>3 DEF RemoveConnection
  <2>3. /\ Cardinality(connections) \in Nat
        /\ Cardinality(connections \ {c}) \in Nat
        /\ Cardinality(connections \ {c}) <= Cardinality(connections)
    BY <2>1, PoolSizes
  <2> QED
    BY <2>2, <2>3
<1>4. ASSUME UNCHANGED connections, mgr' \in {"dial", "add"} => mgr \in {"dial", "add"}
      PROVE  PoolBound' /\ RoomKept'
  BY <1>4
<1>5. CASE ManagerStops \/ DialFail \/ DropDialed \/ ManagerNotify \/ RetryTimer
  BY <1>4, <1>5 DEF ManagerStops, DialFail, DropDialed, ManagerNotify, RetryTimer
<1>6. CASE Close \/ CloseForce \/ ForceSnapshot \/ ForceReturns
  BY <1>4, <1>6 DEF Close, CloseForce, ForceSnapshot, ForceReturns
<1>7. ASSUME NEW c \in Sockets,
             DialOk(c) \/ ConnEnds(c) \/ ConnAccepted(c) \/ RemoveNotify(c) \/ ConnClose(c)
             \/ ForceCloseOne(c)
      PROVE PoolBound' /\ RoomKept'
  BY <1>4, <1>7 DEF DialOk, ConnEnds, ConnAccepted, RemoveNotify, ConnClose, ForceCloseOne
<1>8. CASE UNCHANGED poolVars BY <1>4, <1>8 DEF poolVars
<1> QED
  BY <1>1, <1>2, <1>3, <1>5, <1>6, <1>7, <1>8 DEF PoolNext

\* No step loses the last wake-up: whoever consumes one turns into another,
\* or the pool is full or closed.
LEMMA PoolNextWakeup == PoolInv /\ [PoolNext]_poolVars => WakeupPending'
<1> SUFFICES ASSUME PoolInv, [PoolNext]_poolVars PROVE WakeupPending'
  OBVIOUS
<1> USE PoolAssumption DEF PoolInv, PoolTypeOK, WakeupPending, NotifyNeedConn
<1>1. CASE GenConnection BY <1>1 DEF GenConnection, GenWanted, Full
<1>2. CASE DialFail BY <1>2 DEF DialFail, ArmRetry
<1>3. CASE AddConnection BY <1>3 DEF AddConnection
<1>4. CASE DropDialed BY <1>4 DEF DropDialed, StillOpen
<1>5. CASE ManagerNotify BY <1>5 DEF ManagerNotify
<1>6. CASE RetryTimer BY <1>6 DEF RetryTimer
<1>7. CASE ManagerStops \/ Close \/ CloseForce
  BY <1>7 DEF ManagerStops, Close, CloseForce
<1>8. CASE ForceSnapshot \/ ForceReturns
  BY <1>8 DEF ForceSnapshot, ForceReturns, Full
<1>9. ASSUME NEW c \in Sockets, DialOk(c) PROVE WakeupPending' BY <1>9 DEF DialOk
<1>10. ASSUME NEW c \in Sockets, ConnEnds(c) \/ ConnAccepted(c) PROVE WakeupPending'
  BY <1>10 DEF ConnEnds, ConnAccepted, Full
<1>11. ASSUME NEW c \in Sockets, RemoveConnection(c) PROVE WakeupPending'
  BY <1>11 DEF RemoveConnection
<1>12. ASSUME NEW c \in Sockets, RemoveNotify(c) PROVE WakeupPending'
  BY <1>12 DEF RemoveNotify
<1>13. ASSUME NEW c \in Sockets, ConnClose(c) PROVE WakeupPending'
  BY <1>13 DEF ConnClose, Full
<1>14. ASSUME NEW c \in Sockets, ForceCloseOne(c) PROVE WakeupPending'
  BY <1>14 DEF ForceCloseOne, Full
<1>15. CASE UNCHANGED poolVars BY <1>15 DEF poolVars, Full
<1> QED
  BY <1>1, <1>2, <1>3, <1>4, <1>5, <1>6, <1>7, <1>8, <1>9, <1>10, <1>11, <1>12, <1>13, <1>14,
     <1>15 DEF PoolNext

\* Once CloseForce has set closed, the pool gains no member and no pooled
\* socket is reopened, so its snapshot covers all it must close.
LEMMA PoolNextForce == PoolInv /\ [PoolNext]_poolVars => ForceProgress' /\ ForceClosedPool'
<1> SUFFICES ASSUME PoolInv, [PoolNext]_poolVars PROVE ForceProgress' /\ ForceClosedPool'
  OBVIOUS
<1> USE PoolAssumption DEF PoolInv, PoolTypeOK, ForceProgress, ForceClosedPool
<1>1. CASE AddConnection BY <1>1 DEF AddConnection, StillOpen
<1>2. ASSUME NEW c \in Sockets, DialOk(c) PROVE ForceProgress' /\ ForceClosedPool'
  BY <1>2 DEF DialOk, Membership
<1>3. CASE DropDialed BY <1>3 DEF DropDialed
<1>4. CASE CloseForce BY <1>4 DEF CloseForce
<1>5. CASE ForceSnapshot BY <1>5 DEF ForceSnapshot
<1>6. CASE ForceReturns BY <1>6 DEF ForceReturns
<1>7. ASSUME NEW c \in Sockets, ForceCloseOne(c) PROVE ForceProgress' /\ ForceClosedPool'
  BY <1>7 DEF ForceCloseOne
<1>8. ASSUME NEW c \in Sockets, RemoveConnection(c) PROVE ForceProgress' /\ ForceClosedPool'
  BY <1>8 DEF RemoveConnection
<1>9. ASSUME NEW c \in Sockets, ConnClose(c) PROVE ForceProgress' /\ ForceClosedPool'
  BY <1>9 DEF ConnClose
<1>10. ASSUME NEW c \in Sockets, ConnEnds(c) \/ ConnAccepted(c) \/ RemoveNotify(c)
       PROVE ForceProgress' /\ ForceClosedPool'
  BY <1>10 DEF ConnEnds, ConnAccepted, RemoveNotify
<1>11. CASE ManagerStops \/ GenConnection \/ DialFail \/ ManagerNotify \/ RetryTimer \/ Close
  BY <1>11 DEF ManagerStops, GenConnection, DialFail, ManagerNotify, RetryTimer, Close
<1>12. CASE UNCHANGED poolVars BY <1>12 DEF poolVars
<1> QED
  BY <1>1, <1>2, <1>3, <1>4, <1>5, <1>6, <1>7, <1>8, <1>9, <1>10, <1>11, <1>12 DEF PoolNext

\* The inductive invariant of the pool.
THEOREM PoolInvariant == PoolSpec => []PoolInv
<1>1. PoolInv /\ [PoolNext]_poolVars => PoolInv'
  BY PoolNextTypes, PoolNextMembers, PoolNextBound, PoolNextWakeup, PoolNextForce DEF PoolInv
<1> QED
  BY PoolInitInv, <1>1, PTL DEF PoolSpec

\* The variables of ReverseServer keep their types.
THEOREM PoolTypeCorrect == PoolSpec => []PoolTypeOK
<1>1. PoolInv => PoolTypeOK
  BY DEF PoolInv
<1> QED
  BY PoolInvariant, <1>1, PTL

\* genConnection's check before the dial bounds the pool after it.
THEOREM PoolBoundAlways == PoolSpec => []PoolBound
<1>1. PoolInv => PoolBound
  BY DEF PoolInv
<1> QED
  BY PoolInvariant, <1>1, PTL

\* notifyNeedConn's dropped tokens never lose the last wake-up.
THEOREM NoLostWakeup == PoolSpec => []WakeupPending
<1>1. PoolInv => WakeupPending
  BY DEF PoolInv
<1> QED
  BY PoolInvariant, <1>1, PTL

\* Dialed sockets always have an owner who will close them.
THEOREM NoOrphanSocketAlways == PoolSpec => []NoOrphanSocket
<1>1. PoolInv => NoOrphanSocket
  BY DEF PoolInv
<1> QED
  BY PoolInvariant, <1>1, PTL

\* CloseForce leaves no pooled connection open.
THEOREM ForceClosedPoolAlways == PoolSpec => []ForceClosedPool
<1>1. PoolInv => ForceClosedPool
  BY DEF PoolInv
<1> QED
  BY PoolInvariant, <1>1, PTL

\* No step adds to the pool of a closed server: the second look at closed,
\* under the same lock as the insert, is what decides.
THEOREM ClosedPoolShrinks == PoolSpec => NoGrowthAfterClose
<1>1. [PoolNext]_poolVars => [serverClosed => connections' \subseteq connections]_poolVars
  <2> SUFFICES ASSUME PoolNext, serverClosed PROVE connections' \subseteq connections
    OBVIOUS
  <2>1. ~AddConnection
    BY DEF AddConnection, StillOpen
  <2>2. ASSUME NEW c \in Sockets, RemoveConnection(c) PROVE connections' \subseteq connections
    BY <2>2 DEF RemoveConnection
  <2>3. CASE UNCHANGED connections
    BY <2>3
  <2> QED
    BY <2>1, <2>2, <2>3
    DEF PoolNext, ManagerStops, GenConnection, DialFail, DropDialed, ManagerNotify, RetryTimer,
        Close, CloseForce, ForceSnapshot, ForceReturns, DialOk, ConnEnds, ConnAccepted,
        RemoveNotify, ConnClose, ForceCloseOne
<1> QED
  BY <1>1, PTL DEF PoolSpec, NoGrowthAfterClose

\* PoolSound: what a run checks of a pool of two holds for a pool of any size.
THEOREM PoolIsSound == PoolSpec => []PoolSound
<1>1. PoolTypeOK /\ PoolBound /\ WakeupPending /\ ForceClosedPool /\ NoOrphanSocket => PoolSound
  BY DEF PoolSound
<1> QED
  BY <1>1, PoolTypeCorrect, PoolBoundAlways, NoLostWakeup, ForceClosedPoolAlways,
     NoOrphanSocketAlways, PTL

-----------------------------------------------------------------------------
(***************************************************************************)
(* The handshake on a reverse connection, for any number of heartbeats and *)
(* of application writes.  The argument is about the order of frames in    *)
(* each direction: nothing of the registry's sender follows PONG, nothing  *)
(* at all follows the passive end's PENG, and the data frames under way    *)
(* are numbered as the writes were, without a gap.                         *)
(***************************************************************************)

(* The inductive invariant.                                                *)

Handed == {"join", "mode", "tcp", "udp"}
Agreed == {"mode", "tcp", "udp", "end"}
Owned  == {"matched", "tcp", "udp"}
Beat(f) == f.type = "HEARTBEAT" /\ f.by = "registry"

ShakeTypes == ShakeTypeOK /\ beats \in [{"registry", "passive", "dialer"} -> Nat]

\* Match waits for the sender before PONG, and the sender cannot begin later.
FlowInv ==
    /\ dpc # "idle" => stopPing = TRUE
    /\ dpc \in {"stop", "join", "read"} \cup Owned => spc # "run"
    /\ dpc = "failed" => aClosed = TRUE
    /\ dpc \in {"idle", "wait"} => ppc \in {"wait", "end"}

\* Frames to the passive end: no heartbeat of the sender behind PONG.
ToPassive ==
    /\ dpc \in {"idle", "wait"} => \A i \in 1 .. Len(toP) : toP[i].type # "PONG"
    /\ \A i, j \in 1 .. Len(toP) : i < j /\ toP[i].type = "PONG" => ~Beat(toP[j])
    /\ ppc \in Handed => \A i \in 1 .. Len(toP) : ~Beat(toP[i])

\* Frames to the registry's end: PENG, of which there is one, is the last.
ToRegistry ==
    /\ \A i \in 1 .. Len(toA) : toA[i].by = "passive" /\ toA[i].type \in {"HEARTBEAT", "PENG"}
    /\ \A i \in 1 .. Len(toA) : toA[i].type = "PENG" => i = Len(toA) /\ psend = "gone" /\ ppc \in Agreed
    /\ pending = "PENG" \/ dpc \in Owned => toA = <<>> /\ psend = "gone" /\ ppc \in Agreed

\* While the passive end may still read, what it has read and what is under way
\* are all that was written.
Data ==
    /\ \A i \in 1 .. Len(toP) : toP[i].type = "DATA" => Len(got) < toP[i].n /\ toP[i].n <= sent
    /\ \A i, j \in 1 .. Len(toP) : i < j /\ toP[i].type = "DATA" /\ toP[j].type = "DATA" => toP[i].n < toP[j].n
    /\ ppc \in {"wait", "join", "mode", "tcp"} =>
          \A k \in 1 .. MaxData : Len(got) < k /\ k <= sent => \E i \in 1 .. Len(toP) : toP[i].type = "DATA" /\ toP[i].n = k
    /\ Len(got) <= sent
    /\ \A i \in 1 .. Len(got) : got[i] = i

ShakeInv == ShakeTypes /\ FlowInv /\ ToPassive /\ ToRegistry /\ Data

-----------------------------------------------------------------------------
(* A frame is written to the passive end, or read from it.                 *)

\* What is under way are frames.
LEMMA FramesTyped ==
    ASSUME ShakeTypes
    PROVE  \A i \in 1 .. Len(toP) : toP[i] \in Frames /\ toP[i].n \in Nat
<1>1. \A i \in 1 .. Len(toP) : toP[i] \in Frames
  <2> HIDE DEF Frames
  <2> QED BY ElementOfSeq DEF ShakeTypes, ShakeTypeOK
<1>2. \A f \in Frames : f.n \in Nat BY HandshakeAssumption DEF Frames
<1> QED BY <1>1, <1>2

\* Neither end's stream to the passive end changes.
LEMMA ToPassiveSame ==
    ASSUME ToPassive, toP' = toP, dpc' \in {"idle", "wait"} => dpc \in {"idle", "wait"}, ppc' \in Handed => ppc \in Handed
    PROVE  ToPassive'
BY DEF ToPassive, Beat

\* A frame is written: PONG after the wait, a sender's heartbeat only with no
\* PONG before it.
LEMMA ToPassiveWritten ==
    ASSUME ShakeTypes, ToPassive, NEW f \in Frames, toP' = Append(toP, f), ppc' = ppc,
           dpc' \in {"idle", "wait"} => dpc \in {"idle", "wait"} /\ f.type # "PONG",
           Beat(f) => dpc \in {"idle", "wait"} /\ ppc \notin Handed
    PROVE  ToPassive'
<1>1. /\ Len(toP') = Len(toP) + 1 /\ Len(toP) \in Nat
      /\ \A i \in 1 .. Len(toP) : toP'[i] = toP[i]
      /\ toP'[Len(toP) + 1] = f
  BY AppendProperties, LenProperties DEF ShakeTypes, ShakeTypeOK
<1>2. \A i \in 1 .. Len(toP') : i \in 1 .. Len(toP) \/ i = Len(toP) + 1
  BY <1>1
<1> QED BY <1>1, <1>2 DEF ToPassive, Beat

\* A frame is read: only PONG hands the connection over.
LEMMA ToPassiveRead ==
    ASSUME ShakeTypes, ToPassive, toP # <<>>, toP' = Tail(toP), dpc' = dpc,
           ppc' \in Handed => ppc \in Handed \/ Head(toP).type = "PONG"
    PROVE  ToPassive'
<1>1. /\ Len(toP') = Len(toP) - 1 /\ Len(toP) \in Nat /\ Len(toP) > 0
      /\ \A i \in 1 .. Len(toP') : toP'[i] = toP[i + 1]
      /\ Head(toP) = toP[1]
  BY HeadTailProperties, LenProperties, EmptySeq DEF ShakeTypes, ShakeTypeOK
<1>2. \A i \in 1 .. Len(toP') : i + 1 \in 1 .. Len(toP) /\ 1 < i + 1 /\ 1 \in 1 .. Len(toP)
  BY <1>1
<1>3. \A i, j \in 1 .. Len(toP') : i < j => i + 1 < j + 1
  BY <1>1
<1>4. \A i \in 1 .. Len(toP') : ppc' \in Handed => ~Beat(toP[i + 1])
  BY <1>1, <1>2 DEF ToPassive
<1> QED BY <1>1, <1>2, <1>3, <1>4 DEF ToPassive, Beat

\* The data are not touched.
LEMMA DataSame ==
    ASSUME Data, toP' = toP, got' = got, sent' = sent,
           ppc' \in {"wait", "join", "mode", "tcp"} => ppc \in {"wait", "join", "mode", "tcp"}
    PROVE  Data'
BY DEF Data

\* A frame is written: data carry the number of the write.
LEMMA DataWritten ==
    ASSUME ShakeTypes, Data, NEW f \in Frames, toP' = Append(toP, f), got' = got, ppc' = ppc,
           IF f.type = "DATA" THEN f.n = sent + 1 /\ sent' = sent + 1 ELSE sent' = sent
    PROVE  Data'
<1>1. /\ Len(toP') = Len(toP) + 1 /\ Len(toP) \in Nat
      /\ \A i \in 1 .. Len(toP) : toP'[i] = toP[i]
      /\ toP'[Len(toP) + 1] = f
  BY AppendProperties, LenProperties DEF ShakeTypes, ShakeTypeOK
<1>2. \A i \in 1 .. Len(toP') : i \in 1 .. Len(toP) \/ i = Len(toP) + 1
  BY <1>1
<1>3. 1 .. Len(toP) \subseteq 1 .. Len(toP') /\ Len(toP) + 1 \in 1 .. Len(toP')
  BY <1>1
<1>4. Len(got) \in Nat /\ sent \in Nat /\ sent' \in Nat BY LenProperties DEF ShakeTypes, ShakeTypeOK
<1>5. \A i \in 1 .. Len(toP) : toP[i] \in Frames /\ toP[i].n \in Nat
  BY FramesTyped
<1>6. \A i \in 1 .. Len(toP') : toP'[i].type = "DATA" => Len(got') < toP'[i].n /\ toP'[i].n <= sent'
  BY <1>1, <1>2, <1>4, <1>5 DEF Data
<1>7. \A i, j \in 1 .. Len(toP') :
         i < j /\ toP'[i].type = "DATA" /\ toP'[j].type = "DATA" => toP'[i].n < toP'[j].n
  BY <1>1, <1>2, <1>4, <1>5 DEF Data
<1>8. ppc' \in {"wait", "join", "mode", "tcp"} =>
        \A k \in 1 .. MaxData : Len(got') < k /\ k <= sent' =>
            \E i \in 1 .. Len(toP') : toP'[i].type = "DATA" /\ toP'[i].n = k
  <2> SUFFICES ASSUME ppc \in {"wait", "join", "mode", "tcp"}, NEW k \in 1 .. MaxData, Len(got) < k, k <= sent'
               PROVE  \E i \in 1 .. Len(toP') : toP'[i].type = "DATA" /\ toP'[i].n = k
    OBVIOUS
  <2>1. CASE k <= sent BY <1>1, <1>3, <2>1 DEF Data
  <2>2. CASE k = sent + 1 /\ f.type = "DATA" BY <1>1, <1>3, <2>2
  <2> QED BY <1>4, <2>1, <2>2
<1> QED BY <1>4, <1>6, <1>7, <1>8 DEF Data

\* A frame is read: the first data under way is the next to be read.
LEMMA DataRead ==
    ASSUME ShakeTypes, Data, toP # <<>>, toP' = Tail(toP), sent' = sent,
           ppc' \in {"wait", "join", "mode", "tcp"} => ppc \in {"wait", "join", "mode", "tcp"},
           \/ Head(toP).type = "DATA" /\ ppc \in {"mode", "tcp"} /\ got' = Append(got, Head(toP).n)
           \/ got' = got /\ (Head(toP).type = "DATA" => ppc' \notin {"wait", "join", "mode", "tcp"})
    PROVE  Data' /\ got' \in Seq(1 .. MaxData)
<1>1. /\ Len(toP') = Len(toP) - 1 /\ Len(toP) \in Nat /\ Len(toP) > 0
      /\ \A i \in 1 .. Len(toP') : toP'[i] = toP[i + 1]
      /\ Head(toP) = toP[1]
  BY HeadTailProperties, LenProperties, EmptySeq DEF ShakeTypes, ShakeTypeOK
<1>2. \A i \in 1 .. Len(toP') : i + 1 \in 1 .. Len(toP) /\ 1 < i + 1 /\ 1 \in 1 .. Len(toP)
  BY <1>1
<1>3. \A j \in 1 .. Len(toP) : j = 1 \/ (j - 1 \in 1 .. Len(toP') /\ toP'[j - 1] = toP[j])
  BY <1>1
<1>4. Len(got) \in Nat /\ sent \in Nat /\ got \in Seq(1 .. MaxData) /\ sent <= MaxData /\ MaxData \in Nat
  BY LenProperties, HandshakeAssumption DEF ShakeTypes, ShakeTypeOK
<1>5. \A i \in 1 .. Len(toP) : toP[i] \in Frames /\ toP[i].n \in Nat
  BY FramesTyped
<1>6. \A i, j \in 1 .. Len(toP') :
         i < j /\ toP'[i].type = "DATA" /\ toP'[j].type = "DATA" => toP'[i].n < toP'[j].n
  BY <1>1, <1>2 DEF Data
<1>7. CASE Head(toP).type = "DATA" /\ ppc \in {"mode", "tcp"} /\ got' = Append(got, Head(toP).n)
  <2>0. 1 \in 1 .. Len(toP) BY <1>1
  <2>1. Len(got) < toP[1].n /\ toP[1].n <= sent /\ toP[1].type = "DATA" BY <1>1, <1>7, <2>0 DEF Data
  <2>2. toP[1].n = Len(got) + 1
    <3> SUFFICES ASSUME toP[1].n # Len(got) + 1 PROVE FALSE OBVIOUS
    <3>1. Len(got) + 1 < toP[1].n /\ Len(got) + 1 \in 1 .. MaxData /\ Len(got) + 1 <= sent
      BY <1>4, <1>5, <2>0, <2>1
    <3>2. PICK i \in 1 .. Len(toP) : toP[i].type = "DATA" /\ toP[i].n = Len(got) + 1
      BY <1>4, <1>7, <3>1 DEF Data
    <3>3. CASE i = 1 BY <3>1, <3>2, <3>3
    <3>4. CASE i # 1
      <4>1. 1 < i BY <3>4, <1>1
      <4>2. toP[1].n < toP[i].n BY <4>1, <3>2, <2>0, <2>1 DEF Data
      <4> QED BY <4>2, <3>1, <3>2, <1>4, <1>5, <2>0
    <3> QED BY <3>3, <3>4
  <2>3. /\ got' \in Seq(1 .. MaxData) /\ Len(got') = Len(got) + 1 /\ got'[Len(got) + 1] = Len(got) + 1
        /\ \A i \in 1 .. Len(got) : got'[i] = got[i]
    <3>1. toP[1].n \in 1 .. MaxData BY <1>4, <1>5, <2>0, <2>1
    <3> QED BY <1>1, <1>4, <1>7, <2>2, <3>1, AppendProperties
  <2>4. \A i \in 1 .. Len(got') : got'[i] = i
    <3>1. \A i \in 1 .. Len(got') : i \in 1 .. Len(got) \/ i = Len(got) + 1 BY <2>3, <1>4
    <3> QED BY <2>3, <3>1 DEF Data
  <2>5. \A i \in 1 .. Len(toP') : toP'[i].type = "DATA" => Len(got') < toP'[i].n /\ toP'[i].n <= sent'
    BY <1>1, <1>2, <1>4, <1>5, <2>0, <2>1, <2>2, <2>3 DEF Data
  <2>6. ASSUME NEW k \in 1 .. MaxData, Len(got') < k, k <= sent'
        PROVE  \E i \in 1 .. Len(toP') : toP'[i].type = "DATA" /\ toP'[i].n = k
    <3>1. Len(got) < k /\ k <= sent /\ k # toP[1].n BY <1>4, <2>2, <2>3, <2>6
    <3>2. PICK j \in 1 .. Len(toP) : toP[j].type = "DATA" /\ toP[j].n = k BY <1>7, <3>1 DEF Data
    <3> QED BY <1>3, <3>1, <3>2
  <2>7. Len(got') <= sent' BY <1>4, <2>1, <2>2, <2>3
  <2> QED BY <1>6, <2>3, <2>4, <2>5, <2>6, <2>7 DEF Data
<1>8. CASE got' = got /\ (Head(toP).type = "DATA" => ppc' \notin {"wait", "join", "mode", "tcp"})
  <2>1. \A i \in 1 .. Len(toP') : toP'[i].type = "DATA" => Len(got') < toP'[i].n /\ toP'[i].n <= sent'
    BY <1>1, <1>2, <1>8 DEF Data
  <2>2. ASSUME ppc' \in {"wait", "join", "mode", "tcp"}, NEW k \in 1 .. MaxData, Len(got') < k, k <= sent'
        PROVE  \E i \in 1 .. Len(toP') : toP'[i].type = "DATA" /\ toP'[i].n = k
    <3>1. PICK j \in 1 .. Len(toP) : toP[j].type = "DATA" /\ toP[j].n = k BY <1>8, <2>2 DEF Data
    <3> QED BY <1>1, <1>3, <1>8, <2>2, <3>1
  <2> QED BY <1>4, <1>6, <1>8, <2>1, <2>2 DEF Data
<1> QED BY <1>7, <1>8

-----------------------------------------------------------------------------
(* A frame is written to the registry's end, or read from it.              *)

\* The stream to the registry's end is not touched, and nobody becomes the
\* owner of the connection.
LEMMA ToRegistrySame ==
    ASSUME ToRegistry, toA' = toA, pending' = pending, psend = "gone" => psend' = "gone",
           ppc \in Agreed => ppc' \in Agreed, dpc' \in Owned => dpc \in Owned
    PROVE  ToRegistry'
BY DEF ToRegistry

\* A heartbeat of the passive sender: PENG has not been written yet.
LEMMA ToRegistryBeat ==
    ASSUME ShakeTypes, ToRegistry, psend = "run", toA' = Append(toA, Control("HEARTBEAT", "passive")),
           pending' = pending, psend' = psend, ppc' = ppc, dpc' = dpc
    PROVE  ToRegistry' /\ toA' \in Seq(Frames)
<1> DEFINE f == Control("HEARTBEAT", "passive")
<1>0. f \in Frames /\ f.type = "HEARTBEAT" /\ f.by = "passive" BY HandshakeAssumption DEF Control, Frame, Frames
<1> HIDE DEF f
<1>1. /\ Len(toA') = Len(toA) + 1 /\ Len(toA) \in Nat /\ toA' \in Seq(Frames)
      /\ \A i \in 1 .. Len(toA) : toA'[i] = toA[i]
      /\ toA'[Len(toA) + 1] = f
  BY <1>0, AppendProperties, LenProperties DEF ShakeTypes, ShakeTypeOK, f
<1>2. \A i \in 1 .. Len(toA') : i \in 1 .. Len(toA) \/ i = Len(toA) + 1 BY <1>1
<1>3. \A i \in 1 .. Len(toA) : toA[i].type # "PENG" BY DEF ToRegistry
<1> QED BY <1>0, <1>1, <1>2, <1>3 DEF ToRegistry

\* PENG of the passive end: the first and the last.
LEMMA ToRegistryPeng ==
    ASSUME ShakeTypes, ToRegistry, psend = "gone", ppc = "join", toA' = Append(toA, Control("PENG", "passive")),
           pending' = pending, psend' = psend, ppc' = "mode", dpc' = dpc
    PROVE  ToRegistry' /\ toA' \in Seq(Frames)
<1> DEFINE f == Control("PENG", "passive")
<1>0. f \in Frames /\ f.type = "PENG" /\ f.by = "passive" BY HandshakeAssumption DEF Control, Frame, Frames
<1> HIDE DEF f
<1>1. /\ Len(toA') = Len(toA) + 1 /\ Len(toA) \in Nat /\ toA' \in Seq(Frames)
      /\ \A i \in 1 .. Len(toA) : toA'[i] = toA[i]
      /\ toA'[Len(toA) + 1] = f
  BY <1>0, AppendProperties, LenProperties DEF ShakeTypes, ShakeTypeOK, f
<1>2. \A i \in 1 .. Len(toA') : i \in 1 .. Len(toA) \/ i = Len(toA) + 1 BY <1>1
<1>3. \A i \in 1 .. Len(toA) : toA[i].type # "PENG" BY DEF ToRegistry, Agreed
<1>4. pending # "PENG" /\ dpc \notin Owned BY DEF ToRegistry, Agreed
<1> QED BY <1>0, <1>1, <1>2, <1>3, <1>4 DEF ToRegistry, Agreed

\* A frame is read on the registry's end; after PENG nothing is left.
LEMMA ToRegistryRead ==
    ASSUME ShakeTypes, ToRegistry, toA # <<>>, toA' = Tail(toA), psend' = psend, ppc' = ppc,
           pending' \in {pending, Head(toA).type}, pending' = Head(toA).type => pending = pending' \/ pending = "none",
           dpc' \in Owned => dpc \in Owned \/ Head(toA).type = "PENG"
    PROVE  ToRegistry' /\ toA' \in Seq(Frames) /\ Head(toA).type \in {"HEARTBEAT", "PENG"}
<1>1. /\ Len(toA') = Len(toA) - 1 /\ Len(toA) \in Nat /\ Len(toA) > 0 /\ toA' \in Seq(Frames)
      /\ \A i \in 1 .. Len(toA') : toA'[i] = toA[i + 1]
      /\ Head(toA) = toA[1]
  BY HeadTailProperties, LenProperties, EmptySeq DEF ShakeTypes, ShakeTypeOK
<1>2. \A i \in 1 .. Len(toA') : i + 1 \in 1 .. Len(toA) BY <1>1
<1>3. 1 \in 1 .. Len(toA) BY <1>1
<1>4. Head(toA).type = "PENG" => toA' = <<>> /\ psend = "gone" /\ ppc \in Agreed
  <2> SUFFICES ASSUME Head(toA).type = "PENG" PROVE toA' = <<>> /\ psend = "gone" /\ ppc \in Agreed OBVIOUS
  <2>1. 1 = Len(toA) /\ psend = "gone" /\ ppc \in Agreed BY <1>1, <1>3 DEF ToRegistry
  <2>2. Len(toA') = 0 BY <1>1, <2>1
  <2> QED BY <1>1, <2>1, <2>2, EmptySeq
<1>5. \A i \in 1 .. Len(toA') : /\ toA'[i].by = "passive" /\ toA'[i].type \in {"HEARTBEAT", "PENG"}
                                /\ toA'[i].type = "PENG" => i = Len(toA') /\ psend = "gone" /\ ppc \in Agreed
  <2> TAKE i \in 1 .. Len(toA')
  <2>1. i + 1 \in 1 .. Len(toA) BY <1>2
  <2>2. toA'[i] = toA[i + 1] BY <1>1
  <2>0. i \in Nat /\ Len(toA) \in Nat BY <1>1
  <2>3. i + 1 = Len(toA) => i = Len(toA) - 1 BY <2>0
  <2>4. Len(toA') = Len(toA) - 1 BY <1>1
  <2> QED BY <2>1, <2>2, <2>3, <2>4 DEF ToRegistry
<1>6. pending # "PENG" /\ dpc \notin Owned BY DEF ToRegistry
<1> QED BY <1>1, <1>3, <1>4, <1>5, <1>6 DEF ToRegistry

-----------------------------------------------------------------------------
(* Steps that neither write nor read a frame.                              *)

\* The connection is registered.
LEMMA RegisterFrameInv == ASSUME ShakeInv, Register PROVE ShakeInv'
<1> USE DEF ShakeInv, Register, registrarVars, passVars
<1>1. ShakeTypes' BY DEF ShakeTypes, ShakeTypeOK
<1>2. FlowInv' BY DEF FlowInv, ShakeTypes, ShakeTypeOK
<1>3. ToPassive' BY ToPassiveSame
<1>4. ToRegistry' BY ToRegistrySame
<1>5. Data' BY DataSame
<1> QED BY <1>1, <1>2, <1>3, <1>4, <1>5

\* The confirmation cannot be written.
LEMMA ConfirmFailInv == ASSUME ShakeInv, ConfirmFail PROVE ShakeInv'
<1> USE DEF ShakeInv, ConfirmFail, registrarVars, passVars
<1>1. ShakeTypes' BY DEF ShakeTypes, ShakeTypeOK
<1>2. FlowInv' BY DEF FlowInv, ShakeTypes, ShakeTypeOK
<1>3. ToPassive' BY ToPassiveSame
<1>4. ToRegistry' BY ToRegistrySame
<1>5. Data' BY DataSame
<1> QED BY <1>1, <1>2, <1>3, <1>4, <1>5

\* The heartbeat sender begins, or ends at once.
LEMMA SenderStartInv == ASSUME ShakeInv, SenderStart PROVE ShakeInv'
<1> USE DEF ShakeInv, SenderStart, registrarVars, passVars
<1>1. ShakeTypes' BY DEF ShakeTypes, ShakeTypeOK
<1>2. FlowInv' BY DEF FlowInv, ShakeTypes, ShakeTypeOK, Owned
<1>3. ToPassive' BY ToPassiveSame
<1>4. ToRegistry' BY ToRegistrySame
<1>5. Data' BY DataSame
<1> QED BY <1>1, <1>2, <1>3, <1>4, <1>5

\* A heartbeat cannot be written.
LEMMA SenderFailsInv == ASSUME ShakeInv, SenderFails PROVE ShakeInv'
<1> USE DEF ShakeInv, SenderFails, registrarVars, passVars
<1>1. ShakeTypes' BY DEF ShakeTypes, ShakeTypeOK
<1>2. FlowInv' BY DEF FlowInv, ShakeTypes, ShakeTypeOK
<1>3. ToPassive' BY ToPassiveSame
<1>4. ToRegistry' BY ToRegistrySame
<1>5. Data' BY DataSame
<1> QED BY <1>1, <1>2, <1>3, <1>4, <1>5

\* The sender sees that it is to stop.
LEMMA SenderStopsInv == ASSUME ShakeInv, SenderStops PROVE ShakeInv'
<1> USE DEF ShakeInv, SenderStops, registrarVars, passVars
<1>1. ShakeTypes' BY DEF ShakeTypes, ShakeTypeOK
<1>2. FlowInv' BY DEF FlowInv, ShakeTypes, ShakeTypeOK
<1>3. ToPassive' BY ToPassiveSame
<1>4. ToRegistry' BY ToRegistrySame
<1>5. Data' BY DataSame
<1> QED BY <1>1, <1>2, <1>3, <1>4, <1>5

\* The read loop ends.
LEMMA LoopExitInv == ASSUME ShakeInv, LoopExit PROVE ShakeInv'
<1> USE DEF ShakeInv, LoopExit, registrarVars, passVars
<1>1. ShakeTypes' BY DEF ShakeTypes, ShakeTypeOK
<1>2. FlowInv' BY DEF FlowInv, ShakeTypes, ShakeTypeOK
<1>3. ToPassive' BY ToPassiveSame
<1>4. ToRegistry' BY ToRegistrySame
<1>5. Data' BY DataSame
<1> QED BY <1>1, <1>2, <1>3, <1>4, <1>5

\* The read loop ends inside a frame.
LEMMA LoopTornInv == ASSUME ShakeInv, LoopTorn PROVE ShakeInv'
<1> USE DEF ShakeInv, LoopTorn, registrarVars, passVars
<1>1. ShakeTypes' BY DEF ShakeTypes, ShakeTypeOK
<1>2. FlowInv' BY DEF FlowInv, ShakeTypes, ShakeTypeOK
<1>3. ToPassive' BY ToPassiveSame
<1>4. ToRegistry' BY ToRegistrySame
<1>5. Data' BY DataSame
<1> QED BY <1>1, <1>2, <1>3, <1>4, <1>5

\* Match claims the connection.
LEMMA ClaimInv == ASSUME ShakeInv, Claim PROVE ShakeInv'
<1> USE DEF ShakeInv, Claim, registrarVars, passVars
<1>1. ShakeTypes' BY DEF ShakeTypes, ShakeTypeOK
<1>2. FlowInv' BY DEF FlowInv, ShakeTypes, ShakeTypeOK, Owned
<1>3. ToPassive' BY ToPassiveSame
<1>4. ToRegistry' BY ToRegistrySame DEF Owned
<1>5. Data' BY DataSame
<1> QED BY <1>1, <1>2, <1>3, <1>4, <1>5

\* Match stops the read loop.
LEMMA StopLoopInv == ASSUME ShakeInv, StopLoop PROVE ShakeInv'
<1> USE DEF ShakeInv, StopLoop, registrarVars, passVars
<1>1. ShakeTypes' BY DEF ShakeTypes, ShakeTypeOK
<1>2. FlowInv' BY DEF FlowInv, ShakeTypes, ShakeTypeOK, Owned
<1>3. ToPassive' BY ToPassiveSame
<1>4. ToRegistry' BY ToRegistrySame DEF Owned
<1>5. Data' BY DataSame
<1> QED BY <1>1, <1>2, <1>3, <1>4, <1>5

\* Match gives up.
LEMMA HandshakeFailsInv == ASSUME ShakeInv, HandshakeFails PROVE ShakeInv'
<1> USE DEF ShakeInv, HandshakeFails, registrarVars, passVars
<1>1. ShakeTypes' BY DEF ShakeTypes, ShakeTypeOK
<1>2. FlowInv' BY DEF FlowInv, ShakeTypes, ShakeTypeOK, Owned, SenderWait
<1>3. ToPassive' BY ToPassiveSame
<1>4. ToRegistry' BY ToRegistrySame DEF Owned
<1>5. Data' BY DataSame
<1> QED BY <1>1, <1>2, <1>3, <1>4, <1>5

\* The dialer takes the connection.
LEMMA DialInv == ASSUME ShakeInv, Dial PROVE ShakeInv'
<1> USE DEF ShakeInv, Dial, registrarVars, passVars
<1>1. ShakeTypes' BY DEF ShakeTypes, ShakeTypeOK
<1>2. FlowInv' BY DEF FlowInv, ShakeTypes, ShakeTypeOK, Owned
<1>3. ToPassive' BY ToPassiveSame
<1>4. ToRegistry' BY ToRegistrySame DEF Owned
<1>5. Data' BY DataSame
<1> QED BY <1>1, <1>2, <1>3, <1>4, <1>5

\* The passive sender ends.
LEMMA PassiveSenderStopsInv == ASSUME ShakeInv, PassiveSenderStops PROVE ShakeInv'
<1> USE DEF ShakeInv, PassiveSenderStops, registrarVars, passVars
<1>1. ShakeTypes' BY DEF ShakeTypes, ShakeTypeOK
<1>2. FlowInv' BY DEF FlowInv, ShakeTypes, ShakeTypeOK
<1>3. ToPassive' BY ToPassiveSame
<1>4. ToRegistry' BY ToRegistrySame
<1>5. Data' BY DataSame
<1> QED BY <1>1, <1>2, <1>3, <1>4, <1>5

\* The passive end waits in vain.
LEMMA PassiveReadFailsInv == ASSUME ShakeInv, PassiveReadFails PROVE ShakeInv'
<1> USE DEF ShakeInv, PassiveReadFails, registrarVars, passVars
<1>1. ShakeTypes' BY DEF ShakeTypes, ShakeTypeOK
<1>2. FlowInv' BY DEF FlowInv, ShakeTypes, ShakeTypeOK
<1>3. ToPassive' BY ToPassiveSame DEF Handed
<1>4. ToRegistry' BY ToRegistrySame DEF Agreed
<1>5. Data' BY DataSame
<1> QED BY <1>1, <1>2, <1>3, <1>4, <1>5

\* The passive end cannot answer.
LEMMA PassivePengFailsInv == ASSUME ShakeInv, PassivePengFails PROVE ShakeInv'
<1> USE DEF ShakeInv, PassivePengFails, registrarVars, passVars
<1>1. ShakeTypes' BY DEF ShakeTypes, ShakeTypeOK
<1>2. FlowInv' BY DEF FlowInv, ShakeTypes, ShakeTypeOK
<1>3. ToPassive' BY ToPassiveSame DEF Handed
<1>4. ToRegistry' BY ToRegistrySame DEF Agreed
<1>5. Data' BY DataSame
<1> QED BY <1>1, <1>2, <1>3, <1>4, <1>5

\* No first frame comes.
LEMMA ModeTimeoutInv == ASSUME ShakeInv, ModeTimeout PROVE ShakeInv'
<1> USE DEF ShakeInv, ModeTimeout, registrarVars, passVars
<1>1. ShakeTypes' BY DEF ShakeTypes, ShakeTypeOK
<1>2. FlowInv' BY DEF FlowInv, ShakeTypes, ShakeTypeOK
<1>3. ToPassive' BY ToPassiveSame DEF Handed
<1>4. ToRegistry' BY ToRegistrySame DEF Agreed
<1>5. Data' BY DataSame
<1> QED BY <1>1, <1>2, <1>3, <1>4, <1>5

\* The handler returns.
LEMMA HandlerEndsInv == ASSUME ShakeInv, HandlerEnds PROVE ShakeInv'
<1> USE DEF ShakeInv, HandlerEnds, registrarVars, passVars
<1>1. ShakeTypes' BY DEF ShakeTypes, ShakeTypeOK
<1>2. FlowInv' BY DEF FlowInv, ShakeTypes, ShakeTypeOK
<1>3. ToPassive' BY ToPassiveSame DEF Handed
<1>4. ToRegistry' BY ToRegistrySame DEF Agreed
<1>5. Data' BY DataSame
<1> QED BY <1>1, <1>2, <1>3, <1>4, <1>5

\* The passive end closes the connection.
LEMMA PassiveCloseInv == ASSUME ShakeInv, PassiveClose PROVE ShakeInv'
<1> USE DEF ShakeInv, PassiveClose, registrarVars, passVars
<1>1. ShakeTypes' BY DEF ShakeTypes, ShakeTypeOK
<1>2. FlowInv' BY DEF FlowInv, ShakeTypes, ShakeTypeOK
<1>3. ToPassive' BY ToPassiveSame
<1>4. ToRegistry' BY ToRegistrySame
<1>5. Data' BY DataSame
<1> QED BY <1>1, <1>2, <1>3, <1>4, <1>5

\* The loop has ended, with PENG or without it.
LEMMA JoinLoopInv == ASSUME ShakeInv, JoinLoop PROVE ShakeInv'
<1> USE DEF ShakeInv, JoinLoop, registrarVars, passVars
<1>1. ShakeTypes' BY DEF ShakeTypes, ShakeTypeOK
<1>2. FlowInv' BY DEF FlowInv, ShakeTypes, ShakeTypeOK, Owned
<1>3. ToPassive' BY ToPassiveSame
<1>4. ToRegistry' BY DEF ToRegistry, Owned
<1>5. Data' BY DataSame
<1> QED BY <1>1, <1>2, <1>3, <1>4, <1>5

-----------------------------------------------------------------------------
(* Steps that write to the passive end.                                    *)

\* PENG confirms the registration.
LEMMA ConfirmOkInv == ASSUME ShakeInv, ConfirmOk PROVE ShakeInv'
<1> USE DEF ShakeInv, ConfirmOk, registrarVars, passVars
<1>0. Control("PENG", "registry") \in Frames BY HandshakeAssumption DEF Frames, Control, Frame, ShakeTypes, ShakeTypeOK
<1>1. ShakeTypes'
  <2>1. toP' \in Seq(Frames) BY <1>0, AppendProperties DEF ShakeTypes, ShakeTypeOK
  <2> QED BY <2>1 DEF ShakeTypes, ShakeTypeOK
<1>2. FlowInv' BY DEF FlowInv, ShakeTypes, ShakeTypeOK
<1>3. ToPassive' BY <1>0, ToPassiveWritten DEF Control, Frame, Beat
<1>4. ToRegistry' BY ToRegistrySame
<1>5. Data' BY <1>0, DataWritten DEF Control, Frame
<1> QED BY <1>1, <1>2, <1>3, <1>4, <1>5

\* A heartbeat of the registry: Match has not written PONG.
LEMMA SenderBeatInv == ASSUME ShakeInv, SenderBeat PROVE ShakeInv'
<1> USE DEF ShakeInv, SenderBeat, registrarVars, passVars
<1>0. Control("HEARTBEAT", "registry") \in Frames BY HandshakeAssumption DEF Frames, Control, Frame, ShakeTypes, ShakeTypeOK
<1>1. ShakeTypes'
  <2>1. toP' \in Seq(Frames) BY <1>0, AppendProperties DEF ShakeTypes, ShakeTypeOK
  <2> QED BY <2>1 DEF ShakeTypes, ShakeTypeOK
<1>2. FlowInv' BY DEF FlowInv, ShakeTypes, ShakeTypeOK
<1>3. ToPassive' BY <1>0, ToPassiveWritten DEF Control, Frame, Beat, FlowInv, Handed, Owned, ShakeTypes, ShakeTypeOK
<1>4. ToRegistry' BY ToRegistrySame
<1>5. Data' BY <1>0, DataWritten DEF Control, Frame
<1> QED BY <1>1, <1>2, <1>3, <1>4, <1>5

\* PONG, once the sender has ended.
LEMMA SendPongInv == ASSUME ShakeInv, SendPong PROVE ShakeInv'
<1> USE DEF ShakeInv, SendPong, registrarVars, passVars
<1>0. Control("PONG", "registry") \in Frames BY HandshakeAssumption DEF Frames, Control, Frame, ShakeTypes, ShakeTypeOK
<1>1. ShakeTypes'
  <2>1. toP' \in Seq(Frames) BY <1>0, AppendProperties DEF ShakeTypes, ShakeTypeOK
  <2> QED BY <2>1 DEF ShakeTypes, ShakeTypeOK
<1>2. FlowInv' BY DEF FlowInv, ShakeTypes, ShakeTypeOK, SenderWait
<1>3. ToPassive' BY <1>0, ToPassiveWritten DEF Control, Frame, Beat
<1>4. ToRegistry' BY ToRegistrySame DEF Owned
<1>5. Data' BY <1>0, DataWritten DEF Control, Frame
<1> QED BY <1>1, <1>2, <1>3, <1>4, <1>5

\* The dialer writes.
LEMMA FramedWriteInv == ASSUME ShakeInv, FramedWrite PROVE ShakeInv'
<1> USE DEF ShakeInv, FramedWrite, registrarVars, passVars
<1>0. Frame("DATA", "dialer", sent + 1) \in Frames BY HandshakeAssumption DEF Frames, Control, Frame, ShakeTypes, ShakeTypeOK
<1>1. ShakeTypes'
  <2>1. toP' \in Seq(Frames) BY <1>0, AppendProperties DEF ShakeTypes, ShakeTypeOK
  <2>2. sent' \in 0 .. MaxData BY HandshakeAssumption DEF ShakeTypes, ShakeTypeOK
  <2> QED BY <2>1, <2>2 DEF ShakeTypes, ShakeTypeOK
<1>2. FlowInv' BY DEF FlowInv, ShakeTypes, ShakeTypeOK
<1>3. ToPassive' BY <1>0, ToPassiveWritten DEF Control, Frame, Beat
<1>4. ToRegistry' BY ToRegistrySame
<1>5. Data' BY <1>0, DataWritten DEF Control, Frame
<1> QED BY <1>1, <1>2, <1>3, <1>4, <1>5

\* A heartbeat of the dialer.
LEMMA FramedBeatInv == ASSUME ShakeInv, FramedBeat PROVE ShakeInv'
<1> USE DEF ShakeInv, FramedBeat, registrarVars, passVars
<1>0. Control("HEARTBEAT", "dialer") \in Frames BY HandshakeAssumption DEF Frames, Control, Frame, ShakeTypes, ShakeTypeOK
<1>1. ShakeTypes'
  <2>1. toP' \in Seq(Frames) BY <1>0, AppendProperties DEF ShakeTypes, ShakeTypeOK
  <2> QED BY <2>1 DEF ShakeTypes, ShakeTypeOK
<1>2. FlowInv' BY DEF FlowInv, ShakeTypes, ShakeTypeOK
<1>3. ToPassive' BY <1>0, ToPassiveWritten DEF Control, Frame, Beat
<1>4. ToRegistry' BY ToRegistrySame
<1>5. Data' BY <1>0, DataWritten DEF Control, Frame
<1> QED BY <1>1, <1>2, <1>3, <1>4, <1>5

\* The dialer asks for a UDP channel.
LEMMA DialPacketInv == ASSUME ShakeInv, DialPacket PROVE ShakeInv'
<1> USE DEF ShakeInv, DialPacket, registrarVars, passVars
<1>0. Control("UDP_CHANNEL", "dialer") \in Frames BY HandshakeAssumption DEF Frames, Control, Frame
<1>1. ShakeTypes'
  <2>0. Append(toP, Control("UDP_CHANNEL", "dialer")) \in Seq(Frames) BY <1>0, AppendProperties DEF ShakeTypes, ShakeTypeOK
  <2>1. toP' \in Seq(Frames) BY <2>0 DEF ShakeTypes, ShakeTypeOK
  <2> QED BY <2>1 DEF ShakeTypes, ShakeTypeOK
<1>2. FlowInv' BY DEF FlowInv, ShakeTypes, ShakeTypeOK, Owned
<1>3. ToPassive' BY <1>0, ToPassiveWritten, ToPassiveSame DEF Control, Frame, Beat
<1>4. ToRegistry' BY ToRegistrySame DEF Owned
<1>5. Data' BY <1>0, DataWritten, DataSame DEF Control, Frame
<1> QED BY <1>1, <1>2, <1>3, <1>4, <1>5

-----------------------------------------------------------------------------
(* Steps of the passive end that read.                                     *)

\* The passive end waits for PONG.
LEMMA PassiveReadInv == ASSUME ShakeInv, PassiveRead PROVE ShakeInv'
<1> USE DEF ShakeInv, PassiveRead, registrarVars, passVars
<1>5. Data' /\ got' \in Seq(1 .. MaxData) BY DataRead
<1>1. ShakeTypes'
  <2>1. toP' \in Seq(Frames) BY HeadTailProperties DEF ShakeTypes, ShakeTypeOK
  <2> QED BY <1>5, <2>1 DEF ShakeTypes, ShakeTypeOK
<1>2. FlowInv' BY DEF FlowInv, ShakeTypes, ShakeTypeOK, ToPassive
<1>3. ToPassive' BY ToPassiveRead DEF Handed
<1>4. ToRegistry' BY ToRegistrySame DEF Agreed
<1> QED BY <1>1, <1>2, <1>3, <1>4, <1>5

\* The first frame decides the mode.
LEMMA ModeReadInv == ASSUME ShakeInv, ModeRead PROVE ShakeInv'
<1> USE DEF ShakeInv, ModeRead, registrarVars, passVars
<1>5. Data' /\ got' \in Seq(1 .. MaxData) BY DataRead DEF Inject
<1>1. ShakeTypes'
  <2>1. toP' \in Seq(Frames) BY HeadTailProperties DEF ShakeTypes, ShakeTypeOK
  <2> QED BY <1>5, <2>1 DEF ShakeTypes, ShakeTypeOK
<1>2. FlowInv' BY DEF FlowInv, ShakeTypes, ShakeTypeOK
<1>3. ToPassive' BY ToPassiveRead DEF Handed
<1>4. ToRegistry' BY ToRegistrySame DEF Agreed
<1> QED BY <1>1, <1>2, <1>3, <1>4, <1>5

\* The application reads.
LEMMA FramedReadInv == ASSUME ShakeInv, FramedRead PROVE ShakeInv'
<1> USE DEF ShakeInv, FramedRead, registrarVars, passVars
<1>5. Data' /\ got' \in Seq(1 .. MaxData) BY DataRead
<1>1. ShakeTypes'
  <2>1. toP' \in Seq(Frames) BY HeadTailProperties DEF ShakeTypes, ShakeTypeOK
  <2> QED BY <1>5, <2>1 DEF ShakeTypes, ShakeTypeOK
<1>2. FlowInv' BY DEF FlowInv, ShakeTypes, ShakeTypeOK
<1>3. ToPassive' BY ToPassiveRead DEF Handed
<1>4. ToRegistry' BY ToRegistrySame DEF Agreed
<1> QED BY <1>1, <1>2, <1>3, <1>4, <1>5

-----------------------------------------------------------------------------
(* Steps that write to the registry's end, or read there.                  *)

\* A heartbeat of the passive end.
LEMMA PassiveBeatInv == ASSUME ShakeInv, PassiveBeat PROVE ShakeInv'
<1> USE DEF ShakeInv, PassiveBeat, registrarVars, passVars
<1>4. ToRegistry' /\ toA' \in Seq(Frames) BY ToRegistryBeat
<1>1. ShakeTypes' BY <1>4 DEF ShakeTypes, ShakeTypeOK
<1>2. FlowInv' BY DEF FlowInv, ShakeTypes, ShakeTypeOK
<1>3. ToPassive' BY ToPassiveSame
<1>5. Data' BY DataSame
<1> QED BY <1>1, <1>2, <1>3, <1>4, <1>5

\* The passive end answers.
LEMMA PassivePengInv == ASSUME ShakeInv, PassivePeng PROVE ShakeInv'
<1> USE DEF ShakeInv, PassivePeng, registrarVars, passVars
<1>4. ToRegistry' /\ toA' \in Seq(Frames) BY ToRegistryPeng DEF PassiveWait
<1>1. ShakeTypes' BY <1>4 DEF ShakeTypes, ShakeTypeOK
<1>2. FlowInv' BY DEF FlowInv, ShakeTypes, ShakeTypeOK
<1>3. ToPassive' BY ToPassiveSame DEF Handed
<1>5. Data' BY DataSame
<1> QED BY <1>1, <1>2, <1>3, <1>4, <1>5

\* The read loop keeps the first frame that is not a heartbeat.
LEMMA LoopReadInv == ASSUME ShakeInv, LoopRead PROVE ShakeInv'
<1> USE DEF ShakeInv, LoopRead, registrarVars, passVars
<1>4. ToRegistry' /\ toA' \in Seq(Frames) /\ Head(toA).type \in {"HEARTBEAT", "PENG"} BY ToRegistryRead
<1>1. ShakeTypes' BY <1>4 DEF ShakeTypes, ShakeTypeOK
<1>2. FlowInv' BY DEF FlowInv, ShakeTypes, ShakeTypeOK
<1>3. ToPassive' BY ToPassiveSame
<1>5. Data' BY DataSame
<1> QED BY <1>1, <1>2, <1>3, <1>4, <1>5

\* Match reads until PENG.
LEMMA ReadPengInv == ASSUME ShakeInv, ReadPeng PROVE ShakeInv'
<1> USE DEF ShakeInv, ReadPeng, registrarVars, passVars
<1>4. ToRegistry' /\ toA' \in Seq(Frames) BY ToRegistryRead DEF IsPeng, Owned
<1>1. ShakeTypes' BY <1>4 DEF ShakeTypes, ShakeTypeOK
<1>2. FlowInv' BY DEF FlowInv, ShakeTypes, ShakeTypeOK, Owned
<1>3. ToPassive' BY ToPassiveSame
<1>5. Data' BY DataSame
<1> QED BY <1>1, <1>2, <1>3, <1>4, <1>5

-----------------------------------------------------------------------------
(* The theorem.                                                            *)

\* The initial state satisfies the invariant.
LEMMA ShakeInitInv == ShakeInit => ShakeInv
<1> SUFFICES ASSUME ShakeInit PROVE ShakeInv OBVIOUS
<1>1. /\ toP \in Seq(Frames) /\ toA \in Seq(Frames) /\ got \in Seq(1 .. MaxData)
      /\ toP = <<>> /\ toA = <<>> /\ Len(toP) = 0 /\ Len(toA) = 0 /\ Len(got) = 0
  BY EmptySeq DEF ShakeInit
<1>2. ShakeTypes
  <2>1. beats \in [{"registry", "passive", "dialer"} -> Nat] /\ sent \in 0 .. MaxData BY HandshakeAssumption DEF ShakeInit
  <2>2. ShakeTypeOK BY <1>1, <2>1 DEF ShakeInit, ShakeTypeOK
  <2> QED BY <2>1, <2>2 DEF ShakeTypes
<1>3. FlowInv BY DEF ShakeInit, FlowInv, Owned
<1>4. ToPassive BY <1>1 DEF ToPassive
<1>5. ToRegistry BY <1>1 DEF ShakeInit, ToRegistry, Owned
<1>6. Data BY <1>1 DEF ShakeInit, Data
<1> QED BY <1>2, <1>3, <1>4, <1>5, <1>6 DEF ShakeInv

\* Every step preserves it.
LEMMA ShakeStep == ASSUME ShakeInv, [ShakeNext]_shakeVars PROVE ShakeInv'
<1>1. CASE UNCHANGED shakeVars
  BY <1>1 DEF shakeVars, registrarVars, passVars, ShakeInv, ShakeTypes, ShakeTypeOK, FlowInv, ToPassive, ToRegistry, Data
<1>2. CASE Registrar \/ Sender \/ Loop
  BY <1>2, RegisterFrameInv, ConfirmOkInv, ConfirmFailInv, SenderStartInv, SenderBeatInv, SenderFailsInv, SenderStopsInv,
     LoopReadInv, LoopExitInv, LoopTornInv DEF Registrar, Sender, Loop
<1>3. CASE Claim \/ Handshake \/ Dialer
  BY <1>3, ClaimInv, SendPongInv, StopLoopInv, JoinLoopInv, ReadPengInv, HandshakeFailsInv, DialInv, FramedWriteInv,
     FramedBeatInv, DialPacketInv DEF Handshake, Dialer
<1>4. CASE PassiveBeat \/ PassiveSenderStops \/ Passive
  BY <1>4, PassiveBeatInv, PassiveSenderStopsInv, PassiveReadInv, PassiveReadFailsInv, PassivePengInv,
     PassivePengFailsInv, ModeReadInv, ModeTimeoutInv, FramedReadInv, HandlerEndsInv, PassiveCloseInv DEF Passive
<1> QED BY <1>1, <1>2, <1>3, <1>4 DEF ShakeNext

\* The invariant gives the properties of the two streams.
LEMMA ShakeInvSound == ShakeInv => ShakeSound
<1> SUFFICES ASSUME ShakeInv PROVE ShakeSound OBVIOUS
<1>1. ShakeTypeOK BY DEF ShakeInv, ShakeTypes
<1>2. HandlerStreamClean
  <2>1. \A f : f \in ToSet(toP) => \E i \in 1 .. Len(toP) : toP[i] = f
    BY <1>1, ToSetType DEF ShakeTypeOK
  <2> QED BY <2>1 DEF ShakeInv, ToPassive, Handed, Beat, HandlerStreamClean
<1>3. DialerStreamClean
  <2>1. \A f : f \in ToSet(toA) => toA # <<>>
    BY <1>1, ToSetType DEF ShakeTypeOK
  <2> QED BY <2>1 DEF ShakeInv, ToRegistry, Owned, DialerStreamClean
<1>4. MatchAgreed BY DEF ShakeInv, ToRegistry, Owned, Agreed, MatchAgreed
<1>5. DataInOrder
  <2>1. DOMAIN got = 1 .. Len(got) BY <1>1, LenProperties DEF ShakeTypeOK
  <2> QED BY <2>1 DEF ShakeInv, Data, DataInOrder
<1> QED BY <1>1, <1>2, <1>3, <1>4, <1>5 DEF ShakeSound

\* However the two heartbeat senders, the read loop, Match, the passive end and
\* the handler interleave, and wherever a deadline, a failed write or a close cuts
\* in: no heartbeat reaches the handler or the dialer's raw stream, Match returns
\* only a connection the passive end has handed over, and the application reads
\* what the dialer wrote, in order (registry.go's reverseHandshake, reverse.go's
\* handleReverseConn).
THEOREM ShakeIsSound == ShakeSpec => []ShakeSound
<1>1. ShakeInit => ShakeInv BY ShakeInitInv
<1>2. ShakeInv /\ [ShakeNext]_shakeVars => ShakeInv' BY ShakeStep
<1>3. ShakeInv => ShakeSound BY ShakeInvSound
<1> QED BY <1>1, <1>2, <1>3, PTL DEF ShakeSpec

-----------------------------------------------------------------------------
(***************************************************************************)
(* The control plane's ports and identities, for any sets of sessions,     *)
(* client identities and ports and any number of administrator removals,   *)
(* shutdowns and crashes.                                                  *)
(*                                                                         *)
(* Two arguments, which share only the order of handleRegister's steps.    *)
(* Ports: a session between createListener and the end of its resource     *)
(* owns an open listener, the operating system gives a port to one         *)
(* listener, and whoever closes a listener first took the resource away.   *)
(* Identities: the in-flight mark lets one registration of an identity     *)
(* past RegisterBegin, and from its scan on no other session of the        *)
(* identity carries its label.                                             *)
(***************************************************************************)

\* Where a session is before it has a listener, while only its listener is
\* there, while its identity is marked, and from its scan to its label.
Before == {"out", "idle", "scan", "takeover", "await", "unbind", "pick", "reclaim", "retry", "listen"}
Installing == {"bind", "install"}
Early == Before \cup Installing
Registering == {"scan", "takeover", "await", "unbind", "pick", "reclaim", "retry", "listen", "bind", "install",
                "rule", "reply"}
Cleared == {"await", "unbind", "pick", "reclaim", "retry", "listen", "bind", "install"}
PCs == Early \cup {"rule", "reply", "dynaddr", "up", "ending", "gone"}

ControlTypes ==
    /\ ControlTypeOK /\ IsInjective(disc)
    /\ pc \in [Sessions -> PCs]
    /\ apc \in {"idle", "listener", "rules", "remove"}

-----------------------------------------------------------------------------
(* The invariant of the ports.                                             *)

\* What a session has not yet made it does not have.
Fresh ==
    \A s \in Sessions :
        /\ pc[s] \in Early => s \notin resources \cup labelled \cup dyn \cup cres
        /\ pc[s] \in Before => s \notin listeners

\* A resource, installed or about to be, has its listener open.
Listening == \A s \in Sessions : s \in resources \/ pc[s] \in Installing => s \in listeners

\* The operating system's guarantee.
DistinctListeners == \A s, t \in listeners : port[s] = port[t] => s = t

\* HandleClose and ForceRemoveBinding close the listeners of resources they
\* have detached.
Detached ==
    /\ \A s \in cres : s \notin resources
    /\ \A s \in Sessions : cstage[s] = "listener" => s \in cres
    /\ apc = "listener" => ares \notin resources /\ \A s \in Sessions : s = ares => pc[s] \notin Early

PortInv == Fresh /\ Listening /\ DistinctListeners /\ Detached

(* The invariant of the identities.                                        *)

Marked == \A s \in Sessions : pc[s] \in Registering => ident[s] \in pendingRegs

OneRegistering ==
    \A s, t \in Sessions : pc[s] \in Registering /\ pc[t] \in Registering /\ ident[s] = ident[t] => s = t

\* A session past its scan has the identity to itself, apart from the stale
\* session it is about to close.
Alone ==
    \A s \in Sessions, o \in sessions \cap labelled :
        /\ pc[s] \in Cleared => ident[o] # ident[s]
        /\ pc[s] = "takeover" /\ ident[o] = ident[s] => o = old[s]

IdentInv == Marked /\ OneRegistering /\ Alone /\ OneSessionPerIdentity

ControlInv == ControlTypes /\ PortInv /\ IdentInv

-----------------------------------------------------------------------------
(* Bindings, and what most steps leave alone.                              *)

\* Removing and setting a binding keep the store's types, and an identity is
\* marked disconnected once at most.
LEMMA BindingTyped ==
    ASSUME ControlTypes, NEW i \in Idents, NEW p \in 0 .. PortMax
    PROVE  BindingRemove(i) \/ Set(i, p) \/ SetDisconnected(i) =>
               bindings' \in [Idents -> 0 .. PortMax] /\ disc' \in Seq(Idents) /\ IsInjective(disc')
<1>1. disc \in Seq(Idents) /\ IsInjective(disc) /\ bindings \in [Idents -> 0 .. PortMax] /\ 0 \in 0 .. PortMax
  BY ControlAssumption DEF ControlTypes, ControlTypeOK
<1> DEFINE r == RemoveFirst(disc, i)
<1>2. r \in Seq(Idents) /\ IsInjective(r) /\ i \notin ToSet(r)
  BY <1>1, RemoveFirstLemma
<1>3. Append(r, i) \in Seq(Idents) /\ IsInjective(Append(r, i))
  BY <1>2, AppendLemma
<1> HIDE DEF r
<1>4. CASE BindingRemove(i)
  BY <1>1, <1>2, <1>4 DEF BindingRemove, r
<1>5. CASE Set(i, p)
  BY <1>1, <1>2, <1>5 DEF Set, r
<1>6. CASE SetDisconnected(i)
  <2>1. bindings' = bindings /\ disc' \in {disc, Append(r, i)}
    BY <1>6 DEF SetDisconnected, r
  <2> QED BY <1>1, <1>3, <2>1
<1> QED BY <1>4, <1>5, <1>6

\* A session that moves on without a listener, resource or label being made.
LEMMA PortFrame ==
    ASSUME ControlTypes, PortInv, NEW s \in Sessions, NEW l \in PCs, pc' = [pc EXCEPT ![s] = l],
           l \in Before => pc[s] \in Before, l \in Installing => pc[s] \in Installing,
           listeners' = listeners, resources' = resources, labelled' = labelled, dyn' = dyn, cres' = cres,
           cstage' = cstage, apc' = apc, ares' = ares, port' = port
    PROVE  PortInv'
<1>1. \A t \in Sessions :
          /\ pc'[t] \in Before => pc[t] \in Before
          /\ pc'[t] \in Installing => pc[t] \in Installing
          /\ pc'[t] \in Early => pc[t] \in Early
  BY DEF ControlTypes, Early
<1> QED BY <1>1 DEF PortInv, Fresh, Listening, DistinctListeners, Detached

\* Nothing but the bindings changes.
LEMMA PortSame ==
    ASSUME PortInv, pc' = pc, listeners' = listeners, resources' = resources, labelled' = labelled, dyn' = dyn,
           cres' = cres, cstage' = cstage, apc' = apc, ares' = ares, port' = port
    PROVE  PortInv'
BY DEF PortInv, Fresh, Listening, DistinctListeners, Detached

\* A session that moves on within its registration, or out of it, when it
\* may drop its mark.
LEMMA IdentFrame ==
    ASSUME ControlTypes, IdentInv, NEW s \in Sessions, NEW l \in PCs, pc' = [pc EXCEPT ![s] = l],
           l \in Registering => pc[s] \in Registering, l # "takeover",
           l \in Cleared => pc[s] \in Cleared \/ \A o \in sessions' \cap labelled : ident[o] # ident[s],
           sessions' \subseteq sessions, labelled' = labelled, old' = old, ident' = ident,
           \/ pendingRegs' = pendingRegs
           \/ pendingRegs' = pendingRegs \ {ident[s]} /\ pc[s] \in Registering /\ l \notin Registering
    PROVE  IdentInv'
<1>1. \A t \in Sessions :
          /\ pc'[t] \in Registering => pc[t] \in Registering
          /\ pc'[t] \in Cleared => pc[t] \in Cleared \/ \A o \in sessions' \cap labelled : ident[o] # ident[t]
          /\ pc'[t] = "takeover" => pc[t] = "takeover"
  BY DEF ControlTypes
<1>2. Marked' /\ OneRegistering'
  <2>1. \A t \in Sessions : pc'[t] \in Registering /\ pendingRegs' # pendingRegs => ident[t] # ident[s]
    BY <1>1 DEF IdentInv, OneRegistering, ControlTypes
  <2> QED BY <1>1, <2>1 DEF IdentInv, Marked, OneRegistering
<1>3. Alone' BY <1>1 DEF IdentInv, Alone
<1>4. OneSessionPerIdentity' BY DEF IdentInv, OneSessionPerIdentity
<1> QED BY <1>2, <1>3, <1>4 DEF IdentInv

\* Sessions may go; nobody registers.
LEMMA IdentShrinks ==
    ASSUME IdentInv, pc' = pc, sessions' \subseteq sessions, labelled' = labelled, old' = old, ident' = ident,
           pendingRegs' = pendingRegs
    PROVE  IdentInv'
BY DEF IdentInv, Marked, OneRegistering, Alone, OneSessionPerIdentity

-----------------------------------------------------------------------------
(* Steps of a session that only move it on.                                *)

\* A second registration of an identity is refused.
LEMMA RegisterInProgressInv == ASSUME ControlInv, NEW s \in Sessions, RegisterInProgress(s) PROVE ControlInv'
<1>1. ControlTypes' BY DEF ControlInv, ControlTypes, ControlTypeOK, RegisterInProgress, Goto, mgrVars, bindVars, admVars, bounds, PCs, Early, Before, Installing
<1>2. PortInv' BY PortFrame DEF ControlInv, RegisterInProgress, Goto, mgrVars, admVars, PCs, Early, Before, Installing
<1>3. IdentInv' BY IdentFrame DEF ControlInv, RegisterInProgress, Goto, mgrVars, PCs, Early, Before, Installing, Registering, Cleared
<1> QED BY <1>1, <1>2, <1>3 DEF ControlInv

\* The stale session has been closed.
LEMMA TakeoverDoneInv == ASSUME ControlInv, NEW s \in Sessions, TakeoverDone(s) PROVE ControlInv'
<1>1. ControlTypes' BY DEF ControlInv, ControlTypes, ControlTypeOK, TakeoverDone, Goto, mgrVars, bindVars, admVars, bounds, PCs, Early, Before, Installing
<1>2. PortInv' BY PortFrame DEF ControlInv, TakeoverDone, Goto, mgrVars, admVars, PCs, Early, Before, Installing
<1>3. IdentInv' BY IdentFrame DEF ControlInv, TakeoverDone, Goto, mgrVars, PCs, Early, Before, Installing, Registering, Cleared
<1> QED BY <1>1, <1>2, <1>3 DEF ControlInv

\* No port is free.
LEMMA PickExhaustedInv == ASSUME ControlInv, NEW s \in Sessions, PickExhausted(s) PROVE ControlInv'
<1>1. ControlTypes' BY DEF ControlInv, ControlTypes, ControlTypeOK, PickExhausted, Goto, mgrVars, bindVars, admVars, bounds, PCs, Early, Before, Installing
<1>2. PortInv' BY PortFrame DEF ControlInv, PickExhausted, Goto, mgrVars, admVars, PCs, Early, Before, Installing
<1>3. IdentInv' BY IdentFrame DEF ControlInv, PickExhausted, Goto, mgrVars, PCs, Early, Before, Installing, Registering, Cleared
<1> QED BY <1>1, <1>2, <1>3 DEF ControlInv

\* The client hangs up.
LEMMA SessionEndsInv == ASSUME ControlInv, NEW s \in Sessions, SessionEnds(s) PROVE ControlInv'
<1>1. ControlTypes' BY DEF ControlInv, ControlTypes, ControlTypeOK, SessionEnds, Goto, mgrVars, bindVars, admVars, bounds, PCs, Early, Before, Installing
<1>2. PortInv' BY PortFrame DEF ControlInv, SessionEnds, Goto, mgrVars, admVars, PCs, Early, Before, Installing
<1>3. IdentInv' BY IdentFrame DEF ControlInv, SessionEnds, Goto, mgrVars, PCs, Early, Before, Installing, Registering, Cleared
<1> QED BY <1>1, <1>2, <1>3 DEF ControlInv

\* The session was detached before.
LEMMA EndNothingInv == ASSUME ControlInv, NEW s \in Sessions, EndNothing(s) PROVE ControlInv'
<1>1. ControlTypes' BY DEF ControlInv, ControlTypes, ControlTypeOK, EndNothing, Goto, mgrVars, bindVars, admVars, bounds, PCs, Early, Before, Installing
<1>2. PortInv' BY PortFrame DEF ControlInv, EndNothing, Goto, mgrVars, admVars, PCs, Early, Before, Installing
<1>3. IdentInv' BY IdentFrame DEF ControlInv, EndNothing, Goto, mgrVars, PCs, Early, Before, Installing, Registering, Cleared
<1> QED BY <1>1, <1>2, <1>3 DEF ControlInv

\* The identity has an active session: the registration is refused.
LEMMA ScanActiveInv == ASSUME ControlInv, NEW s \in Sessions, ScanActive(s) PROVE ControlInv'
<1>1. ControlTypes' BY DEF ControlInv, ControlTypes, ControlTypeOK, ScanActive, Refuse, Goto, mgrVars, bindVars, admVars, bounds, PCs, Early, Before, Installing
<1>2. PortInv' BY PortFrame DEF ControlInv, ScanActive, Refuse, Goto, mgrVars, admVars, PCs, Early, Before, Installing
<1>3. IdentInv' BY IdentFrame DEF ControlInv, ScanActive, Refuse, Goto, mgrVars, PCs, Early, Before, Installing, Registering, Cleared
<1> QED BY <1>1, <1>2, <1>3 DEF ControlInv

\* The preferred port is taken.
LEMMA PickPreferredFailsInv == ASSUME ControlInv, NEW s \in Sessions, PickPreferredFails(s) PROVE ControlInv'
<1>1. ControlTypes' BY DEF ControlInv, ControlTypes, ControlTypeOK, PickPreferredFails, Refuse, Goto, mgrVars, bindVars, admVars, bounds, PCs, Early, Before, Installing
<1>2. PortInv' BY PortFrame DEF ControlInv, PickPreferredFails, Refuse, Goto, mgrVars, admVars, PCs, Early, Before, Installing
<1>3. IdentInv' BY IdentFrame DEF ControlInv, PickPreferredFails, Refuse, Goto, mgrVars, PCs, Early, Before, Installing, Registering, Cleared
<1> QED BY <1>1, <1>2, <1>3 DEF ControlInv

\* Still no port.
LEMMA RetryExhaustedInv == ASSUME ControlInv, NEW s \in Sessions, RetryExhausted(s) PROVE ControlInv'
<1>1. ControlTypes' BY DEF ControlInv, ControlTypes, ControlTypeOK, RetryExhausted, Refuse, Goto, mgrVars, bindVars, admVars, bounds, PCs, Early, Before, Installing
<1>2. PortInv' BY PortFrame DEF ControlInv, RetryExhausted, Refuse, Goto, mgrVars, admVars, PCs, Early, Before, Installing
<1>3. IdentInv' BY IdentFrame DEF ControlInv, RetryExhausted, Refuse, Goto, mgrVars, PCs, Early, Before, Installing, Registering, Cleared
<1> QED BY <1>1, <1>2, <1>3 DEF ControlInv

\* The deferred delete of the in-flight mark.
LEMMA RegisterReturnInv == ASSUME ControlInv, NEW s \in Sessions, RegisterReturn(s) PROVE ControlInv'
<1>1. ControlTypes' BY DEF ControlInv, ControlTypes, ControlTypeOK, RegisterReturn, Goto, mgrVars, bindVars, admVars, bounds, PCs, Early, Before, Installing
<1>2. PortInv' BY PortFrame DEF ControlInv, RegisterReturn, Goto, mgrVars, admVars, PCs, Early, Before, Installing
<1>3. IdentInv' BY IdentFrame DEF ControlInv, RegisterReturn, Goto, mgrVars, PCs, Early, Before, Installing, Registering, Cleared
<1> QED BY <1>1, <1>2, <1>3 DEF ControlInv

\* No session of the identity is left.
LEMMA ScanNoneInv == ASSUME ControlInv, NEW s \in Sessions, ScanNone(s) PROVE ControlInv'
<1>1. ControlTypes' BY DEF ControlInv, ControlTypes, ControlTypeOK, ScanNone, Goto, mgrVars, bindVars, sessVars, admVars, bounds, PCs, Early, Before, Installing
<1>2. PortInv' BY PortFrame DEF ControlInv, ScanNone, Goto, mgrVars, sessVars, admVars, PCs, Early, Before, Installing
<1>3. IdentInv' BY IdentFrame DEF ControlInv, ScanNone, Goto, mgrVars, sessVars, PCs, Early, Before, Installing, Registering, Cleared, SameIdentity
<1> QED BY <1>1, <1>2, <1>3 DEF ControlInv

\* Somebody else detached the stale session.
LEMMA TakeoverGoneInv == ASSUME ControlInv, NEW s \in Sessions, TakeoverGone(s) PROVE ControlInv'
<1>1. ControlTypes' BY DEF ControlInv, ControlTypes, ControlTypeOK, TakeoverGone, Goto, mgrVars, bindVars, sessVars, admVars, bounds, PCs, Early, Before, Installing
<1>2. PortInv' BY PortFrame DEF ControlInv, TakeoverGone, Goto, mgrVars, sessVars, admVars, PCs, Early, Before, Installing
<1>3. IdentInv' BY IdentFrame DEF ControlInv, TakeoverGone, Goto, mgrVars, sessVars, PCs, Early, Before, Installing, Registering, Cleared, IdentInv, Alone
<1> QED BY <1>1, <1>2, <1>3 DEF ControlInv

\* The routing rule is inserted.
LEMMA InsertRoutingRuleInv == ASSUME ControlInv, NEW s \in Sessions, InsertRoutingRule(s) PROVE ControlInv'
<1>1. ControlTypes' BY DEF ControlInv, ControlTypes, ControlTypeOK, InsertRoutingRule, Goto, mgrVars, bindVars, sessVars, admVars, bounds, PCs, Early, Before, Installing
<1>2. PortInv' BY PortFrame DEF ControlInv, InsertRoutingRule, Goto, mgrVars, sessVars, admVars, PCs, Early, Before, Installing
<1>3. IdentInv' BY IdentFrame DEF ControlInv, InsertRoutingRule, Goto, mgrVars, sessVars, PCs, Early, Before, Installing, Registering, Cleared
<1> QED BY <1>1, <1>2, <1>3 DEF ControlInv

-----------------------------------------------------------------------------
(* Steps that change the bindings or take a port.                          *)

\* The identity's old binding is removed.
LEMMA RegisterUnbindInv == ASSUME ControlInv, NEW s \in Sessions, RegisterUnbind(s) PROVE ControlInv'
<1>0. bindings' \in [Idents -> 0 .. PortMax] /\ disc' \in Seq(Idents) /\ IsInjective(disc')
  BY BindingTyped, ControlAssumption DEF ControlInv, ControlTypes, ControlTypeOK, RegisterUnbind
<1>1. ControlTypes' BY <1>0 DEF ControlInv, ControlTypes, ControlTypeOK, RegisterUnbind, Goto, mgrVars, bindVars, sessVars, admVars, bounds, PCs, Early, Before, Installing
<1>2. PortInv' BY PortFrame DEF ControlInv, RegisterUnbind, Goto, mgrVars, sessVars, admVars, PCs, Early, Before, Installing
<1>3. IdentInv' BY IdentFrame DEF ControlInv, RegisterUnbind, Goto, mgrVars, sessVars, PCs, Early, Before, Installing, Registering, Cleared
<1> QED BY <1>1, <1>2, <1>3 DEF ControlInv

\* The port was taken since: the binding is removed and the registration refused.
LEMMA CreateListenerFailsInv == ASSUME ControlInv, NEW s \in Sessions, CreateListenerFails(s) PROVE ControlInv'
<1>0. bindings' \in [Idents -> 0 .. PortMax] /\ disc' \in Seq(Idents) /\ IsInjective(disc')
  BY BindingTyped, ControlAssumption DEF ControlInv, ControlTypes, ControlTypeOK, CreateListenerFails
<1>1. ControlTypes' BY <1>0 DEF ControlInv, ControlTypes, ControlTypeOK, CreateListenerFails, Goto, Refuse, mgrVars, bindVars, sessVars, admVars, bounds, PCs, Early, Before, Installing
<1>2. PortInv' BY PortFrame DEF ControlInv, CreateListenerFails, Goto, Refuse, mgrVars, sessVars, admVars, PCs, Early, Before, Installing
<1>3. IdentInv' BY IdentFrame DEF ControlInv, CreateListenerFails, Goto, Refuse, mgrVars, sessVars, PCs, Early, Before, Installing, Registering, Cleared
<1> QED BY <1>1, <1>2, <1>3 DEF ControlInv

\* The binding is recorded.
LEMMA RegisterBindInv == ASSUME ControlInv, NEW s \in Sessions, RegisterBind(s) PROVE ControlInv'
<1>0. bindings' \in [Idents -> 0 .. PortMax] /\ disc' \in Seq(Idents) /\ IsInjective(disc')
  BY BindingTyped, ControlAssumption DEF ControlInv, ControlTypes, ControlTypeOK, RegisterBind
<1>1. ControlTypes' BY <1>0 DEF ControlInv, ControlTypes, ControlTypeOK, RegisterBind, Goto, mgrVars, bindVars, sessVars, admVars, bounds, PCs, Early, Before, Installing
<1>2. PortInv' BY PortFrame DEF ControlInv, RegisterBind, Goto, mgrVars, sessVars, admVars, PCs, Early, Before, Installing
<1>3. IdentInv' BY IdentFrame DEF ControlInv, RegisterBind, Goto, mgrVars, sessVars, PCs, Early, Before, Installing, Registering, Cleared
<1> QED BY <1>1, <1>2, <1>3 DEF ControlInv

\* The oldest disconnected binding is given up.
LEMMA ReclaimInv == ASSUME ControlInv, NEW s \in Sessions, Reclaim(s) PROVE ControlInv'
<1>0. bindings' \in [Idents -> 0 .. PortMax] /\ disc' \in Seq(Idents) /\ IsInjective(disc')
  <2>1. CASE disc = <<>> BY <2>1 DEF ControlInv, ControlTypes, ControlTypeOK, Reclaim, bindVars
  <2>2. CASE disc # <<>>
    <3>1. Head(disc) \in Idents /\ BindingRemove(Head(disc))
      BY <2>2, TailLemma DEF ControlInv, ControlTypes, ControlTypeOK, Reclaim
    <3> QED BY <3>1, BindingTyped, ControlAssumption DEF ControlInv
  <2> QED BY <2>1, <2>2
<1>1. ControlTypes' BY <1>0 DEF ControlInv, ControlTypes, ControlTypeOK, Reclaim, Goto, mgrVars, bindVars, sessVars, admVars, bounds, PCs, Early, Before, Installing
<1>2. PortInv' BY PortFrame DEF ControlInv, Reclaim, Goto, mgrVars, sessVars, admVars, PCs, Early, Before, Installing
<1>3. IdentInv' BY IdentFrame DEF ControlInv, Reclaim, Goto, mgrVars, sessVars, PCs, Early, Before, Installing, Registering, Cleared
<1> QED BY <1>1, <1>2, <1>3 DEF ControlInv

\* A port found available is taken: the session has no listener yet, so nothing
\* that is open changes its port.
LEMMA TakePortInv ==
    ASSUME ControlInv, NEW s \in Sessions, NEW p \in Ports, pc[s] \in {"pick", "retry"}, TakePort(s, p),
           portNext' \in {portNext, IF p = PortMax THEN 1 ELSE p + 1}
    PROVE  ControlInv'
<1>1. portNext' \in 0 .. PortMax /\ p \in 0 .. PortMax
  BY ControlAssumption DEF ControlInv, ControlTypes, ControlTypeOK, Ports
<1>2. ControlTypes' BY <1>1 DEF ControlInv, ControlTypes, ControlTypeOK, TakePort, Goto, mgrVars, bindVars, admVars, bounds, PCs, Early, Before, Installing
<1>3. \A t \in Sessions :
          /\ pc'[t] \in Before <=> pc[t] \in Before
          /\ pc'[t] \in Installing <=> pc[t] \in Installing
          /\ pc'[t] \in Early <=> pc[t] \in Early
  BY DEF ControlInv, ControlTypes, TakePort, Goto, Early, Before, Installing
<1>4. \A t \in listeners : port'[t] = port[t]
  BY DEF ControlInv, ControlTypes, ControlTypeOK, TakePort, PortInv, Fresh, Before
<1>5. PortInv'
  BY <1>3, <1>4 DEF ControlInv, PortInv, Fresh, Listening, DistinctListeners, Detached, TakePort, mgrVars, admVars
<1>6. IdentInv' BY IdentFrame DEF ControlInv, TakePort, Goto, mgrVars, PCs, Early, Before, Registering, Cleared
<1> QED BY <1>2, <1>5, <1>6 DEF ControlInv

\* The preferred port.
LEMMA PickPreferredInv ==
    ASSUME ControlInv, NEW s \in Sessions, NEW p \in Ports, PickPreferred(s, p) PROVE ControlInv'
BY TakePortInv DEF PickPreferred

\* The persistent port, or the next one in turn.
LEMMA PickAutoInv == ASSUME ControlInv, NEW s \in Sessions, PickAuto(s) PROVE ControlInv'
<1>1. PICK p \in Free(s) : TakePort(s, p) /\ (portNext' = portNext \/ Advance(p))
  BY DEF PickAuto, Persistent
<1>2. pc[s] = "pick" BY DEF PickAuto
<1> QED BY <1>1, <1>2, TakePortInv DEF Free, Advance

\* The port a reclaimed binding freed.
LEMMA RetryOkInv == ASSUME ControlInv, NEW s \in Sessions, RetryOk(s) PROVE ControlInv'
<1>1. Min(Free(s)) \in Free(s)
  <2>1. Free(s) \in SUBSET Nat /\ Free(s) # {} BY DEF RetryOk, Free, Ports
  <2> QED BY <2>1, MinOfNats
<1> QED BY <1>1, TakePortInv DEF RetryOk, Free, Advance

-----------------------------------------------------------------------------
(* Connecting, registering, installing.                                    *)

\* A client connects.
LEMMA HandleControlConnectionInv == ASSUME ControlInv, NEW s \in Sessions, HandleControlConnection(s) PROVE ControlInv'
<1>1. ControlTypes' BY DEF ControlInv, ControlTypes, ControlTypeOK, HandleControlConnection, Goto, mgrVars, bindVars, sessVars, admVars, bounds, PCs, Early, Before, Installing
<1>2. PortInv' BY PortFrame DEF ControlInv, HandleControlConnection, Goto, mgrVars, sessVars, admVars, PCs, Early, Before, Installing
<1>3. IdentInv'
  <2>1. sessions' \cap labelled' = sessions \cap labelled
    BY DEF ControlInv, HandleControlConnection, PortInv, Fresh, Early, Before
  <2>2. \A t \in Sessions :
          /\ pc'[t] \in Registering <=> pc[t] \in Registering
          /\ pc'[t] \in Cleared <=> pc[t] \in Cleared
          /\ pc'[t] = "takeover" <=> pc[t] = "takeover"
    BY DEF ControlInv, ControlTypes, HandleControlConnection, Goto, Registering, Cleared
  <2> QED BY <2>1, <2>2 DEF ControlInv, HandleControlConnection, IdentInv, Marked, OneRegistering, Alone, OneSessionPerIdentity
<1> QED BY <1>1, <1>2, <1>3 DEF ControlInv

\* The identity is marked, if nobody else has marked it.
LEMMA RegisterBeginInv == ASSUME ControlInv, NEW s \in Sessions, RegisterBegin(s) PROVE ControlInv'
<1>1. ControlTypes' BY DEF ControlInv, ControlTypes, ControlTypeOK, RegisterBegin, Goto, mgrVars, bindVars, sessVars, admVars, bounds, PCs, Early, Before, Installing
<1>2. PortInv' BY PortFrame DEF ControlInv, RegisterBegin, Goto, mgrVars, sessVars, admVars, PCs, Early, Before, Installing
<1>3. IdentInv'
  <2>1. \A t \in Sessions :
          /\ pc'[t] \in Registering <=> pc[t] \in Registering \/ t = s
          /\ pc'[t] \in Cleared <=> pc[t] \in Cleared
          /\ pc'[t] = "takeover" <=> pc[t] = "takeover"
    BY DEF ControlInv, ControlTypes, RegisterBegin, Goto, Registering, Cleared
  <2>2. Marked' /\ OneRegistering'
    BY <2>1 DEF ControlInv, RegisterBegin, AlreadyPending, IdentInv, Marked, OneRegistering
  <2>3. Alone' /\ OneSessionPerIdentity'
    BY <2>1 DEF ControlInv, RegisterBegin, mgrVars, IdentInv, Alone, OneSessionPerIdentity
  <2> QED BY <2>2, <2>3 DEF IdentInv
<1> QED BY <1>1, <1>2, <1>3 DEF ControlInv

\* A stale session of the identity is found: it is the only one.
LEMMA ScanStaleInv == ASSUME ControlInv, NEW s \in Sessions, NEW x \in Sessions, ScanStale(s, x) PROVE ControlInv'
<1>1. ControlTypes' BY DEF ControlInv, ControlTypes, ControlTypeOK, ScanStale, Goto, mgrVars, bindVars, sessVars, admVars, bounds, PCs, Early, Before, Installing
<1>2. PortInv' BY PortFrame DEF ControlInv, ScanStale, Goto, mgrVars, sessVars, admVars, PCs, Early, Before, Installing
<1>3. IdentInv'
  <2>1. \A t \in Sessions :
          /\ pc'[t] \in Registering <=> pc[t] \in Registering
          /\ pc'[t] \in Cleared <=> pc[t] \in Cleared
          /\ pc'[t] = "takeover" <=> pc[t] = "takeover" \/ t = s
          /\ t # s => old'[t] = old[t]
    BY DEF ControlInv, ControlTypes, ControlTypeOK, ScanStale, Goto, Registering, Cleared
  <2>2. Marked' /\ OneRegistering'
    BY <2>1 DEF ControlInv, ScanStale, IdentInv, Marked, OneRegistering
  <2>3. old'[s] = x /\ x \in sessions \cap labelled /\ ident[x] = ident[s]
    BY DEF ControlInv, ControlTypes, ControlTypeOK, ScanStale, SameIdentity
  <2>4. Alone' /\ OneSessionPerIdentity'
    BY <2>1, <2>3 DEF ControlInv, ScanStale, mgrVars, IdentInv, Alone, OneSessionPerIdentity
  <2> QED BY <2>2, <2>4 DEF IdentInv
<1> QED BY <1>1, <1>2, <1>3 DEF ControlInv

\* The operating system gives the port to this listener, or to nobody.
LEMMA CreateListenerInv == ASSUME ControlInv, NEW s \in Sessions, CreateListener(s) PROVE ControlInv'
<1>1. ControlTypes' BY DEF ControlInv, ControlTypes, ControlTypeOK, CreateListener, Goto, mgrVars, bindVars, sessVars, admVars, bounds, PCs, Early, Before, Installing
<1>2. PortInv'
  <2>1. \A t \in Sessions :
          /\ pc'[t] \in Before => pc[t] \in Before /\ t # s
          /\ pc'[t] \in Installing => pc[t] \in Installing \/ t = s
          /\ pc'[t] \in Early => pc[t] \in Early
    BY DEF ControlInv, ControlTypes, CreateListener, Goto, Early, Before, Installing
  <2>2. s \in listeners' /\ s \notin listeners /\ \A l \in listeners : port[l] # port[s]
    BY DEF ControlInv, CreateListener, OsFree, PortInv, Fresh, Before
  <2> QED BY <2>1, <2>2 DEF ControlInv, CreateListener, admVars, PortInv, Fresh, Listening, DistinctListeners, Detached
<1>3. IdentInv' BY IdentFrame DEF ControlInv, CreateListener, Goto, mgrVars, sessVars, PCs, Early, Before, Installing, Registering, Cleared
<1> QED BY <1>1, <1>2, <1>3 DEF ControlInv

\* The resource is recorded and the session, if it is still there, labelled.
LEMMA RegisterInstallInv == ASSUME ControlInv, NEW s \in Sessions, RegisterInstall(s) PROVE ControlInv'
<1>1. ControlTypes' BY DEF ControlInv, ControlTypes, ControlTypeOK, RegisterInstall, Goto, mgrVars, bindVars, sessVars, admVars, bounds, PCs, Early, Before, Installing
<1>0. \A t \in Sessions :
          /\ pc'[t] \in Before => pc[t] \in Before
          /\ pc'[t] \in Installing => pc[t] \in Installing
          /\ pc'[t] \in Early => pc[t] \in Early /\ t # s
          /\ pc'[t] \in Registering <=> pc[t] \in Registering
          /\ pc'[t] \in Cleared => pc[t] \in Cleared /\ t # s
          /\ pc'[t] = "takeover" => pc[t] = "takeover"
    BY DEF ControlInv, ControlTypes, RegisterInstall, Goto, Early, Before, Installing, Registering, Cleared
<1>2. PortInv'
  <2>1. s \in listeners /\ s \notin cres /\ (apc = "listener" => ares # s)
    BY DEF ControlInv, RegisterInstall, PortInv, Fresh, Listening, Detached, Early, Installing
  <2> QED BY <1>0, <2>1 DEF ControlInv, RegisterInstall, admVars, PortInv, Fresh, Listening, DistinctListeners, Detached
<1>3. IdentInv'
  <2>1. pc[s] \in Cleared /\ pc[s] \in Registering BY DEF RegisterInstall, Cleared, Registering
  <2>2. labelled' \subseteq labelled \cup {s} BY DEF RegisterInstall
  <2>3. \A t \in Sessions : pc[t] \in Registering /\ ident[t] = ident[s] => t = s
    BY <2>1 DEF ControlInv, IdentInv, OneRegistering
  <2>4. \A x \in sessions \cap labelled : ident[x] # ident[s]
    BY <2>1 DEF ControlInv, IdentInv, Alone
  <2>5. \A t \in Sessions : pc'[t] \in Cleared \/ pc'[t] = "takeover" => pc[t] \in Registering /\ t # s
    BY <1>0 DEF Cleared, Registering, ControlInv, ControlTypes, RegisterInstall, Goto
  <2> QED BY <1>0, <2>2, <2>3, <2>4, <2>5 DEF ControlInv, RegisterInstall, IdentInv, Marked, OneRegistering, Alone, OneSessionPerIdentity
<1> QED BY <1>1, <1>2, <1>3 DEF ControlInv

\* The session learns its dynamic address.
LEMMA SetDynAddrInv == ASSUME ControlInv, NEW s \in Sessions, SetDynAddr(s) PROVE ControlInv'
<1>1. ControlTypes' BY DEF ControlInv, ControlTypes, ControlTypeOK, SetDynAddr, Goto, mgrVars, bindVars, sessVars, admVars, bounds, PCs, Early, Before, Installing
<1>2. PortInv'
  <2>1. \A t \in Sessions :
          /\ pc'[t] \in Before => pc[t] \in Before
          /\ pc'[t] \in Installing => pc[t] \in Installing
          /\ pc'[t] \in Early => pc[t] \in Early /\ t # s
    BY DEF ControlInv, ControlTypes, SetDynAddr, Goto, Early, Before, Installing
  <2> QED BY <2>1 DEF ControlInv, SetDynAddr, mgrVars, admVars, PortInv, Fresh, Listening, DistinctListeners, Detached
<1>3. IdentInv' BY IdentFrame DEF ControlInv, SetDynAddr, Goto, mgrVars, sessVars, PCs, Early, Before, Installing, Registering, Cleared
<1> QED BY <1>1, <1>2, <1>3 DEF ControlInv

-----------------------------------------------------------------------------
(* HandleClose, ForceRemoveBinding, CloseAll, crash.                       *)

\* Detaching a session takes its resource away before its listener is closed.
LEMMA DetachPort ==
    ASSUME ControlInv, NEW x \in Sessions, Detach(x),
           \A t \in Sessions : /\ pc'[t] \in Before => pc[t] \in Before
                               /\ pc'[t] \in Installing => pc[t] \in Installing
                               /\ pc'[t] \in Early => pc[t] \in Early,
           listeners' = listeners, labelled' = labelled, dyn' = dyn, apc' = apc, ares' = ares, port' = port
    PROVE  PortInv'
<1>1. /\ resources' \subseteq resources /\ cres' \subseteq cres \cup {x}
      /\ x \in cres' /\ x \notin cres => x \in dyn /\ x \notin resources'
      /\ cres \subseteq cres'
  BY DEF Detach, OwnResource
<1>2. \A t \in Sessions : cstage'[t] = "listener" => cstage[t] = "listener"
  BY DEF Detach, ControlInv, ControlTypes, ControlTypeOK
<1>3. Fresh' BY <1>1 DEF ControlInv, PortInv, Fresh
<1>4. Listening' /\ DistinctListeners' BY <1>1 DEF ControlInv, PortInv, Listening, DistinctListeners
<1>5. Detached' BY <1>1, <1>2 DEF ControlInv, PortInv, Detached
<1> QED BY <1>3, <1>4, <1>5 DEF PortInv

\* The stale session is detached, and with it the last label of the identity.
LEMMA TakeoverDetachInv == ASSUME ControlInv, NEW s \in Sessions, TakeoverDetach(s) PROVE ControlInv'
<1>0. old[s] \in Sessions BY DEF ControlInv, ControlTypes, ControlTypeOK, TakeoverDetach
<1>1. ControlTypes' BY <1>0 DEF ControlInv, ControlTypes, ControlTypeOK, TakeoverDetach, Detach, OwnResource, Goto, mgrVars, bindVars, admVars, bounds, PCs, Early, Before, Installing
<1>2. PortInv'
  <2>1. \A t \in Sessions : /\ pc'[t] \in Before => pc[t] \in Before
                            /\ pc'[t] \in Installing => pc[t] \in Installing
                            /\ pc'[t] \in Early => pc[t] \in Early
    BY DEF ControlInv, ControlTypes, TakeoverDetach, Goto, Early, Before, Installing
  <2> QED BY <1>0, <2>1, DetachPort DEF TakeoverDetach, admVars
<1>3. IdentInv'
  <2>1. \A x \in sessions' \cap labelled : ident[x] # ident[s]
    BY DEF ControlInv, TakeoverDetach, Detach, IdentInv, Alone
  <2> QED BY <2>1, IdentFrame DEF ControlInv, TakeoverDetach, Detach, Goto, PCs, Early, Before, Registering, Cleared
<1> QED BY <1>1, <1>2, <1>3 DEF ControlInv

\* A session that ended is detached.
LEMMA EndDetachInv == ASSUME ControlInv, NEW s \in Sessions, EndDetach(s) PROVE ControlInv'
<1>1. ControlTypes' BY DEF ControlInv, ControlTypes, ControlTypeOK, EndDetach, Detach, OwnResource, Goto, mgrVars, bindVars, admVars, bounds, PCs, Early, Before, Installing
<1>2. PortInv'
  <2>1. \A t \in Sessions : /\ pc'[t] \in Before => pc[t] \in Before
                            /\ pc'[t] \in Installing => pc[t] \in Installing
                            /\ pc'[t] \in Early => pc[t] \in Early
    BY DEF ControlInv, ControlTypes, EndDetach, Goto, Early, Before, Installing
  <2> QED BY <2>1, DetachPort DEF EndDetach, admVars
<1>3. IdentInv' BY IdentFrame DEF ControlInv, EndDetach, Detach, Goto, PCs, Registering, Cleared
<1> QED BY <1>1, <1>2, <1>3 DEF ControlInv

\* CloseAll detaches a session wherever its goroutine is.
LEMMA CloseAllOneInv == ASSUME ControlInv, NEW s \in Sessions, CloseAllOne(s) PROVE ControlInv'
<1>1. ControlTypes' BY DEF ControlInv, ControlTypes, ControlTypeOK, CloseAllOne, Detach, OwnResource, bindVars, sessVars, admVars
<1>2. PortInv' BY DetachPort DEF CloseAllOne, sessVars, admVars
<1>3. IdentInv' BY IdentShrinks DEF ControlInv, CloseAllOne, Detach, sessVars
<1> QED BY <1>1, <1>2, <1>3 DEF ControlInv

\* The binding of a detached session is stamped.
LEMMA CloseDisconnectInv == ASSUME ControlInv, NEW s \in Sessions, CloseDisconnect(s) PROVE ControlInv'
<1>0. bindings' \in [Idents -> 0 .. PortMax] /\ disc' \in Seq(Idents) /\ IsInjective(disc')
  <2>1. CASE s \in labelled
    BY <2>1, BindingTyped, ControlAssumption DEF ControlInv, ControlTypes, ControlTypeOK, CloseDisconnect
  <2>2. CASE s \notin labelled
    BY <2>2 DEF ControlInv, ControlTypes, ControlTypeOK, CloseDisconnect, bindVars
  <2> QED BY <2>1, <2>2
<1>1. ControlTypes' BY <1>0 DEF ControlInv, ControlTypes, ControlTypeOK, CloseDisconnect, mgrVars, sessVars, admVars
<1>2. PortInv'
  BY DEF ControlInv, ControlTypes, ControlTypeOK, CloseDisconnect, mgrVars, sessVars, admVars, PortInv, Fresh, Listening, DistinctListeners, Detached
<1>3. IdentInv' BY IdentShrinks DEF ControlInv, CloseDisconnect, mgrVars, sessVars
<1> QED BY <1>1, <1>2, <1>3 DEF ControlInv

\* The listener of a detached resource is closed.
LEMMA CloseListenerInv == ASSUME ControlInv, NEW s \in Sessions, CloseListener(s) PROVE ControlInv'
<1>1. ControlTypes' BY DEF ControlInv, ControlTypes, ControlTypeOK, CloseListener, bindVars, sessVars, admVars
<1>2. PortInv'
  <2>1. s \notin resources /\ pc[s] \notin Installing
    BY DEF ControlInv, CloseListener, PortInv, Detached, Fresh, Early
  <2>2. \A t \in Sessions : cstage'[t] = "listener" => cstage[t] = "listener"
    BY DEF ControlInv, ControlTypes, ControlTypeOK, CloseListener
  <2> QED BY <2>1, <2>2 DEF ControlInv, CloseListener, sessVars, admVars, PortInv, Fresh, Listening, DistinctListeners, Detached
<1>3. IdentInv' BY IdentShrinks DEF ControlInv, CloseListener, sessVars
<1> QED BY <1>1, <1>2, <1>3 DEF ControlInv

\* Its rules are removed.
LEMMA CloseRulesInv == ASSUME ControlInv, NEW s \in Sessions, CloseRules(s) PROVE ControlInv'
<1>1. ControlTypes' BY DEF ControlInv, ControlTypes, ControlTypeOK, CloseRules, bindVars, sessVars, admVars
<1>2. PortInv'
  <2>1. \A t \in Sessions : cstage'[t] = "listener" => cstage[t] = "listener"
    BY DEF ControlInv, ControlTypes, ControlTypeOK, CloseRules
  <2> QED BY <2>1 DEF ControlInv, CloseRules, sessVars, admVars, PortInv, Fresh, Listening, DistinctListeners, Detached
<1>3. IdentInv' BY IdentShrinks DEF ControlInv, CloseRules, sessVars
<1> QED BY <1>1, <1>2, <1>3 DEF ControlInv

\* The administrator's removal detaches a session and a resource.
LEMMA ForceDetachInv == ASSUME ControlInv, NEW i \in Idents, ForceDetach(i) PROVE ControlInv'
<1>1. PICK x \in Sessions \cup {NoSession}, r \in resources \cup {NoSession} :
          /\ sessions' = sessions \ {x} /\ resources' = resources \ ({r} \cup ({x} \cap dyn)) /\ ares' = r
  BY DEF ForceDetach, ControlInv, ControlTypes, ControlTypeOK
<1>2. aid' = i /\ apc' = "listener" /\ ares' \in Sessions \cup {NoSession}
  BY <1>1 DEF ForceDetach, ControlInv, ControlTypes, ControlTypeOK
<1>3. ControlTypes' BY <1>1, <1>2 DEF ControlInv, ControlTypes, ControlTypeOK, ForceDetach, bindVars, sessVars
<1>4. \A t \in Sessions : t = r => pc[t] \notin Early
  BY ControlAssumption DEF ControlInv, PortInv, Fresh
<1>5. PortInv'
  BY <1>1, <1>2, <1>4 DEF ControlInv, ForceDetach, sessVars, PortInv, Fresh, Listening, DistinctListeners, Detached
<1>6. IdentInv' BY <1>1, IdentShrinks DEF ControlInv, ForceDetach, sessVars
<1> QED BY <1>3, <1>5, <1>6 DEF ControlInv

\* It closes the listener of the resource it detached.
LEMMA ForceListenerInv == ASSUME ControlInv, ForceListener PROVE ControlInv'
<1>1. ControlTypes' BY DEF ControlInv, ControlTypes, ControlTypeOK, ForceListener, bindVars, sessVars
<1>2. PortInv'
  <2>1. \A s \in Sessions : s = ares => s \notin resources /\ pc[s] \notin Installing
    BY DEF ControlInv, ForceListener, PortInv, Detached, Early
  <2> QED BY <2>1 DEF ControlInv, ForceListener, sessVars, PortInv, Fresh, Listening, DistinctListeners, Detached
<1>3. IdentInv' BY IdentShrinks DEF ControlInv, ForceListener, sessVars
<1> QED BY <1>1, <1>2, <1>3 DEF ControlInv

\* It removes the rules of the resource it detached.
LEMMA ForceRulesInv == ASSUME ControlInv, ForceRules PROVE ControlInv'
<1>1. ControlTypes' BY DEF ControlInv, ControlTypes, ControlTypeOK, ForceRules, bindVars, sessVars
<1>2. PortInv'
  BY DEF ControlInv, ForceRules, sessVars, PortInv, Fresh, Listening, DistinctListeners, Detached
<1>3. IdentInv' BY IdentShrinks DEF ControlInv, ForceRules, sessVars
<1> QED BY <1>1, <1>2, <1>3 DEF ControlInv

\* It removes the binding.
LEMMA ForceRemoveInv == ASSUME ControlInv, ForceRemove PROVE ControlInv'
<1>0. bindings' \in [Idents -> 0 .. PortMax] /\ disc' \in Seq(Idents) /\ IsInjective(disc')
  BY BindingTyped, ControlAssumption DEF ControlInv, ControlTypes, ControlTypeOK, ForceRemove
<1>1. ControlTypes' BY <1>0 DEF ControlInv, ControlTypes, ControlTypeOK, ForceRemove, mgrVars, sessVars
<1>2. PortInv'
  BY DEF ControlInv, ForceRemove, mgrVars, sessVars, PortInv, Fresh, Listening, DistinctListeners, Detached
<1>3. IdentInv' BY IdentShrinks DEF ControlInv, ForceRemove, mgrVars, sessVars
<1> QED BY <1>1, <1>2, <1>3 DEF ControlInv

\* The registry crashes and starts again with the bindings alone.
LEMMA RestartInv == ASSUME ControlInv, Restart PROVE ControlInv'
<1>1. ControlTypes' BY ControlAssumption DEF ControlInv, ControlTypes, ControlTypeOK, Restart, bindVars, PCs, Early, Before
<1>2. \A t \in Sessions : pc'[t] \in {"out", "gone"} BY DEF Restart
<1>3. PortInv'
  BY <1>2 DEF Restart, PortInv, Fresh, Listening, DistinctListeners, Detached, Installing
<1>4. IdentInv'
  BY <1>2 DEF Restart, IdentInv, Marked, OneRegistering, Alone, OneSessionPerIdentity, Registering, Cleared
<1> QED BY <1>1, <1>3, <1>4 DEF ControlInv

-----------------------------------------------------------------------------
(* The theorem.                                                            *)

\* The initial states satisfy the invariant.
LEMMA ControlInitInv == ControlInit => ControlInv
<1> SUFFICES ASSUME ControlInit PROVE ControlInv OBVIOUS
<1>1. (CHOOSE i \in Idents : TRUE) \in Idents
  <2>1. PICK x \in ReverseIDs, y \in Seqs : TRUE BY ControlAssumption
  <2>2. <<x, y>> \in Idents BY <2>1 DEF Idents
  <2> HIDE DEF Idents
  <2> QED BY <2>2
<1>2. disc \in Seq(Idents) /\ IsInjective(disc)
  <2>1. disc = <<>> /\ <<>> \in Seq(Idents) BY EmptySeq DEF ControlInit
  <2>2. DOMAIN <<>> = {} OBVIOUS
  <2> QED BY <2>1, <2>2 DEF IsInjective
<1>3. ControlTypes
  BY <1>1, <1>2, ControlAssumption DEF ControlInit, ControlTypes, ControlTypeOK, PCs, Early, Before
<1>4. PortInv
  BY DEF ControlInit, PortInv, Fresh, Listening, DistinctListeners, Detached, Installing
<1>5. IdentInv
  BY DEF ControlInit, IdentInv, Marked, OneRegistering, Alone, OneSessionPerIdentity, Registering, Cleared
<1> QED BY <1>3, <1>4, <1>5 DEF ControlInv

\* Every step preserves it.
LEMMA ControlStep == ASSUME ControlInv, [ControlNext]_controlVars PROVE ControlInv'
<1>1. CASE UNCHANGED controlVars
  BY <1>1 DEF controlVars, mgrVars, bindVars, sessVars, admVars, ControlInv, ControlTypes, ControlTypeOK, PortInv, Fresh,
     Listening, DistinctListeners, Detached, IdentInv, Marked, OneRegistering, Alone, OneSessionPerIdentity
<1>2. ASSUME NEW s \in Sessions, RegisterStep(s) PROVE ControlInv'
  BY <1>2, RegisterBeginInv, RegisterInProgressInv, ScanNoneInv, ScanActiveInv, ScanStaleInv, TakeoverDetachInv,
     TakeoverGoneInv, TakeoverDoneInv, RegisterUnbindInv, PickPreferredInv, PickPreferredFailsInv, PickAutoInv,
     PickExhaustedInv, ReclaimInv, RetryOkInv, RetryExhaustedInv, CreateListenerInv, CreateListenerFailsInv,
     RegisterBindInv, RegisterInstallInv, InsertRoutingRuleInv, RegisterReturnInv, SetDynAddrInv, EndDetachInv,
     EndNothingInv DEF RegisterStep
<1>3. ASSUME NEW s \in Sessions,
             HandleControlConnection(s) \/ SessionEnds(s) \/ CloseStep(s) \/ CloseAllOne(s)
      PROVE  ControlInv'
  BY <1>3, HandleControlConnectionInv, SessionEndsInv, CloseDisconnectInv, CloseListenerInv, CloseRulesInv,
     CloseAllOneInv DEF CloseStep
<1>4. ASSUME NEW i \in Idents, ForceDetach(i) PROVE ControlInv'
  BY <1>4, ForceDetachInv
<1>5. CASE ForceListener \/ ForceRules \/ ForceRemove \/ Restart
  BY <1>5, ForceListenerInv, ForceRulesInv, ForceRemoveInv, RestartInv
<1> QED BY <1>1, <1>2, <1>3, <1>4, <1>5 DEF ControlNext

\* No two resources hold a port, although a port is found available under one
\* lock, listened on without it and recorded under another; and no two sessions
\* speak for a client, although the stale one is closed step by step while others
\* register, hang up, are removed or shut down (handleRegister, HandleClose,
\* ForceRemoveBinding).
THEOREM ControlIsSound == ControlSpec => []ControlSound
<1>1. ControlInit => ControlInv BY ControlInitInv
<1>2. ControlInv /\ [ControlNext]_controlVars => ControlInv' BY ControlStep
<1>3. ControlInv => ControlSound
  <2> SUFFICES ASSUME ControlInv PROVE ControlSound OBVIOUS
  <2>1. DistinctPorts BY DEF ControlInv, ControlTypes, ControlTypeOK, PortInv, Listening, DistinctListeners, DistinctPorts
  <2> QED BY <2>1 DEF ControlInv, ControlTypes, IdentInv, ControlSound
<1> QED BY <1>1, <1>2, <1>3, PTL DEF ControlSpec

-----------------------------------------------------------------------------
(***************************************************************************)
(* The safety of the reverse registry for any number of connections,       *)
(* dialers, addresses and reloads.                                         *)
(***************************************************************************)

\* Match has a connection in hand exactly while it claims it and shakes hands.
HandFull ==
    \A m \in Matchers : mpc[m] \in {"claim", "handshake"} <=> mconn[m] # None

\* A reload in progress has installed a new registry.
ReloadInv == reloading => global # 0

TypeInv == RegistryTypeOK /\ HandFull /\ ReloadInv

\* Initially every variable has its type and no dialer holds a connection.
LEMMA InitTypeInv == RegistryInit => TypeInv
<1> SUFFICES ASSUME RegistryInit PROVE TypeInv
  OBVIOUS
<1>1. 0 \in Gens
  BY RegistryAssumption DEF Gens
<1>2. \A a \in Addrs : <<>> \in Seq(Conns) /\ <<>> \in Seq(Matchers)
  BY EmptySeq
<1>3. (CHOOSE a \in Addrs : TRUE) \in Addrs
  BY RegistryAssumption
<1> QED
  BY <1>1, <1>2, <1>3 DEF RegistryInit, TypeInv, RegistryTypeOK, HandFull, ReloadInv, HandlerPCs, WatcherPCs, MatchPCs

\* Every step keeps the types: one step of the proof per action.
LEMMA NextTypeInv == TypeInv /\ [RegistryNext]_registryVars => TypeInv'
<1> SUFFICES ASSUME TypeInv, [RegistryNext]_registryVars PROVE TypeInv'
  OBVIOUS
<1> USE RegistryAssumption DEF TypeInv, RegistryTypeOK, HandFull, ReloadInv, HandlerPCs, WatcherPCs, MatchPCs
<1>1. ASSUME NEW c \in Conns, HandleReverseConnection(c) PROVE TypeInv'
  BY <1>1 DEF HandleReverseConnection, regVars, matchVars
<1>2. ASSUME NEW c \in Conns, RegisterRejected(c) PROVE TypeInv'
  BY <1>2 DEF RegisterRejected, regVars, matchVars
<1>3. ASSUME NEW c \in Conns, RegisterAdmitted(c) PROVE TypeInv'
  BY <1>3 DEF RegisterAdmitted, matchVars
<1>4. ASSUME NEW c \in Conns, RegisterDeliver(c) PROVE TypeInv'
  <2> DEFINE w == waiters[reg[c]][addr[c]]
  <2>1. w \in Seq(Matchers) /\ Append(bottoms[reg[c]][addr[c]], c) \in Seq(Conns)
    BY AppendLemma
  <2>2. \A i \in DOMAIN w : w[i] \in Matchers /\ SubSeq(w, i + 1, Len(w)) \in Seq(Matchers)
    <3>1. DOMAIN w = 1 .. Len(w)
      BY <2>1, LenProperties
    <3> HIDE DEF w
    <3> QED
      BY <2>1, <3>1, SuffixLemma, ElementOfSeq
  <2>3. <<>> \in Seq(Matchers)
    BY EmptySeq
  <2>4. /\ bottoms' \in [Gens -> [Addrs -> Seq(Conns)]]
        /\ waiters' \in [Gens -> [Addrs -> Seq(Matchers)]]
        /\ chan' \in [Matchers -> Conns \cup {None, "closed"}]
    <3>1. CASE \E i \in DOMAIN w :
                 /\ chan' = [chan EXCEPT ![w[i]] = c]
                 /\ waiters' = [waiters EXCEPT ![reg[c]][addr[c]] = SubSeq(w, i + 1, Len(w))]
                 /\ UNCHANGED bottoms
      <4> PICK i \in DOMAIN w :
                 /\ chan' = [chan EXCEPT ![w[i]] = c]
                 /\ waiters' = [waiters EXCEPT ![reg[c]][addr[c]] = SubSeq(w, i + 1, Len(w))]
                 /\ UNCHANGED bottoms
        BY <3>1
      <4>1. w[i] \in Matchers /\ SubSeq(w, i + 1, Len(w)) \in Seq(Matchers)
        BY <2>2
      <4> HIDE DEF w
      <4> QED
        BY <4>1
    <3>2. CASE /\ waiters' = [waiters EXCEPT ![reg[c]][addr[c]] = <<>>]
               /\ bottoms' = [bottoms EXCEPT ![reg[c]][addr[c]] = Append(@, c)]
               /\ UNCHANGED chan
      BY <2>1, <2>3, <3>2
    <3> QED
      BY <1>4, <3>1, <3>2 DEF RegisterDeliver
  <2> QED
    BY <1>4, <2>4 DEF RegisterDeliver
<1>5. ASSUME NEW c \in Conns, SendPengOk(c) PROVE TypeInv'
  BY <1>5 DEF SendPengOk, regVars, matchVars
<1>6. ASSUME NEW c \in Conns, SendPengFail(c) PROVE TypeInv'
  <2>1. RemoveFirst(bottoms[reg[c]][addr[c]], c) \in Seq(Conns)
    BY RemoveFirstLemma
  <2> QED
    BY <1>6, <2>1 DEF SendPengFail, matchVars, Unregister
<1>7. ASSUME NEW c \in Conns, HeartbeatFails(c) PROVE TypeInv'
  BY <1>7 DEF HeartbeatFails, regVars, matchVars
<1>8. ASSUME NEW c \in Conns, IdleDetected(c) PROVE TypeInv'
  BY <1>8 DEF IdleDetected, regVars, connVars, matchVars
<1>9. ASSUME NEW c \in Conns, IdleClose(c) PROVE TypeInv'
  BY <1>9 DEF IdleClose, regVars, matchVars
<1>10. ASSUME NEW c \in Conns, ReadLoopExit(c) PROVE TypeInv'
  BY <1>10 DEF ReadLoopExit, regVars, matchVars
<1>11. ASSUME NEW c \in Conns, WatcherWake(c) PROVE TypeInv'
  BY <1>11 DEF WatcherWake, regVars, matchVars
<1>12. ASSUME NEW c \in Conns, WatcherUnregister(c) PROVE TypeInv'
  <2>1. RemoveFirst(bottoms[reg[c]][addr[c]], c) \in Seq(Conns)
    BY RemoveFirstLemma
  <2> QED
    BY <1>12, <2>1 DEF WatcherUnregister, matchVars, Unregister
<1>13. ASSUME NEW c \in Conns, WatcherRecheck(c) PROVE TypeInv'
  BY <1>13 DEF WatcherRecheck, regVars, matchVars
<1>14. ASSUME NEW c \in Conns, WatcherClose(c) PROVE TypeInv'
  BY <1>14 DEF WatcherClose, regVars, matchVars
<1>15. ASSUME NEW c \in Conns, CloseStop(c) PROVE TypeInv'
  BY <1>15 DEF CloseStop, regVars, matchVars
<1>16. ASSUME NEW m \in Matchers, NEW a \in Addrs, MatchStart(m, a) PROVE TypeInv'
  BY <1>16 DEF MatchStart, regVars, connVars
<1>17. ASSUME NEW m \in Matchers, MatchPop(m) PROVE TypeInv'
  <2>1. bottoms[mreg[m]][maddr[m]] # <<>> => /\ Tail(bottoms[mreg[m]][maddr[m]]) \in Seq(Conns)
                                            /\ Head(bottoms[mreg[m]][maddr[m]]) \in Conns
    BY TailLemma
  <2> QED
    BY <1>17, <2>1 DEF MatchPop, connVars, MatchPool, Popped
<1>18. ASSUME NEW m \in Matchers, MatchEnqueue(m) PROVE TypeInv'
  <2>1. Append(waiters[mreg[m]][maddr[m]], m) \in Seq(Matchers)
    BY AppendLemma
  <2> QED
    BY <1>18, <2>1 DEF MatchEnqueue, connVars, PoolEmpty, MatchPool
<1>19. ASSUME NEW m \in Matchers, MatchReceive(m) PROVE TypeInv'
  <2>1. CASE ReceiveNil(m)
    BY <1>19, <2>1 DEF MatchReceive, ReceiveNil, connVars
  <2>2. CASE ReceiveConn(m)
    BY <1>19, <2>2 DEF MatchReceive, ReceiveConn, connVars
  <2> QED
    BY <1>19, <2>1, <2>2 DEF MatchReceive
<1>20. ASSUME NEW m \in Matchers, MatchTimeout(m) PROVE TypeInv'
  BY <1>20 DEF MatchTimeout, regVars, connVars
<1>21. ASSUME NEW m \in Matchers, MatchCancelled(m) PROVE TypeInv'
  BY <1>21 DEF MatchCancelled, regVars, connVars
<1>22. ASSUME NEW m \in Matchers, MatchDrain(m) PROVE TypeInv'
  <2>1. RemoveFirst(waiters[mreg[m]][maddr[m]], m) \in Seq(Matchers)
    BY RemoveFirstLemma
  <2>2. CASE ReceiveNil(m) /\ UNCHANGED waiters
    BY <1>22, <2>2 DEF MatchDrain, ReceiveNil, connVars
  <2>3. CASE ReceiveConn(m) /\ DropWaiter(m)
    BY <1>22, <2>1, <2>3 DEF MatchDrain, ReceiveConn, DropWaiter, connVars
  <2> QED
    BY <1>22, <2>2, <2>3 DEF MatchDrain
<1>31. ASSUME NEW m \in Matchers, MatchDrainEmpty(m) PROVE TypeInv'
  BY <1>31 DEF MatchDrainEmpty, regVars, connVars
<1>23. ASSUME NEW m \in Matchers, MatchExpire(m) PROVE TypeInv'
  <2>1. RemoveFirst(waiters[mreg[m]][maddr[m]], m) \in Seq(Matchers)
    BY RemoveFirstLemma
  <2> QED
    BY <1>23, <2>1 DEF MatchExpire, connVars, DropWaiter
<1>24. ASSUME NEW m \in Matchers, MatchClaim(m) PROVE TypeInv'
  BY <1>24 DEF MatchClaim, regVars
<1>25. ASSUME NEW m \in Matchers, HandshakeOk(m) PROVE TypeInv'
  BY <1>25 DEF HandshakeOk, regVars
<1>26. ASSUME NEW m \in Matchers, HandshakeFail(m) PROVE TypeInv'
  <2>1. RemoveFirst(bottoms[mreg[m]][maddr[m]], mconn[m]) \in Seq(Conns)
    BY RemoveFirstLemma
  <2> QED
    BY <1>26, <2>1 DEF HandshakeFail, Unregister
<1>27. ASSUME NEW a \in Addrs, CloseByAddress(a) PROVE TypeInv'
  <2>1. ToSet(bottoms[global][a]) \subseteq Conns
    BY ToSetType
  <2>2. <<>> \in Seq(Conns) /\ <<>> \in Seq(Matchers)
    BY EmptySeq
  <2> QED
    BY <1>27, <2>1, <2>2 DEF CloseByAddress, connVars
<1>28. ASSUME RefreshSweep PROVE TypeInv'
  <2>1. global + 1 \in Gens /\ global + 1 # 0
    BY <1>28 DEF Gens, RefreshSweep
  <2>2. closed' \in [Conns -> BOOLEAN]
    BY <1>28 DEF RefreshSweep
  <2> QED
    BY <1>28, <2>1, <2>2 DEF RefreshSweep, matchVars
<1>29. ASSUME RefreshCancel PROVE TypeInv'
  <2>1. global - 1 \in Gens
    BY <1>29 DEF Gens, RefreshCancel
  <2> QED
    BY <1>29, <2>1 DEF RefreshCancel, connVars, matchVars
<1>30. ASSUME UNCHANGED registryVars PROVE TypeInv'
  BY <1>30 DEF registryVars, regVars, connVars, matchVars
<1> QED
  BY <1>1, <1>2, <1>3, <1>4, <1>5, <1>6, <1>7, <1>8, <1>9, <1>10, <1>11, <1>12, <1>13, <1>14, <1>15, <1>16, <1>17, <1>18, <1>19, <1>20, <1>21, <1>22, <1>23, <1>24, <1>25, <1>26, <1>27, <1>28, <1>29, <1>30, <1>31 DEF RegistryNext, ConnStep, MatchStep

\* Every variable keeps its type in every reachable state of the registry.
THEOREM TypeCorrect == RegistrySpec => []RegistryTypeOK
<1>1. TypeInv => RegistryTypeOK
  BY DEF TypeInv
<1> QED
  BY InitTypeInv, NextTypeInv, <1>1, PTL DEF RegistrySpec

-----------------------------------------------------------------------------
(***************************************************************************)
(* The inductive invariant.  OneHolder alone is not inductive: a connection*)
(* on its way through Register must be known to be in no pool and in no    *)
(* hand yet, a queued channel must be known to be empty, and a waiter list *)
(* must hold a call once.                                                  *)
(***************************************************************************)
Registered(c) == hpc[c] \in {"peng", "done"}

PoolsInv ==
    \A g \in Gens, a \in Addrs :
        /\ IsInjective(bottoms[g][a])
        /\ \A c \in ToSet(bottoms[g][a]) :
             /\ Registered(c) /\ reg[c] = g /\ addr[c] = a
             /\ ~matched[c] /\ ~Held(c)

HandInv ==
    \A m \in Matchers : mconn[m] # None =>
        /\ Registered(mconn[m])
        /\ reg[mconn[m]] = mreg[m] /\ addr[mconn[m]] = maddr[m]
        /\ mconn[m] \notin owned
        /\ \A n \in Matchers : chan[n] # mconn[m] /\ (n # m => mconn[n] # mconn[m])

ChanInv ==
    \A m \in Matchers : chan[m] \in Conns =>
        /\ Registered(chan[m])
        /\ chan[m] \notin owned
        /\ \A n \in Matchers : n # m => chan[n] # chan[m]
        /\ mpc[m] \in {"wait", "drain"} =>
             reg[chan[m]] = mreg[m] /\ addr[chan[m]] = maddr[m]

OwnedInv ==
    /\ \A c \in owned : Registered(c)
    /\ \A c \in Conns : matched[c] => Registered(c)

WaiterInv ==
    /\ \A g \in Gens, a \in Addrs : IsInjective(waiters[g][a])
    /\ QueuedWaitersReceptive

IInv ==
    /\ TypeInv /\ PoolsInv /\ HandInv /\ ChanInv /\ OwnedInv
    /\ WaiterInv /\ NoIdlePoolWhileWaiting

\* The invariant holds of the empty registry.
LEMMA InitIInv == RegistryInit => IInv
<1> SUFFICES ASSUME RegistryInit PROVE IInv
  OBVIOUS
<1>1. TypeInv
  BY InitTypeInv
<1>2. ToSet(<<>>) = {} /\ IsInjective(<<>>)
  BY DEF ToSet, IsInjective
<1>3. \A m \in Matchers : chan[m] = None /\ mconn[m] = None
  BY DEF RegistryInit
<1>4. \A g \in Gens, a \in Addrs : bottoms[g][a] = <<>> /\ waiters[g][a] = <<>>
  BY DEF RegistryInit
<1>5. owned = {} /\ None \notin Conns
  BY RegistryAssumption DEF RegistryInit
<1>6. \A c \in Conns : ~matched[c]
  BY DEF RegistryInit
<1> QED
  BY <1>1, <1>2, <1>3, <1>4, <1>5, <1>6
  DEF IInv, PoolsInv, HandInv, ChanInv, OwnedInv, WaiterInv, NoIdlePoolWhileWaiting, QueuedWaitersReceptive, Registered, Held

Waiting == {"wait", "drain", "expire"}

\* t is what is left of s.
Shrunk(s, t) == ToSet(t) \subseteq ToSet(s) /\ (IsInjective(s) => IsInjective(t))

Queued(m) == \E g \in Gens, a \in Addrs : m \in ToSet(waiters[g][a])

\* What most steps do at most: pools and waiter lists shrink, hands and
\* channels empty, flags and program counters change where nothing depends
\* on them.
Shrinks ==
    /\ UNCHANGED <<owned, addr>>
    /\ \A g \in Gens, a \in Addrs : /\ Shrunk(bottoms[g][a], bottoms'[g][a])
                                     /\ Shrunk(waiters[g][a], waiters'[g][a])
    /\ \A c \in Conns : Registered(c) => Registered(c)' /\ reg'[c] = reg[c]
    /\ \A c \in Conns : matched'[c] => matched[c] \/ \E m \in Matchers : mconn[m] = c
    /\ \A m \in Matchers :
         /\ mconn'[m] \in {mconn[m], None}
         /\ \/ chan'[m] = chan[m]
            \/ chan'[m] \in {None, "closed"} /\ ~Queued(m)'
         /\ \/ mpc[m] = "idle" /\ mpc'[m] = "scan"
            \/ /\ UNCHANGED <<mreg[m], maddr[m]>>
               /\ mpc'[m] \in {"wait", "drain"} => mpc[m] \in {"wait", "drain"}
               /\ mpc[m] \in Waiting => mpc'[m] \in Waiting \/ ~Queued(m)'

\* The members of pools and waiter lists have their type.
LEMMA Members ==
    ASSUME TypeInv, NEW g \in Gens, NEW a \in Addrs
    PROVE  /\ bottoms[g][a] \in Seq(Conns) /\ ToSet(bottoms[g][a]) \subseteq Conns
           /\ waiters[g][a] \in Seq(Matchers) /\ ToSet(waiters[g][a]) \subseteq Matchers
           /\ bottoms[g][a] = <<>> <=> ToSet(bottoms[g][a]) = {}
           /\ waiters[g][a] = <<>> <=> ToSet(waiters[g][a]) = {}
<1>1. bottoms[g][a] \in Seq(Conns) /\ waiters[g][a] \in Seq(Matchers)
  BY DEF TypeInv, RegistryTypeOK
<1> QED
  BY <1>1, ToSetType

\* The same of the next state.
LEMMA MembersNext ==
    ASSUME TypeInv', NEW g \in Gens, NEW a \in Addrs
    PROVE  /\ ToSet(bottoms'[g][a]) \subseteq Conns
           /\ ToSet(waiters'[g][a]) \subseteq Matchers
           /\ bottoms'[g][a] = <<>> <=> ToSet(bottoms'[g][a]) = {}
           /\ waiters'[g][a] = <<>> <=> ToSet(waiters'[g][a]) = {}
<1>1. bottoms'[g][a] \in Seq(Conns) /\ waiters'[g][a] \in Seq(Matchers)
  BY DEF TypeInv, RegistryTypeOK
<1> QED
  BY <1>1, ToSetType

\* A step that only shrinks the registry preserves the invariant.
LEMMA ShrinkingStep ==
    ASSUME IInv, TypeInv', Shrinks
    PROVE  IInv'
<1> USE RegistryAssumption DEF IInv
<1>1. RegistryTypeOK /\ RegistryTypeOK' /\ HandFull
  BY DEF TypeInv
<1>2. \A m \in Matchers, c \in Conns :
        /\ mconn'[m] = c => mconn[m] = c
        /\ chan'[m] = c => chan[m] = c
  BY DEF Shrinks
<1>3. PoolsInv'
  <2>1. \A g \in Gens, a \in Addrs : IsInjective(bottoms'[g][a])
    BY DEF PoolsInv, Shrinks, Shrunk
  <2>2. ASSUME NEW g \in Gens, NEW a \in Addrs, NEW c \in ToSet(bottoms'[g][a])
        PROVE  /\ Registered(c)' /\ reg'[c] = g /\ addr'[c] = a
               /\ ~matched'[c] /\ ~Held(c)'
    <3>1. c \in Conns /\ c \in ToSet(bottoms[g][a])
      BY Members DEF Shrinks, Shrunk
    <3>2. Registered(c) /\ reg[c] = g /\ addr[c] = a /\ ~matched[c] /\ ~Held(c)
      BY <3>1 DEF PoolsInv
    <3>3. c \notin owned /\ \A m \in Matchers : mconn[m] # c /\ chan[m] # c
      BY <3>2 DEF Held
    <3>4. ~Held(c)'
      BY <1>2, <3>1, <3>3 DEF Held, Shrinks
    <3> QED
      BY <3>1, <3>2, <3>3, <3>4 DEF Shrinks
  <2> QED
    BY <2>1, <2>2 DEF PoolsInv
<1>4. HandInv'
  <2> SUFFICES ASSUME NEW m \in Matchers, mconn'[m] # None
               PROVE  /\ Registered(mconn[m])'
                      /\ reg'[mconn'[m]] = mreg'[m] /\ addr'[mconn'[m]] = maddr'[m]
                      /\ mconn'[m] \notin owned'
                      /\ \A n \in Matchers : /\ chan'[n] # mconn'[m]
                                             /\ n # m => mconn'[n] # mconn'[m]
    BY DEF HandInv
  <2> DEFINE c == mconn[m]
  <2>1. mconn'[m] = c /\ c \in Conns /\ c # None /\ mpc[m] # "idle"
    <3>1. mconn'[m] = mconn[m]
      BY DEF Shrinks
    <3>2. mconn[m] \in Conns
      BY <3>1, <1>1 DEF RegistryTypeOK
    <3>3. mpc[m] \in {"claim", "handshake"}
      BY <3>1, <1>1 DEF HandFull
    <3> QED
      BY <3>1, <3>2, <3>3
  <2>2. /\ Registered(c) /\ reg[c] = mreg[m] /\ addr[c] = maddr[m] /\ c \notin owned
        /\ \A n \in Matchers : chan[n] # c /\ (n # m => mconn[n] # c)
    BY <2>1 DEF HandInv
  <2>3. Registered(c)' /\ reg'[c] = mreg'[m] /\ addr'[c] = maddr'[m] /\ c \notin owned'
    BY <2>1, <2>2 DEF Shrinks
  <2>4. \A n \in Matchers : chan'[n] # c /\ (n # m => mconn'[n] # c)
    BY <1>2, <2>1, <2>2
  <2> QED
    BY <2>1, <2>3, <2>4 DEF Registered
<1>5. ChanInv'
  <2> SUFFICES ASSUME NEW m \in Matchers, chan'[m] \in Conns
               PROVE  /\ Registered(chan[m])' /\ chan'[m] \notin owned'
                      /\ \A n \in Matchers : n # m => chan'[n] # chan'[m]
                      /\ mpc'[m] \in {"wait", "drain"} =>
                           reg'[chan'[m]] = mreg'[m] /\ addr'[chan'[m]] = maddr'[m]
    BY DEF ChanInv
  <2> DEFINE c == chan[m]
  <2>1. chan'[m] = c /\ c \in Conns
    BY <1>2
  <2>2. /\ Registered(c) /\ c \notin owned /\ \A n \in Matchers : n # m => chan[n] # c
        /\ mpc[m] \in {"wait", "drain"} => reg[c] = mreg[m] /\ addr[c] = maddr[m]
    BY <2>1 DEF ChanInv
  <2>3. Registered(c)' /\ reg'[c] = reg[c] /\ addr'[c] = addr[c] /\ c \notin owned'
    BY <2>1, <2>2 DEF Shrinks
  <2>4. \A n \in Matchers : n # m => chan'[n] # c
    BY <1>2, <2>1, <2>2
  <2>5. mpc'[m] \in {"wait", "drain"} =>
          mpc[m] \in {"wait", "drain"} /\ mreg'[m] = mreg[m] /\ maddr'[m] = maddr[m]
    BY DEF Shrinks
  <2> QED
    BY <2>1, <2>2, <2>3, <2>4, <2>5 DEF Registered
<1>6. OwnedInv'
  <2>1. \A c \in owned : Registered(c)'
    BY <1>1 DEF Shrinks, OwnedInv, RegistryTypeOK
  <2>2. ASSUME NEW c \in Conns, matched'[c] PROVE Registered(c)'
    <3>1. Registered(c)
      BY <2>2 DEF Shrinks, OwnedInv, HandInv
    <3> QED
      BY <3>1 DEF Shrinks
  <2> QED
    BY <2>1, <2>2 DEF Shrinks, OwnedInv
<1>7. WaiterInv'
  <2>1. \A g \in Gens, a \in Addrs : IsInjective(waiters'[g][a])
    BY DEF WaiterInv, Shrinks, Shrunk
  <2>2. ASSUME NEW g \in Gens, NEW a \in Addrs, NEW m \in ToSet(waiters'[g][a])
        PROVE  chan'[m] = None /\ mpc'[m] \in Waiting /\ mreg'[m] = g /\ maddr'[m] = a
    <3>1. m \in Matchers /\ m \in ToSet(waiters[g][a])
      BY Members DEF Shrinks, Shrunk
    <3>2. Queued(m)'
      BY DEF Queued
    <3>3. chan[m] = None /\ mpc[m] \in Waiting /\ mreg[m] = g /\ maddr[m] = a
      BY <3>1 DEF WaiterInv, QueuedWaitersReceptive, Waiting
    <3> QED
      BY <3>1, <3>2, <3>3 DEF Shrinks, Waiting
  <2> QED
    BY <2>1, <2>2 DEF WaiterInv, QueuedWaitersReceptive, Waiting
<1>8. NoIdlePoolWhileWaiting'
  <2> SUFFICES ASSUME NEW g \in Gens, NEW a \in Addrs
               PROVE  bottoms'[g][a] = <<>> \/ waiters'[g][a] = <<>>
    BY DEF NoIdlePoolWhileWaiting
  <2> QED
    <3>1. /\ ToSet(bottoms'[g][a]) \subseteq ToSet(bottoms[g][a])
          /\ ToSet(waiters'[g][a]) \subseteq ToSet(waiters[g][a])
      BY DEF Shrinks, Shrunk
    <3>2. ToSet(bottoms[g][a]) = {} \/ ToSet(waiters[g][a]) = {}
      BY Members DEF NoIdlePoolWhileWaiting
    <3>3. ToSet(bottoms'[g][a]) = {} \/ ToSet(waiters'[g][a]) = {}
      BY <3>1, <3>2
    <3> QED
      BY <3>3, MembersNext
<1> QED
  BY <1>3, <1>4, <1>5, <1>6, <1>7, <1>8

\* Nothing is left of a sequence but part of it: the operations the code uses.
LEMMA ShrunkCases ==
    ASSUME NEW S, NEW s \in Seq(S)
    PROVE  /\ Shrunk(s, s)
           /\ Shrunk(s, <<>>)
           /\ \A e : Shrunk(s, RemoveFirst(s, e))
<1>1. ToSet(<<>>) = {} /\ IsInjective(<<>>)
  BY DEF ToSet, IsInjective
<1> QED
  BY <1>1, RemoveFirstLemma DEF Shrunk

\* Unregister removes at most its argument from one pool.
LEMMA UnregisterShrinks ==
    ASSUME TypeInv, NEW g \in Gens, NEW a \in Addrs, NEW c, Unregister(g, a, c)
    PROVE  \A h \in Gens, b \in Addrs : Shrunk(bottoms[h][b], bottoms'[h][b])
<1> SUFFICES ASSUME NEW h \in Gens, NEW b \in Addrs
             PROVE  Shrunk(bottoms[h][b], bottoms'[h][b])
  OBVIOUS
<1>1. bottoms[h][b] \in Seq(Conns)
  BY Members
<1>2. bottoms'[h][b] = IF h = g /\ b = a THEN RemoveFirst(bottoms[h][b], c) ELSE bottoms[h][b]
  BY DEF Unregister, TypeInv, RegistryTypeOK
<1> QED
  BY <1>1, <1>2, ShrunkCases

\* The steps of handlers, watchers and reloads, and those of Match that give
\* up, only shrink the registry.
LEMMA ShrinkingActions ==
    ASSUME IInv, TypeInv',
           \/ \E c \in Conns :
                \/ HandleReverseConnection(c) \/ RegisterRejected(c) \/ RegisterAdmitted(c)
                \/ SendPengOk(c) \/ SendPengFail(c)
                \/ HeartbeatFails(c) \/ IdleDetected(c) \/ IdleClose(c) \/ ReadLoopExit(c)
                \/ WatcherWake(c) \/ WatcherUnregister(c) \/ WatcherRecheck(c)
                \/ WatcherClose(c) \/ CloseStop(c)
           \/ \E m \in Matchers :
                \/ \E a \in Addrs : MatchStart(m, a)
                \/ ReceiveNil(m) /\ UNCHANGED waiters
                \/ MatchTimeout(m) \/ MatchCancelled(m) \/ MatchDrainEmpty(m)
                \/ MatchExpire(m) \/ MatchClaim(m) \/ HandshakeFail(m)
           \/ \E a \in Addrs : CloseByAddress(a)
           \/ RefreshSweep \/ RefreshCancel \/ UNCHANGED registryVars
    PROVE  Shrinks
<1> USE RegistryAssumption DEF IInv
<1>1. RegistryTypeOK /\ RegistryTypeOK' /\ HandFull
  BY DEF TypeInv
<1>2. /\ \A g \in Gens, a \in Addrs : Shrunk(bottoms[g][a], bottoms[g][a])
      /\ \A g \in Gens, a \in Addrs : Shrunk(waiters[g][a], waiters[g][a])
  BY Members, ShrunkCases
<1>3. ASSUME NEW c \in Conns, HandleReverseConnection(c) PROVE Shrinks
  BY <1>1, <1>2, <1>3 DEF HandleReverseConnection, regVars, matchVars, Shrinks, Registered, Waiting, RegistryTypeOK
<1>4. ASSUME NEW c \in Conns, RegisterRejected(c) PROVE Shrinks
  BY <1>1, <1>2, <1>4 DEF RegisterRejected, regVars, matchVars, Shrinks, Registered, Waiting, RegistryTypeOK
<1>5. ASSUME NEW c \in Conns, RegisterAdmitted(c) PROVE Shrinks
  BY <1>1, <1>2, <1>5 DEF RegisterAdmitted, matchVars, Shrinks, Registered, Waiting, RegistryTypeOK
<1>6. ASSUME NEW c \in Conns, SendPengOk(c) PROVE Shrinks
  BY <1>1, <1>2, <1>6 DEF SendPengOk, regVars, matchVars, Shrinks, Registered, Waiting, RegistryTypeOK
<1>7. ASSUME NEW c \in Conns, HeartbeatFails(c) PROVE Shrinks
  BY <1>1, <1>2, <1>7 DEF HeartbeatFails, regVars, matchVars, Shrinks, Registered, Waiting, RegistryTypeOK
<1>8. ASSUME NEW c \in Conns, IdleDetected(c) PROVE Shrinks
  BY <1>1, <1>2, <1>8 DEF IdleDetected, regVars, connVars, matchVars, Shrinks, Registered, Waiting, RegistryTypeOK
<1>9. ASSUME NEW c \in Conns, IdleClose(c) PROVE Shrinks
  BY <1>1, <1>2, <1>9 DEF IdleClose, regVars, matchVars, Shrinks, Registered, Waiting, RegistryTypeOK
<1>10. ASSUME NEW c \in Conns, ReadLoopExit(c) PROVE Shrinks
  BY <1>1, <1>2, <1>10 DEF ReadLoopExit, regVars, matchVars, Shrinks, Registered, Waiting, RegistryTypeOK
<1>11. ASSUME NEW c \in Conns, WatcherWake(c) PROVE Shrinks
  BY <1>1, <1>2, <1>11 DEF WatcherWake, regVars, matchVars, Shrinks, Registered, Waiting, RegistryTypeOK
<1>12. ASSUME NEW c \in Conns, WatcherRecheck(c) PROVE Shrinks
  BY <1>1, <1>2, <1>12 DEF WatcherRecheck, regVars, matchVars, Shrinks, Registered, Waiting, RegistryTypeOK
<1>13. ASSUME NEW c \in Conns, WatcherClose(c) PROVE Shrinks
  BY <1>1, <1>2, <1>13 DEF WatcherClose, regVars, matchVars, Shrinks, Registered, Waiting, RegistryTypeOK
<1>14. ASSUME NEW c \in Conns, CloseStop(c) PROVE Shrinks
  BY <1>1, <1>2, <1>14 DEF CloseStop, regVars, matchVars, Shrinks, Registered, Waiting, RegistryTypeOK
<1>15. ASSUME NEW c \in Conns, SendPengFail(c) PROVE Shrinks
  <2>1. \A g \in Gens, a \in Addrs : Shrunk(bottoms[g][a], bottoms'[g][a])
    BY <1>1, <1>15, UnregisterShrinks DEF SendPengFail, RegistryTypeOK
  <2> QED
    BY <1>1, <1>2, <1>15, <2>1 DEF SendPengFail, matchVars, Shrinks, Registered, Waiting, RegistryTypeOK
<1>16. ASSUME NEW c \in Conns, WatcherUnregister(c) PROVE Shrinks
  <2>1. \A g \in Gens, a \in Addrs : Shrunk(bottoms[g][a], bottoms'[g][a])
    BY <1>1, <1>16, UnregisterShrinks DEF WatcherUnregister, RegistryTypeOK
  <2> QED
    BY <1>1, <1>2, <1>16, <2>1 DEF WatcherUnregister, matchVars, Shrinks, Registered, Waiting, RegistryTypeOK
<1>17. ASSUME NEW m \in Matchers, NEW a \in Addrs, MatchStart(m, a) PROVE Shrinks
  BY <1>1, <1>2, <1>17 DEF MatchStart, regVars, connVars, Shrinks, Registered, Waiting, RegistryTypeOK
<1>18. ASSUME NEW m \in Matchers, ReceiveNil(m), UNCHANGED waiters PROVE Shrinks
  <2>1. ~Queued(m)'
    BY <1>18 DEF Queued, WaiterInv, QueuedWaitersReceptive, ReceiveNil
  <2> QED
    BY <1>1, <1>2, <1>18, <2>1 DEF ReceiveNil, connVars, Shrinks, Registered, Waiting, RegistryTypeOK
<1>19. ASSUME NEW m \in Matchers, MatchTimeout(m) PROVE Shrinks
  BY <1>1, <1>2, <1>19 DEF MatchTimeout, regVars, connVars, Shrinks, Registered, Waiting, RegistryTypeOK
<1>20. ASSUME NEW m \in Matchers, MatchCancelled(m) PROVE Shrinks
  BY <1>1, <1>2, <1>20 DEF MatchCancelled, regVars, connVars, Shrinks, Registered, Waiting, RegistryTypeOK
<1>21. ASSUME NEW m \in Matchers, MatchDrainEmpty(m) PROVE Shrinks
  BY <1>1, <1>2, <1>21 DEF MatchDrainEmpty, regVars, connVars, Shrinks, Registered, Waiting, RegistryTypeOK
<1>22. ASSUME NEW m \in Matchers, MatchClaim(m) PROVE Shrinks
  BY <1>1, <1>2, <1>22 DEF MatchClaim, regVars, Shrinks, Registered, Waiting, RegistryTypeOK
<1>23. ASSUME NEW m \in Matchers, MatchExpire(m) PROVE Shrinks
  <2>1. \A g \in Gens, a \in Addrs : Shrunk(waiters[g][a], waiters'[g][a])
    BY <1>1, <1>2, <1>23, Members, ShrunkCases DEF MatchExpire, DropWaiter, RegistryTypeOK
  <2>2. ~Queued(m)'
    <3> SUFFICES ASSUME NEW g \in Gens, NEW a \in Addrs PROVE m \notin ToSet(waiters'[g][a])
      BY DEF Queued
    <3>1. CASE g = mreg[m] /\ a = maddr[m]
      <4>1. waiters'[g][a] = RemoveFirst(waiters[g][a], m)
        BY <1>1, <1>23, <3>1 DEF MatchExpire, DropWaiter, RegistryTypeOK
      <4>2. waiters[g][a] \in Seq(Matchers) /\ IsInjective(waiters[g][a])
        BY Members DEF WaiterInv
      <4> QED
        BY <4>1, <4>2, RemoveFirstLemma
    <3>2. CASE ~ (g = mreg[m] /\ a = maddr[m])
      <4>1. m \notin ToSet(waiters[g][a])
        BY <3>2 DEF WaiterInv, QueuedWaitersReceptive
      <4> QED
        BY <4>1, <2>1 DEF Shrunk
    <3> QED
      BY <3>1, <3>2
  <2> QED
    BY <1>1, <1>2, <1>23, <2>1, <2>2 DEF MatchExpire, connVars, Shrinks, Registered, Waiting, RegistryTypeOK
<1>24. ASSUME NEW m \in Matchers, HandshakeFail(m) PROVE Shrinks
  <2>1. \A g \in Gens, a \in Addrs : Shrunk(bottoms[g][a], bottoms'[g][a])
    BY <1>1, <1>24, UnregisterShrinks DEF HandshakeFail, RegistryTypeOK
  <2> QED
    BY <1>1, <1>2, <1>24, <2>1 DEF HandshakeFail, Shrinks, Registered, Waiting, RegistryTypeOK
<1>25. ASSUME NEW a \in Addrs, CloseByAddress(a) PROVE Shrinks
  <2>1. \A g \in Gens, b \in Addrs : Shrunk(bottoms[g][b], bottoms'[g][b])
    BY <1>1, <1>2, <1>25, Members, ShrunkCases DEF CloseByAddress, RegistryTypeOK
  <2>2. \A g \in Gens, b \in Addrs : Shrunk(waiters[g][b], waiters'[g][b])
    BY <1>1, <1>2, <1>25, Members, ShrunkCases DEF CloseByAddress, RegistryTypeOK
  <2>3. ASSUME NEW m \in ToSet(waiters[global][a]) PROVE ~Queued(m)'
    <3>1. global \in Gens /\ m \in Matchers /\ mreg[m] = global /\ maddr[m] = a
      <4>1. global \in Gens
        BY <1>1 DEF RegistryTypeOK
      <4> QED
        BY <4>1, Members DEF WaiterInv, QueuedWaitersReceptive
    <3>2. waiters'[global][a] = <<>> /\ ToSet(<<>>) = {}
      BY <1>1, <1>25 DEF CloseByAddress, RegistryTypeOK, ToSet
    <3>3. \A g \in Gens, b \in Addrs :
            m \in ToSet(waiters'[g][b]) => g = global /\ b = a
      BY <3>1, <2>2 DEF WaiterInv, QueuedWaitersReceptive, Shrunk
    <3> QED
      BY <3>2, <3>3 DEF Queued
  <2>4. \A m \in Matchers : \/ chan'[m] = chan[m]
                            \/ chan'[m] = "closed" /\ ~Queued(m)'
    BY <1>1, <1>25, <2>3 DEF CloseByAddress, RegistryTypeOK
  <2> QED
    BY <1>1, <1>25, <2>1, <2>2, <2>4 DEF CloseByAddress, connVars, Shrinks, Registered, Waiting, RegistryTypeOK
<1>26. ASSUME RefreshSweep PROVE Shrinks
  BY <1>1, <1>2, <1>26 DEF RefreshSweep, matchVars, Shrinks, Registered, Waiting, RegistryTypeOK
<1>27. ASSUME RefreshCancel PROVE Shrinks
  BY <1>1, <1>2, <1>27 DEF RefreshCancel, connVars, matchVars, Shrinks, Registered, Waiting, RegistryTypeOK
<1>28. ASSUME UNCHANGED registryVars PROVE Shrinks
  BY <1>1, <1>2, <1>28 DEF registryVars, regVars, connVars, matchVars, Shrinks, Registered, Waiting, RegistryTypeOK
<1> QED
  BY <1>3, <1>4, <1>5, <1>6, <1>7, <1>8, <1>9, <1>10, <1>11, <1>12, <1>13, <1>14, <1>15, <1>16, <1>17, <1>18, <1>19, <1>20, <1>21, <1>22, <1>23, <1>24, <1>25, <1>26, <1>27, <1>28

\* Match returns its connection: it leaves the dialer's hand for the owner's.
LEMMA HandshakeOkStep ==
    ASSUME IInv, TypeInv', NEW m \in Matchers, HandshakeOk(m)
    PROVE  IInv'
<1> USE RegistryAssumption DEF IInv
<1> DEFINE c == mconn[m]
<1>1. RegistryTypeOK /\ RegistryTypeOK' /\ HandFull
  BY DEF TypeInv
<1>2. c \in Conns /\ c # None
  BY <1>1 DEF HandshakeOk, HandFull, RegistryTypeOK
<1>3. /\ Registered(c)
      /\ \A n \in Matchers : chan[n] # c /\ (n # m => mconn[n] # c)
  BY <1>2 DEF HandInv
<1>4. /\ UNCHANGED <<bottoms, waiters, chan, hpc, reg, addr, matched, mreg, maddr>>
      /\ owned' = owned \cup {c} /\ mconn' = [mconn EXCEPT ![m] = None]
      /\ mpc[m] = "handshake" /\ mpc' = [mpc EXCEPT ![m] = "idle"]
  BY DEF HandshakeOk, regVars
<1>5. \A n \in Matchers : n # m => mconn'[n] = mconn[n] /\ mpc'[n] = mpc[n]
  BY <1>1, <1>4 DEF RegistryTypeOK
<1>6. mconn'[m] = None /\ mpc'[m] = "idle"
  BY <1>1, <1>4 DEF RegistryTypeOK
<1>7. PoolsInv'
  <2>1. ASSUME NEW g \in Gens, NEW a \in Addrs, NEW d \in ToSet(bottoms[g][a])
        PROVE  d # c /\ ~Held(d)'
    <3>1. ~Held(d) /\ d \in Conns
      BY Members DEF PoolsInv
    <3>2. d # c
      BY <3>1 DEF Held
    <3> QED
      BY <1>4, <1>5, <1>6, <3>1, <3>2 DEF Held
  <2> QED
    BY <1>4, <2>1 DEF PoolsInv, Registered
<1>8. HandInv'
  BY <1>3, <1>4, <1>5, <1>6 DEF HandInv, Registered
<1>9. ChanInv'
  BY <1>3, <1>4, <1>5, <1>6 DEF ChanInv, Registered
<1>10. OwnedInv'
  BY <1>3, <1>4 DEF OwnedInv, Registered
<1>11. WaiterInv'
  <2>1. ASSUME NEW g \in Gens, NEW a \in Addrs, NEW n \in ToSet(waiters[g][a])
        PROVE  n \in Matchers /\ n # m
    BY <1>4, Members DEF WaiterInv, QueuedWaitersReceptive
  <2> QED
    BY <1>4, <1>5, <2>1 DEF WaiterInv, QueuedWaitersReceptive
<1>12. NoIdlePoolWhileWaiting'
  BY <1>4 DEF NoIdlePoolWhileWaiting
<1> QED
  BY <1>7, <1>8, <1>9, <1>10, <1>11, <1>12

\* A waiting Match takes the connection out of its channel.
LEMMA ReceiveConnStep ==
    ASSUME IInv, TypeInv', NEW m \in Matchers, ReceiveConn(m), mpc[m] \in {"wait", "drain"},
           \A g \in Gens, a \in Addrs : Shrunk(waiters[g][a], waiters'[g][a])
    PROVE  IInv'
<1> USE RegistryAssumption DEF IInv
<1> DEFINE c == chan[m]
<1>1. RegistryTypeOK /\ RegistryTypeOK' /\ HandFull
  BY DEF TypeInv
<1>2. c \in Conns /\ c # None
  BY DEF ReceiveConn
<1>3. /\ Registered(c) /\ c \notin owned /\ reg[c] = mreg[m] /\ addr[c] = maddr[m]
      /\ \A n \in Matchers : mconn[n] # c /\ (n # m => chan[n] # c)
  <2>1. /\ Registered(c) /\ c \notin owned /\ reg[c] = mreg[m] /\ addr[c] = maddr[m]
        /\ \A n \in Matchers : n # m => chan[n] # c
    BY <1>2 DEF ChanInv
  <2>2. \A n \in Matchers : mconn[n] # c
    BY <1>2 DEF HandInv
  <2> QED
    BY <2>1, <2>2
<1>4. /\ UNCHANGED <<bottoms, owned, hpc, reg, addr, matched, mreg, maddr>>
      /\ mconn' = [mconn EXCEPT ![m] = c] /\ chan' = [chan EXCEPT ![m] = None]
      /\ mpc' = [mpc EXCEPT ![m] = "claim"]
  BY DEF ReceiveConn, connVars
<1>5. \A n \in Matchers : n # m => mconn'[n] = mconn[n] /\ chan'[n] = chan[n] /\ mpc'[n] = mpc[n]
  BY <1>1, <1>4 DEF RegistryTypeOK
<1>6. mconn'[m] = c /\ chan'[m] = None /\ mpc'[m] = "claim"
  BY <1>1, <1>4 DEF RegistryTypeOK
<1> HIDE DEF c
<1>7. PoolsInv'
  <2>1. ASSUME NEW g \in Gens, NEW a \in Addrs, NEW d \in ToSet(bottoms[g][a])
        PROVE  ~Held(d)'
    <3>1. ~Held(d) /\ d \in Conns
      BY Members DEF PoolsInv
    <3>2. d # c
      BY <3>1 DEF Held, c
    <3> QED
      BY <1>4, <1>5, <1>6, <3>1, <3>2 DEF Held
  <2> QED
    BY <1>4, <2>1 DEF PoolsInv, Registered
<1>8. HandInv'
  <2>1. ASSUME NEW n \in Matchers, mconn'[n] # None, n # m
        PROVE  /\ Registered(mconn[n]) /\ mconn[n] \notin owned
               /\ reg[mconn[n]] = mreg[n] /\ addr[mconn[n]] = maddr[n]
               /\ \A k \in Matchers : chan'[k] # mconn[n] /\ (k # n => mconn'[k] # mconn[n])
    BY <1>3, <1>5, <1>6, <2>1 DEF HandInv
  <2>2. \A k \in Matchers : chan'[k] # c /\ (k # m => mconn'[k] # c)
    BY <1>2, <1>3, <1>5, <1>6
  <2> QED
    BY <1>3, <1>4, <1>5, <1>6, <2>1, <2>2 DEF HandInv, Registered
<1>9. ChanInv'
  BY <1>4, <1>5, <1>6 DEF ChanInv, Registered
<1>10. OwnedInv'
  BY <1>4 DEF OwnedInv, Registered
<1>11. WaiterInv'
  <2>1. ASSUME NEW g \in Gens, NEW a \in Addrs, NEW n \in ToSet(waiters'[g][a])
        PROVE  n \in ToSet(waiters[g][a]) /\ n \in Matchers /\ n # m
    <3>1. n \in ToSet(waiters[g][a]) /\ n \in Matchers
      BY Members DEF Shrunk
    <3>2. chan[n] = None
      BY <3>1 DEF WaiterInv, QueuedWaitersReceptive
    <3> QED
      BY <1>2, <3>1, <3>2 DEF c
  <2>2. \A g \in Gens, a \in Addrs : IsInjective(waiters'[g][a])
    BY DEF WaiterInv, Shrunk
  <2> QED
    BY <1>4, <1>5, <2>1, <2>2 DEF WaiterInv, QueuedWaitersReceptive
<1>12. NoIdlePoolWhileWaiting'
  <2> SUFFICES ASSUME NEW g \in Gens, NEW a \in Addrs
               PROVE  bottoms[g][a] = <<>> \/ waiters'[g][a] = <<>>
    BY <1>4 DEF NoIdlePoolWhileWaiting
  <2>1. ToSet(waiters[g][a]) = {} => waiters'[g][a] = <<>>
    BY MembersNext DEF Shrunk
  <2> QED
    BY <2>1, Members DEF NoIdlePoolWhileWaiting
<1> QED
  BY <1>7, <1>8, <1>9, <1>10, <1>11, <1>12

\* Match pops the oldest parked connection.
LEMMA MatchPopStep ==
    ASSUME IInv, TypeInv', NEW m \in Matchers, MatchPop(m)
    PROVE  IInv'
<1> USE RegistryAssumption DEF IInv
<1> DEFINE g == mreg[m]
           a == maddr[m]
           pool == bottoms[g][a]
           c == Head(pool)
<1>1. RegistryTypeOK /\ RegistryTypeOK' /\ HandFull
  BY DEF TypeInv
<1>2. g \in Gens /\ a \in Addrs /\ pool \in Seq(Conns) /\ pool # <<>>
  BY <1>1 DEF RegistryTypeOK, MatchPop, MatchPool
<1>3. /\ c \in Conns /\ c # None /\ c \in ToSet(pool)
      /\ ToSet(Tail(pool)) \subseteq ToSet(pool)
      /\ IsInjective(Tail(pool)) /\ c \notin ToSet(Tail(pool))
  <2>1. IsInjective(pool)
    BY <1>2 DEF PoolsInv
  <2> QED
    BY <1>2, <2>1, TailLemma
<1>4. /\ Registered(c) /\ reg[c] = g /\ addr[c] = a /\ ~Held(c)
  BY <1>2, <1>3 DEF PoolsInv
<1>5. c \notin owned /\ \A n \in Matchers : mconn[n] # c /\ chan[n] # c
  BY <1>4 DEF Held
<1>6. /\ UNCHANGED <<waiters, chan, owned, hpc, reg, addr, matched, mreg, maddr>>
      /\ mconn' = [mconn EXCEPT ![m] = c] /\ mpc' = [mpc EXCEPT ![m] = "claim"]
      /\ bottoms' = [bottoms EXCEPT ![g][a] = Tail(pool)]
      /\ mpc[m] = "scan"
  BY DEF MatchPop, MatchPool, Popped, connVars
<1>7. \A n \in Matchers : n # m => mconn'[n] = mconn[n] /\ mpc'[n] = mpc[n]
  BY <1>1, <1>6 DEF RegistryTypeOK
<1>8. mconn'[m] = c /\ mpc'[m] = "claim"
  BY <1>1, <1>6 DEF RegistryTypeOK
<1>9. \A h \in Gens, b \in Addrs :
        bottoms'[h][b] = IF h = g /\ b = a THEN Tail(pool) ELSE bottoms[h][b]
  BY <1>1, <1>2, <1>6 DEF RegistryTypeOK
<1>10. PoolsInv'
  <2>1. ASSUME NEW h \in Gens, NEW b \in Addrs
        PROVE  /\ IsInjective(bottoms'[h][b])
               /\ ToSet(bottoms'[h][b]) \subseteq ToSet(bottoms[h][b])
               /\ c \notin ToSet(bottoms'[h][b])
    <3>1. CASE h = g /\ b = a
      BY <1>3, <1>9, <3>1
    <3>2. CASE ~ (h = g /\ b = a)
      <4>1. c \notin ToSet(bottoms[h][b])
        BY <1>4, <3>2 DEF PoolsInv
      <4> QED
        BY <1>9, <3>2, <4>1 DEF PoolsInv
    <3> QED
      BY <3>1, <3>2
  <2> HIDE DEF c
  <2>2. ASSUME NEW h \in Gens, NEW b \in Addrs, NEW d \in ToSet(bottoms'[h][b])
        PROVE  /\ Registered(d) /\ reg[d] = h /\ addr[d] = b /\ ~matched[d] /\ ~Held(d)'
    <3>1. d # c /\ d \in Conns /\ d \in ToSet(bottoms[h][b])
      <4>1. d # c /\ d \in ToSet(bottoms[h][b])
        BY <2>1
      <4> QED
        BY <4>1, Members
    <3>2. Registered(d) /\ reg[d] = h /\ addr[d] = b /\ ~matched[d] /\ ~Held(d)
      BY <3>1 DEF PoolsInv
    <3>3. ~Held(d)'
      BY <1>6, <1>7, <1>8, <3>1, <3>2 DEF Held
    <3> QED
      BY <3>2, <3>3
  <2> QED
    BY <1>6, <2>1, <2>2 DEF PoolsInv, Registered
<1> HIDE DEF c
<1>11. HandInv'
  <2>1. ASSUME NEW n \in Matchers, mconn'[n] # None, n # m
        PROVE  /\ Registered(mconn[n]) /\ mconn[n] \notin owned
               /\ reg[mconn[n]] = mreg[n] /\ addr[mconn[n]] = maddr[n]
               /\ \A k \in Matchers : chan[k] # mconn[n] /\ (k # n => mconn'[k] # mconn[n])
    BY <1>5, <1>7, <1>8, <2>1 DEF HandInv
  <2>2. \A k \in Matchers : k # m => mconn'[k] # c
    BY <1>5, <1>7
  <2> QED
    BY <1>4, <1>5, <1>6, <1>7, <1>8, <2>1, <2>2 DEF HandInv, Registered
<1>12. ChanInv'
  BY <1>6, <1>7, <1>8 DEF ChanInv, Registered
<1>13. OwnedInv'
  BY <1>6 DEF OwnedInv, Registered
<1>14. WaiterInv'
  <2>1. ASSUME NEW h \in Gens, NEW b \in Addrs, NEW n \in ToSet(waiters[h][b])
        PROVE  n \in Matchers /\ n # m
    BY <1>6, Members DEF WaiterInv, QueuedWaitersReceptive
  <2> QED
    BY <1>6, <1>7, <2>1 DEF WaiterInv, QueuedWaitersReceptive
<1>15. NoIdlePoolWhileWaiting'
  <2> SUFFICES ASSUME NEW h \in Gens, NEW b \in Addrs
               PROVE  bottoms'[h][b] = <<>> \/ waiters[h][b] = <<>>
    BY <1>6 DEF NoIdlePoolWhileWaiting
  <2> QED
    BY <1>2, <1>9 DEF NoIdlePoolWhileWaiting
<1> QED
  BY <1>10, <1>11, <1>12, <1>13, <1>14, <1>15

\* Match finds the pool empty and queues its channel.
LEMMA MatchEnqueueStep ==
    ASSUME IInv, TypeInv', NEW m \in Matchers, MatchEnqueue(m)
    PROVE  IInv'
<1> USE RegistryAssumption DEF IInv
<1> DEFINE g == mreg[m]
           a == maddr[m]
           w == waiters[g][a]
<1>1. RegistryTypeOK /\ RegistryTypeOK' /\ HandFull
  BY DEF TypeInv
<1>2. g \in Gens /\ a \in Addrs /\ w \in Seq(Matchers) /\ bottoms[g][a] = <<>>
  BY <1>1 DEF RegistryTypeOK, MatchEnqueue, PoolEmpty, MatchPool
<1>3. /\ UNCHANGED <<bottoms, mconn, owned, hpc, reg, addr, matched, mreg, maddr>>
      /\ chan' = [chan EXCEPT ![m] = None] /\ mpc' = [mpc EXCEPT ![m] = "wait"]
      /\ waiters' = [waiters EXCEPT ![g][a] = Append(w, m)]
      /\ mpc[m] = "scan"
  BY DEF MatchEnqueue, connVars
<1>4. \A n \in Matchers : n # m => chan'[n] = chan[n] /\ mpc'[n] = mpc[n]
  BY <1>1, <1>3 DEF RegistryTypeOK
<1>5. chan'[m] = None /\ mpc'[m] = "wait"
  BY <1>1, <1>3 DEF RegistryTypeOK
<1>6. \A h \in Gens, b \in Addrs : m \notin ToSet(waiters[h][b])
  BY <1>3 DEF WaiterInv, QueuedWaitersReceptive
<1>7. ToSet(Append(w, m)) = ToSet(w) \cup {m} /\ IsInjective(Append(w, m))
  BY <1>2, <1>6, AppendLemma DEF WaiterInv
<1>8. \A h \in Gens, b \in Addrs :
        waiters'[h][b] = IF h = g /\ b = a THEN Append(w, m) ELSE waiters[h][b]
  <2> DEFINE longer == Append(w, m)
  <2>1. waiters' = [waiters EXCEPT ![g][a] = longer]
    BY <1>3
  <2> HIDE DEF longer, g, a
  <2>2. \A h \in Gens, b \in Addrs :
          waiters'[h][b] = IF h = g /\ b = a THEN longer ELSE waiters[h][b]
    BY <1>1, <1>2, <2>1 DEF RegistryTypeOK
  <2> QED
    BY <2>2 DEF longer
<1>9. PoolsInv'
  <2>1. ASSUME NEW h \in Gens, NEW b \in Addrs, NEW d \in ToSet(bottoms[h][b])
        PROVE  ~Held(d)'
    <3>1. ~Held(d) /\ d \in Conns
      BY Members DEF PoolsInv
    <3> QED
      BY <1>3, <1>4, <1>5, <3>1 DEF Held
  <2> QED
    BY <1>3, <2>1 DEF PoolsInv, Registered
<1>10. HandInv'
  BY <1>3, <1>4, <1>5 DEF HandInv, Registered
<1>11. ChanInv'
  BY <1>3, <1>4, <1>5 DEF ChanInv, Registered
<1>12. OwnedInv'
  BY <1>3 DEF OwnedInv, Registered
<1>13. WaiterInv'
  <2>1. ASSUME NEW h \in Gens, NEW b \in Addrs
        PROVE  /\ IsInjective(waiters'[h][b])
               /\ \A n \in ToSet(waiters'[h][b]) :
                    \/ n = m /\ h = g /\ b = a
                    \/ n # m /\ n \in ToSet(waiters[h][b])
    <3>1. CASE h = g /\ b = a
      BY <1>6, <1>7, <1>8, <3>1
    <3>2. CASE ~ (h = g /\ b = a)
      BY <1>6, <1>8, <3>2 DEF WaiterInv
    <3> QED
      BY <3>1, <3>2
  <2>2. ASSUME NEW h \in Gens, NEW b \in Addrs, NEW n \in ToSet(waiters'[h][b])
        PROVE  /\ chan'[n] = None /\ mpc'[n] \in {"wait", "drain", "expire"}
               /\ mreg'[n] = h /\ maddr'[n] = b
    <3>1. CASE n = m /\ h = g /\ b = a
      BY <1>3, <1>5, <3>1
    <3>2. CASE n # m /\ n \in ToSet(waiters[h][b])
      <4>1. n \in Matchers
        BY <3>2, Members
      <4> QED
        BY <1>3, <1>4, <3>2, <4>1 DEF WaiterInv, QueuedWaitersReceptive
    <3> QED
      BY <2>1, <3>1, <3>2
  <2> QED
    BY <2>1, <2>2 DEF WaiterInv, QueuedWaitersReceptive
<1>14. NoIdlePoolWhileWaiting'
  BY <1>2, <1>3, <1>8 DEF NoIdlePoolWhileWaiting
<1> QED
  BY <1>9, <1>10, <1>11, <1>12, <1>13, <1>14

\* Register hands the connection to a waiter or parks it.
LEMMA RegisterDeliverStep ==
    ASSUME IInv, TypeInv', NEW c \in Conns, RegisterDeliver(c)
    PROVE  IInv'
<1> USE RegistryAssumption DEF IInv
<1> DEFINE g == reg[c]
           a == addr[c]
           w == waiters[g][a]
<1>1. RegistryTypeOK /\ RegistryTypeOK' /\ HandFull
  BY DEF TypeInv
<1>2. /\ g \in Gens /\ a \in Addrs /\ w \in Seq(Matchers) /\ DOMAIN w = 1 .. Len(w)
      /\ bottoms[g][a] \in Seq(Conns) /\ c # None
  <2>1. g \in Gens /\ a \in Addrs
    BY <1>1 DEF RegistryTypeOK
  <2> QED
    BY <2>1, Members, LenProperties
<1>3. /\ UNCHANGED <<mconn, owned, reg, addr, matched, mpc, mreg, maddr>>
      /\ hpc[c] = "deliver" /\ hpc' = [hpc EXCEPT ![c] = "peng"]
  BY DEF RegisterDeliver
<1>4. Registered(c)' /\ \A d \in Conns : Registered(d) => Registered(d)'
  BY <1>1, <1>3 DEF Registered, RegistryTypeOK
<1>5. ~Registered(c)
  BY <1>3 DEF Registered
<1>6. \A h \in Gens, b \in Addrs : c \notin ToSet(bottoms[h][b])
  BY <1>5 DEF PoolsInv
<1>7. c \notin owned /\ \A n \in Matchers : mconn[n] # c /\ chan[n] # c
  BY <1>2, <1>5 DEF HandInv, ChanInv, OwnedInv
<1>8. OwnedInv'
  BY <1>1, <1>3, <1>4 DEF OwnedInv, Registered, RegistryTypeOK
<1>9. CASE \E i \in DOMAIN w :
             /\ chan' = [chan EXCEPT ![w[i]] = c]
             /\ waiters' = [waiters EXCEPT ![g][a] = SubSeq(w, i + 1, Len(w))]
             /\ UNCHANGED bottoms
  <2>0. PICK i \in DOMAIN w :
             /\ chan' = [chan EXCEPT ![w[i]] = c]
             /\ waiters' = [waiters EXCEPT ![g][a] = SubSeq(w, i + 1, Len(w))]
             /\ UNCHANGED bottoms
    BY <1>9
  <2> DEFINE m == w[i]
             rest == SubSeq(w, i + 1, Len(w))
  <2>1. /\ ToSet(rest) \subseteq ToSet(w) /\ IsInjective(rest)
        /\ m \notin ToSet(rest) /\ m \in ToSet(w)
    <3>1. IsInjective(w) /\ i \in 1 .. Len(w)
      BY <1>2 DEF WaiterInv
    <3>2. m \in ToSet(w)
      BY DEF ToSet
    <3> HIDE DEF w
    <3> QED
      BY <1>2, <3>1, <3>2, SuffixLemma
  <2>2. m \in Matchers /\ mreg[m] = g /\ maddr[m] = a
    BY <1>2, <2>1, Members DEF WaiterInv, QueuedWaitersReceptive
  <2>3. /\ chan' = [chan EXCEPT ![m] = c] /\ UNCHANGED bottoms
        /\ waiters' = [waiters EXCEPT ![g][a] = rest]
    BY <2>0
  <2> HIDE DEF m, rest, g, a, w
  <2>4. chan'[m] = c /\ \A n \in Matchers : n # m => chan'[n] = chan[n]
    BY <1>1, <2>2, <2>3 DEF RegistryTypeOK
  <2>5. \A h \in Gens, b \in Addrs :
          waiters'[h][b] = IF h = g /\ b = a THEN rest ELSE waiters[h][b]
    <3>1. g \in Gens /\ a \in Addrs /\ waiters \in [Gens -> [Addrs -> Seq(Matchers)]]
      BY <1>1, <1>2 DEF RegistryTypeOK
    <3>2. waiters' = [waiters EXCEPT ![g][a] = rest]
      BY <2>3
    <3> QED
      BY <3>1, <3>2
  <2>6. PoolsInv'
    <3>1. ASSUME NEW h \in Gens, NEW b \in Addrs, NEW d \in ToSet(bottoms[h][b])
          PROVE  /\ Registered(d)' /\ reg[d] = h /\ addr[d] = b /\ ~matched[d] /\ ~Held(d)'
      <4>1. /\ d \in Conns /\ d # c
            /\ Registered(d) /\ reg[d] = h /\ addr[d] = b /\ ~matched[d] /\ ~Held(d)
        BY <1>6, Members DEF PoolsInv
      <4>2. ~Held(d)'
        BY <1>3, <2>4, <4>1 DEF Held
      <4> QED
        BY <1>4, <4>1, <4>2
    <3> QED
      BY <1>3, <2>3, <3>1 DEF PoolsInv
  <2>7. HandInv'
    <3>1. ASSUME NEW n \in Matchers, mconn[n] # None
          PROVE  /\ Registered(mconn[n])' /\ mconn[n] \notin owned
                 /\ reg[mconn[n]] = mreg[n] /\ addr[mconn[n]] = maddr[n]
                 /\ \A k \in Matchers : chan'[k] # mconn[n] /\ (k # n => mconn[k] # mconn[n])
      <4>1. mconn[n] \in Conns
        BY <1>1, <3>1 DEF RegistryTypeOK
      <4>2. /\ Registered(mconn[n]) /\ mconn[n] \notin owned
            /\ reg[mconn[n]] = mreg[n] /\ addr[mconn[n]] = maddr[n]
            /\ \A k \in Matchers : chan[k] # mconn[n] /\ (k # n => mconn[k] # mconn[n])
        BY <3>1 DEF HandInv
      <4>3. Registered(mconn[n])'
        BY <1>3, <1>4, <4>1, <4>2 DEF Registered
      <4> QED
        BY <1>7, <2>4, <4>2, <4>3
    <3> QED
      BY <1>3, <3>1 DEF HandInv, Registered
  <2>8. ChanInv'
    <3>1. ASSUME NEW n \in Matchers, chan'[n] \in Conns, n # m
          PROVE  /\ Registered(chan[n])' /\ chan[n] \notin owned /\ chan'[n] = chan[n]
                 /\ \A k \in Matchers : k # n => chan'[k] # chan[n]
                 /\ mpc[n] \in {"wait", "drain"} =>
                      reg[chan[n]] = mreg[n] /\ addr[chan[n]] = maddr[n]
      <4>1. chan'[n] = chan[n] /\ chan[n] \in Conns
        BY <2>4, <3>1
      <4>2. /\ Registered(chan[n]) /\ chan[n] \notin owned
            /\ \A k \in Matchers : k # n => chan[k] # chan[n]
            /\ mpc[n] \in {"wait", "drain"} =>
                 reg[chan[n]] = mreg[n] /\ addr[chan[n]] = maddr[n]
        BY <4>1 DEF ChanInv
      <4>3. hpc'[chan[n]] \in {"peng", "done"}
        BY <1>4, <4>1, <4>2 DEF Registered
      <4> QED
        BY <1>7, <2>4, <4>1, <4>2, <4>3 DEF Registered
    <3>2. \A k \in Matchers : k # m => chan'[k] # c
      BY <1>7, <2>4
    <3>3. reg[c] = mreg[m] /\ addr[c] = maddr[m]
      BY <2>2 DEF g, a
    <3> QED
      BY <1>3, <1>4, <1>7, <2>2, <2>4, <3>1, <3>2, <3>3 DEF ChanInv, Registered
  <2>9. WaiterInv'
    <3>1. ASSUME NEW h \in Gens, NEW b \in Addrs
          PROVE  /\ IsInjective(waiters'[h][b])
                 /\ ToSet(waiters'[h][b]) \subseteq ToSet(waiters[h][b])
                 /\ m \notin ToSet(waiters'[h][b])
      <4>1. CASE h = g /\ b = a
        BY <2>1, <2>5, <4>1 DEF w
      <4>2. CASE ~ (h = g /\ b = a)
        BY <2>2, <2>5, <4>2 DEF WaiterInv, QueuedWaitersReceptive
      <4> QED
        BY <4>1, <4>2
    <3>2. ASSUME NEW h \in Gens, NEW b \in Addrs, NEW n \in ToSet(waiters'[h][b])
          PROVE  /\ chan'[n] = None /\ mpc[n] \in {"wait", "drain", "expire"}
                 /\ mreg[n] = h /\ maddr[n] = b
      <4>1. n \in ToSet(waiters[h][b]) /\ n # m
        BY <3>1
      <4>2. n \in Matchers
        BY <4>1, Members
      <4> QED
        BY <2>4, <4>1, <4>2 DEF WaiterInv, QueuedWaitersReceptive
    <3> QED
      BY <1>3, <3>1, <3>2 DEF WaiterInv, QueuedWaitersReceptive
  <2>10. NoIdlePoolWhileWaiting'
    <3>1. bottoms[g][a] = <<>>
      <4>1. w # <<>>
        BY <1>2, <2>1, Members DEF w
      <4> QED
        BY <1>2, <4>1 DEF NoIdlePoolWhileWaiting, w
    <3> QED
      BY <2>3, <2>5, <3>1 DEF NoIdlePoolWhileWaiting
  <2> QED
    BY <1>8, <2>6, <2>7, <2>8, <2>9, <2>10
<1>10. CASE /\ waiters' = [waiters EXCEPT ![g][a] = <<>>]
            /\ bottoms' = [bottoms EXCEPT ![g][a] = Append(@, c)]
            /\ UNCHANGED chan
  <2> DEFINE pool == Append(bottoms[g][a], c)
  <2>1. ToSet(pool) = ToSet(bottoms[g][a]) \cup {c} /\ IsInjective(pool)
    BY <1>2, <1>6, AppendLemma DEF PoolsInv
  <2>2. bottoms' = [bottoms EXCEPT ![g][a] = pool]
    BY <1>10
  <2> HIDE DEF pool, g, a, w
  <2>3. \A h \in Gens, b \in Addrs :
          /\ bottoms'[h][b] = IF h = g /\ b = a THEN pool ELSE bottoms[h][b]
          /\ waiters'[h][b] = IF h = g /\ b = a THEN <<>> ELSE waiters[h][b]
    <3>1. /\ g \in Gens /\ a \in Addrs
          /\ bottoms \in [Gens -> [Addrs -> Seq(Conns)]]
          /\ waiters \in [Gens -> [Addrs -> Seq(Matchers)]]
      BY <1>1, <1>2 DEF RegistryTypeOK
    <3>2. \A h \in Gens, b \in Addrs :
            bottoms'[h][b] = IF h = g /\ b = a THEN pool ELSE bottoms[h][b]
      BY <2>2, <3>1
    <3>3. waiters' = [waiters EXCEPT ![g][a] = <<>>]
      BY <1>10
    <3>4. \A h \in Gens, b \in Addrs :
            waiters'[h][b] = IF h = g /\ b = a THEN <<>> ELSE waiters[h][b]
      BY <3>1, <3>3
    <3> QED
      BY <3>2, <3>4
  <2>4. ~matched[c]
    BY <1>5 DEF OwnedInv
  <2>5. PoolsInv'
    <3>1. ASSUME NEW h \in Gens, NEW b \in Addrs
          PROVE  /\ IsInjective(bottoms'[h][b])
                 /\ \A d \in ToSet(bottoms'[h][b]) :
                      \/ d \in ToSet(bottoms[h][b])
                      \/ d = c /\ h = g /\ b = a
      <4>1. CASE h = g /\ b = a
        BY <2>1, <2>3, <4>1
      <4>2. CASE ~ (h = g /\ b = a)
        BY <2>3, <4>2 DEF PoolsInv
      <4> QED
        BY <4>1, <4>2
    <3>2. ASSUME NEW h \in Gens, NEW b \in Addrs, NEW d \in ToSet(bottoms'[h][b])
          PROVE  /\ Registered(d)' /\ reg[d] = h /\ addr[d] = b /\ ~matched[d] /\ ~Held(d)'
      <4>1. CASE d \in ToSet(bottoms[h][b])
        <5>1. /\ d \in Conns /\ Registered(d) /\ reg[d] = h /\ addr[d] = b
              /\ ~matched[d] /\ ~Held(d)
          BY <4>1, Members DEF PoolsInv
        <5> QED
          BY <1>3, <1>4, <1>10, <5>1 DEF Held
      <4>2. CASE d = c /\ h = g /\ b = a
        BY <1>3, <1>4, <1>7, <1>10, <2>4, <4>2 DEF Held, g, a
      <4> QED
        BY <3>1, <4>1, <4>2
    <3> QED
      BY <1>3, <3>1, <3>2 DEF PoolsInv
  <2>6. HandInv'
    <3>1. ASSUME NEW n \in Matchers, mconn[n] # None
          PROVE  hpc'[mconn[n]] \in {"peng", "done"}
      <4>1. mconn[n] \in Conns /\ Registered(mconn[n])
        BY <1>1, <3>1 DEF RegistryTypeOK, HandInv
      <4> QED
        BY <1>4, <4>1 DEF Registered
    <3> QED
      BY <1>3, <1>10, <3>1 DEF HandInv, Registered
  <2>7. ChanInv'
    BY <1>3, <1>4, <1>10 DEF ChanInv, Registered
  <2>8. WaiterInv'
    <3>1. ToSet(<<>>) = {} /\ IsInjective(<<>>)
      BY DEF ToSet, IsInjective
    <3>2. \A h \in Gens, b \in Addrs : /\ IsInjective(waiters'[h][b])
                                       /\ ToSet(waiters'[h][b]) \subseteq ToSet(waiters[h][b])
      BY <2>3, <3>1 DEF WaiterInv
    <3>3. ASSUME NEW h \in Gens, NEW b \in Addrs, NEW n \in ToSet(waiters'[h][b])
          PROVE  /\ chan[n] = None /\ mpc[n] \in {"wait", "drain", "expire"}
                 /\ mreg[n] = h /\ maddr[n] = b
      BY <3>2 DEF WaiterInv, QueuedWaitersReceptive
    <3> QED
      BY <1>3, <1>10, <3>2, <3>3 DEF WaiterInv, QueuedWaitersReceptive
  <2>9. NoIdlePoolWhileWaiting'
    BY <2>3 DEF NoIdlePoolWhileWaiting
  <2> QED
    BY <1>8, <2>5, <2>6, <2>7, <2>8, <2>9
<1> QED
  BY <1>9, <1>10 DEF RegisterDeliver

\* Every step preserves the invariant.
LEMMA NextIInv == IInv /\ [RegistryNext]_registryVars => IInv'
<1> SUFFICES ASSUME IInv, [RegistryNext]_registryVars PROVE IInv'
  OBVIOUS
<1>1. TypeInv /\ TypeInv'
  BY NextTypeInv DEF IInv
<1>2. ASSUME NEW c \in Conns, RegisterDeliver(c) PROVE IInv'
  BY <1>1, <1>2, RegisterDeliverStep
<1>3. ASSUME NEW m \in Matchers, MatchPop(m) PROVE IInv'
  BY <1>1, <1>3, MatchPopStep
<1>4. ASSUME NEW m \in Matchers, MatchEnqueue(m) PROVE IInv'
  BY <1>1, <1>4, MatchEnqueueStep
<1>5. ASSUME NEW m \in Matchers, HandshakeOk(m) PROVE IInv'
  BY <1>1, <1>5, HandshakeOkStep
<1>6. ASSUME NEW m \in Matchers, MatchReceive(m), ReceiveConn(m) PROVE IInv'
  <2>1. \A g \in Gens, a \in Addrs : Shrunk(waiters[g][a], waiters'[g][a])
    BY <1>6 DEF MatchReceive, Shrunk
  <2> QED
    BY <1>1, <1>6, <2>1, ReceiveConnStep DEF MatchReceive
<1>7. ASSUME NEW m \in Matchers, MatchDrain(m), ReceiveConn(m), DropWaiter(m) PROVE IInv'
  <2>1. \A g \in Gens, a \in Addrs : Shrunk(waiters[g][a], waiters'[g][a])
    <3>1. RegistryTypeOK /\ \A g \in Gens, a \in Addrs : Shrunk(waiters[g][a], waiters[g][a])
      BY <1>1 DEF TypeInv, Shrunk
    <3> QED
      BY <1>1, <1>7, <3>1, Members, ShrunkCases DEF DropWaiter, RegistryTypeOK
  <2> QED
    BY <1>1, <1>7, <2>1, ReceiveConnStep DEF MatchDrain
<1>8. CASE \/ \E c \in Conns :
                \/ HandleReverseConnection(c) \/ RegisterRejected(c) \/ RegisterAdmitted(c)
                \/ SendPengOk(c) \/ SendPengFail(c)
                \/ HeartbeatFails(c) \/ IdleDetected(c) \/ IdleClose(c) \/ ReadLoopExit(c)
                \/ WatcherWake(c) \/ WatcherUnregister(c) \/ WatcherRecheck(c)
                \/ WatcherClose(c) \/ CloseStop(c)
           \/ \E m \in Matchers :
                \/ \E a \in Addrs : MatchStart(m, a)
                \/ ReceiveNil(m) /\ UNCHANGED waiters
                \/ MatchTimeout(m) \/ MatchCancelled(m) \/ MatchDrainEmpty(m)
                \/ MatchExpire(m) \/ MatchClaim(m) \/ HandshakeFail(m)
           \/ \E a \in Addrs : CloseByAddress(a)
           \/ RefreshSweep \/ RefreshCancel \/ UNCHANGED registryVars
  <2>1. Shrinks
    BY <1>1, <1>8, ShrinkingActions
  <2> QED
    BY <1>1, <2>1, ShrinkingStep
<1> QED
  BY <1>2, <1>3, <1>4, <1>5, <1>6, <1>7, <1>8
  DEF RegistryNext, ConnStep, MatchStep, MatchReceive, MatchDrain

\* The invariant implies that every connection has one holder.
LEMMA IInvOneHolder == IInv => OneHolder
<1> SUFFICES ASSUME IInv PROVE OneHolder
  OBVIOUS
<1> USE RegistryAssumption DEF IInv
<1>1. RegistryTypeOK
  BY DEF TypeInv
<1>2. \A g \in Gens, a \in Addrs : \A i, j \in DOMAIN bottoms[g][a] :
        bottoms[g][a][i] = bottoms[g][a][j] => i = j
  BY DEF PoolsInv, IsInjective
<1>3. \A g, h \in Gens, a, b \in Addrs :
        ToSet(bottoms[g][a]) \cap ToSet(bottoms[h][b]) # {} => g = h /\ a = b
  BY DEF PoolsInv
<1>4. \A c \in Conns : Held(c) => ~InPool(c)
  BY DEF PoolsInv, InPool
<1>5. \A m, n \in Matchers :
        /\ mconn[m] # None => mconn[m] # chan[n] /\ mconn[m] \notin owned
        /\ m # n => (mconn[m] = mconn[n] => mconn[m] = None)
  BY DEF HandInv
<1>6. \A m, n \in Matchers :
        /\ chan[m] \notin owned
        /\ m # n /\ chan[m] = chan[n] => chan[m] \notin Conns
  BY <1>1 DEF ChanInv, RegistryTypeOK
<1> QED
  BY <1>2, <1>3, <1>4, <1>5, <1>6 DEF OneHolder

\* The invariant implies that Match works where it was asked to.
LEMMA IInvMatched == IInv => MatchedWhereRegistered
BY DEF IInv, HandInv, PoolsInv, MatchedWhereRegistered, InPool, Pool

\* A parked connection is handed to one dialer only, for any number of
\* connections, dialers, addresses and reloads (Register, Match, Unregister,
\* CloseByAddress, Refresh).
THEOREM OneHolderAlways == RegistrySpec => []OneHolder
BY InitIInv, NextIInv, IInvOneHolder, PTL DEF RegistrySpec

\* No dialer waits while a connection it could use is parked.
THEOREM NoLostMatch == RegistrySpec => []NoIdlePoolWhileWaiting
<1>1. IInv => NoIdlePoolWhileWaiting
  BY DEF IInv
<1> QED
  BY InitIInv, NextIInv, <1>1, PTL DEF RegistrySpec

\* Register only ever sends to an open, empty channel of a call in progress.
THEOREM WaitersReceptiveAlways == RegistrySpec => []QueuedWaitersReceptive
<1>1. IInv => QueuedWaitersReceptive
  BY DEF IInv, WaiterInv
<1> QED
  BY InitIInv, NextIInv, <1>1, PTL DEF RegistrySpec

\* Match works on connections of its own registry and address, across reloads.
THEOREM MatchedWhereRegisteredAlways == RegistrySpec => []MatchedWhereRegistered
BY InitIInv, NextIInv, IInvMatched, PTL DEF RegistrySpec

\* RegistrySound: what a run checks of the registry on two connections and two
\* dialers holds for any number of connections, dialers, addresses and reloads.
THEOREM RegistryIsSound == RegistrySpec => []RegistrySound
<1>1. RegistryTypeOK /\ OneHolder /\ NoIdlePoolWhileWaiting /\ QueuedWaitersReceptive
      /\ MatchedWhereRegistered => RegistrySound
  BY DEF RegistrySound
<1> QED
  BY <1>1, TypeCorrect, OneHolderAlways, NoLostMatch, WaitersReceptiveAlways,
     MatchedWhereRegisteredAlways, PTL

-----------------------------------------------------------------------------
(* The UDP channel: a heartbeat of the server says that its handshake is over. *)

Ends == [at : {"idle", "key", "addr", "ready", "wait", "up", "failed", "gone"},
         sock : BOOLEAN, tcp : BOOLEAN, closed : BOOLEAN, run : BOOLEAN, addr : Nat]
Packets == [to : Nat, from : Nat, end : {"dialer", "server"}, kind : {"beat", "data"}]

ServerReady == send.at \in {"up", "gone"}

\* The inductive invariant: frames of the server, and a confirmed channel, come after its
\* handshake; a channel that is closed has no sockets left.
ChannelInv ==
    /\ dend \in Ends /\ send \in Ends /\ flying \subseteq Packets /\ nat \in [{"dialer", "server"} -> Nat]
    /\ readyCh \in BOOLEAN
    /\ send.run => send.at = "up"
    /\ \A p \in flying : p.end = "server" => ServerReady
    /\ readyCh => ServerReady
    /\ dend.at = "up" => readyCh
    /\ dend.at = "failed" \/ dend.closed => ~dend.sock /\ ~dend.tcp
    /\ dend.at = "idle" => ~dend.run /\ ~dend.closed /\ ~dend.sock /\ ~dend.tcp

LEMMA ChannelInitInv == UdpInit => ChannelInv
  <1> SUFFICES ASSUME UdpInit PROVE ChannelInv OBVIOUS
  <1>1. PICK g \in Guesses :
            /\ dend = [at |-> "idle", sock |-> FALSE, tcp |-> FALSE, closed |-> FALSE, run |-> FALSE, addr |-> g[2]]
            /\ send = [at |-> "idle", sock |-> FALSE, tcp |-> FALSE, closed |-> FALSE, run |-> FALSE, addr |-> g[1]]
    BY DEF UdpInit
  <1>2. g[1] \in Nat /\ g[2] \in Nat BY ReverseUdpAssumption
  <1>3. dend \in Ends /\ send \in Ends BY <1>1, <1>2 DEF Ends
  <1>4. flying = {} /\ nat \in [{"dialer", "server"} -> Nat] /\ readyCh = FALSE BY DEF UdpInit
  <1> QED BY <1>1, <1>3, <1>4 DEF ChannelInv

\* A packet that an end sends.
LEMMA DatagramType ==
    ASSUME ChannelInv, NEW to \in Nat, NEW end \in {"dialer", "server"}, NEW kind \in {"beat", "data"}
    PROVE  Datagram(to, end, kind) \in Packets /\ Datagram(to, end, kind).end = end
  BY DEF ChannelInv, Datagram, Packets

\* Steps that change the dialer's end alone.
LEMMA DialerKeeps ==
    ASSUME ChannelInv, ReadLine \/ ReadLineFails \/ FirstHeartbeat \/ HeartbeatTimeout \/ DialerFinds \/ DialerUnwinds \/ ClientCloses
    PROVE  ChannelInv'
  <1>0. /\ send' = send /\ flying' = flying /\ nat' = nat /\ readyCh' = readyCh
    BY DEF ReadLine, ReadLineFails, FirstHeartbeat, HeartbeatTimeout, DialerFinds, DialerUnwinds, ClientCloses
  <1>1. /\ dend' \in Ends
        /\ dend'.at = "up" => readyCh
        /\ dend'.at = "failed" \/ dend'.closed => ~dend'.sock /\ ~dend'.tcp
        /\ dend'.at = "idle" => ~dend'.run /\ ~dend'.closed /\ ~dend'.sock /\ ~dend'.tcp
    <2>1. CASE ReadLine BY <2>1 DEF ReadLine, ChannelInv, Ends
    <2>2. CASE ReadLineFails BY <2>2 DEF ReadLineFails, ChannelInv, Ends, CleanupBoth
    <2>3. CASE FirstHeartbeat BY <2>3 DEF FirstHeartbeat, ChannelInv, Ends
    <2>4. CASE HeartbeatTimeout BY <2>4 DEF HeartbeatTimeout, ChannelInv, Ends, CleanupBoth
    <2>5. CASE DialerFinds BY <2>5 DEF DialerFinds, ChannelInv, Ends, Shut
    <2>6. CASE DialerUnwinds BY <2>6 DEF DialerUnwinds, ChannelInv, Ends
    <2>7. CASE ClientCloses BY <2>7 DEF ClientCloses, ChannelInv, Ends, Shut
    <2> QED BY <2>1, <2>2, <2>3, <2>4, <2>5, <2>6, <2>7
  <1> QED BY <1>0, <1>1 DEF ChannelInv, ServerReady

\* Steps that change the server's end alone.
LEMMA ServerKeeps ==
    ASSUME ChannelInv, Accept \/ SendLine \/ SendLineFails \/ ServerFinds \/ ServerSocketFails \/ ServerUnwinds
    PROVE  ChannelInv'
  <1>0. /\ dend' = dend /\ flying' = flying /\ nat' = nat /\ readyCh' = readyCh
    BY DEF Accept, SendLine, SendLineFails, ServerFinds, ServerSocketFails, ServerUnwinds
  <1>1. /\ send' \in Ends
        /\ send'.run => send'.at = "up"
        /\ ServerReady => send'.at \in {"up", "gone"}
    <2>1. CASE Accept BY <2>1 DEF Accept, ChannelInv, Ends, ServerReady
    <2>2. CASE SendLine BY <2>2 DEF SendLine, ChannelInv, Ends, ServerReady
    <2>3. CASE SendLineFails BY <2>3 DEF SendLineFails, ChannelInv, Ends, CleanupBoth, ServerReady
    <2>4. CASE ServerFinds BY <2>4 DEF ServerFinds, ChannelInv, Ends, Shut, ServerReady
    <2>5. CASE ServerSocketFails BY <2>5 DEF ServerSocketFails, ChannelInv, Ends, Shut, ServerReady
    <2>6. CASE ServerUnwinds BY <2>6 DEF ServerUnwinds, ChannelInv, Ends, ServerReady
    <2> QED BY <2>1, <2>2, <2>3, <2>4, <2>5, <2>6
  <1> QED BY <1>0, <1>1 DEF ChannelInv, ServerReady

\* Steps that put a packet on its way.
LEMMA SendersKeep ==
    ASSUME ChannelInv, UdpHeartbeat \/ ClientWrites \/ ServerHeartbeat \/ TargetToTunnel
    PROVE  ChannelInv'
  <1>0. dend' = dend /\ send' = send /\ nat' = nat /\ readyCh' = readyCh
    BY DEF UdpHeartbeat, ClientWrites, ServerHeartbeat, TargetToTunnel
  <1>1. dend.addr \in Nat /\ send.addr \in Nat BY DEF ChannelInv, Ends
  <1>2. \E p \in Packets : flying' = flying \cup {p} /\ (p.end = "server" => ServerReady)
    <2>1. CASE UdpHeartbeat BY <2>1, <1>1, DatagramType DEF UdpHeartbeat
    <2>2. CASE ClientWrites BY <2>2, <1>1, DatagramType DEF ClientWrites
    <2>3. CASE ServerHeartbeat
      <3>1. ServerReady BY <2>3 DEF ServerHeartbeat, ChannelInv, ServerReady
      <3> QED BY <2>3, <3>1, <1>1, DatagramType DEF ServerHeartbeat
    <2>4. CASE TargetToTunnel
      <3>1. ServerReady BY <2>4 DEF TargetToTunnel, ChannelInv, ServerReady
      <3> QED BY <2>4, <3>1, <1>1, DatagramType DEF TargetToTunnel
    <2> QED BY <2>1, <2>2, <2>3, <2>4
  <1> QED BY <1>0, <1>2 DEF ChannelInv, ServerReady

\* Steps that take a packet.
LEMMA HearersKeep ==
    ASSUME ChannelInv, NEW p \in flying, ChainReader(p) \/ TunnelToTarget(p) \/ Lose(p)
    PROVE  ChannelInv'
  <1>0. p \in Packets /\ flying' \subseteq flying /\ nat' = nat
    BY DEF ChannelInv, ChainReader, TunnelToTarget, Lose
  <1>1. CASE ChainReader(p)
    <2>1. send' = send /\ readyCh' = (readyCh \/ p.kind = "beat") /\ p.end = "server"
      BY <1>1 DEF ChainReader
    <2>2. dend' = [dend EXCEPT !.addr = Remote(p)] /\ Remote(p) \in Nat
      BY <1>0, <1>1 DEF ChainReader, Remote, ChannelInv, Ends, Packets
    <2>3. dend' \in Ends /\ dend'.at = dend.at /\ dend'.run = dend.run /\ dend'.closed = dend.closed /\ dend'.sock = dend.sock /\ dend'.tcp = dend.tcp
      BY <2>2 DEF ChannelInv, Ends
    <2>4. ServerReady /\ ServerReady' BY <2>1 DEF ChannelInv, ServerReady
    <2>5. readyCh' \in BOOLEAN /\ (readyCh => readyCh') BY <2>1
    <2> QED BY <1>0, <2>1, <2>3, <2>4, <2>5 DEF ChannelInv
  <1>2. CASE TunnelToTarget(p)
    <2>1. dend' = dend /\ readyCh' = readyCh /\ send' = [send EXCEPT !.addr = p.from] /\ p.from \in Nat
      BY <1>0, <1>2 DEF TunnelToTarget, DialerAddr, Packets
    <2>2. send' \in Ends /\ send'.at = send.at /\ send'.run = send.run
      BY <2>1 DEF ChannelInv, Ends
    <2> QED BY <1>0, <2>1, <2>2 DEF ChannelInv, ServerReady
  <1>3. CASE Lose(p)
    <2>1. dend' = dend /\ readyCh' = readyCh /\ send' = send BY <1>3 DEF Lose
    <2> QED BY <1>0, <2>1 DEF ChannelInv, ServerReady
  <1> QED BY <1>1, <1>2, <1>3

LEMMA OthersKeep ==
    ASSUME ChannelInv, DialUdp \/ ChainRoom \/ ClientReads \/ Cut \/ \E end \in {"dialer", "server"} : Move(end)
    PROVE  ChannelInv'
  <1>1. CASE DialUdp
    <2>1. flying' = flying /\ nat' = nat /\ readyCh' = readyCh BY <1>1 DEF DialUdp
    <2>2. /\ dend' \in Ends /\ dend'.at \notin {"idle", "up"}
          /\ dend'.at = "failed" \/ dend'.closed => ~dend'.sock /\ ~dend'.tcp
      <3>0. dend.at = "idle" /\ dend \in Ends BY <1>1 DEF DialUdp, ChannelInv
      <3>3. ~ dend.closed /\ ~ dend.sock /\ ~ dend.tcp BY <3>0 DEF ChannelInv
      <3>1. CASE dend' = [dend EXCEPT !.at = "key", !.sock = TRUE, !.tcp = TRUE]
        <4>1. dend' \in Ends BY <3>0, <3>1 DEF Ends
        <4>2. dend'.at = "key" /\ dend'.closed = dend.closed BY <3>0, <3>1 DEF Ends
        <4> QED BY <4>1, <4>2, <3>3
      <3>2. CASE dend' = [dend EXCEPT !.at = "failed"]
        <4>1. dend' \in Ends BY <3>0, <3>2 DEF Ends
        <4>2. dend'.at = "failed" /\ dend'.sock = dend.sock /\ dend'.tcp = dend.tcp BY <3>0, <3>2 DEF Ends
        <4> QED BY <4>1, <4>2, <3>3
      <3> QED BY <3>1, <3>2, <1>1 DEF DialUdp
    <2>3. send' \in Ends /\ send'.at = send.at /\ send'.run = send.run
      BY <1>1 DEF DialUdp, ChannelInv, Ends
    <2> QED BY <2>1, <2>2, <2>3 DEF ChannelInv, ServerReady
  <1>2. CASE ChainRoom \/ ClientReads \/ Cut
    BY <1>2 DEF ChainRoom, ClientReads, Cut, ChannelInv, ServerReady
  <1>3. ASSUME NEW end \in {"dialer", "server"}, Move(end) PROVE ChannelInv'
    <2>1. dend' = dend /\ send' = send /\ flying' = flying /\ readyCh' = readyCh /\ nat' = [nat EXCEPT ![end] = nat[end] + 1]
      BY <1>3 DEF Move
    <2>2. nat' \in [{"dialer", "server"} -> Nat] BY <2>1 DEF ChannelInv
    <2> QED BY <2>1, <2>2 DEF ChannelInv, ServerReady
  <1> QED BY <1>1, <1>2, <1>3

\* ChannelIsConfirmed: whatever a NAT, the network and either end do, and in whichever step a dial
\* fails: a channel handed to the client has been confirmed by a heartbeat of a server whose
\* handshake was over, and a failed dial keeps neither socket nor connection.
THEOREM ChannelIsConfirmed == UdpSpec => [](Confirmed /\ FailedHoldsNothing)
  <1>1. UdpInit => ChannelInv BY ChannelInitInv
  <1>2. ChannelInv /\ [UdpNext]_udpVars => ChannelInv'
    <2> SUFFICES ASSUME ChannelInv, [UdpNext]_udpVars PROVE ChannelInv' OBVIOUS
    <2>1. CASE UNCHANGED udpVars BY <2>1 DEF udpVars, ChannelInv, ServerReady
    <2>2. CASE UdpNext
      BY <2>2, DialerKeeps, ServerKeeps, SendersKeep, HearersKeep, OthersKeep
      DEF UdpNext, DialerStep, DialerHears, ServerStep, ServerHears
    <2> QED BY <2>1, <2>2
  <1>3. ChannelInv => Confirmed /\ FailedHoldsNothing
    BY DEF ChannelInv, Confirmed, FailedHoldsNothing, ServerReady
  <1> QED BY <1>1, <1>2, <1>3, PTL DEF UdpSpec
=============================================================================

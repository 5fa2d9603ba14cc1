----------------------------- MODULE ReversePool -----------------------------
(***************************************************************************)
(* The passive node's pool of outbound reverse connections: ReverseServer  *)
(* in server/reverse.go.                                                   *)
(*                                                                         *)
(* One manager goroutine dials; a one-slot channel (needConnCh) tells it   *)
(* that a connection is wanted.  Tokens come from the start, from every    *)
(* connection that leaves the pool, from every successful dial and from    *)
(* retry timers.  A token that finds the slot taken is dropped.  Each      *)
(* pooled connection has a goroutine (handleReverseConn) that waits for    *)
(* PONG and then hands the connection to the mapping's handler.  Close     *)
(* stops the manager, CloseForce also closes what is pooled.               *)
(*                                                                         *)
(* A connection name is one socket: it is fresh while "unused" and may be  *)
(* dialed again once its goroutine is gone and it is closed.               *)
(***************************************************************************)
EXTENDS Naturals, FiniteSets

CONSTANTS
    Sockets,     \* sockets
    MaxConns,    \* ReverseMaxConnections after its default
    MaxTimers,   \* bound: retry timers pending at once
    NoConn       \* the manager is not dialing

ASSUME PoolAssumption ==
    /\ IsFiniteSet(Sockets)
    /\ MaxConns \in Nat \ {0}
    /\ MaxTimers \in Nat \ {0}
    /\ NoConn \notin Sockets

VARIABLES
    connections, \* the pool, under s.mu
    serverClosed, \* s.closed, set with closeCh under s.mu
    token,       \* needConnCh holds its one element
    timers,      \* retry timers armed by a failed dial
    mgr,         \* where connectionManager is
    dialed,      \* the connection reverseConnect has returned
    cpc,         \* cpc[c]: where the goroutine of c is
    open,        \* sockets this process has not closed
    force,       \* where CloseForce is
    victims      \* the snapshot CloseForce works through

poolVars == <<connections, serverClosed, token, timers, mgr, dialed, cpc, open, force, victims>>

\* Where a manager is, and where a connection's goroutine is.
MgrPcs  == {"select", "dial", "add", "notify", "gone"}
ConnPcs == {"unused", "wait", "leave", "leaveNotify", "close",
            "accept", "acceptNotify", "serve"}

\* StartReverse: the manager runs and the first token is in the channel.
PoolInit ==
    /\ connections = {}
    /\ serverClosed = FALSE
    /\ token = TRUE
    /\ timers = 0
    /\ mgr = "select"
    /\ dialed = NoConn
    /\ cpc = [c \in Sockets |-> "unused"]
    /\ open = {}
    /\ force = "idle"
    /\ victims = {}

Full == Cardinality(connections) >= MaxConns

-----------------------------------------------------------------------------
(* connectionManager and genConnection                                     *)

\* The select finds closeCh closed.
ManagerStops ==
    /\ mgr = "select"
    /\ serverClosed
    /\ mgr' = "gone"
    /\ UNCHANGED <<connections, serverClosed, token, timers, dialed, cpc, open, force, victims>>

\* Size and closed are read under s.mu, which is released before the dial.
GenWanted == ~serverClosed /\ ~Full

\* The select takes the token (it may do so although closeCh is closed too)
\* and genConnection decides.
GenConnection ==
    /\ mgr = "select"
    /\ token
    /\ token' = FALSE
    /\ mgr' = IF GenWanted THEN "dial" ELSE "select"
    /\ UNCHANGED <<connections, serverClosed, timers, dialed, cpc, open, force, victims>>

\* reverseConnect returns a fresh connection.
DialOk(c) ==
    /\ mgr = "dial"
    /\ cpc[c] = "unused" /\ c \notin open \cup victims
    /\ open' = open \cup {c}
    /\ dialed' = c
    /\ mgr' = "add"
    /\ UNCHANGED <<connections, serverClosed, token, timers, cpc, force, victims>>

\* Mutant: a failed dial arms no retry timer.
ArmRetry_Forgotten == UNCHANGED timers

ArmRetry == timers' = timers + 1

\* reverseConnect fails: time.AfterFunc(retryMs, notifyNeedConn).
DialFail ==
    /\ mgr = "dial"
    /\ timers < MaxTimers
    /\ ArmRetry
    /\ mgr' = "select"
    /\ UNCHANGED <<connections, serverClosed, token, dialed, cpc, open, force, victims>>

\* closed, read again under s.mu after the dial.
StillOpen == ~serverClosed

\* Still open: pooled, its goroutine starts.
AddConnection ==
    /\ mgr = "add"
    /\ StillOpen
    /\ connections' = connections \cup {dialed}
    /\ cpc' = [cpc EXCEPT ![dialed] = "wait"]
    /\ dialed' = NoConn
    /\ mgr' = "notify"
    /\ UNCHANGED <<serverClosed, token, timers, open, force, victims>>

\* Closed during the dial: the fresh connection is closed at once.
DropDialed ==
    /\ mgr = "add"
    /\ ~StillOpen
    /\ open' = open \ {dialed}
    /\ dialed' = NoConn
    /\ mgr' = "select"
    /\ UNCHANGED <<connections, serverClosed, token, timers, cpc, force, victims>>

\* notifyNeedConn: the send, or nothing when the slot is taken.  With closeCh
\* closed as well the select may choose either ready case.
NotifyNeedConn == token' = TRUE \/ (token' = token /\ (serverClosed \/ token))

ManagerNotify ==
    /\ mgr = "notify"
    /\ NotifyNeedConn
    /\ mgr' = "select"
    /\ UNCHANGED <<connections, serverClosed, timers, dialed, cpc, open, force, victims>>

RetryTimer ==
    /\ timers > 0
    /\ timers' = timers - 1
    /\ NotifyNeedConn
    /\ UNCHANGED <<connections, serverClosed, mgr, dialed, cpc, open, force, victims>>

-----------------------------------------------------------------------------
(* handleReverseConn                                                       *)

\* The read fails (peer gone, closed here, 60s of silence), an unexpected
\* frame arrives, or PENG cannot be written: the deferred clean-up runs.
ConnEnds(c) ==
    /\ cpc[c] = "wait"
    /\ cpc' = [cpc EXCEPT ![c] = "leave"]
    /\ UNCHANGED <<connections, serverClosed, token, timers, mgr, dialed, open, force, victims>>

\* PONG arrived, the own sender is stopped and PENG is written.
ConnAccepted(c) ==
    /\ cpc[c] = "wait"
    /\ c \in open
    /\ cpc' = [cpc EXCEPT ![c] = "accept"]
    /\ UNCHANGED <<connections, serverClosed, token, timers, mgr, dialed, open, force, victims>>

\* removeConnection, its critical section ...
RemoveConnection(c) ==
    /\ cpc[c] \in {"leave", "accept"}
    /\ connections' = connections \ {c}
    /\ cpc' = [cpc EXCEPT ![c] = IF @ = "leave" THEN "leaveNotify" ELSE "acceptNotify"]
    /\ UNCHANGED <<serverClosed, token, timers, mgr, dialed, open, force, victims>>

\* Mutant: an accepted connection leaves the pool without asking for another.
RemoveNotify_OnError(c) ==
    /\ cpc[c] \in {"leaveNotify", "acceptNotify"}
    /\ IF cpc[c] = "leaveNotify" THEN NotifyNeedConn ELSE UNCHANGED token
    /\ cpc' = [cpc EXCEPT ![c] = IF @ = "leaveNotify" THEN "close" ELSE "serve"]
    /\ UNCHANGED <<connections, serverClosed, timers, mgr, dialed, open, force, victims>>

\* ... and its notifyNeedConn.
RemoveNotify(c) ==
    /\ cpc[c] \in {"leaveNotify", "acceptNotify"}
    /\ NotifyNeedConn
    /\ cpc' = [cpc EXCEPT ![c] = IF @ = "leaveNotify" THEN "close" ELSE "serve"]
    /\ UNCHANGED <<connections, serverClosed, timers, mgr, dialed, open, force, victims>>

\* The deferred conn.Close, or the handler's when serveAccepted returns.
ConnClose(c) ==
    /\ cpc[c] \in {"close", "serve"}
    /\ open' = open \ {c}
    /\ cpc' = [cpc EXCEPT ![c] = "unused"]
    /\ UNCHANGED <<connections, serverClosed, token, timers, mgr, dialed, force, victims>>

-----------------------------------------------------------------------------
(* Close and CloseForce                                                    *)

\* Graceful: no new connections, the pooled ones end by themselves.
Close ==
    /\ ~serverClosed
    /\ serverClosed' = TRUE
    /\ UNCHANGED <<connections, token, timers, mgr, dialed, cpc, open, force, victims>>

\* CloseForce begins with Close ...
CloseForce ==
    /\ force = "idle"
    /\ serverClosed' = TRUE
    /\ force' = "snapshot"
    /\ UNCHANGED <<connections, token, timers, mgr, dialed, cpc, open, victims>>

\* ... copies the pool under s.mu ...
ForceSnapshot ==
    /\ force = "snapshot"
    /\ victims' = connections
    /\ force' = "closing"
    /\ UNCHANGED <<connections, serverClosed, token, timers, mgr, dialed, cpc, open>>

\* ... and closes the copies one by one.
ForceCloseOne(c) ==
    /\ force = "closing"
    /\ c \in victims
    /\ victims' = victims \ {c}
    /\ open' = open \ {c}
    /\ UNCHANGED <<connections, serverClosed, token, timers, mgr, dialed, cpc, force>>

ForceReturns ==
    /\ force = "closing"
    /\ victims = {}
    /\ force' = "done"
    /\ UNCHANGED <<connections, serverClosed, token, timers, mgr, dialed, cpc, open, victims>>

-----------------------------------------------------------------------------
PoolNext ==
    \/ ManagerStops \/ GenConnection \/ DialFail \/ AddConnection \/ DropDialed
    \/ ManagerNotify \/ RetryTimer
    \/ Close \/ CloseForce \/ ForceSnapshot \/ ForceReturns
    \/ \E c \in Sockets : \/ DialOk(c) \/ ConnEnds(c) \/ ConnAccepted(c)
                        \/ RemoveConnection(c) \/ RemoveNotify(c) \/ ConnClose(c)
                        \/ ForceCloseOne(c)

PoolSpec == PoolInit /\ [][PoolNext]_poolVars

-----------------------------------------------------------------------------
\* The variables keep their types.
PoolTypeOK ==
    /\ connections \subseteq Sockets
    /\ serverClosed \in BOOLEAN
    /\ token \in BOOLEAN
    /\ timers \in 0 .. MaxTimers
    /\ mgr \in MgrPcs
    /\ dialed \in Sockets \cup {NoConn}
    /\ cpc \in [Sockets -> ConnPcs]
    /\ open \subseteq Sockets
    /\ force \in {"idle", "snapshot", "closing", "done"}
    /\ victims \subseteq Sockets

\* genConnection reads the size and releases s.mu for the whole dial: the
\* pool still never exceeds its configured size.
PoolBound == Cardinality(connections) <= MaxConns

\* No lost wake-up, although notifyNeedConn drops tokens: while the server is
\* open and its pool has room, somebody is on the way to another dial: the
\* token, the manager itself, a retry timer, or a goroutine between its
\* delete and its notify.
WakeupPending ==
    \/ serverClosed
    \/ Full
    \/ token
    \/ mgr \in {"dial", "add", "notify"}
    \/ timers > 0
    \/ \E c \in Sockets : cpc[c] \in {"leaveNotify", "acceptNotify"}

\* A socket that is open is still somebody's to close: the manager has just
\* dialed it or its goroutine runs.  A dial that returns after Close is no
\* exception.
NoOrphanSocket == \A c \in open : c = dialed \/ cpc[c] # "unused"

\* When CloseForce has returned nothing pooled is open, whatever dial was
\* under way.
ForceClosedPool == force = "done" => connections \cap open = {}

\* Once closed the pool only shrinks.
NoGrowthAfterClose == [][serverClosed => connections' \subseteq connections]_poolVars

\* A pool with room is followed by another dial, by a full pool or by Close.
RefillAttempted == []<>(serverClosed \/ Full \/ mgr = "dial")

\* After CloseForce every socket that no handler serves gets closed, the one
\* still being dialed too.
ForceClosesAll ==
    []<>(force = "done" => \A c \in open : cpc[c] = "serve")

\* PoolSound: the pool never holds more than its size; a pool that is short of
\* connections has someone, or a wake-up, that will dial; CloseForce leaves nothing in
\* it; and every socket that was opened is in it, on its way to it or closed.
PoolSound == PoolTypeOK /\ PoolBound /\ WakeupPending /\ ForceClosedPool /\ NoOrphanSocket
=============================================================================

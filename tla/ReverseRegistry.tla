--------------------------- MODULE ReverseRegistry ---------------------------
(***************************************************************************)
(* The registry of reverse ("bottom") connections: reverse/registry.go.    *)
(*                                                                         *)
(* A passive node dials in and parks a connection under a reverse address  *)
(* (HandleReverseConnection).  A dialer asks for one (Match): it pops a    *)
(* parked connection or queues a channel and waits.  A control session     *)
(* that ends drains its address (CloseByAddress); a configuration reload   *)
(* replaces the whole registry (Refresh).  Each connection carries a read  *)
(* loop and a watcher goroutine, each Match call runs on a goroutine of    *)
(* its own, and only part of what they share is under Registry.mu.         *)
(*                                                                         *)
(* One action is one critical section, one channel operation or one flag   *)
(* access.  Timers (the 60s match timer, the 60s read deadline, the 10s    *)
(* handshake limit) may fire whenever they are armed.  What travels on the *)
(* wire is the subject of ReverseHandshake; here a handshake succeeds or   *)
(* fails.                                                                  *)
(***************************************************************************)
EXTENDS Naturals, Sequences, SequencesExt, FiniteSets

CONSTANTS
    Conns,       \* bottom connections that may ever arrive
    Matchers,    \* dialer goroutines, each running one Match at a time
    Addrs,       \* reverse addresses
    MaxGen,      \* bound: number of configuration reloads
    None         \* no connection in a channel or a critical section

ASSUME RegistryAssumption ==
    /\ MaxGen \in Nat
    /\ None \notin Conns
    /\ "closed" \notin Conns
    /\ None # "closed"
    /\ Addrs # {}

Gens == 0 .. MaxGen

VARIABLES
    global,      \* generation held by globalRegistry
    reloading,   \* TRUE between Refresh's sweep and its close(cancelCh); registryMu is held
    cancelled,   \* generations whose cancelCh is closed
    mu,          \* mu[g]: the connection whose Register holds Registry.mu, or None
    bottoms,     \* bottoms[g][a]: the pool, oldest first
    waiters,     \* waiters[g][a]: queued channels, named by the Match call that made them
    hpc,         \* hpc[c]: where HandleReverseConnection is
    reg,         \* reg[c]: the registry it captured
    addr,        \* addr[c]: the address it registers under
    loopDone,    \* loopDone[c]: doneCh is closed, the read loop has returned
    closed,      \* closed[c]: Conn.Close was called by this process
    matched,     \* matched[c]: the flag under matchedMu
    wpc,         \* wpc[c]: where the watcher goroutine is
    idle,        \* connections whose idle detector has read matched = false and will close
    stopping,    \* connections CloseByAddress has detached and not yet stopped
    mpc,         \* mpc[m]: where Match is
    mreg,        \* mreg[m]: the registry of the call
    maddr,       \* maddr[m]: the address of the call
    mconn,       \* mconn[m]: the connection Match has in hand
    fromPool,    \* fromPool[m]: it was popped from the pool, so failure retries
    chan,        \* chan[m]: content of the call's one-slot channel
    owned        \* connections some Match has returned to its caller

connVars  == <<hpc, reg, addr, loopDone, closed, matched, wpc>>
matchVars == <<mpc, mreg, maddr, mconn, fromPool, chan>>
regVars   == <<global, reloading, cancelled, mu, bottoms, waiters>>
registryVars      == <<regVars, connVars, idle, stopping, matchVars, owned>>

RegistryInit ==
    /\ global = 0 /\ reloading = FALSE /\ cancelled = {}
    /\ mu = [g \in Gens |-> None]
    /\ bottoms = [g \in Gens |-> [a \in Addrs |-> <<>>]]
    /\ waiters = [g \in Gens |-> [a \in Addrs |-> <<>>]]
    /\ hpc = [c \in Conns |-> "new"]
    /\ reg = [c \in Conns |-> 0]
    /\ addr \in [Conns -> Addrs]
    /\ loopDone = [c \in Conns |-> FALSE]
    /\ closed = [c \in Conns |-> FALSE]
    /\ matched = [c \in Conns |-> FALSE]
    /\ wpc = [c \in Conns |-> "none"]
    /\ idle = {}
    /\ stopping = {}
    /\ mpc = [m \in Matchers |-> "idle"]
    /\ mreg = [m \in Matchers |-> 0]
    /\ maddr = [m \in Matchers |-> CHOOSE a \in Addrs : TRUE]
    /\ mconn = [m \in Matchers |-> None]
    /\ fromPool = [m \in Matchers |-> FALSE]
    /\ chan = [m \in Matchers |-> None]
    /\ owned = {}

Unlocked(g) == mu[g] = None
Pool(c) == bottoms[reg[c]][addr[c]]

\* Unregister: under the lock, the connection leaves the pool if it is there.
Unregister(g, a, c) ==
    /\ Unlocked(g)
    /\ bottoms' = [bottoms EXCEPT ![g][a] = RemoveFirst(@, c)]

-----------------------------------------------------------------------------
(* HandleReverseConnection: capture the registry, start the read loop,     *)
(* Register, confirm with PENG, start the watcher.                         *)

HandleReverseConnection(c) ==
    /\ hpc[c] = "new"
    /\ ~reloading
    /\ reg' = [reg EXCEPT ![c] = global]
    /\ hpc' = [hpc EXCEPT ![c] = "register"]
    /\ UNCHANGED <<regVars, addr, loopDone, closed, matched, wpc, idle, stopping, matchVars, owned>>

\* Register takes the lock and looks at cancelCh once.
RegisterRejected(c) ==
    /\ hpc[c] = "register"
    /\ Unlocked(reg[c])
    /\ reg[c] \in cancelled
    /\ closed' = [closed EXCEPT ![c] = TRUE]
    /\ hpc' = [hpc EXCEPT ![c] = "peng"]
    /\ UNCHANGED <<regVars, reg, addr, loopDone, matched, wpc, idle, stopping, matchVars, owned>>

RegisterAdmitted(c) ==
    /\ hpc[c] = "register"
    /\ Unlocked(reg[c])
    /\ reg[c] \notin cancelled
    /\ mu' = [mu EXCEPT ![reg[c]] = c]
    /\ hpc' = [hpc EXCEPT ![c] = "deliver"]
    /\ UNCHANGED <<global, reloading, cancelled, bottoms, waiters,
                   reg, addr, loopDone, closed, matched, wpc, idle, stopping, matchVars, owned>>

\* Still under the lock: the first waiter whose channel takes the value gets
\* the connection, the ones before it are dropped; without one it is pooled.
RegisterDeliver(c) ==
    LET g == reg[c]
        a == addr[c]
        w == waiters[g][a]
        ready == {i \in DOMAIN w : chan[w[i]] = None}
    IN
    /\ hpc[c] = "deliver"
    /\ mu' = [mu EXCEPT ![g] = None]
    /\ hpc' = [hpc EXCEPT ![c] = "peng"]
    /\ \/ \E i \in ready :
            /\ \A j \in ready : i <= j
            /\ chan' = [chan EXCEPT ![w[i]] = c]
            /\ waiters' = [waiters EXCEPT ![g][a] = SubSeq(w, i + 1, Len(w))]
            /\ UNCHANGED bottoms
       \/ /\ ready = {}
          /\ waiters' = [waiters EXCEPT ![g][a] = <<>>]
          /\ bottoms' = [bottoms EXCEPT ![g][a] = Append(@, c)]
          /\ UNCHANGED chan
    /\ UNCHANGED <<global, reloading, cancelled, reg, addr, loopDone, closed, matched, wpc,
                   idle, stopping, mpc, mreg, maddr, mconn, fromPool, owned>>

\* WriteMsg(FramePeng) succeeds; sender, idle detector and watcher start.
SendPengOk(c) ==
    /\ hpc[c] = "peng"
    /\ ~closed[c]
    /\ hpc' = [hpc EXCEPT ![c] = "done"]
    /\ wpc' = [wpc EXCEPT ![c] = "wait"]
    /\ UNCHANGED <<regVars, reg, addr, loopDone, closed, matched, idle, stopping, matchVars, owned>>

\* WriteMsg fails: Unregister, Stop (waits for the read loop), Close.
SendPengFail(c) ==
    /\ hpc[c] = "peng"
    /\ Unregister(reg[c], addr[c], c)
    /\ loopDone' = [loopDone EXCEPT ![c] = TRUE]
    /\ closed' = [closed EXCEPT ![c] = TRUE]
    /\ hpc' = [hpc EXCEPT ![c] = "done"]
    /\ UNCHANGED <<global, reloading, cancelled, mu, waiters, reg, addr, matched, wpc,
                   idle, stopping, matchVars, owned>>

\* The heartbeat sender, which runs until Match stops it before sending PONG,
\* cannot write and closes the connection.
HeartbeatFails(c) ==
    /\ wpc[c] # "none"
    /\ ~loopDone[c]
    /\ closed' = [closed EXCEPT ![c] = TRUE]
    /\ UNCHANGED <<regVars, hpc, reg, addr, loopDone, matched, wpc, idle, stopping, matchVars, owned>>

\* The idle detector reads matched, finds the last frame too old, and only
\* then closes.
IdleDetected(c) ==
    /\ wpc[c] # "none"
    /\ ~loopDone[c]
    /\ ~matched[c]
    /\ idle' = idle \cup {c}
    /\ UNCHANGED <<regVars, connVars, stopping, matchVars, owned>>

IdleClose(c) ==
    /\ c \in idle
    /\ idle' = idle \ {c}
    /\ closed' = [closed EXCEPT ![c] = TRUE]
    /\ UNCHANGED <<regVars, hpc, reg, addr, loopDone, matched, wpc, stopping, matchVars, owned>>

\* The read loop returns: connection closed, peer gone, or 60s of silence.
ReadLoopExit(c) ==
    /\ hpc[c] # "new"
    /\ ~loopDone[c]
    /\ loopDone' = [loopDone EXCEPT ![c] = TRUE]
    /\ UNCHANGED <<regVars, hpc, reg, addr, closed, matched, wpc, idle, stopping, matchVars, owned>>

-----------------------------------------------------------------------------
(* The watcher: after the read loop, clean up unless Match owns it.        *)

WatcherWake(c) ==
    /\ wpc[c] = "wait"
    /\ loopDone[c]
    /\ wpc' = [wpc EXCEPT ![c] = IF matched[c] THEN "done" ELSE "unregister"]
    /\ UNCHANGED <<regVars, hpc, reg, addr, loopDone, closed, matched, idle, stopping, matchVars, owned>>

WatcherUnregister(c) ==
    /\ wpc[c] = "unregister"
    /\ Unregister(reg[c], addr[c], c)
    /\ wpc' = [wpc EXCEPT ![c] = IF c \in ToSet(Pool(c)) THEN "close" ELSE "recheck"]
    /\ UNCHANGED <<global, reloading, cancelled, mu, waiters, hpc, reg, addr, loopDone,
                   closed, matched, idle, stopping, matchVars, owned>>

\* Mutant: a failed Unregister is taken to mean that Match owns it.
WatcherRecheck_Trusts(c) ==
    /\ wpc[c] = "recheck"
    /\ wpc' = [wpc EXCEPT ![c] = "done"]
    /\ UNCHANGED <<regVars, hpc, reg, addr, loopDone, closed, matched, idle, stopping, matchVars, owned>>

\* Second look at matched: Unregister may have lost the race to Match.
WatcherRecheck(c) ==
    /\ wpc[c] = "recheck"
    /\ wpc' = [wpc EXCEPT ![c] = IF matched[c] THEN "done" ELSE "close"]
    /\ UNCHANGED <<regVars, hpc, reg, addr, loopDone, closed, matched, idle, stopping, matchVars, owned>>

WatcherClose(c) ==
    /\ wpc[c] = "close"
    /\ closed' = [closed EXCEPT ![c] = TRUE]
    /\ wpc' = [wpc EXCEPT ![c] = "done"]
    /\ UNCHANGED <<regVars, hpc, reg, addr, loopDone, matched, idle, stopping, matchVars, owned>>

-----------------------------------------------------------------------------
(* Match                                                                   *)

MatchStart(m, a) ==
    /\ mpc[m] = "idle"
    /\ ~reloading
    /\ mpc' = [mpc EXCEPT ![m] = "scan"]
    /\ mreg' = [mreg EXCEPT ![m] = global]
    /\ maddr' = [maddr EXCEPT ![m] = a]
    /\ UNCHANGED <<regVars, connVars, idle, stopping, mconn, fromPool, chan, owned>>

MatchPool(m) == bottoms[mreg[m]][maddr[m]]

Popped(pool) == Tail(pool)

\* The oldest pooled connection is taken out under the lock.
MatchPop(m) ==
    /\ mpc[m] = "scan"
    /\ Unlocked(mreg[m])
    /\ MatchPool(m) # <<>>
    /\ mconn' = [mconn EXCEPT ![m] = Head(MatchPool(m))]
    /\ bottoms' = [bottoms EXCEPT ![mreg[m]][maddr[m]] = Popped(@)]
    /\ fromPool' = [fromPool EXCEPT ![m] = TRUE]
    /\ mpc' = [mpc EXCEPT ![m] = "claim"]
    /\ UNCHANGED <<global, reloading, cancelled, mu, waiters, connVars, idle, stopping,
                   mreg, maddr, chan, owned>>

\* Mutant: the lock is dropped between the look at the pool and the append.
PoolEmpty_Stale(m) == TRUE

PoolEmpty(m) == MatchPool(m) = <<>>

\* Empty pool: queue a fresh channel and wait on it.
MatchEnqueue(m) ==
    /\ mpc[m] = "scan"
    /\ Unlocked(mreg[m])
    /\ PoolEmpty(m)
    /\ waiters' = [waiters EXCEPT ![mreg[m]][maddr[m]] = Append(@, m)]
    /\ chan' = [chan EXCEPT ![m] = None]
    /\ mpc' = [mpc EXCEPT ![m] = "wait"]
    /\ UNCHANGED <<global, reloading, cancelled, mu, bottoms, connVars, idle, stopping,
                   mreg, maddr, mconn, fromPool, owned>>

\* A receive in either select: nil from a closed channel ends the call.
ReceiveNil(m) ==
    /\ chan[m] = "closed"
    /\ mpc' = [mpc EXCEPT ![m] = "idle"]
    /\ UNCHANGED <<global, reloading, cancelled, mu, bottoms, connVars, idle, stopping,
                   mreg, maddr, mconn, fromPool, chan, owned>>

\* A receive in either select: a connection to claim.
ReceiveConn(m) ==
    /\ chan[m] \in Conns
    /\ mconn' = [mconn EXCEPT ![m] = chan[m]]
    /\ chan' = [chan EXCEPT ![m] = None]
    /\ fromPool' = [fromPool EXCEPT ![m] = FALSE]
    /\ mpc' = [mpc EXCEPT ![m] = "claim"]
    /\ UNCHANGED <<global, reloading, cancelled, mu, bottoms, connVars, idle, stopping,
                   mreg, maddr, owned>>

\* Take the call's channel out of the waiters, under the lock.
DropWaiter(m) ==
    /\ Unlocked(mreg[m])
    /\ waiters' = [waiters EXCEPT ![mreg[m]][maddr[m]] = RemoveFirst(@, m)]

MatchReceive(m) ==
    /\ mpc[m] = "wait"
    /\ ReceiveNil(m) \/ ReceiveConn(m)
    /\ UNCHANGED waiters

MatchTimeout(m) ==
    /\ mpc[m] = "wait"
    /\ mpc' = [mpc EXCEPT ![m] = "expire"]
    /\ UNCHANGED <<regVars, connVars, idle, stopping, mreg, maddr, mconn, fromPool, chan, owned>>

\* The select chose cancelCh.
MatchCancelled(m) ==
    /\ mpc[m] = "wait"
    /\ mreg[m] \in cancelled
    /\ mpc' = [mpc EXCEPT ![m] = "drain"]
    /\ UNCHANGED <<regVars, connVars, idle, stopping, mreg, maddr, mconn, fromPool, chan, owned>>

\* The inner select of the cancelCh branch finds the channel filled or closed.
MatchDrain(m) ==
    /\ mpc[m] = "drain"
    /\ \/ ReceiveNil(m) /\ UNCHANGED waiters
       \/ ReceiveConn(m) /\ DropWaiter(m)

\* It finds nothing.
MatchDrainEmpty(m) ==
    /\ mpc[m] = "drain"
    /\ chan[m] = None
    /\ mpc' = [mpc EXCEPT ![m] = "expire"]
    /\ UNCHANGED <<regVars, connVars, idle, stopping, mreg, maddr, mconn, fromPool, chan, owned>>

\* Timed out or cancelled: drop the waiter and return an error.
MatchExpire(m) ==
    /\ mpc[m] = "expire"
    /\ DropWaiter(m)
    /\ mpc' = [mpc EXCEPT ![m] = "idle"]
    /\ UNCHANGED <<global, reloading, cancelled, mu, bottoms, connVars, idle, stopping,
                   mreg, maddr, mconn, fromPool, chan, owned>>

\* "Claim ownership immediately": outside Registry.mu.
MatchClaim(m) ==
    /\ mpc[m] = "claim"
    /\ matched' = [matched EXCEPT ![mconn[m]] = TRUE]
    /\ mpc' = [mpc EXCEPT ![m] = "handshake"]
    /\ UNCHANGED <<regVars, hpc, reg, addr, loopDone, closed, wpc, idle, stopping,
                   mreg, maddr, mconn, fromPool, chan, owned>>

\* PONG went out, the read loop was stopped, PENG came back: Match returns.
HandshakeOk(m) ==
    /\ mpc[m] = "handshake"
    /\ ~closed[mconn[m]]
    /\ loopDone' = [loopDone EXCEPT ![mconn[m]] = TRUE]
    /\ owned' = owned \cup {mconn[m]}
    /\ mconn' = [mconn EXCEPT ![m] = None]
    /\ mpc' = [mpc EXCEPT ![m] = "idle"]
    /\ UNCHANGED <<regVars, hpc, reg, addr, closed, matched, wpc, idle, stopping,
                   mreg, maddr, fromPool, chan>>

\* PONG could not be written or PENG did not come: close, Unregister, and
\* scan again when the connection came from the pool.
HandshakeFail(m) ==
    LET c == mconn[m] IN
    /\ mpc[m] = "handshake"
    /\ Unregister(mreg[m], maddr[m], c)
    /\ closed' = [closed EXCEPT ![c] = TRUE]
    /\ mconn' = [mconn EXCEPT ![m] = None]
    /\ mpc' = [mpc EXCEPT ![m] = IF fromPool[m] THEN "scan" ELSE "idle"]
    /\ UNCHANGED <<global, reloading, cancelled, mu, waiters, hpc, reg, addr, loopDone, matched,
                   wpc, idle, stopping, mreg, maddr, fromPool, chan, owned>>

-----------------------------------------------------------------------------
(* CloseByAddress and Refresh                                              *)

\* Detach pool and waiters of the address; a queued channel is closed.
CloseByAddress(a) ==
    LET gone == ToSet(bottoms[global][a])
        woken == ToSet(waiters[global][a])
    IN
    /\ ~reloading
    /\ Unlocked(global)
    /\ gone # {} \/ woken # {}
    /\ bottoms' = [bottoms EXCEPT ![global][a] = <<>>]
    /\ waiters' = [waiters EXCEPT ![global][a] = <<>>]
    /\ chan' = [m \in Matchers |-> IF m \in woken THEN "closed" ELSE chan[m]]
    /\ stopping' = stopping \cup gone
    /\ UNCHANGED <<global, reloading, cancelled, mu, connVars, idle, mpc, mreg, maddr, mconn,
                   fromPool, owned>>

\* ManagedConn.Stop on a detached connection: returns when the read loop has.
CloseStop(c) ==
    /\ c \in stopping
    /\ stopping' = stopping \ {c}
    /\ loopDone' = [loopDone EXCEPT ![c] = TRUE]
    /\ UNCHANGED <<regVars, hpc, reg, addr, closed, matched, wpc, idle, matchVars, owned>>

\* Refresh under registryMu and the old registry's lock: swap and sweep.
RefreshSweep ==
    LET old == UNION {ToSet(bottoms[global][a]) : a \in Addrs} IN
    /\ ~reloading
    /\ global < MaxGen
    /\ Unlocked(global)
    /\ reloading' = TRUE
    /\ global' = global + 1
    /\ closed' = [c \in Conns |-> closed[c] \/ (c \in old /\ ~matched[c])]
    /\ UNCHANGED <<cancelled, mu, bottoms, waiters, hpc, reg, addr, loopDone, matched, wpc,
                   idle, stopping, matchVars, owned>>

\* The old lock is released, then close(cancelCh).
RefreshCancel ==
    /\ reloading
    /\ reloading' = FALSE
    /\ cancelled' = cancelled \cup {global - 1}
    /\ UNCHANGED <<global, mu, bottoms, waiters, connVars, idle, stopping, matchVars, owned>>

-----------------------------------------------------------------------------
ConnStep(c) ==
    \/ RegisterRejected(c) \/ RegisterAdmitted(c) \/ RegisterDeliver(c)
    \/ SendPengOk(c) \/ SendPengFail(c)
    \/ WatcherWake(c) \/ WatcherUnregister(c) \/ WatcherRecheck(c) \/ WatcherClose(c)
    \/ IdleClose(c) \/ CloseStop(c)

MatchStep(m) ==
    \/ MatchPop(m) \/ MatchEnqueue(m) \/ MatchReceive(m) \/ MatchTimeout(m)
    \/ MatchCancelled(m) \/ MatchDrain(m) \/ MatchDrainEmpty(m) \/ MatchExpire(m)
    \/ MatchClaim(m) \/ HandshakeOk(m) \/ HandshakeFail(m)

RegistryNext ==
    \/ \E c \in Conns : 
        \/ HandleReverseConnection(c) \/ ConnStep(c)
        \/ ReadLoopExit(c) \/ HeartbeatFails(c) \/ IdleDetected(c)
    \/ \E m \in Matchers : (\E a \in Addrs : MatchStart(m, a)) \/ MatchStep(m)
    \/ \E a \in Addrs : CloseByAddress(a)
    \/ RefreshSweep \/ RefreshCancel

RegistrySpec == RegistryInit /\ [][RegistryNext]_registryVars

-----------------------------------------------------------------------------
HandlerPCs == {"new", "register", "deliver", "peng", "done"}
WatcherPCs == {"none", "wait", "unregister", "recheck", "close", "done"}
MatchPCs   == {"idle", "scan", "claim", "handshake", "wait", "drain", "expire"}

\* Every variable has its type.
RegistryTypeOK ==
    /\ global \in Gens /\ reloading \in BOOLEAN /\ cancelled \in SUBSET Gens
    /\ mu \in [Gens -> Conns \cup {None}]
    /\ bottoms \in [Gens -> [Addrs -> Seq(Conns)]]
    /\ waiters \in [Gens -> [Addrs -> Seq(Matchers)]]
    /\ hpc \in [Conns -> HandlerPCs]
    /\ reg \in [Conns -> Gens]
    /\ addr \in [Conns -> Addrs]
    /\ loopDone \in [Conns -> BOOLEAN]
    /\ closed \in [Conns -> BOOLEAN]
    /\ matched \in [Conns -> BOOLEAN]
    /\ wpc \in [Conns -> WatcherPCs]
    /\ idle \in SUBSET Conns /\ stopping \in SUBSET Conns
    /\ mpc \in [Matchers -> MatchPCs]
    /\ mreg \in [Matchers -> Gens]
    /\ maddr \in [Matchers -> Addrs]
    /\ mconn \in [Matchers -> Conns \cup {None}]
    /\ fromPool \in [Matchers -> BOOLEAN]
    /\ chan \in [Matchers -> Conns \cup {None, "closed"}]
    /\ owned \in SUBSET Conns

InPool(c) == \E g \in Gens, a \in Addrs : c \in ToSet(bottoms[g][a])
Held(c) == c \in owned \/ \E m \in Matchers : mconn[m] = c \/ chan[m] = c

\* A parked connection is handed to one dialer only: it is never in two
\* pools, at two places of a pool, in two Match calls' hands or channels, or
\* still reachable after Match returned it (Register, Match, Unregister).
OneHolder ==
    /\ \A g \in Gens, a \in Addrs : \A i, j \in DOMAIN bottoms[g][a] :
         bottoms[g][a][i] = bottoms[g][a][j] => i = j
    /\ \A g, h \in Gens, a, b \in Addrs :
         ToSet(bottoms[g][a]) \cap ToSet(bottoms[h][b]) # {} => g = h /\ a = b
    /\ \A c \in Conns : Held(c) => ~InPool(c)
    /\ \A m, n \in Matchers :
         /\ mconn[m] # None => mconn[m] # chan[n] /\ mconn[m] \notin owned
         /\ chan[m] \notin owned
         /\ m # n => (mconn[m] = mconn[n] => mconn[m] = None)
         /\ m # n /\ chan[m] = chan[n] => chan[m] \notin Conns

\* No lost match: a registry never has a parked connection and a waiting
\* Match for the same address at once, so a dialer cannot sit out its 60s
\* timer while a connection it could use is idle (Register against Match).
NoIdlePoolWhileWaiting ==
    \A g \in Gens, a \in Addrs : bottoms[g][a] = <<>> \/ waiters[g][a] = <<>>

\* A queued channel is open and empty and its Match has not returned, so
\* Register's send neither panics on a closed channel nor skips a waiter
\* (CloseByAddress, Refresh and the timeout against Register).
QueuedWaitersReceptive ==
    \A g \in Gens, a \in Addrs : \A m \in ToSet(waiters[g][a]) :
        /\ chan[m] = None
        /\ mpc[m] \in {"wait", "drain", "expire"}
        /\ mreg[m] = g /\ maddr[m] = a

\* What Match works on was registered under the address and in the registry
\* generation it was asked for, and no pooled connection is already claimed:
\* Refresh's "if !matched" never spares one it should close.
MatchedWhereRegistered ==
    /\ \A m \in Matchers : mconn[m] # None =>
         reg[mconn[m]] = mreg[m] /\ addr[mconn[m]] = maddr[m]
    /\ \A c \in Conns : InPool(c) => c \in ToSet(Pool(c)) /\ ~matched[c]

\* Every Match call returns, whatever Refresh, CloseByAddress, timeouts and
\* failing peers do meanwhile.
MatchReturns == \A m \in Matchers : []<>(mpc[m] = "idle")

\* The watcher keeps the pool clean: a connection whose read loop has
\* returned leaves the pool, for good.
DeadLeavesPool == \A c \in Conns : []<>(loopDone[c] => ~InPool(c))

\* CloseByAddress only stops the read loops; the watcher must then close
\* each detached connection.
DetachedIsClosed == \A c \in Conns : c \in stopping ~> closed[c]

\* "drain any pending value from ch to avoid losing a matched connection":
\* a registered, live connection is always in a pool, in the channel of a
\* call that will still read it, in a call's hand, owned, or being stopped.
NeverLost ==
    \A c \in Conns :
        hpc[c] \in {"peng", "done"} /\ ~closed[c] /\ ~loopDone[c] =>
            \/ InPool(c) \/ c \in owned \/ c \in stopping
            \/ \E m \in Matchers : mconn[m] = c \/ (chan[m] = c /\ mpc[m] \in {"wait", "drain"})

\* RegistrySound: a connection is the pool's, a waiter's or one caller's, never two's; a
\* caller never waits while the pool of its address holds a connection; who is queued
\* can still receive; and what a caller gets was registered for the address it asked for.
RegistrySound ==
    RegistryTypeOK /\ OneHolder /\ NoIdlePoolWhileWaiting /\ QueuedWaitersReceptive /\ MatchedWhereRegistered

\* RegistryServes: every Match returns; a connection that has died leaves the pool; one
\* that was taken from it to be dropped is closed.
RegistryServes == MatchReturns /\ DeadLeavesPool /\ DetachedIsClosed
=============================================================================

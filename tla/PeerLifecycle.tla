----------------------------- MODULE PeerLifecycle -----------------------------
(***************************************************************************)
(* How the P2P manager keeps a session to the peer behind one proxy: the    *)
(* goroutines running StartPeer (p2p/p2p.go), the ways to stop them, and    *)
(* the synchronisation with the configuration database (main.go).          *)
(*                                                                         *)
(* A run is one call of StartPeer together with the Peer it creates.  All   *)
(* goroutines share the manager's maps under its lock, a peer's transport   *)
(* under its own, and the status without either.                           *)
(***************************************************************************)
EXTENDS Naturals, FiniteSets

CONSTANTS
    Runs,        \* calls of StartPeer that may exist at the same time
    None,        \* no run
    MaxSaves,    \* bound: changes of the proxy's configuration
    MaxStalls,   \* bound: links the mesh finds stalled
    MayStop      \* TRUE: the manager may be stopped

ASSUME LifecycleAssumption ==
    /\ None \notin Runs /\ IsFiniteSet(Runs)
    /\ MaxSaves \in Nat /\ MaxStalls \in Nat /\ MayStop \in BOOLEAN

VARIABLES
    saved,       \* the database: 0 when the proxy has no peer, else a version
    saves,       \* versions used up
    sync,        \* the database watcher: pc, ver, exists and the run it stops
    dirty,       \* a change is still to be synchronised
    pc,          \* pc[r]: where in StartPeer the run is, "free" for none
    ver,         \* the configuration it was given
    mark,        \* TRUE iff the peer's status is "stopped"
    stopCh,      \* stopCh is closed
    flag,        \* peer.stopped
    tr,          \* the transport: "none", "open", "closed"
    aged,        \* the session has lasted five seconds
    met,         \* the session's first gossip was handled
    mapped,      \* proxyPeers
    peers,       \* the runs in m.peers
    halfA, halfB,   \* runs with a stopPeer to begin, and to finish
    manager,     \* "up", "stopping", "stopped": Stop, and whether it returned
    stalls       \* stalls used up

runVars == <<pc, ver, mark, stopCh, flag, tr, aged, met>>
mapVars == <<mapped, peers>>
dbVars  == <<saved, saves, dirty>>
peerVars    == <<dbVars, sync, runVars, mapVars, halfA, halfB, manager, stalls>>

Idle == [pc |-> "idle", ver |-> 0, exists |-> FALSE, target |-> None]

PeerInit ==
    /\ saved = 0 /\ saves = 0 /\ dirty = FALSE /\ sync = Idle
    /\ pc = [r \in Runs |-> "free"] /\ ver = [r \in Runs |-> 0]
    /\ mark = [r \in Runs |-> FALSE] /\ stopCh = [r \in Runs |-> FALSE]
    /\ flag = [r \in Runs |-> FALSE] /\ tr = [r \in Runs |-> "none"]
    /\ aged = [r \in Runs |-> FALSE] /\ met = [r \in Runs |-> FALSE]
    /\ mapped = None /\ peers = {} /\ halfA = {} /\ halfB = {}
    /\ manager = "up" /\ stalls = 0

Goto(r, l) == pc' = [pc EXCEPT ![r] = l]
At(r, l) == pc[r] = l

\* The runs the manager's WaitGroup counts.
Counted == {r \in Runs : pc[r] \notin {"free", "check", "begin"}}

\* The runs that hold, seek or will seek a connection.
Live == {r \in Runs : pc[r] \in {"loop", "dialing", "sleep", "assign", "start", "session"}}

-----------------------------------------------------------------------------
(* StartPeer                                                               *)

\* go StartPeer(proxy): a run, on a Peer of its own nobody else knows yet.
Fork(r, v) ==
    /\ At(r, "free")
    /\ r \notin halfA \cup halfB
    /\ ver' = [ver EXCEPT ![r] = v]
    /\ UNCHANGED <<mark, stopCh, flag, tr, aged, met>>

\* StartPeer returns and its Peer is garbage.
Return(r) ==
    /\ Goto(r, "free")
    /\ ver' = [ver EXCEPT ![r] = 0]
    /\ mark' = [mark EXCEPT ![r] = FALSE] /\ stopCh' = [stopCh EXCEPT ![r] = FALSE]
    /\ flag' = [flag EXCEPT ![r] = FALSE] /\ tr' = [tr EXCEPT ![r] = "none"]
    /\ aged' = [aged EXCEPT ![r] = FALSE] /\ met' = [met EXCEPT ![r] = FALSE]

\* StartPeer goes on, at l if it may and back to its caller if not.
Proceed(r, may, l) ==
    IF may THEN Goto(r, l) /\ UNCHANGED <<ver, mark, stopCh, flag, tr, aged, met>>
    ELSE Return(r)

Check(r) ==
    /\ At(r, "check")
    /\ Proceed(r, mapped = None, "begin")
    /\ UNCHANGED <<dbVars, sync, mapVars, halfA, halfB, manager, stalls>>

Refused == manager # "up"

BeginSession(r) ==
    /\ At(r, "begin")
    /\ Proceed(r, ~Refused, "register")
    /\ UNCHANGED <<dbVars, sync, mapVars, halfA, halfB, manager, stalls>>

Taken == Refused \/ mapped # None

Register(r) ==
    /\ At(r, "register")
    /\ Proceed(r, ~Taken, "loop")
    /\ IF Taken THEN UNCHANGED mapVars ELSE mapped' = r /\ peers' = peers \cup {r}
    /\ UNCHANGED <<dbVars, sync, halfA, halfB, manager, stalls>>

Loop(r) ==
    /\ At(r, "loop")
    /\ Goto(r, IF stopCh[r] THEN "exit" ELSE "dialing")
    /\ UNCHANGED <<dbVars, sync, ver, mark, stopCh, flag, tr, aged, met, mapVars, halfA, halfB,
                   manager, stalls>>

DialFails(r) ==
    /\ At(r, "dialing")
    /\ Goto(r, "sleep")
    /\ mark' = [mark EXCEPT ![r] = FALSE]
    /\ UNCHANGED <<dbVars, sync, ver, stopCh, flag, tr, aged, met, mapVars, halfA, halfB, manager,
                   stalls>>

\* The backoff after a failed dial ends early when stopCh is closed.
Sleep(r) ==
    /\ At(r, "sleep")
    /\ Goto(r, IF stopCh[r] THEN "exit" ELSE "loop")
    /\ UNCHANGED <<dbVars, sync, ver, mark, stopCh, flag, tr, aged, met, mapVars, halfA, halfB,
                   manager, stalls>>

DialOk(r) ==
    /\ At(r, "dialing")
    /\ Goto(r, "assign")
    /\ UNCHANGED <<dbVars, sync, ver, mark, stopCh, flag, tr, aged, met, mapVars, halfA, halfB,
                   manager, stalls>>

\* Mutant: a stop during the dial is not noticed.
StoppedMeanwhile_Never(r) == FALSE

StoppedMeanwhile(r) == flag[r]

\* Under transportMu: the dialed transport becomes the peer's, or is closed.
Assign(r) ==
    /\ At(r, "assign")
    /\ Goto(r, IF StoppedMeanwhile(r) THEN "exit" ELSE "start")
    /\ tr' = [tr EXCEPT ![r] = IF StoppedMeanwhile(r) THEN @ ELSE "open"]
    /\ UNCHANGED <<dbVars, sync, ver, mark, stopCh, flag, aged, met, mapVars, halfA, halfB, manager,
                   stalls>>

\* Fresh queues, and the status "connecting" whatever it was.
Start(r) ==
    /\ At(r, "start")
    /\ Goto(r, "session")
    /\ mark' = [mark EXCEPT ![r] = FALSE]
    /\ UNCHANGED <<dbVars, sync, ver, stopCh, flag, tr, aged, met, mapVars, halfA, halfB, manager,
                   stalls>>

\* runSession: the first gossip makes the status "helloed", then "upToDate".
Establish(r) ==
    /\ At(r, "session")
    /\ ~met[r]
    /\ met' = [met EXCEPT ![r] = TRUE]
    /\ mark' = [mark EXCEPT ![r] = FALSE]
    /\ UNCHANGED <<dbVars, sync, pc, ver, stopCh, flag, tr, aged, mapVars, halfA, halfB, manager,
                   stalls>>

\* The transport's reader fails: the session is over.
SessionEnds(r) ==
    /\ At(r, "session")
    /\ tr[r] = "closed"
    /\ Goto(r, IF mark[r] THEN "unmap" ELSE "disconnect")
    /\ met' = [met EXCEPT ![r] = FALSE]
    /\ UNCHANGED <<dbVars, sync, ver, mark, stopCh, flag, tr, aged, mapVars, halfA, halfB,
                   manager, stalls>>

\* The status was read before and is written now.
Disconnect(r) ==
    /\ At(r, "disconnect")
    /\ Goto(r, "unmap")
    /\ mark' = [mark EXCEPT ![r] = FALSE]
    /\ UNCHANGED <<dbVars, sync, ver, stopCh, flag, tr, aged, met, mapVars, halfA, halfB, manager,
                   stalls>>

LeaveMaps(r) ==
    /\ mapped' = IF mapped = r THEN None ELSE mapped
    /\ peers' = peers \ {r}

\* Mutant: the ended session stays in the maps until StartPeer returns.
Unmap_Late(r) ==
    /\ At(r, "unmap")
    /\ Goto(r, IF mark[r] THEN "exit" ELSE IF aged[r] THEN "respawn" ELSE "backoff")
    /\ UNCHANGED <<dbVars, sync, ver, mark, stopCh, flag, tr, aged, met, mapVars, halfA, halfB,
                   manager, stalls>>

\* "Clean up this peer from maps BEFORE spawning a fresh StartPeer."
Unmap(r) ==
    /\ At(r, "unmap")
    /\ LeaveMaps(r)
    /\ Goto(r, IF mark[r] THEN "exit" ELSE IF aged[r] THEN "respawn" ELSE "backoff")
    /\ aged' = [aged EXCEPT ![r] = FALSE]
    /\ UNCHANGED <<dbVars, sync, ver, mark, stopCh, flag, tr, met, halfA, halfB, manager, stalls>>

\* A session shorter than five seconds is not followed by another at once.
Backoff(r) ==
    /\ At(r, "backoff")
    /\ Goto(r, IF stopCh[r] THEN "exit" ELSE "respawn")
    /\ UNCHANGED <<dbVars, sync, ver, mark, stopCh, flag, tr, aged, met, mapVars, halfA, halfB,
                   manager, stalls>>

Respawn(r, q) ==
    /\ At(r, "respawn")
    /\ Fork(q, ver[r])
    /\ pc' = [pc EXCEPT ![r] = "exit", ![q] = "check"]
    /\ UNCHANGED <<dbVars, sync, mapVars, halfA, halfB, manager, stalls>>

\* The deferred stopPeer, and the end.
Exit(r) ==
    /\ At(r, "exit")
    /\ Goto(r, "leave")
    /\ mark' = [mark EXCEPT ![r] = @ \/ ~stopCh[r]]
    /\ stopCh' = [stopCh EXCEPT ![r] = TRUE]
    /\ flag' = [flag EXCEPT ![r] = TRUE]
    /\ tr' = [tr EXCEPT ![r] = IF @ = "open" THEN "closed" ELSE @]
    /\ UNCHANGED <<dbVars, sync, ver, aged, met, mapVars, halfA, halfB, manager, stalls>>

Leave(r) ==
    /\ At(r, "leave")
    /\ LeaveMaps(r)
    /\ Return(r)
    /\ UNCHANGED <<dbVars, sync, halfA, halfB, manager, stalls>>

-----------------------------------------------------------------------------
(* Stopping                                                                *)

\* stopPeer: the status and stopCh, once ...
StopBegin(r) ==
    /\ r \in halfA
    /\ halfA' = halfA \ {r} /\ halfB' = halfB \cup {r}
    /\ mark' = [mark EXCEPT ![r] = @ \/ (~At(r, "free") /\ ~stopCh[r])]
    /\ stopCh' = [stopCh EXCEPT ![r] = ~At(r, "free")]
    /\ UNCHANGED <<dbVars, sync, pc, ver, flag, tr, aged, met, mapVars, manager, stalls>>

\* ... then the flag, and the transport if there is one.
StopFinish(r) ==
    /\ r \in halfB
    /\ halfB' = halfB \ {r}
    /\ flag' = [flag EXCEPT ![r] = ~At(r, "free")]
    /\ tr' = [tr EXCEPT ![r] = IF @ = "open" THEN "closed" ELSE @]
    /\ UNCHANGED <<dbVars, sync, pc, ver, mark, stopCh, aged, met, mapVars, halfA, manager, stalls>>

\* StopPeerByProxyName: out of the maps under the lock, stopped after it.
StopByProxyName ==
    IF mapped = None THEN UNCHANGED <<mapVars, halfA>>
    ELSE /\ mapped' = None
         /\ peers' = peers \ {mapped}
         /\ halfA' = halfA \cup {mapped}

\* StopPeerByNodeSeq, for a link whose acknowledgements stalled.
StopStalled(r) ==
    /\ stalls < MaxStalls
    /\ stalls' = stalls + 1
    /\ r \in peers
    /\ At(r, "session") /\ met[r]
    /\ halfA' = halfA \cup {r}
    /\ UNCHANGED <<dbVars, sync, runVars, mapVars, halfB, manager>>

\* Stop: no new sessions, all peers stopped, then the WaitGroup.
StopManager ==
    /\ MayStop
    /\ manager = "up"
    /\ manager' = "stopping"
    /\ halfA' = halfA \cup peers
    /\ UNCHANGED <<dbVars, sync, runVars, mapVars, halfB, stalls>>

StopReturns ==
    /\ manager = "stopping"
    /\ Counted = {}
    /\ manager' = "stopped"
    /\ UNCHANGED <<dbVars, sync, runVars, mapVars, halfA, halfB, stalls>>

-----------------------------------------------------------------------------
(* The database and its watcher                                            *)

Save(on) ==
    /\ saves < MaxSaves
    /\ saves' = saves + 1
    /\ saved' = IF on THEN saves + 1 ELSE 0
    /\ dirty' = TRUE
    /\ UNCHANGED <<sync, runVars, mapVars, halfA, halfB, manager, stalls>>

SyncRead ==
    /\ sync.pc = "idle"
    /\ dirty
    /\ dirty' = FALSE
    /\ sync' = [sync EXCEPT !.pc = "decide", !.ver = saved]
    /\ UNCHANGED <<saved, saves, runVars, mapVars, halfA, halfB, manager, stalls>>

SyncDecide ==
    /\ sync.pc = "decide"
    /\ sync' = [sync EXCEPT !.pc = "act", !.exists = mapped # None]
    /\ UNCHANGED <<dbVars, runVars, mapVars, halfA, halfB, manager, stalls>>

\* Both a deleted proxy and a changed one first lose their peer.
SyncStop ==
    /\ sync.pc = "act"
    /\ sync.exists
    /\ StopByProxyName
    /\ sync' = [sync EXCEPT !.pc = "stopped", !.target = mapped]
    /\ UNCHANGED <<dbVars, runVars, halfB, manager, stalls>>

Early == {"check", "begin", "register"}

\* The next call comes 200ms later at the earliest, and by then the goroutine
\* this one started is past its registration.
SyncDone ==
    /\ \/ sync.pc = "act" /\ ~sync.exists /\ sync.ver = 0
       \/ sync.pc = "stopped" /\ sync.target \notin halfA \cup halfB /\ sync.ver = 0
       \/ sync.pc = "started" /\ pc[sync.target] \notin Early
    /\ sync' = Idle
    /\ UNCHANGED <<dbVars, runVars, mapVars, halfA, halfB, manager, stalls>>

SyncStart(r) ==
    /\ sync.ver # 0
    /\ \/ sync.pc = "act" /\ ~sync.exists
       \/ sync.pc = "stopped" /\ sync.target \notin halfA \cup halfB
    /\ Fork(r, sync.ver)
    /\ Goto(r, "check")
    /\ sync' = [Idle EXCEPT !.pc = "started", !.target = r]
    /\ UNCHANGED <<dbVars, mapVars, halfA, halfB, manager, stalls>>

-----------------------------------------------------------------------------
(* The environment                                                         *)

Drop(r) ==
    /\ tr[r] = "open"
    /\ At(r, "session")
    /\ tr' = [tr EXCEPT ![r] = "closed"]
    /\ UNCHANGED <<dbVars, sync, pc, ver, mark, stopCh, flag, aged, met, mapVars, halfA, halfB,
                   manager, stalls>>

Age(r) ==
    /\ At(r, "session")
    /\ tr[r] = "open"
    /\ ~aged[r]
    /\ aged' = [aged EXCEPT ![r] = TRUE]
    /\ UNCHANGED <<dbVars, sync, pc, ver, mark, stopCh, flag, tr, met, mapVars, halfA, halfB,
                   manager, stalls>>

StartPeer(r) ==
    \/ Check(r) \/ BeginSession(r) \/ Register(r) \/ Loop(r) \/ DialFails(r) \/ Sleep(r)
    \/ DialOk(r) \/ Assign(r) \/ Start(r) \/ SessionEnds(r) \/ Disconnect(r) \/ Unmap(r)
    \/ Backoff(r) \/ Exit(r) \/ Leave(r) \/ \E q \in Runs \ {r} : Respawn(r, q)

Sync == SyncRead \/ SyncDecide \/ SyncStop \/ SyncDone \/ \E r \in Runs : SyncStart(r)

Stopping(r) == StopBegin(r) \/ StopFinish(r)

PeerNext ==
    \/ \E r \in Runs : StartPeer(r) \/ Establish(r) \/ Stopping(r) \/ StopStalled(r) \/ Drop(r)
                       \/ Age(r)
    \/ Sync \/ StopManager \/ StopReturns
    \/ \E on \in BOOLEAN : Save(on)

PeerSpec == PeerInit /\ [][PeerNext]_peerVars

-----------------------------------------------------------------------------
\* The variables keep their types.
PeerTypeOK ==
    /\ saved \in 0 .. MaxSaves /\ saves \in 0 .. MaxSaves /\ dirty \in BOOLEAN
    /\ sync \in [pc : {"idle", "decide", "act", "stopped", "started"}, ver : 0 .. MaxSaves,
                 exists : BOOLEAN, target : Runs \cup {None}]
    /\ pc \in [Runs -> {"free", "check", "begin", "register", "loop", "dialing", "sleep", "assign",
                        "start", "session", "disconnect", "unmap", "backoff", "respawn", "exit",
                        "leave"}]
    /\ ver \in [Runs -> 0 .. MaxSaves]
    /\ mark \in [Runs -> BOOLEAN] /\ stopCh \in [Runs -> BOOLEAN] /\ flag \in [Runs -> BOOLEAN]
    /\ aged \in [Runs -> BOOLEAN] /\ met \in [Runs -> BOOLEAN]
    /\ tr \in [Runs -> {"none", "open", "closed"}]
    /\ mapped \in Runs \cup {None} /\ peers \subseteq Runs
    /\ halfA \subseteq Runs /\ halfB \subseteq Runs
    /\ manager \in {"up", "stopping", "stopped"} /\ stalls \in 0 .. MaxStalls

\* Every run that has or seeks a connection can be reached by a stop: it is
\* the one in the map, or a stop is on its way or has been there.
NoOrphan == \A r \in Live : mapped = r \/ r \in halfA \/ stopCh[r]

\* "the stop signal can no longer be lost": a peer that stopPeer is through
\* with has no open transport, however the dial fell.
StopHonoured == \A r \in Runs : flag[r] => tr[r] # "open"

\* Once Stop has returned there is no session and none begins.
StopIsFinal == manager = "stopped" => Counted = {}

\* The manager's Stop comes to its end.
StopEnds == []<>(manager # "stopping")

\* "It reconnects automatically": while the proxy stays configured, StartPeer
\* is again and again at work for it, unless the mesh stopped a stalled link.
KeepsTrying == <>[](saved # 0 /\ manager = "up" /\ stalls = 0) => []<>(Live # {})

\* "Call StopPeerByProxyName to permanently disconnect": with the proxy gone
\* and the watcher done, no run has or seeks a connection without having
\* been told to stop.
OffMeansOff ==
    saved = 0 /\ ~dirty /\ sync.pc = "idle" => \A r \in Live : stopCh[r]

\* PeerSound: every running session is in the maps, so that it can be stopped, and one
\* that was stopped while it was being set up does not go on.
PeerSound == NoOrphan /\ StopHonoured

\* PeerServes: while it is configured a peer is tried again, Stop ends, and after Stop
\* nothing is started.
PeerServes == []PeerTypeOK /\ []StopIsFinal /\ KeepsTrying /\ StopEnds
=============================================================================

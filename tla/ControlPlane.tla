----------------------------- MODULE ControlPlane -----------------------------
(***************************************************************************)
(* The registry's control plane: ControlManager in server/control_server.go *)
(* and BindingStore in server/binding.go.                                  *)
(*                                                                         *)
(* A reverse client opens a control connection (a session) and registers   *)
(* one identity, reverse ID and sequence number.  handleRegister allocates *)
(* a port, opens a listener, records a persistent binding and installs a   *)
(* resource and a routing rule; HandleClose takes all of it down again.    *)
(* Sessions run on goroutines of their own, ControlManager.mu and          *)
(* BindingStore.mu are taken and released many times on the way, and an    *)
(* administrator may remove a binding at any moment.                       *)
(*                                                                         *)
(* A session registers once, as runReverseSession does; the dynamic        *)
(* address it is given, with listener, resource and rule, is named after   *)
(* it.  Whether an old session of the same identity was heard from within  *)
(* 45s is a free choice.                                                   *)
(***************************************************************************)
EXTENDS Naturals, Sequences, SequencesExt, FiniteSets, FiniteSetsExt

CONSTANTS
    Sessions,      \* control connections
    ReverseIDs,    \* client identities
    Seqs,          \* sequence numbers
    PortMax,       \* the configured range is 1 .. PortMax
    NoSession,     \* no session
    MaxForce,      \* bound: administrator removals
    MaxRestarts,   \* bound: crashes of the registry
    MaxShutdowns   \* bound: CloseAll calls

ASSUME ControlAssumption ==
    /\ IsFiniteSet(Sessions) /\ NoSession \notin Sessions
    /\ ReverseIDs # {} /\ Seqs # {}
    /\ {PortMax, MaxForce, MaxRestarts, MaxShutdowns} \subseteq Nat
    /\ PortMax > 0

Idents == ReverseIDs \X Seqs
Ports  == 1 .. PortMax

VARIABLES
    sessions,    \* m.sessions
    resources,   \* m.resources, by the session they were made for
    rules,       \* dynamic proxies and MATCH rules, here and in the RuleMatcher
    listeners,   \* open dynamic listeners
    pendingRegs, \* identities with a registration in flight
    portNext,    \* round-robin position, 0 before the first use
    bindings,    \* bindings[i]: the persisted port, 0 for none
    disc,        \* identities with DisconnectedAt set, oldest first
    pc,          \* pc[s]: where the session's goroutine is
    ident,       \* ident[s]: the identity its client registers
    port,        \* port[s]: the port being registered, 0 for none
    old,         \* old[s]: the stale session it found, or the binding's owner
    labelled,    \* sessions whose ReverseID and Seq are set
    dyn,         \* sessions whose DynAddr is set
    cstage,      \* cstage[s]: where the HandleClose that detached s is
    cres,        \* detached sessions whose resource was detached with them
    apc, ares,   \* ForceRemoveBinding: where it is, the resource it detached
    aid,         \* its identity
    forced, restarts, shutdowns   \* used-up bounds

mgrVars  == <<sessions, resources, rules, listeners>>
bindVars == <<bindings, disc>>
sessVars == <<pc, ident, port, old, labelled, dyn>>
admVars  == <<apc, ares, aid>>
bounds   == <<forced, restarts, shutdowns>>
controlVars     == <<mgrVars, pendingRegs, portNext, bindVars, sessVars, cstage, cres, admVars, bounds>>

ControlInit ==
    /\ sessions = {} /\ resources = {} /\ rules = {} /\ listeners = {}
    /\ pendingRegs = {}
    /\ portNext = 0
    /\ bindings = [i \in Idents |-> 0]
    /\ disc = <<>>
    /\ pc = [s \in Sessions |-> "out"]
    /\ ident \in [Sessions -> Idents]
    /\ port = [s \in Sessions |-> 0]
    /\ old = [s \in Sessions |-> NoSession]
    /\ labelled = {} /\ dyn = {}
    /\ cstage = [s \in Sessions |-> "none"]
    /\ cres = {}
    /\ apc = "idle" /\ ares = NoSession /\ aid = CHOOSE i \in Idents : TRUE
    /\ forced = 0 /\ restarts = 0 /\ shutdowns = 0

Goto(s, l) == pc' = [pc EXCEPT ![s] = l]

-----------------------------------------------------------------------------
(* BindingStore.  An identity is in `disc' once at most.                   *)

BindingRemove(i) ==
    /\ bindings' = [bindings EXCEPT ![i] = 0]
    /\ disc' = RemoveFirst(disc, i)

\* Set clears DisconnectedAt.
Set(i, p) ==
    /\ bindings' = [bindings EXCEPT ![i] = p]
    /\ disc' = RemoveFirst(disc, i)

\* SetDisconnected stamps an existing binding with the current time.
SetDisconnected(i) ==
    /\ disc' = IF bindings[i] = 0 THEN disc ELSE Append(RemoveFirst(disc, i), i)
    /\ UNCHANGED bindings

\* Bound to another reverse ID; the same one may take over its other ports.
IsPortBoundByOther(p, i) == \E j \in Idents : bindings[j] = p /\ j[1] # i[1]

-----------------------------------------------------------------------------
(* HandleClose: detach under the lock, then clean up step by step          *)

\* The resource is found through session.DynAddr.
OwnResource(s) == s \in dyn /\ s \in resources

Detach(s) ==
    /\ sessions' = sessions \ {s}
    /\ resources' = IF OwnResource(s) THEN resources \ {s} ELSE resources
    /\ cres' = IF OwnResource(s) THEN cres \cup {s} ELSE cres
    /\ cstage' = [cstage EXCEPT ![s] = "disc"]

\* Close the connection, stamp the binding.
CloseDisconnect(s) ==
    /\ cstage[s] = "disc"
    /\ IF s \in labelled THEN SetDisconnected(ident[s]) ELSE UNCHANGED bindVars
    /\ cstage' = [cstage EXCEPT ![s] = IF s \in cres THEN "listener" ELSE "done"]
    /\ UNCHANGED <<mgrVars, pendingRegs, portNext, sessVars, cres, admVars, bounds>>

CloseListener(s) ==
    /\ cstage[s] = "listener"
    /\ listeners' = listeners \ {s}
    /\ cstage' = [cstage EXCEPT ![s] = "rules"]
    /\ UNCHANGED <<sessions, resources, rules, pendingRegs, portNext, bindVars, sessVars, cres,
                   admVars, bounds>>

\* Proxy, rule and mapping go, then CloseByAddress drains the registry.
CloseRules(s) ==
    /\ cstage[s] = "rules"
    /\ rules' = rules \ {s}
    /\ cstage' = [cstage EXCEPT ![s] = "done"]
    /\ UNCHANGED <<sessions, resources, listeners, pendingRegs, portNext, bindVars, sessVars,
                   cres, admVars, bounds>>

-----------------------------------------------------------------------------
(* HandleControlConnection and runSession                                  *)

HandleControlConnection(s) ==
    /\ pc[s] = "out"
    /\ sessions' = sessions \cup {s}
    /\ Goto(s, "idle")
    /\ UNCHANGED <<resources, rules, listeners, pendingRegs, portNext, bindVars, ident, port, old,
                   labelled, dyn, cstage, cres, admVars, bounds>>

\* Mutant: registrations of one identity are not serialized.
AlreadyPending_Ignored(i) == FALSE

AlreadyPending(i) == i \in pendingRegs

\* handleRegister: one registration per identity at a time.
RegisterBegin(s) ==
    /\ pc[s] = "idle"
    /\ ~AlreadyPending(ident[s])
    /\ pendingRegs' = pendingRegs \cup {ident[s]}
    /\ Goto(s, "scan")
    /\ UNCHANGED <<mgrVars, portNext, bindVars, ident, port, old, labelled, dyn, cstage, cres,
                   admVars, bounds>>

RegisterInProgress(s) ==
    /\ pc[s] = "idle"
    /\ AlreadyPending(ident[s])
    /\ Goto(s, "ending")
    /\ UNCHANGED <<mgrVars, pendingRegs, portNext, bindVars, ident, port, old, labelled, dyn,
                   cstage, cres, admVars, bounds>>

\* Every error return runs the deferred delete; the client then hangs up.
Refuse(s) ==
    /\ pendingRegs' = pendingRegs \ {ident[s]}
    /\ Goto(s, "ending")

SameIdentity(s) == {o \in sessions \cap labelled : ident[o] = ident[s]}

\* closeSessionByIdentity, its scan: none, an active one, or a stale one.
ScanNone(s) ==
    /\ pc[s] = "scan"
    /\ SameIdentity(s) = {}
    /\ Goto(s, "unbind")
    /\ UNCHANGED <<mgrVars, pendingRegs, portNext, bindVars, ident, port, old, labelled, dyn,
                   cstage, cres, admVars, bounds>>

ScanActive(s) ==
    /\ pc[s] = "scan"
    /\ SameIdentity(s) # {}
    /\ Refuse(s)
    /\ UNCHANGED <<mgrVars, portNext, bindVars, ident, port, old, labelled, dyn, cstage,
                   cres, admVars, bounds>>

\* 45s without a frame: the session is certainly past its own registration.
ScanStale(s, o) ==
    /\ pc[s] = "scan"
    /\ o \in SameIdentity(s)
    /\ pc[o] \notin {"reply", "dynaddr"}
    /\ old' = [old EXCEPT ![s] = o]
    /\ Goto(s, "takeover")
    /\ UNCHANGED <<mgrVars, pendingRegs, portNext, bindVars, ident, port, labelled, dyn,
                   cstage, cres, admVars, bounds>>

\* HandleClose(oldAddr): ours, unless somebody else detached it meanwhile.
TakeoverDetach(s) ==
    /\ pc[s] = "takeover"
    /\ old[s] \in sessions
    /\ Detach(old[s])
    /\ Goto(s, "await")
    /\ UNCHANGED <<rules, listeners, pendingRegs, portNext, bindVars, ident, port, old, labelled,
                   dyn, admVars, bounds>>

TakeoverGone(s) ==
    /\ pc[s] = "takeover"
    /\ old[s] \notin sessions
    /\ Goto(s, "unbind")
    /\ UNCHANGED <<mgrVars, pendingRegs, portNext, bindVars, ident, port, old, labelled, dyn,
                   cstage, cres, admVars, bounds>>

TakeoverDone(s) ==
    /\ pc[s] = "await"
    /\ cstage[old[s]] = "done"
    /\ Goto(s, "unbind")
    /\ UNCHANGED <<mgrVars, pendingRegs, portNext, bindVars, ident, port, old, labelled, dyn,
                   cstage, cres, admVars, bounds>>

\* "Clean up stale binding for this exact (reverseID, seq)".
RegisterUnbind(s) ==
    /\ pc[s] = "unbind"
    /\ BindingRemove(ident[s])
    /\ Goto(s, "pick")
    /\ UNCHANGED <<mgrVars, pendingRegs, portNext, ident, port, old, labelled, dyn, cstage,
                   cres, admVars, bounds>>

-----------------------------------------------------------------------------
(* Port allocation                                                         *)

\* isPortAvailableLocked: no resource, no foreign binding, free in the OS.
Available(p, s) ==
    /\ \A r \in resources : port[r] # p
    /\ ~IsPortBoundByOther(p, ident[s])
    /\ \A l \in listeners : port[l] # p

Free(s) == {p \in Ports : Available(p, s)}

TakePort(s, p) ==
    /\ port' = [port EXCEPT ![s] = p]
    /\ Goto(s, "listen")
    /\ UNCHANGED <<mgrVars, pendingRegs, bindVars, ident, old, labelled, dyn, cstage, cres,
                   admVars, bounds>>

Advance(p) == portNext' = IF p = PortMax THEN 1 ELSE p + 1

\* A preferred port, if available.
PickPreferred(s, p) ==
    /\ pc[s] = "pick"
    /\ p \in Free(s)
    /\ TakePort(s, p)
    /\ UNCHANGED portNext

PickPreferredFails(s) ==
    /\ pc[s] = "pick"
    /\ Free(s) # Ports
    /\ Refuse(s)
    /\ UNCHANGED <<mgrVars, portNext, bindVars, ident, port, old, labelled, dyn, cstage,
                   cres, admVars, bounds>>

\* The persistent binding's port, if there is one and it is available.
Persistent(s) == {p \in Free(s) : bindings[ident[s]] = p}

\* Without a preferred port: the persistent one, else allocatePort goes
\* round-robin from its last position.
PickAuto(s) ==
    LET start == IF portNext = 0 THEN 1 ELSE portNext
        offset(p) == IF p >= start THEN p - start ELSE PortMax - start + p
        first == {p \in Free(s) : \A q \in Free(s) : offset(p) <= offset(q)}
    IN
    /\ pc[s] = "pick"
    /\ \E p \in IF Persistent(s) # {} THEN Persistent(s) ELSE first :
         /\ TakePort(s, p)
         /\ IF Persistent(s) # {} THEN UNCHANGED portNext ELSE Advance(p)

\* Exhausted: look for the oldest disconnected binding.
PickExhausted(s) ==
    /\ pc[s] = "pick"
    /\ Free(s) = {}
    /\ Goto(s, "reclaim")
    /\ UNCHANGED <<mgrVars, pendingRegs, portNext, bindVars, ident, port, old, labelled, dyn,
                   cstage, cres, admVars, bounds>>

\* Its identity is looked up among the session keys, which are remote
\* addresses, so the "double-check" never objects.
Reclaim(s) ==
    /\ pc[s] = "reclaim"
    /\ IF disc = <<>> THEN UNCHANGED bindVars ELSE BindingRemove(Head(disc))
    /\ Goto(s, "retry")
    /\ UNCHANGED <<mgrVars, pendingRegs, portNext, ident, port, old, labelled, dyn, cstage,
                   cres, admVars, bounds>>

RetryOk(s) ==
    /\ pc[s] = "retry"
    /\ Free(s) # {}
    /\ TakePort(s, Min(Free(s)))
    /\ Advance(Min(Free(s)))

RetryExhausted(s) ==
    /\ pc[s] = "retry"
    /\ Free(s) = {}
    /\ Refuse(s)
    /\ UNCHANGED <<mgrVars, portNext, bindVars, ident, port, old, labelled, dyn, cstage,
                   cres, admVars, bounds>>

-----------------------------------------------------------------------------
(* The rest of handleRegister                                              *)

\* The operating system gives a port to one listener.
OsFree(s) == \A l \in listeners : port[l] # port[s]

CreateListener(s) ==
    /\ pc[s] = "listen"
    /\ OsFree(s)
    /\ listeners' = listeners \cup {s}
    /\ Goto(s, "bind")
    /\ UNCHANGED <<sessions, resources, rules, pendingRegs, portNext, bindVars, ident, port, old,
                   labelled, dyn, cstage, cres, admVars, bounds>>

\* Another registration took the port since it was found available.
CreateListenerFails(s) ==
    /\ pc[s] = "listen"
    /\ ~OsFree(s)
    /\ BindingRemove(ident[s])
    /\ Refuse(s)
    /\ UNCHANGED <<mgrVars, portNext, ident, port, old, labelled, dyn, cstage, cres,
                   admVars, bounds>>

RegisterBind(s) ==
    /\ pc[s] = "bind"
    /\ Set(ident[s], port[s])
    /\ Goto(s, "install")
    /\ UNCHANGED <<mgrVars, pendingRegs, portNext, ident, port, old, labelled, dyn, cstage,
                   cres, admVars, bounds>>

\* The resource, and the identity of the session if it still exists.
RegisterInstall(s) ==
    /\ pc[s] = "install"
    /\ resources' = resources \cup {s}
    /\ labelled' = IF s \in sessions THEN labelled \cup {s} ELSE labelled
    /\ Goto(s, "rule")
    /\ UNCHANGED <<sessions, rules, listeners, pendingRegs, portNext, bindVars, ident, port, old,
                   dyn, cstage, cres, admVars, bounds>>

InsertRoutingRule(s) ==
    /\ pc[s] = "rule"
    /\ rules' = rules \cup {s}
    /\ Goto(s, "reply")
    /\ UNCHANGED <<sessions, resources, listeners, pendingRegs, portNext, bindVars, ident, port,
                   old, labelled, dyn, cstage, cres, admVars, bounds>>

\* Mutant: an early return that keeps the identity marked.
RegisterReturn_Keeps(s) ==
    /\ pc[s] = "reply"
    /\ Goto(s, "dynaddr")
    /\ UNCHANGED <<mgrVars, pendingRegs, portNext, bindVars, ident, port, old, labelled, dyn,
                   cstage, cres, admVars, bounds>>

\* The deferred delete of the in-flight mark ...
RegisterReturn(s) ==
    /\ pc[s] = "reply"
    /\ pendingRegs' = pendingRegs \ {ident[s]}
    /\ Goto(s, "dynaddr")
    /\ UNCHANGED <<mgrVars, portNext, bindVars, ident, port, old, labelled, dyn, cstage,
                   cres, admVars, bounds>>

\* ... and, back in runSession, the session's DynAddr and the reply.
SetDynAddr(s) ==
    /\ pc[s] = "dynaddr"
    /\ dyn' = dyn \cup {s}
    /\ Goto(s, "up")
    /\ UNCHANGED <<mgrVars, pendingRegs, portNext, bindVars, ident, port, old, labelled,
                   cstage, cres, admVars, bounds>>

\* The read fails: the client is gone, 60s of silence, or closed here.
SessionEnds(s) ==
    /\ pc[s] \in {"idle", "up"}
    /\ Goto(s, "ending")
    /\ UNCHANGED <<mgrVars, pendingRegs, portNext, bindVars, ident, port, old, labelled, dyn,
                   cstage, cres, admVars, bounds>>

\* The deferred HandleClose, which may find the session already detached.
EndDetach(s) ==
    /\ pc[s] = "ending"
    /\ s \in sessions
    /\ Detach(s)
    /\ Goto(s, "gone")
    /\ UNCHANGED <<rules, listeners, pendingRegs, portNext, bindVars, ident, port, old, labelled,
                   dyn, admVars, bounds>>

EndNothing(s) ==
    /\ pc[s] = "ending"
    /\ s \notin sessions
    /\ Goto(s, "gone")
    /\ UNCHANGED <<mgrVars, pendingRegs, portNext, bindVars, ident, port, old, labelled, dyn,
                   cstage, cres, admVars, bounds>>

-----------------------------------------------------------------------------
(* ForceRemoveBinding, CloseAll, crash                                     *)

\* One session and one resource of the identity are detached under the lock;
\* a second resource, the session's own, is only dropped from the map.
ForceDetach(i) ==
    LET ss == {s \in sessions \cap labelled : ident[s] = i}
        rs == {r \in resources : ident[r] = i}
    IN
    /\ apc = "idle"
    /\ forced < MaxForce
    /\ forced' = forced + 1
    /\ aid' = i
    /\ \E s \in ss \cup {NoSession}, r \in rs \cup {NoSession} :
         /\ s = NoSession => ss = {}
         /\ r = NoSession => rs = {}
         /\ sessions' = sessions \ {s}
         /\ resources' = resources \ ({r} \cup ({s} \cap dyn))
         /\ ares' = r
    /\ apc' = "listener"
    /\ UNCHANGED <<rules, listeners, pendingRegs, portNext, bindVars, sessVars, cstage, cres,
                   restarts, shutdowns>>

ForceListener ==
    /\ apc = "listener"
    /\ listeners' = listeners \ {ares}
    /\ apc' = "rules"
    /\ UNCHANGED <<sessions, resources, rules, pendingRegs, portNext, bindVars, sessVars, cstage,
                   cres, ares, aid, bounds>>

ForceRules ==
    /\ apc = "rules"
    /\ rules' = rules \ {ares}
    /\ apc' = "remove"
    /\ UNCHANGED <<sessions, resources, listeners, pendingRegs, portNext, bindVars, sessVars,
                   cstage, cres, ares, aid, bounds>>

ForceRemove ==
    /\ apc = "remove"
    /\ BindingRemove(aid)
    /\ apc' = "idle"
    /\ UNCHANGED <<mgrVars, pendingRegs, portNext, sessVars, cstage, cres, ares, aid, bounds>>

\* CloseAll, one of its HandleClose calls.
CloseAllOne(s) ==
    /\ shutdowns < MaxShutdowns
    /\ s \in sessions
    /\ Detach(s)
    /\ shutdowns' = shutdowns + 1
    /\ UNCHANGED <<rules, listeners, pendingRegs, portNext, bindVars, sessVars, admVars, forced,
                   restarts>>

\* The process dies: only the bindings survive; NewBindingStore loads them.
Restart ==
    /\ restarts < MaxRestarts
    /\ restarts' = restarts + 1
    /\ sessions' = {} /\ resources' = {} /\ rules' = {} /\ listeners' = {}
    /\ pendingRegs' = {} /\ portNext' = 0
    /\ pc' = [s \in Sessions |-> IF pc[s] = "out" THEN "out" ELSE "gone"]
    /\ labelled' = {} /\ dyn' = {} /\ cres' = {}
    /\ cstage' = [s \in Sessions |-> "none"]
    /\ apc' = "idle"
    /\ UNCHANGED <<bindVars, ident, port, old, ares, aid, forced, shutdowns>>

-----------------------------------------------------------------------------
RegisterStep(s) ==
    \/ RegisterBegin(s) \/ RegisterInProgress(s) \/ ScanNone(s) \/ ScanActive(s)
    \/ \E o \in Sessions : ScanStale(s, o)
    \/ TakeoverDetach(s) \/ TakeoverGone(s) \/ TakeoverDone(s) \/ RegisterUnbind(s)
    \/ \E p \in Ports : PickPreferred(s, p)
    \/ PickPreferredFails(s) \/ PickAuto(s) \/ PickExhausted(s) \/ Reclaim(s)
    \/ RetryOk(s) \/ RetryExhausted(s)
    \/ CreateListener(s) \/ CreateListenerFails(s) \/ RegisterBind(s) \/ RegisterInstall(s)
    \/ InsertRoutingRule(s) \/ RegisterReturn(s) \/ SetDynAddr(s)
    \/ EndDetach(s) \/ EndNothing(s)

CloseStep(s) == CloseDisconnect(s) \/ CloseListener(s) \/ CloseRules(s)

ControlNext ==
    \/ \E s \in Sessions : HandleControlConnection(s) \/ SessionEnds(s) \/ RegisterStep(s)
                           \/ CloseStep(s) \/ CloseAllOne(s)
    \/ \E i \in Idents : ForceDetach(i)
    \/ ForceListener \/ ForceRules \/ ForceRemove \/ Restart

ControlSpec == ControlInit /\ [][ControlNext]_controlVars

-----------------------------------------------------------------------------
\* The variables keep their types.
ControlTypeOK ==
    /\ sessions \cup resources \cup rules \cup listeners \cup labelled \cup dyn \cup cres
         \subseteq Sessions
    /\ pendingRegs \subseteq Idents
    /\ portNext \in 0 .. PortMax
    /\ bindings \in [Idents -> 0 .. PortMax]
    /\ disc \in Seq(Idents)
    /\ ident \in [Sessions -> Idents]
    /\ port \in [Sessions -> 0 .. PortMax]
    /\ old \in [Sessions -> Sessions \cup {NoSession}]
    /\ cstage \in [Sessions -> {"none", "disc", "listener", "rules", "done"}]
    /\ ares \in Sessions \cup {NoSession} /\ aid \in Idents

\* "simultaneous reconnects cannot both pass the stale-session check and
\* create duplicate active sessions": an identity has one session at most.
OneSessionPerIdentity ==
    \A s, t \in sessions \cap labelled : ident[s] = ident[t] => s = t

\* No two registered resources share a port, although availability is
\* checked long before the resource is recorded.
DistinctPorts == \A r, t \in resources : port[r] = port[t] => r = t

\* A session that is over and cleaned up leaves no resource, no listener and
\* no routing rule behind, however far its registration had come (unless the
\* administrator's removal or the process's shutdown cut in).
NothingLeft ==
    \A s \in Sessions :
        forced + shutdowns = 0 /\ pc[s] = "gone" /\ cstage[s] \in {"none", "done"} =>
            s \notin resources \cup listeners \cup rules

\* A connected, registered client has a binding that says so: its port, and
\* not disconnected.
BindingTracksSession ==
    \A s \in sessions : pc[s] = "up" =>
        bindings[ident[s]] = port[s] /\ ident[s] \notin ToSet(disc)

\* What a session installed is taken down once it ends, with the same
\* exceptions.
SessionCleansUp ==
    \A s \in Sessions :
        []<>(forced + shutdowns = 0 /\ pc[s] \in {"ending", "gone"} =>
                 s \notin resources \cup listeners \cup rules)

\* No identity is marked as in flight for ever: its client could never
\* register again.
PendingCleared == \A i \in Idents : []<>(i \notin pendingRegs)

\* ControlSound: no two bindings hold a port, and no two sessions speak for a client.
ControlSound == ControlTypeOK /\ DistinctPorts /\ OneSessionPerIdentity

\* ControlEnds: an ended session leaves no listener, rule or pending registration behind.
ControlEnds == []NothingLeft /\ SessionCleansUp /\ PendingCleared
=============================================================================

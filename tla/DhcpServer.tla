----------------------------- MODULE DhcpServer -----------------------------
(***************************************************************************)
(* The DHCP server of the bypass gateway (tun/dhcp_linux.go) and the leases *)
(* it keeps in the database.  One goroutine handles the messages; each     *)
(* handler changes the leases, replies and then saves, and the process may *)
(* die in between.                                                         *)
(*                                                                         *)
(* Expiry is relative: a lease has `left' ticks to go and one with 0 has   *)
(* expired.  Clients are disciplined ones: they request what they were     *)
(* offered, renew what they hold, and give it up when it expires.  A reply *)
(* may be lost.                                                            *)
(***************************************************************************)
EXTENDS Integers, FiniteSets

CONSTANTS
    Macs,
    PoolFirst, PoolLast, \* the configured pool
    Configured,  \* pool-start is configured; otherwise the pool is made up from the interface's subnet
    BindingSets, \* static bindings an administrator may set: functions from some of Macs
    LeaseTicks,  \* the lease time
    MaxRestarts

\* Addresses are numbers, the pool has one at least and a lease lasts a tick at least.
ASSUME DhcpAssumption ==
    /\ PoolFirst \in Nat /\ PoolLast \in Nat /\ PoolFirst <= PoolLast
    /\ LeaseTicks \in Nat \ {0}
    /\ \A b \in BindingSets : \A m \in DOMAIN b : b[m] \in Nat

VARIABLES
    leases,    \* mac -> [ip, left]; Macs without a lease are absent
    poolNext,
    bindings,  \* staticBindings
    saved,     \* the leases in the database
    phase,     \* of the server: "idle", "save" (replied, not saved yet), "stopping", "down", "hung"
    station,   \* mac -> [st, ip, left]: the client's own view
    reply,     \* mac -> reply on its way to it
    outcome,   \* of the last message if it was a DISCOVER: "given", "exhausted"
    excuse,    \* why two clients may have one address, see Exclusive
    restarts

dhcpVars == <<leases, poolNext, bindings, saved, phase, station, reply, outcome, excuse, restarts>>

PoolIps == PoolFirst..PoolLast
NoLease == [k \in {} |-> 0]
Live(m) == m \in DOMAIN leases /\ leases[m].left > 0
Granted(ip) == [ip |-> ip, left |-> LeaseTicks]
WithLease(m, ip) == [k \in DOMAIN leases \cup {m} |-> IF k = m THEN Granted(ip) ELSE leases[k]]
NoReply == [type |-> "none", ip |-> 0, left |-> 0]
Unbound == [st |-> "init", ip |-> 0, left |-> 0]

-----------------------------------------------------------------------------
(* allocateIP. *)

\* Mutant: an offer that was not requested yet does not count.
InUse_Requested(ip) ==
    \/ \E m \in Macs : Live(m) /\ leases[m].ip = ip /\ station[m].st = "bound"
    \/ \E m \in DOMAIN bindings : bindings[m] = ip

InUse(ip) ==
    \/ \E m \in Macs : Live(m) /\ leases[m].ip = ip
    \/ \E m \in DOMAIN bindings : bindings[m] = ip

\* advancePool; without a configured start the copy of a nil address leaves the
\* pool at its end.
AdvancePool(ip) ==
    IF ip < PoolLast THEN ip + 1 ELSE IF Configured THEN PoolFirst ELSE PoolLast

\* The addresses tried, from poolNext on and one round at most: each is AdvancePool of
\* the one before it.
Tried == [i \in 0..(PoolLast - PoolFirst) |->
    IF poolNext + i <= PoolLast THEN poolNext + i
    ELSE IF Configured THEN poolNext + i - (PoolLast - PoolFirst + 1) ELSE PoolLast]

\* The static address unless somebody else has it, then the lease the client
\* has, then the first free address of the pool.
StaticFree(m) ==
    m \in DOMAIN bindings /\ \A k \in Macs \ {m} : ~ (Live(k) /\ leases[k].ip = bindings[m])
FreeTries == {i \in DOMAIN Tried : ~ InUse(Tried[i])}

\* DISCOVER: the address is leased when it is offered.
Discover(m) ==
    /\ phase = "idle" /\ station[m].st = "init" /\ reply[m] = NoReply
    /\ \/ /\ StaticFree(m) /\ leases' = WithLease(m, bindings[m]) /\ UNCHANGED poolNext
       \/ /\ ~ StaticFree(m) /\ Live(m) /\ leases' = WithLease(m, leases[m].ip) /\ UNCHANGED poolNext
       \/ /\ ~ StaticFree(m) /\ ~ Live(m)
          /\ \E i \in FreeTries :
               /\ \A j \in FreeTries : i <= j
               /\ leases' = WithLease(m, Tried[i]) /\ poolNext' = AdvancePool(Tried[i])
    /\ reply' = [reply EXCEPT ![m] = [type |-> "offer", ip |-> leases'[m].ip, left |-> LeaseTicks]]
    /\ outcome' = "given" /\ phase' = "save"
    /\ UNCHANGED <<bindings, saved, station, excuse, restarts>>

\* No address is free.  The loop ends where it began; a pool that cannot wrap may
\* never come back there, and the handler keeps the lock for ever.
DiscoverFails(m) ==
    /\ phase = "idle" /\ station[m].st = "init" /\ reply[m] = NoReply
    /\ ~ StaticFree(m) /\ ~ Live(m) /\ FreeTries = {}
    /\ LET last == Tried[PoolLast - PoolFirst] IN
        IF AdvancePool(last) = poolNext
        THEN phase' = "idle" /\ outcome' = "exhausted"
        ELSE phase' = "hung" /\ outcome' = "none"
    /\ UNCHANGED <<leases, poolNext, bindings, saved, station, reply, excuse, restarts>>

-----------------------------------------------------------------------------
(* The other messages. *)

\* REQUEST for the address offered or held; a static binding overrides it, and
\* whatever results is leased without a look at the other leases.
Request(m) ==
    LET ip == IF m \in DOMAIN bindings THEN bindings[m] ELSE station[m].ip IN
    /\ phase = "idle" /\ station[m].st \in {"offered", "bound"} /\ reply[m] = NoReply
    /\ leases' = WithLease(m, ip)
    /\ excuse' = IF Live(m) /\ leases[m].ip # ip THEN excuse \cup {"moved"} ELSE excuse
    /\ reply' = [reply EXCEPT ![m] = [type |-> "ack", ip |-> ip, left |-> LeaseTicks]]
    /\ outcome' = "none" /\ phase' = "save"
    /\ UNCHANGED <<poolNext, bindings, saved, station, restarts>>

\* RELEASE, or DECLINE: nothing is saved.
ReleaseLease(m) ==
    /\ phase = "idle" /\ station[m].st = "bound"
    /\ leases' = [k \in DOMAIN leases \ {m} |-> leases[k]]
    /\ station' = [station EXCEPT ![m] = Unbound] /\ reply' = [reply EXCEPT ![m] = NoReply]
    /\ outcome' = "none"
    /\ UNCHANGED <<poolNext, bindings, saved, phase, excuse, restarts>>

LiveLeases == [m \in {k \in Macs : Live(k)} |-> leases[m]]

\* saveLeases, after the reply.
SaveLeases ==
    /\ phase \in {"save", "stopping"} /\ saved' = LiveLeases
    /\ phase' = IF phase = "save" THEN "idle" ELSE "down"
    /\ outcome' = "none"
    /\ UNCHANGED <<leases, poolNext, bindings, station, reply, excuse, restarts>>

\* The reply reaches the client, or not.
Receive(m) ==
    /\ reply[m] # NoReply /\ reply' = [reply EXCEPT ![m] = NoReply]
    /\ station' = [station EXCEPT ![m] =
          [st |-> IF reply[m].type = "ack" THEN "bound" ELSE "offered", ip |-> reply[m].ip, left |-> reply[m].left]]
    /\ outcome' = "none"
    /\ UNCHANGED <<leases, poolNext, bindings, saved, phase, excuse, restarts>>
LoseReply(m) ==
    /\ reply[m] # NoReply /\ reply' = [reply EXCEPT ![m] = NoReply] /\ outcome' = "none"
    /\ UNCHANGED <<leases, poolNext, bindings, saved, phase, station, excuse, restarts>>

\* A tick: leases, the copies in the database and what the clients hold grow old.
Older(l) == [l EXCEPT !.left = IF @ = 0 THEN 0 ELSE @ - 1]
Tick ==
    /\ \E m \in Macs : Live(m) \/ station[m].left > 0
    /\ leases' = [m \in DOMAIN leases |-> Older(leases[m])]
    /\ saved' = [m \in DOMAIN saved |-> Older(saved[m])]
    /\ station' = [m \in Macs |-> IF station[m].left <= 1 THEN Unbound ELSE Older(station[m])]
    /\ reply' = [m \in Macs |-> IF reply[m].left <= 1 THEN NoReply ELSE Older(reply[m])]
    /\ outcome' = "none"
    /\ UNCHANGED <<poolNext, bindings, phase, excuse, restarts>>

\* UpdateStaticBindings, from the administrator's page.
UpdateStaticBindings(b) ==
    /\ phase # "hung" /\ b # bindings /\ bindings' = b
    /\ excuse' = IF \E m \in DOMAIN b, k \in Macs : k # m /\ Live(k) /\ leases[k].ip = b[m]
                 THEN excuse \cup {"bound over"} ELSE excuse
    /\ outcome' = "none"
    /\ UNCHANGED <<leases, poolNext, saved, phase, station, reply, restarts>>

\* Stop saves and waits for the goroutine, which saves what it still handles.
StopServer ==
    /\ phase \in {"idle", "save"} /\ restarts < MaxRestarts /\ phase' = "stopping" /\ outcome' = "none"
    /\ UNCHANGED <<leases, poolNext, bindings, saved, station, reply, excuse, restarts>>

\* The process dies.
Die ==
    /\ phase \in {"idle", "save", "hung"} /\ restarts < MaxRestarts /\ phase' = "down" /\ outcome' = "none"
    /\ excuse' = IF phase = "save" THEN excuse \cup {"not saved"} ELSE excuse
    /\ UNCHANGED <<leases, poolNext, bindings, saved, station, reply, restarts>>

\* newDHCPServerImpl: loadLeases takes those that have not expired.
StartServer ==
    /\ phase = "down" /\ phase' = "idle" /\ restarts' = restarts + 1 /\ outcome' = "none"
    /\ leases' = [m \in {k \in DOMAIN saved : saved[k].left > 0} |-> saved[m]]
    /\ poolNext' = PoolFirst
    /\ UNCHANGED <<bindings, saved, station, reply, excuse>>

DhcpInit ==
    /\ leases = NoLease /\ poolNext = PoolFirst /\ bindings = NoLease /\ saved = NoLease /\ phase = "idle"
    /\ station = [m \in Macs |-> Unbound] /\ reply = [m \in Macs |-> NoReply]
    /\ outcome = "none" /\ excuse = {} /\ restarts = 0

DhcpNext ==
    \/ \E m \in Macs :
         Discover(m) \/ DiscoverFails(m) \/ Request(m) \/ ReleaseLease(m) \/ Receive(m) \/ LoseReply(m)
    \/ SaveLeases \/ Tick \/ StopServer \/ Die \/ StartServer
    \/ \E b \in BindingSets : UpdateStaticBindings(b)

DhcpSpec == DhcpInit /\ [][DhcpNext]_dhcpVars

-----------------------------------------------------------------------------
(* Properties. *)

\* Exclusive: two clients use one address only after one of three things: the
\* process died between a reply and its save, an administrator bound an address
\* that was leased to somebody else, or a REQUEST moved a client from its lease to
\* its binding, which takes no look at who has it and frees what the client still
\* uses when the acknowledgement is lost.  Renewals, lost replies, expiries, releases and
\* restarts between messages never bring it about.
Exclusive ==
    \A m, k \in Macs : m # k /\ station[m].st = "bound" /\ station[k].st = "bound" /\ station[m].ip = station[k].ip =>
        excuse # {}

\* FullMeansFull: a DISCOVER is turned down as "pool exhausted" only when every
\* address of the pool is leased or bound, and the handler never loops with the
\* lock held.
FullMeansFull ==
    /\ outcome = "exhausted" => \A ip \in PoolIps : InUse(ip)
    /\ phase # "hung"

\* Remembered: once the handler is done the database has every live lease, so a
\* restart offers no client's address to another.
Remembered == phase = "idle" => \A m \in Macs : Live(m) => m \in DOMAIN saved /\ saved[m] = leases[m]

\* DhcpSound: addresses are given once, as long as there are some, and remembered.
DhcpSound == Exclusive /\ FullMeansFull /\ Remembered
=============================================================================

----------------------------- MODULE FakeIpPool -----------------------------
(***************************************************************************)
(* The fake addresses a node gives to domains (mesh/fakeip.go) and their   *)
(* copy in the database (db/helpers.go).  An address is given in turn;     *)
(* when the pool is used up the next one is taken from its domain.  The    *)
(* copy is written key by key, each in a transaction of its own, while the *)
(* pool's lock is held; the process may die between two of them.           *)
(*                                                                         *)
(* Addresses count from 0, the network's; domains are naturals, in the     *)
(* order of the database's keys.                                           *)
(***************************************************************************)
EXTENDS Naturals, Sequences, FiniteSets, FiniteSetsExt, Functions

CONSTANTS
    Domains,     \* naturals
    PoolEnd,     \* the broadcast address
    Skip,        \* addresses 0..Skip are reserved
    MaxCrashes, MaxDbErrors

\* There is an address to give; without one the loop of Lookup would not end.
ASSUME FakeAssumption == Domains \subseteq Nat /\ Skip \in Nat /\ PoolEnd \in Nat /\ Skip + 1 < PoolEnd

VARIABLES
    domainToIP, ipToDomain, \* the maps
    nextIP,
    dbDomain, dbIp,  \* the keys "domain:" and "ip:" of the bucket
    writes,          \* transactions of the Lookup that holds the lock
    turn,            \* domain -> addresses given since its own; absent after a restart
    crashes, dbErrors

poolVars_ == <<domainToIP, ipToDomain, nextIP, dbDomain, dbIp, writes, turn, crashes, dbErrors>>

NoMap == [k \in {} |-> 0]
Put(f, k, v) == [x \in DOMAIN f \cup {k} |-> IF x = k THEN v ELSE f[x]]
Del(f, k) == [x \in DOMAIN f \ {k} |-> f[x]]

Reserved == (0..Skip) \cup {PoolEnd}
After(ip) == IF ip + 1 > PoolEnd THEN 0 ELSE ip + 1

\* NewFakeIPPoolWithSubnet.
FirstAlloc == Skip + 1

\* LoadFromDB: the entries in the order of their keys; a later one of the same
\* address replaces the earlier in ipToDomain only.  The next address is the one
\* after the highest.
Loaded(db) ==
    [d2i |-> db, i2d |-> [ip \in Range(db) |-> Max({d \in DOMAIN db : db[d] = ip})],
     next |-> After(Max({Skip} \cup Range(db)))]

FakeInit ==
    /\ domainToIP = NoMap /\ ipToDomain = NoMap /\ nextIP = FirstAlloc
    /\ dbDomain = NoMap /\ dbIp = NoMap /\ writes = <<>> /\ turn = NoMap
    /\ crashes = 0 /\ dbErrors = 0

\* The next address that is not reserved, from the start again after the end.
Free(ip) ==
    LET ahead == (ip .. PoolEnd) \ Reserved IN IF ahead # {} THEN Min(ahead) ELSE Min((0 .. PoolEnd) \ Reserved)

\* The domain that had the address loses it.
Evicted(ip) == IF ip \in DOMAIN ipToDomain THEN Del(domainToIP, ipToDomain[ip]) ELSE domainToIP

\* db.DeleteFakeIP of the old mapping, then db.PutFakeIP of the new one, each with a
\* transaction for either key.
Tx(op, key, d, ip) == [op |-> op, key |-> key, d |-> d, ip |-> ip]
DbWrites(d, ip) ==
    LET old == ipToDomain[ip] IN
    IF ip \in DOMAIN ipToDomain
    THEN <<Tx("del", "domain", old, ip), Tx("del", "ip", old, ip), Tx("put", "domain", d, ip), Tx("put", "ip", d, ip)>>
    ELSE <<Tx("put", "domain", d, ip), Tx("put", "ip", d, ip)>>

\* Mutant: the next address is not moved on.
Advance_Stuck(ip) == ip

Advance(ip) == After(ip)

\* Lookup of a domain that has no address; one that has one changes nothing.
Lookup(d) ==
    /\ writes = <<>> /\ d \notin DOMAIN domainToIP
    /\ LET ip == Free(nextIP) IN
        /\ nextIP' = Advance(ip)
        /\ domainToIP' = Put(Evicted(ip), d, ip)
        /\ ipToDomain' = Put(ipToDomain, ip, d)
        /\ writes' = DbWrites(d, ip)
        /\ turn' = Put([x \in DOMAIN turn \cap DOMAIN Evicted(ip) |-> turn[x] + 1], d, 0)
    /\ UNCHANGED <<dbDomain, dbIp, crashes, dbErrors>>

\* One transaction.
DbWrite ==
    /\ writes # <<>> /\ writes' = Tail(writes)
    /\ LET w == Head(writes) IN
        \/ w.key = "domain" /\ dbDomain' = (IF w.op = "put" THEN Put(dbDomain, w.d, w.ip) ELSE Del(dbDomain, w.d))
           /\ UNCHANGED dbIp
        \/ w.key = "ip" /\ dbIp' = (IF w.op = "put" THEN Put(dbIp, w.ip, w.d) ELSE Del(dbIp, w.ip))
           /\ UNCHANGED dbDomain
    /\ UNCHANGED <<domainToIP, ipToDomain, nextIP, turn, crashes, dbErrors>>

\* It fails: the second transaction of the same call, that of the address, is not
\* tried; the error is logged.
DbFails ==
    /\ writes # <<>> /\ dbErrors < MaxDbErrors /\ dbErrors' = dbErrors + 1
    /\ writes' = IF Head(writes).key = "domain" THEN Tail(Tail(writes)) ELSE Tail(writes)
    /\ UNCHANGED <<domainToIP, ipToDomain, nextIP, dbDomain, dbIp, turn, crashes>>

\* The process dies and starts again.
Crash ==
    /\ crashes < MaxCrashes /\ crashes' = crashes + 1
    /\ LET p == Loaded(dbDomain) IN domainToIP' = p.d2i /\ ipToDomain' = p.i2d /\ nextIP' = p.next
    /\ writes' = <<>> /\ turn' = NoMap
    /\ UNCHANGED <<dbDomain, dbIp, dbErrors>>

FakeNext == (\E d \in Domains : Lookup(d)) \/ DbWrite \/ DbFails \/ Crash

FakeSpec == FakeInit /\ [][FakeNext]_poolVars_

-----------------------------------------------------------------------------
(* Properties. *)

\* MapsAgree: the two maps are each other's inverse, so a connection to a fake
\* address reaches the domain whose name was looked up ("evict the old mapping so
\* the reverse lookup remains consistent"), also after the process died between
\* two transactions; a transaction that failed may leave a second domain with the
\* address in the database.
MapsAgree ==
    /\ \A ip \in DOMAIN ipToDomain : ipToDomain[ip] \in DOMAIN domainToIP
    /\ dbErrors = 0 => \A d \in DOMAIN domainToIP :
          domainToIP[d] \in DOMAIN ipToDomain /\ ipToDomain[domainToIP[d]] = d

\* Persisted: what has been answered is in the database, so a restart changes no
\* address; under the key of the address too, unless a crash kept it from there.
Persisted ==
    writes = <<>> /\ dbErrors = 0 =>
        /\ dbDomain = domainToIP
        /\ crashes = 0 => \A d \in DOMAIN dbDomain : dbDomain[d] \in DOMAIN dbIp /\ dbIp[dbDomain[d]] = d

\* FullTurn: within a run of the process an address is taken from its domain only
\* when every other address has been given since, so a client that keeps one for a
\* while is not misdirected.
Room == PoolEnd + 1 - Cardinality(Reserved)
FullTurn ==
    [][\A d \in DOMAIN turn : d \in DOMAIN domainToIP /\ d \notin DOMAIN domainToIP' =>
            turn[d] = Room - 1 \/ crashes' # crashes]_poolVars_

\* FakeIpRight: names and addresses agree, also after a crash, and an address stays with
\* its name for a turn of the pool.
FakeIpRight == [](MapsAgree /\ Persisted) /\ FullTurn
=============================================================================

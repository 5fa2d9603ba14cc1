----------------------------- MODULE HostProofs -----------------------------
(***************************************************************************)
(* Proofs about DhcpServer, for every set of clients, pool, lease time and *)
(* set of bindings, about TunDevice, for any number of requests and        *)
(* deaths, about FakeIpPool, for every pool and set of names, and about    *)
(* the safety of DnsForward, Watchdog and Relay.                           *)
(*                                                                         *)
(* DhcpServer.  As long as there is no excuse, live leases have different *)
(* addresses, and whatever a client uses or is on its way to it is a live  *)
(* lease that lasts at least as long.  A restart puts the saved leases in  *)
(* the place of the leases, so the same is true of them, and what is live  *)
(* is saved except between a message and its save.                         *)
(*                                                                         *)
(* TunDevice.  One caller is at work at a time, and its step says where    *)
(* the machine's own resolv.conf and parameters are and what of the device *)
(* exists.  A death keeps all that lies in files; what it leaves to be     *)
(* cleaned up the next process cleans up, unless it is one of the two      *)
(* mishaps.                                                                *)
(*                                                                         *)
(* FakeIpPool.  What is left to write says how the database differs from   *)
(* the maps, so it has no two names of one address at any crash; and the   *)
(* next address follows each name's own by the addresses given since.      *)
(*                                                                         *)
(* DnsForward.  A query is in one place, one worker's or waiting once; who *)
(* still waits has had no answer but the SERVFAIL of a worker whose write  *)
(* failed.                                                                 *)
(*                                                                         *)
(* Watchdog.  Without a signal the marker is that of a late worker, and it *)
(* stays only until a successor boots.                                     *)
(*                                                                         *)
(* Relay.  Where both ends can be half closed and nobody died no end is    *)
(* closed while copying goes on.                                           *)
(***************************************************************************)
EXTENDS DhcpServer, TunDevice, FakeIpPool, DnsForward, Watchdog, Relay, SeqLemmas

-----------------------------------------------------------------------------
(* The DHCP server: the inductive invariant. *)

Lease == [ip : Nat, left : 0..LeaseTicks]

DhcpTypeOK ==
    /\ DOMAIN leases \subseteq Macs /\ \A m \in DOMAIN leases : leases[m] \in Lease
    /\ DOMAIN saved \subseteq Macs /\ \A m \in DOMAIN saved : saved[m] \in Lease
    /\ poolNext \in PoolIps
    /\ \A m \in DOMAIN bindings : bindings[m] \in Nat
    /\ phase \in {"idle", "save", "stopping", "down", "hung"}
    /\ station \in [Macs -> [st : {"init", "offered", "bound"}, ip : Nat, left : 0..LeaseTicks]]
    /\ reply \in [Macs -> [type : {"none", "offer", "ack"}, ip : Nat, left : 0..LeaseTicks]]
    /\ \A m \in Macs : reply[m].type = "none" => reply[m] = NoReply

\* No two of these leases are live with one address.
Different(ls) ==
    \A m, k \in DOMAIN ls : m # k /\ ls[m].left > 0 /\ ls[k].left > 0 => ls[m].ip # ls[k].ip

\* Client m may count on `ip' for `left' more ticks.
Backed(m, ip, left) == left > 0 /\ m \in DOMAIN leases /\ leases[m].ip = ip /\ leases[m].left >= left

AllSaved == \A m \in Macs : Live(m) => m \in DOMAIN saved /\ saved[m] = leases[m]

\* Between messages what is live is saved.
Written == phase \in {"idle", "hung"} => AllSaved

\* Without an excuse.
Orderly ==
    excuse = {} =>
        /\ Different(leases) /\ Different(saved)
        /\ phase = "down" => AllSaved
        /\ \A m \in Macs : station[m].st # "init" => Backed(m, station[m].ip, station[m].left)
        /\ \A m \in Macs : reply[m].type # "none" => Backed(m, reply[m].ip, reply[m].left)

\* With a configured start a DISCOVER is turned down for want of addresses only, and
\* the handler comes back.
Searched ==
    Configured =>
        /\ outcome = "exhausted" => \A ip \in PoolIps : InUse(ip)
        /\ phase # "hung"

DhcpInv == DhcpTypeOK /\ Written /\ Orderly /\ Searched

-----------------------------------------------------------------------------
(* The search of the pool. *)

\* The addresses tried are those the loop of allocateIP comes to: the first is
\* poolNext and advancePool leads from each to the next.
LEMMA TriedAdvances ==
    ASSUME poolNext \in PoolIps
    PROVE  /\ Tried[0] = poolNext
           /\ \A i \in 1..(PoolLast - PoolFirst) : Tried[i] = AdvancePool(Tried[i - 1])
<1>1. Tried[0] = poolNext
  BY DhcpAssumption DEF Tried, PoolIps
<1>2. ASSUME NEW i \in 1..(PoolLast - PoolFirst) PROVE Tried[i] = AdvancePool(Tried[i - 1])
  <2>1. i \in 0..(PoolLast - PoolFirst) /\ i - 1 \in 0..(PoolLast - PoolFirst)
    BY DhcpAssumption
  <2>2. CASE poolNext + i <= PoolLast
    BY <2>1, <2>2, DhcpAssumption DEF Tried, AdvancePool, PoolIps
  <2>3. CASE poolNext + i > PoolLast
    BY <2>1, <2>3, DhcpAssumption DEF Tried, AdvancePool, PoolIps
  <2> QED
    BY <2>2, <2>3, DhcpAssumption DEF PoolIps
<1> QED
  BY <1>1, <1>2

\* They stay in the pool.
LEMMA TriedInPool ==
    ASSUME poolNext \in PoolIps, NEW i \in DOMAIN Tried
    PROVE  Tried[i] \in PoolIps /\ AdvancePool(Tried[i]) \in PoolIps
BY DhcpAssumption DEF Tried, AdvancePool, PoolIps

\* With a configured start one round tries the whole pool and ends where it began.
LEMMA TriedAll ==
    ASSUME poolNext \in PoolIps, Configured
    PROVE  /\ \A ip \in PoolIps : \E i \in DOMAIN Tried : Tried[i] = ip
           /\ AdvancePool(Tried[PoolLast - PoolFirst]) = poolNext
<1>1. ASSUME NEW ip \in PoolIps PROVE \E i \in DOMAIN Tried : Tried[i] = ip
  <2>1. CASE ip >= poolNext
    <3>1. ip - poolNext \in DOMAIN Tried /\ Tried[ip - poolNext] = ip BY <2>1, DhcpAssumption DEF Tried, PoolIps
    <3> QED BY <3>1
  <2>2. CASE ip < poolNext
    <3> DEFINE i == ip - poolNext + (PoolLast - PoolFirst + 1)
    <3>1. i \in DOMAIN Tried /\ Tried[i] = ip BY <2>2, DhcpAssumption DEF Tried, PoolIps
    <3> QED BY <3>1
  <2> QED BY <2>1, <2>2, DhcpAssumption DEF PoolIps
<1>2. AdvancePool(Tried[PoolLast - PoolFirst]) = poolNext
  BY DhcpAssumption DEF Tried, AdvancePool, PoolIps
<1> QED BY <1>1, <1>2

-----------------------------------------------------------------------------
(* The steps. *)

LEMMA DhcpInitInv == DhcpInit => DhcpInv
BY DhcpAssumption DEF DhcpInit, DhcpInv, DhcpTypeOK, Written, AllSaved, Orderly, Searched, Different, Backed, NoLease, Unbound, NoReply,
    Live, Lease, PoolIps

\* A lease that no live lease of another client contradicts keeps them different.
LEMMA WithLeaseDiffers ==
    ASSUME DhcpTypeOK, NEW m \in Macs, NEW ip \in Nat, leases' = WithLease(m, ip)
    PROVE  /\ DOMAIN leases' \subseteq Macs /\ (\A k \in DOMAIN leases' : leases'[k] \in Lease)
           /\ m \in DOMAIN leases' /\ leases'[m] = Granted(ip)
           /\ \A k \in DOMAIN leases : k # m => k \in DOMAIN leases' /\ leases'[k] = leases[k]
           /\ (Different(leases) /\ \A k \in Macs \ {m} : ~ (Live(k) /\ leases[k].ip = ip)) => Different(leases')
BY DhcpAssumption DEF DhcpTypeOK, WithLease, Granted, Lease, Different, Live

LEMMA DiscoverInv == ASSUME DhcpInv, NEW m \in Macs, Discover(m) PROVE DhcpInv'
<1>0. DhcpTypeOK BY DEF DhcpInv
<1>1. \E ip \in Nat : /\ leases' = WithLease(m, ip) /\ poolNext' \in PoolIps
                      /\ Different(leases) => \A k \in Macs \ {m} : ~ (Live(k) /\ leases[k].ip = ip)
  <2>1. CASE StaticFree(m) /\ leases' = WithLease(m, bindings[m]) /\ UNCHANGED poolNext
    BY <2>1, <1>0 DEF StaticFree, DhcpTypeOK
  <2>2. CASE Live(m) /\ leases' = WithLease(m, leases[m].ip) /\ UNCHANGED poolNext
    BY <2>2, <1>0 DEF Live, DhcpTypeOK, Different, Lease
  <2>3. ASSUME NEW i \in FreeTries, leases' = WithLease(m, Tried[i]), poolNext' = AdvancePool(Tried[i])
        PROVE  \E ip \in Nat : /\ leases' = WithLease(m, ip) /\ poolNext' \in PoolIps
                               /\ Different(leases) => \A k \in Macs \ {m} : ~ (Live(k) /\ leases[k].ip = ip)
    <3>1. i \in DOMAIN Tried /\ ~ InUse(Tried[i]) BY DEF FreeTries
    <3>2. Tried[i] \in PoolIps /\ AdvancePool(Tried[i]) \in PoolIps BY <3>1, <1>0, TriedInPool DEF DhcpTypeOK
    <3>3. Tried[i] \in Nat BY <3>2, DhcpAssumption DEF PoolIps
    <3>4. \A k \in Macs : ~ (Live(k) /\ leases[k].ip = Tried[i]) BY <3>1 DEF InUse
    <3> QED BY <2>3, <3>2, <3>3, <3>4
  <2> QED BY <2>1, <2>2, <2>3 DEF Discover
<1>2. PICK ip \in Nat : /\ leases' = WithLease(m, ip) /\ poolNext' \in PoolIps
                        /\ Different(leases) => \A k \in Macs \ {m} : ~ (Live(k) /\ leases[k].ip = ip)
  BY <1>1
<1>3. /\ DOMAIN leases' \subseteq Macs /\ (\A k \in DOMAIN leases' : leases'[k] \in Lease)
      /\ m \in DOMAIN leases' /\ leases'[m] = Granted(ip)
      /\ \A k \in DOMAIN leases : k # m => k \in DOMAIN leases' /\ leases'[k] = leases[k]
      /\ Different(leases) => Different(leases')
  BY <1>0, <1>2, WithLeaseDiffers
<1>4. DhcpTypeOK'
  BY <1>0, <1>2, <1>3, DhcpAssumption DEF Discover, DhcpTypeOK, Granted
<1>5. Orderly'
  BY <1>0, <1>3, DhcpAssumption DEF DhcpInv, Orderly, Discover, Backed, Granted, DhcpTypeOK
<1>6. Written' /\ Searched' BY DEF Discover, Written, Searched
<1> QED BY <1>4, <1>5, <1>6 DEF DhcpInv

LEMMA DiscoverFailsInv == ASSUME DhcpInv, NEW m \in Macs, DiscoverFails(m) PROVE DhcpInv'
<1>0. DhcpTypeOK BY DEF DhcpInv
<1>1. DhcpTypeOK' BY <1>0 DEF DhcpTypeOK, DiscoverFails
<1>2. Written' BY DEF DhcpInv, Written, AllSaved, Live, DiscoverFails
<1>3. Orderly' BY DEF DhcpInv, Orderly, AllSaved, Live, Backed, Different, DiscoverFails
<1>4. ASSUME Configured PROVE phase' # "hung" /\ \A ip \in PoolIps : InUse(ip)'
  <2>1. AdvancePool(Tried[PoolLast - PoolFirst]) = poolNext /\ \A ip \in PoolIps : \E i \in DOMAIN Tried : Tried[i] = ip
    BY <1>0, <1>4, TriedAll DEF DhcpTypeOK
  <2>2. \A ip \in PoolIps : InUse(ip) BY <2>1 DEF DiscoverFails, FreeTries
  <2>3. phase' # "hung" BY <2>1 DEF DiscoverFails
  <2> QED BY <2>2, <2>3 DEF InUse, Live, DiscoverFails
<1> QED BY <1>1, <1>2, <1>3, <1>4 DEF DhcpInv, Searched

\* Without an excuse the address leased is the one the client has a live lease for.
LEMMA RequestInv == ASSUME DhcpInv, NEW m \in Macs, Request(m) PROVE DhcpInv'
<1> DEFINE ip == IF m \in DOMAIN bindings THEN bindings[m] ELSE station[m].ip
<1>0. DhcpTypeOK BY DEF DhcpInv
<1>1. ip \in Nat /\ leases' = WithLease(m, ip) BY <1>0 DEF DhcpTypeOK, Request
<1>2. /\ DOMAIN leases' \subseteq Macs /\ (\A k \in DOMAIN leases' : leases'[k] \in Lease)
      /\ m \in DOMAIN leases' /\ leases'[m] = Granted(ip)
      /\ \A k \in DOMAIN leases : k # m => k \in DOMAIN leases' /\ leases'[k] = leases[k]
      /\ (Different(leases) /\ \A k \in Macs \ {m} : ~ (Live(k) /\ leases[k].ip = ip)) => Different(leases')
  <2> HIDE DEF ip
  <2> QED BY <1>0, <1>1, WithLeaseDiffers
<1>3. DhcpTypeOK'
  <2>1. reply' \in [Macs -> [type : {"none", "offer", "ack"}, ip : Nat, left : 0..LeaseTicks]]
    BY <1>0, <1>1, DhcpAssumption DEF Request, DhcpTypeOK
  <2> HIDE DEF ip
  <2> QED BY <1>0, <1>2, <2>1 DEF Request, DhcpTypeOK
<1>4. Orderly'
  <2>1. SUFFICES ASSUME excuse' = {} PROVE Orderly' BY DEF Orderly
  <2>2. excuse = {} /\ (Live(m) => leases[m].ip = ip) BY <2>1 DEF Request
  <2>3. Backed(m, station[m].ip, station[m].left) BY <2>2 DEF DhcpInv, Orderly, Request
  <2>4. Live(m) /\ leases[m].ip = ip /\ station[m].ip = ip /\ station[m].left <= LeaseTicks
    BY <2>2, <2>3, <1>0, DhcpAssumption DEF Backed, Live, DhcpTypeOK, Lease
  <2>5. reply' = [reply EXCEPT ![m] = [type |-> "ack", ip |-> ip, left |-> LeaseTicks]] /\ station' = station /\ phase' = "save" /\ saved' = saved
    BY DEF Request
  <2> HIDE DEF ip
  <2>6. Different(leases') BY <2>2, <2>4, <1>2, <1>0 DEF DhcpInv, Orderly, Different, Live, DhcpTypeOK
  <2>7. Different(saved') BY <2>2, <2>5 DEF DhcpInv, Orderly
  <2>8. ASSUME NEW k \in Macs, station[k].st # "init" PROVE Backed(k, station[k].ip, station[k].left)'
    BY <2>8, <2>2, <2>3, <2>4, <2>5, <1>2, DhcpAssumption DEF DhcpInv, Orderly, Backed, Granted
  <2>9. ASSUME NEW k \in Macs, reply'[k].type # "none" PROVE Backed(k, reply[k].ip, reply[k].left)'
    BY <2>9, <2>2, <2>4, <2>5, <1>2, <1>0, DhcpAssumption DEF DhcpInv, Orderly, Backed, Granted, DhcpTypeOK
  <2> QED BY <2>5, <2>6, <2>7, <2>8, <2>9 DEF Orderly
<1>5. Written' /\ Searched' BY DEF Request, Written, Searched
<1> QED BY <1>3, <1>4, <1>5 DEF DhcpInv

LEMMA ReleaseLeaseInv == ASSUME DhcpInv, NEW m \in Macs, ReleaseLease(m) PROVE DhcpInv'
<1>1. DhcpTypeOK' BY DhcpAssumption DEF DhcpInv, DhcpTypeOK, ReleaseLease, Unbound, NoReply
<1>2. Written' BY DEF DhcpInv, Written, AllSaved, Live, ReleaseLease
<1>3. Orderly' BY DEF DhcpInv, DhcpTypeOK, Orderly, Backed, Different, ReleaseLease, Unbound, NoReply
<1>4. Searched' BY DEF DhcpInv, Searched, ReleaseLease
<1> QED BY <1>1, <1>2, <1>3, <1>4 DEF DhcpInv

LEMMA SaveLeasesInv == ASSUME DhcpInv, SaveLeases PROVE DhcpInv'
<1>1. DhcpTypeOK' BY DEF DhcpInv, DhcpTypeOK, SaveLeases, LiveLeases, Live
<1>2. AllSaved' BY DEF DhcpInv, DhcpTypeOK, AllSaved, Live, SaveLeases, LiveLeases
<1>3. Orderly' BY <1>2 DEF DhcpInv, DhcpTypeOK, Orderly, Backed, Different, SaveLeases, LiveLeases, Live
<1>4. Searched' BY DEF DhcpInv, Searched, SaveLeases
<1> QED BY <1>1, <1>2, <1>3, <1>4 DEF DhcpInv, Written

LEMMA ReceiveInv == ASSUME DhcpInv, NEW m \in Macs, Receive(m) \/ LoseReply(m) PROVE DhcpInv'
<1>0. DhcpTypeOK BY DEF DhcpInv
<1>1. DhcpTypeOK'
  <2>1. reply' = [reply EXCEPT ![m] = NoReply] BY DEF Receive, LoseReply
  <2>2. NoReply \in [type : {"none", "offer", "ack"}, ip : Nat, left : 0..LeaseTicks] BY DhcpAssumption DEF NoReply
  <2>3. \A k \in Macs : reply'[k] = NoReply \/ reply'[k] = reply[k] BY <2>1, <1>0 DEF DhcpTypeOK
  <2>4. /\ reply' \in [Macs -> [type : {"none", "offer", "ack"}, ip : Nat, left : 0..LeaseTicks]]
        /\ \A k \in Macs : reply'[k].type = "none" => reply'[k] = NoReply
    BY <2>1, <2>2, <2>3, <1>0 DEF DhcpTypeOK
  <2>5. station' \in [Macs -> [st : {"init", "offered", "bound"}, ip : Nat, left : 0..LeaseTicks]]
    BY <1>0 DEF DhcpTypeOK, Receive, LoseReply
  <2> QED BY <2>4, <2>5, <1>0 DEF DhcpTypeOK, Receive, LoseReply
<1>2. Written' BY DEF DhcpInv, Written, AllSaved, Live, Receive, LoseReply
<1>3. Orderly'
  <2>1. reply[m].type # "none" BY <1>0 DEF DhcpTypeOK, Receive, LoseReply
  <2>2. leases' = leases /\ saved' = saved /\ phase' = phase /\ excuse' = excuse BY DEF Receive, LoseReply
  <2>3. SUFFICES ASSUME excuse = {} PROVE Orderly' BY <2>2 DEF Orderly
  <2>4. ASSUME NEW k \in Macs, station'[k].st # "init" PROVE Backed(k, station'[k].ip, station'[k].left)
    <3>1. CASE Receive(m) /\ k = m
      BY <3>1, <2>1, <2>3, <1>0 DEF DhcpInv, Orderly, Receive, DhcpTypeOK
    <3>2. CASE station'[k] = station[k] BY <3>2, <2>3, <2>4 DEF DhcpInv, Orderly
    <3> QED BY <3>1, <3>2, <1>0 DEF Receive, LoseReply, DhcpTypeOK
  <2>5. ASSUME NEW k \in Macs, reply'[k].type # "none" PROVE Backed(k, reply'[k].ip, reply'[k].left)
    <3>1. reply' = [reply EXCEPT ![m] = NoReply] /\ NoReply.type = "none" BY DEF Receive, LoseReply, NoReply
    <3>2. reply'[k] = reply[k] BY <3>1, <2>5, <1>0 DEF DhcpTypeOK
    <3> QED BY <3>2, <2>5, <2>3 DEF DhcpInv, Orderly
  <2> QED BY <2>2, <2>3, <2>4, <2>5 DEF DhcpInv, Orderly, Backed, Different, AllSaved, Live
<1>4. Searched' BY DEF DhcpInv, Searched, Receive, LoseReply
<1> QED BY <1>1, <1>2, <1>3, <1>4 DEF DhcpInv

\* Everything grows old together.
LEMMA TickInv == ASSUME DhcpInv, Tick PROVE DhcpInv'
<1>0. DhcpTypeOK BY DEF DhcpInv
<1>1. ASSUME NEW l \in Lease
      PROVE  Older(l) \in Lease /\ Older(l).ip = l.ip /\ Older(l).left = IF l.left = 0 THEN 0 ELSE l.left - 1
  BY DhcpAssumption DEF Older, Lease
<1>2. /\ DOMAIN leases' = DOMAIN leases /\ \A m \in DOMAIN leases : leases'[m] = Older(leases[m])
      /\ DOMAIN saved' = DOMAIN saved /\ \A m \in DOMAIN saved : saved'[m] = Older(saved[m])
  BY DEF Tick
<1>3. ASSUME NEW m \in Macs
      PROVE  \/ station[m].left <= 1 /\ station'[m] = Unbound
             \/ /\ station[m].left > 1 /\ station'[m] \in [st : {"init", "offered", "bound"}, ip : Nat, left : 0..LeaseTicks]
                /\ station'[m].st = station[m].st /\ station'[m].ip = station[m].ip /\ station'[m].left = station[m].left - 1
  <2>1. station'[m] = IF station[m].left <= 1 THEN Unbound ELSE Older(station[m]) BY DEF Tick
  <2>2. station[m] \in [st : {"init", "offered", "bound"}, ip : Nat, left : 0..LeaseTicks] BY <1>0 DEF DhcpTypeOK
  <2>3. CASE station[m].left <= 1 BY <2>1, <2>3
  <2>4. CASE ~ (station[m].left <= 1)
    <3>1. station'[m] = [st |-> station[m].st, ip |-> station[m].ip, left |-> station[m].left - 1]
      BY <2>1, <2>2, <2>4, DhcpAssumption DEF Older
    <3>2. station[m].left > 1 /\ station[m].left - 1 \in 0..LeaseTicks BY <2>2, <2>4, DhcpAssumption
    <3> QED BY <3>1, <3>2, <2>2
  <2> QED BY <2>3, <2>4
<1>4. ASSUME NEW m \in Macs
      PROVE  \/ reply[m].left <= 1 /\ reply'[m] = NoReply
             \/ /\ reply[m].left > 1 /\ reply'[m] \in [type : {"none", "offer", "ack"}, ip : Nat, left : 0..LeaseTicks]
                /\ reply'[m].type = reply[m].type /\ reply'[m].ip = reply[m].ip /\ reply'[m].left = reply[m].left - 1
  <2>1. reply'[m] = IF reply[m].left <= 1 THEN NoReply ELSE Older(reply[m]) BY DEF Tick
  <2>2. reply[m] \in [type : {"none", "offer", "ack"}, ip : Nat, left : 0..LeaseTicks] BY <1>0 DEF DhcpTypeOK
  <2>3. CASE reply[m].left <= 1 BY <2>1, <2>3
  <2>4. CASE ~ (reply[m].left <= 1)
    <3>1. reply'[m] = [type |-> reply[m].type, ip |-> reply[m].ip, left |-> reply[m].left - 1]
      BY <2>1, <2>2, <2>4, DhcpAssumption DEF Older
    <3>2. reply[m].left > 1 /\ reply[m].left - 1 \in 0..LeaseTicks BY <2>2, <2>4, DhcpAssumption
    <3> QED BY <3>1, <3>2, <2>2
  <2> QED BY <2>3, <2>4
<1>5. DhcpTypeOK'
  <2>1. station' \in [Macs -> [st : {"init", "offered", "bound"}, ip : Nat, left : 0..LeaseTicks]]
    BY <1>3, DhcpAssumption DEF Tick, Unbound
  <2>2. reply' \in [Macs -> [type : {"none", "offer", "ack"}, ip : Nat, left : 0..LeaseTicks]]
    BY <1>4, DhcpAssumption DEF Tick, NoReply
  <2>3. ASSUME NEW m \in Macs, reply'[m].type = "none" PROVE reply'[m] = NoReply
    <3>1. reply[m].type = "none" => reply[m].left = 0 BY <1>0 DEF DhcpTypeOK, NoReply
    <3> QED BY <3>1, <2>3, <1>4
  <2> QED BY <2>1, <2>2, <2>3, <1>0, <1>1, <1>2 DEF DhcpTypeOK, Tick
<1>6. AllSaved => AllSaved'
  <2>1. ASSUME NEW m \in Macs, Live(m)' PROVE Live(m)
    BY <2>1, <1>0, <1>1, <1>2 DEF Live, DhcpTypeOK, Lease
  <2> QED BY <2>1, <1>2 DEF AllSaved, Live
<1>7. Orderly'
  <2>1. SUFFICES ASSUME excuse = {} PROVE Orderly' BY DEF Tick, Orderly
  <2>2. Different(leases') BY <2>1, <1>0, <1>1, <1>2 DEF DhcpInv, Orderly, Different, DhcpTypeOK, Lease
  <2>3. Different(saved') BY <2>1, <1>0, <1>1, <1>2 DEF DhcpInv, Orderly, Different, DhcpTypeOK, Lease
  <2>4. ASSUME NEW m \in Macs, NEW ip, NEW left \in Nat, Backed(m, ip, left), left > 1 PROVE Backed(m, ip, left - 1)'
    BY <2>4, <1>0, <1>1, <1>2 DEF Backed, DhcpTypeOK, Lease
  <2>5. ASSUME NEW m \in Macs, station'[m].st # "init" PROVE Backed(m, station[m].ip, station[m].left)'
    <3>1. station[m].left \in Nat BY <1>0, DhcpAssumption DEF DhcpTypeOK
    <3>2. /\ station[m].left > 1 /\ station[m].st # "init"
          /\ station'[m].ip = station[m].ip /\ station'[m].left = station[m].left - 1
      BY <2>5, <1>3 DEF Unbound
    <3> QED BY <3>1, <3>2, <2>1, <2>4 DEF DhcpInv, Orderly, Backed
  <2>6. ASSUME NEW m \in Macs, reply'[m].type # "none" PROVE Backed(m, reply[m].ip, reply[m].left)'
    <3>1. reply[m].left \in Nat BY <1>0, DhcpAssumption DEF DhcpTypeOK
    <3>2. /\ reply[m].left > 1 /\ reply[m].type # "none"
          /\ reply'[m].ip = reply[m].ip /\ reply'[m].left = reply[m].left - 1
      BY <2>6, <1>4 DEF NoReply
    <3> QED BY <3>1, <3>2, <2>1, <2>4 DEF DhcpInv, Orderly, Backed
  <2> QED BY <2>1, <2>2, <2>3, <2>5, <2>6, <1>6 DEF DhcpInv, Orderly, Tick
<1>8. Written' /\ Searched' BY <1>6 DEF DhcpInv, Written, Searched, Tick
<1> QED BY <1>5, <1>7, <1>8 DEF DhcpInv

LEMMA UpdateStaticBindingsInv == ASSUME DhcpInv, NEW b \in BindingSets, UpdateStaticBindings(b) PROVE DhcpInv'
<1>1. DhcpTypeOK' BY DhcpAssumption DEF DhcpInv, DhcpTypeOK, UpdateStaticBindings
<1>2. Written' BY DEF DhcpInv, Written, AllSaved, Live, UpdateStaticBindings
<1>3. excuse' = {} => excuse = {} BY DEF UpdateStaticBindings
<1>4. Orderly' BY <1>3 DEF DhcpInv, Orderly, AllSaved, Live, Backed, UpdateStaticBindings
<1>5. Searched' BY DEF DhcpInv, Searched, UpdateStaticBindings
<1> QED BY <1>1, <1>2, <1>4, <1>5 DEF DhcpInv

LEMMA StopServerInv == ASSUME DhcpInv, StopServer PROVE DhcpInv'
<1>1. DhcpTypeOK' BY DEF DhcpInv, DhcpTypeOK, StopServer
<1>2. Orderly' BY DEF DhcpInv, Orderly, AllSaved, Live, Backed, StopServer
<1>3. Written' /\ Searched' BY DEF Written, Searched, StopServer
<1> QED BY <1>1, <1>2, <1>3 DEF DhcpInv

LEMMA DieInv == ASSUME DhcpInv, Die PROVE DhcpInv'
<1>1. DhcpTypeOK' BY DEF DhcpInv, DhcpTypeOK, Die
<1>2. excuse' = {} => excuse = {} /\ phase # "save" BY DEF Die
<1>3. Orderly' BY <1>2 DEF DhcpInv, Written, Orderly, AllSaved, Live, Backed, Die
<1>4. Written' /\ Searched' BY DEF Written, Searched, Die
<1> QED BY <1>1, <1>3, <1>4 DEF DhcpInv

\* The saved leases take the place of the leases.
LEMMA StartServerInv == ASSUME DhcpInv, StartServer PROVE DhcpInv'
<1>0. DhcpTypeOK BY DEF DhcpInv
<1>1. DhcpTypeOK' BY <1>0, DhcpAssumption DEF DhcpTypeOK, StartServer, PoolIps
<1>2. AllSaved' BY DEF StartServer, AllSaved, Live
<1>3. ASSUME AllSaved, NEW m \in Macs, NEW ip, NEW left \in Nat, Backed(m, ip, left) PROVE Backed(m, ip, left)'
  <2>1. Live(m) BY <1>3, <1>0 DEF Backed, Live, DhcpTypeOK, Lease
  <2>2. m \in DOMAIN leases' /\ leases'[m] = leases[m] BY <2>1, <1>3 DEF AllSaved, StartServer, Live
  <2> QED BY <2>2, <1>3 DEF Backed
<1>4. Orderly'
  <2>1. SUFFICES ASSUME excuse = {} PROVE Orderly' BY DEF StartServer, Orderly
  <2>2. AllSaved /\ Different(saved) BY <2>1 DEF DhcpInv, Orderly, StartServer
  <2>3. Different(leases') /\ Different(saved') BY <2>2 DEF Different, StartServer
  <2>4. \A m \in Macs : station[m].left \in Nat /\ reply[m].left \in Nat BY <1>0, DhcpAssumption DEF DhcpTypeOK
  <2>5. station' = station /\ reply' = reply /\ phase' = "idle" BY DEF StartServer
  <2>6. ASSUME NEW m \in Macs, station[m].st # "init" PROVE Backed(m, station[m].ip, station[m].left)'
    BY <2>1, <2>2, <2>4, <2>5, <2>6, <1>3 DEF DhcpInv, Orderly, Backed
  <2>7. ASSUME NEW m \in Macs, reply[m].type # "none" PROVE Backed(m, reply[m].ip, reply[m].left)'
    BY <2>1, <2>2, <2>4, <2>5, <2>7, <1>3 DEF DhcpInv, Orderly, Backed
  <2> QED BY <2>3, <2>5, <2>6, <2>7 DEF Orderly
<1>5. Written' /\ Searched' BY <1>2 DEF Written, Searched, StartServer
<1> QED BY <1>1, <1>4, <1>5 DEF DhcpInv

LEMMA DhcpStep == DhcpInv /\ [DhcpNext]_dhcpVars => DhcpInv'
<1> SUFFICES ASSUME DhcpInv, [DhcpNext]_dhcpVars PROVE DhcpInv' OBVIOUS
<1>1. CASE DhcpNext
  BY <1>1, DiscoverInv, DiscoverFailsInv, RequestInv, ReleaseLeaseInv, SaveLeasesInv, ReceiveInv, TickInv,
     UpdateStaticBindingsInv, StopServerInv, DieInv, StartServerInv DEF DhcpNext
<1>2. CASE UNCHANGED dhcpVars
  <2>1. DhcpTypeOK' BY <1>2 DEF dhcpVars, DhcpInv, DhcpTypeOK
  <2>2. Written' /\ Orderly' BY <1>2 DEF dhcpVars, DhcpInv, Written, Orderly, AllSaved, Live, Backed
  <2>3. Searched' BY <1>2 DEF dhcpVars, DhcpInv, Searched, InUse, Live
  <2> QED BY <2>1, <2>2, <2>3 DEF DhcpInv
<1> QED BY <1>1, <1>2

-----------------------------------------------------------------------------
(* The theorems. *)

\* Two clients that both believe to hold a lease have the same address.
LEMMA DhcpInvExclusive == DhcpInv => Exclusive
BY DEF DhcpInv, DhcpTypeOK, Lease, Orderly, Exclusive, Backed, Different

\* Whatever the pool, made up or configured: without one of the three excuses no two
\* clients use one address, through lost replies, renewals, expiries, releases, changes
\* of bindings and restarts; and between messages every live lease is in the database.
THEOREM AddressesAreExclusive == DhcpSpec => [](Exclusive /\ Remembered)
<1>1. DhcpInv => Exclusive /\ Remembered BY DhcpInvExclusive DEF DhcpInv, Written, AllSaved, Remembered
<1> QED BY <1>1, DhcpInitInv, DhcpStep, PTL DEF DhcpSpec

\* With a configured pool-start, moreover, a DISCOVER is turned down only when every
\* address of the pool is leased or bound, and allocateIP never loops for ever.
THEOREM DhcpIsSound == ASSUME Configured PROVE DhcpSpec => []DhcpSound
<1>1. DhcpInv => DhcpSound
  BY DhcpInvExclusive DEF DhcpInv, Written, AllSaved, Remembered, Searched, FullMeansFull, DhcpSound
<1> QED BY <1>1, DhcpInitInv, DhcpStep, PTL DEF DhcpSpec

-----------------------------------------------------------------------------
(* The TUN device: the inductive invariant. *)

StartSteps == {"begin", "unlink", "params", "device", "relax", "save", "routes", "rules", "run", "backup", "redirect", "record"}
StopSteps == {"begin", "restore", "forget", "teardown", "close", "wait", "record"}

Position == {Resting} \cup [op : {"start"}, at : StartSteps] \cup [op : {"stop"}, at : StopSteps]

\* A caller between two operations of the device, or at none.
Idle == {"rest", "begin", "record"}
Settled == \A c \in Callers : job[c].at \in Idle

TunTypes ==
    /\ os \in [resolv : {"orig", "tun"}, bak : {"none", "orig"}, link : {"orig"}, forward : Nat, rp : Nat,
               file : [forward : Nat, rp : Nat, present : BOOLEAN], rules : BOOLEAN, split : BOOLEAN, dev : BOOLEAN]
    /\ mgr \in [running : BOOLEAN, dev : BOOLEAN, bind : BOOLEAN, forward : Nat, rp : Nat, applied : BOOLEAN]
    /\ alive \in BOOLEAN /\ enabled \in BOOLEAN /\ reader \in {"off", "read"}
    /\ job \in [Callers -> Position]

\* One caller at a time; startEngine starts the device before any request is served,
\* and only when the setting says so; a dead process holds nothing.
Turns ==
    /\ \A c, d \in Callers : job[c] # Resting /\ job[d] # Resting => c = d
    /\ job[0] # Resting => enabled /\ job[0].op = "start" /\ job[0].at # "record"
    /\ job[0].at = "begin" => ~ mgr.running
    /\ ~ alive => mgr = Stopped /\ reader = "off" /\ \A c \in Callers : job[c] = Resting

\* What the device is at each step of the caller at work.
DeviceAt ==
    /\ mgr.bind = mgr.running
    /\ mgr.running => reader = "read" /\ os.dev /\ os.split /\ mgr.dev /\ mgr.applied
    /\ Settled /\ ~ mgr.running => ~ os.dev /\ ~ os.split /\ ~ mgr.dev /\ reader = "off"
    /\ \A c \in Callers :
        /\ job[c].at \in {"unlink", "params", "device"} => ~ mgr.running /\ ~ os.dev /\ ~ os.split /\ ~ mgr.dev /\ reader = "off"
        /\ job[c].at \in {"relax", "save", "routes", "rules", "run"} => ~ mgr.running /\ os.dev /\ mgr.dev /\ reader = "off"
        /\ job[c].at \in {"rules", "run"} => os.split
        /\ job[c].at = "run" => mgr.applied
        /\ job[c].at \in {"restore", "forget", "teardown"} => ~ mgr.running /\ mgr.dev /\ mgr.applied
        /\ job[c].at \in {"close", "wait"} => ~ mgr.running /\ ~ os.split
        /\ job[c].at = "wait" => ~ mgr.dev /\ os.dev = (reader = "read")
        /\ job[c].at \in {"backup", "redirect"} => mgr.running
        /\ job[c].at = "record" => mgr.running = (job[c].op = "start")

\* A running device is the saved setting, or its start is about to be recorded.
Recorded ==
    mgr.running => enabled \/ \E c \in Callers : job[c].op = "start" /\ job[c].at \in {"backup", "redirect", "record"}

\* Where the machine's own resolv.conf is.
ResolverAt ==
    /\ os.resolv = "orig" \/ os.bak = "orig"
    /\ \A c \in Callers :
        /\ job[c].at \in {"unlink", "forget", "teardown", "close", "wait"} => os.resolv = "orig"
        /\ job[c].at \in {"params", "device", "relax", "save", "routes", "rules", "run", "backup"} =>
              os.resolv = "orig" /\ os.bak = "none"
        /\ job[c].at = "redirect" => os.resolv = "orig" /\ os.bak = "orig"

ParamsOrig == os.forward = OrigForward /\ os.rp = OrigRpFilter
FileOrig == os.file = [forward |-> OrigForward, rp |-> OrigRpFilter, present |-> TRUE]
MgrOrig == mgr.forward = OrigForward /\ mgr.rp = OrigRpFilter

\* Where the kernel's own parameters are: in place, in the state file or, between the
\* change and the save, with the manager only.
ParamsAt ==
    mishap = {} =>
        /\ os.file = NoFile \/ FileOrig
        /\ os.rules => FileOrig
        /\ ParamsOrig \/ FileOrig \/ \E c \in Callers : job[c].at = "save"
        /\ mgr.running => FileOrig /\ MgrOrig
        /\ \A c \in Callers :
            /\ job[c].at \in {"device", "relax"} => ParamsOrig /\ ~ os.rules
            /\ job[c].at = "save" => MgrOrig /\ ~ os.rules
            /\ job[c].at \in {"routes", "rules"} => MgrOrig /\ FileOrig /\ ~ os.rules
            /\ job[c].at \in {"run", "restore", "forget", "teardown"} => MgrOrig /\ FileOrig
            /\ job[c].at \in {"close", "wait"} => ParamsOrig /\ ~ os.rules

\* With the device off the machine is itself, or the next process will clean it up.
CleanAt ==
    mishap = {} /\ Settled /\ ~ mgr.running /\ (enabled => alive /\ job[0].at # "begin") =>
        os.resolv = "orig" /\ ~ os.rules

TunInv == TunTypes /\ Turns /\ DeviceAt /\ Recorded /\ ResolverAt /\ ParamsAt /\ CleanAt

\* One administrator at a time, as a gateway, on a machine without a DNS manager.
Plain == Bypass = TRUE /\ DnsMethod = "resolvconf" /\ \A a, b \in Togglers : a = b

-----------------------------------------------------------------------------
(* One lemma per action.  In each <1>j says that the other callers rest, before
   and after: the rest of the lemma is about the step c has left and the one it
   is at now. *)

USE DEF At, Goto, Done, Plain, Resting, Stopped, NoFile, Reverted, RememberedParams

LEMMA AlreadyKeeps == ASSUME Plain, TunInv, NEW c \in Callers, Already(c) PROVE TunInv'
<1> USE DEF TunInv, TunTypes, Turns, Already
<1>j. job' \in [Callers -> Position] /\ \A d \in Callers : d # c => job[d] = Resting /\ job'[d] = Resting
  BY DEF Position, StartSteps, StopSteps, Callers
<1>1. TunTypes' BY <1>j, TunAssumption
<1>2. Turns' BY <1>j DEF Callers, DeviceAt
<1>3. DeviceAt' BY <1>j DEF DeviceAt, Settled, Idle, Position, StartSteps, StopSteps
<1>4. Recorded' /\ ResolverAt' BY <1>j DEF DeviceAt, Recorded, ResolverAt
<1>5. ParamsAt' BY <1>j DEF DeviceAt, ParamsAt, ParamsOrig, FileOrig, MgrOrig
<1>6. CleanAt' BY <1>j DEF DeviceAt, ResolverAt, ParamsAt, CleanAt, Settled, Idle
<1> QED BY <1>1, <1>2, <1>3, <1>4, <1>5, <1>6

LEMMA RecordKeeps == ASSUME Plain, TunInv, NEW c \in Callers, Record(c) PROVE TunInv'
<1> USE DEF TunInv, TunTypes, Turns, Record
<1>j. job' \in [Callers -> Position] /\ \A d \in Callers : d # c => job[d] = Resting /\ job'[d] = Resting
  BY DEF Position, StartSteps, StopSteps, Callers
<1>1. TunTypes' BY <1>j, TunAssumption
<1>2. Turns' BY <1>j DEF Callers, DeviceAt
<1>3. DeviceAt' BY <1>j DEF DeviceAt, Settled, Idle, Position, StartSteps, StopSteps
<1>4. Recorded' /\ ResolverAt' BY <1>j DEF DeviceAt, Recorded, ResolverAt
<1>5. ParamsAt' BY <1>j DEF DeviceAt, ParamsAt, ParamsOrig, FileOrig, MgrOrig
<1>6. CleanAt'
  <2>1. CASE job[c].op = "start" BY <2>1, <1>j DEF DeviceAt, CleanAt
  <2>2. CASE job[c].op = "stop"
    <3>1. c # 0 /\ job[0].at = "rest" /\ Settled BY <2>2, <1>j DEF Settled, Idle, Callers
    <3> QED BY <2>2, <3>1, <1>j DEF DeviceAt, CleanAt, Settled, Idle
  <2> QED BY <2>1, <2>2 DEF Position
<1> QED BY <1>1, <1>2, <1>3, <1>4, <1>5, <1>6

LEMMA CleanDnsKeeps == ASSUME Plain, TunInv, NEW c \in Callers, CleanDns(c) PROVE TunInv'
<1> USE DEF TunInv, TunTypes, Turns, CleanDns
<1>j. job' \in [Callers -> Position] /\ \A d \in Callers : d # c => job[d] = Resting /\ job'[d] = Resting
  BY DEF Position, StartSteps, StopSteps, Callers
<1>1. TunTypes' BY <1>j, TunAssumption
<1>2. Turns' BY <1>j DEF Callers, DeviceAt
<1>3. DeviceAt' BY <1>j DEF DeviceAt, Settled, Idle, Position, StartSteps, StopSteps
<1>4. Recorded' /\ ResolverAt' BY <1>j DEF DeviceAt, Recorded, ResolverAt
<1>5. ParamsAt' BY <1>j DEF DeviceAt, ParamsAt, ParamsOrig, FileOrig, MgrOrig
<1>6. CleanAt' BY <1>j DEF DeviceAt, ResolverAt, ParamsAt, CleanAt, Settled, Idle
<1> QED BY <1>1, <1>2, <1>3, <1>4, <1>5, <1>6

LEMMA CleanBackupKeeps == ASSUME Plain, TunInv, NEW c \in Callers, CleanBackup(c) PROVE TunInv'
<1> USE DEF TunInv, TunTypes, Turns, CleanBackup
<1>j. job' \in [Callers -> Position] /\ \A d \in Callers : d # c => job[d] = Resting /\ job'[d] = Resting
  BY DEF Position, StartSteps, StopSteps, Callers
<1>1. TunTypes' BY <1>j, TunAssumption
<1>2. Turns' BY <1>j DEF Callers, DeviceAt
<1>3. DeviceAt' BY <1>j DEF DeviceAt, Settled, Idle, Position, StartSteps, StopSteps
<1>4. Recorded' /\ ResolverAt' BY <1>j DEF DeviceAt, Recorded, ResolverAt
<1>5. ParamsAt' BY <1>j DEF DeviceAt, ParamsAt, ParamsOrig, FileOrig, MgrOrig
<1>6. CleanAt' BY <1>j DEF DeviceAt, ResolverAt, ParamsAt, CleanAt, Settled, Idle
<1> QED BY <1>1, <1>2, <1>3, <1>4, <1>5, <1>6

LEMMA CleanParamsKeeps == ASSUME Plain, TunInv, NEW c \in Callers, CleanParams(c) PROVE TunInv'
<1> USE DEF TunInv, TunTypes, Turns, CleanParams
<1>j. job' \in [Callers -> Position] /\ \A d \in Callers : d # c => job[d] = Resting /\ job'[d] = Resting
  BY DEF Position, StartSteps, StopSteps, Callers
<1>1. TunTypes' BY <1>j, TunAssumption
<1>2. Turns' BY <1>j DEF Callers, DeviceAt
<1>3. DeviceAt' BY <1>j DEF DeviceAt, Settled, Idle, Position, StartSteps, StopSteps
<1>4. Recorded' /\ ResolverAt' BY <1>j DEF DeviceAt, Recorded, ResolverAt
<1>5. ParamsAt'
  <2>1. ASSUME mishap = {}
        PROVE  ParamsOrig' /\ os'.rules = FALSE /\ os'.file = NoFile
    <3>1. os.file = NoFile \/ FileOrig BY <2>1 DEF ParamsAt
    <3>2. CASE FileOrig BY <3>2 DEF ParamsOrig, FileOrig
    <3>3. CASE os.file = NoFile
      <4>1. ~ FileOrig /\ \A d \in Callers : job[d].at # "save" BY <3>3, <1>j DEF FileOrig
      <4>2. ParamsOrig /\ os.rules = FALSE BY <2>1, <4>1 DEF ParamsAt
      <4> QED BY <3>3, <4>2 DEF ParamsOrig
    <3> QED BY <3>1, <3>2, <3>3
  <2>2. \A d \in Callers : job'[d].at \in {"rest", "device"} BY <1>j
  <2>3. mgr.running = FALSE /\ mgr' = mgr /\ mishap' = mishap BY DEF DeviceAt
  <2> QED BY ONLY <2>1, <2>2, <2>3 DEF ParamsAt, ParamsOrig, FileOrig, MgrOrig
<1>6. CleanAt' BY <1>j DEF DeviceAt, ResolverAt, ParamsAt, CleanAt, Settled, Idle
<1> QED BY <1>1, <1>2, <1>3, <1>4, <1>5, <1>6

LEMMA CreateDeviceKeeps == ASSUME Plain, TunInv, NEW c \in Callers, CreateDevice(c) PROVE TunInv'
<1> USE DEF TunInv, TunTypes, Turns, CreateDevice
<1>j. job' \in [Callers -> Position] /\ \A d \in Callers : d # c => job[d] = Resting /\ job'[d] = Resting
  BY DEF Position, StartSteps, StopSteps, Callers
<1>1. TunTypes' BY <1>j, TunAssumption
<1>2. Turns' BY <1>j DEF Callers, DeviceAt
<1>3. DeviceAt'
  <2>1. mgr'.running = FALSE /\ mgr'.dev = TRUE /\ mgr'.bind = FALSE /\ os'.dev = TRUE /\ os'.split = os.split /\ reader' = "off"
    BY DEF DeviceAt
  <2>2. \A d \in Callers : job'[d].at \in {"rest", "relax"} BY <1>j
  <2>3. job'[c].at = "relax" OBVIOUS
  <2> QED BY ONLY <1>j, <2>1, <2>2, <2>3 DEF DeviceAt, Settled, Idle
<1>4. Recorded' /\ ResolverAt' BY <1>j DEF DeviceAt, Recorded, ResolverAt
<1>5. ParamsAt' BY <1>j DEF DeviceAt, ParamsAt, ParamsOrig, FileOrig, MgrOrig
<1>6. CleanAt' BY <1>j DEF DeviceAt, ResolverAt, ParamsAt, CleanAt, Settled, Idle
<1> QED BY <1>1, <1>2, <1>3, <1>4, <1>5, <1>6

LEMMA CreateFailsKeeps == ASSUME Plain, TunInv, NEW c \in Callers, CreateFails(c) PROVE TunInv'
<1> USE DEF TunInv, TunTypes, Turns, CreateFails
<1>j. job' \in [Callers -> Position] /\ \A d \in Callers : d # c => job[d] = Resting /\ job'[d] = Resting
  BY DEF Position, StartSteps, StopSteps, Callers
<1>1. TunTypes' BY <1>j, TunAssumption
<1>2. Turns' BY <1>j DEF Callers, DeviceAt
<1>3. DeviceAt' BY <1>j DEF DeviceAt, Settled, Idle, Position, StartSteps, StopSteps
<1>4. Recorded' /\ ResolverAt' BY <1>j DEF DeviceAt, Recorded, ResolverAt
<1>5. ParamsAt' BY <1>j DEF DeviceAt, ParamsAt, ParamsOrig, FileOrig, MgrOrig
<1>6. CleanAt' BY <1>j DEF DeviceAt, ResolverAt, ParamsAt, CleanAt, Settled, Idle
<1> QED BY <1>1, <1>2, <1>3, <1>4, <1>5, <1>6

LEMMA RelaxKeeps == ASSUME Plain, TunInv, NEW c \in Callers, Relax(c) PROVE TunInv'
<1> USE DEF TunInv, TunTypes, Turns, Relax
<1>j. job' \in [Callers -> Position] /\ \A d \in Callers : d # c => job[d] = Resting /\ job'[d] = Resting
  BY DEF Position, StartSteps, StopSteps, Callers
<1>1. TunTypes' BY <1>j, TunAssumption
<1>2. Turns' BY <1>j DEF Callers, DeviceAt
<1>3. DeviceAt' BY <1>j DEF DeviceAt, Settled, Idle, Position, StartSteps, StopSteps
<1>4. Recorded' /\ ResolverAt' BY <1>j DEF DeviceAt, Recorded, ResolverAt
<1>5. ParamsAt' BY <1>j DEF DeviceAt, ParamsAt, ParamsOrig, FileOrig, MgrOrig
<1>6. CleanAt' BY <1>j DEF DeviceAt, ResolverAt, ParamsAt, CleanAt, Settled, Idle
<1> QED BY <1>1, <1>2, <1>3, <1>4, <1>5, <1>6

LEMMA SaveStateKeeps == ASSUME Plain, TunInv, NEW c \in Callers, SaveState(c) PROVE TunInv'
<1> USE DEF TunInv, TunTypes, Turns, SaveState
<1>j. job' \in [Callers -> Position] /\ \A d \in Callers : d # c => job[d] = Resting /\ job'[d] = Resting
  BY DEF Position, StartSteps, StopSteps, Callers
<1>1. TunTypes' BY <1>j, TunAssumption
<1>2. Turns' BY <1>j DEF Callers, DeviceAt
<1>3. DeviceAt' BY <1>j DEF DeviceAt, Settled, Idle, Position, StartSteps, StopSteps
<1>4. Recorded' /\ ResolverAt' BY <1>j DEF DeviceAt, Recorded, ResolverAt
<1>5. ParamsAt'
  <2>1. mishap = {} => MgrOrig /\ os.rules = FALSE BY DEF ParamsAt
  <2>2. os'.file = [forward |-> mgr.forward, rp |-> mgr.rp, present |-> TRUE] /\ os'.rules = os.rules /\ mgr' = mgr
    OBVIOUS
  <2>3. mishap = {} => MgrOrig' /\ FileOrig' /\ os'.rules = FALSE BY ONLY <2>1, <2>2 DEF MgrOrig, FileOrig
  <2>4. \A d \in Callers : job'[d].at \in {"rest", "routes"} BY <1>j
  <2>5. mishap' = mishap OBVIOUS
  <2> QED BY ONLY <2>3, <2>4, <2>5 DEF ParamsAt
<1>6. CleanAt' BY <1>j DEF DeviceAt, ResolverAt, ParamsAt, CleanAt, Settled, Idle
<1> QED BY <1>1, <1>2, <1>3, <1>4, <1>5, <1>6

LEMMA AddRoutesKeeps == ASSUME Plain, TunInv, NEW c \in Callers, AddRoutes(c) PROVE TunInv'
<1> USE DEF TunInv, TunTypes, Turns, AddRoutes
<1>j. job' \in [Callers -> Position] /\ \A d \in Callers : d # c => job[d] = Resting /\ job'[d] = Resting
  BY DEF Position, StartSteps, StopSteps, Callers
<1>1. TunTypes' BY <1>j, TunAssumption
<1>2. Turns' BY <1>j DEF Callers, DeviceAt
<1>3. DeviceAt' BY <1>j DEF DeviceAt, Settled, Idle, Position, StartSteps, StopSteps
<1>4. Recorded' /\ ResolverAt' BY <1>j DEF DeviceAt, Recorded, ResolverAt
<1>5. ParamsAt' BY <1>j DEF DeviceAt, ParamsAt, ParamsOrig, FileOrig, MgrOrig
<1>6. CleanAt' BY <1>j DEF DeviceAt, ResolverAt, ParamsAt, CleanAt, Settled, Idle
<1> QED BY <1>1, <1>2, <1>3, <1>4, <1>5, <1>6

LEMMA SetupFailsKeeps == ASSUME Plain, TunInv, NEW c \in Callers, SetupFails(c) PROVE TunInv'
<1> USE DEF TunInv, TunTypes, Turns, SetupFails
<1>j. job' \in [Callers -> Position] /\ \A d \in Callers : d # c => job[d] = Resting /\ job'[d] = Resting
  BY DEF Position, StartSteps, StopSteps, Callers
<1>1. TunTypes' BY <1>j, TunAssumption
<1>2. Turns' BY <1>j DEF Callers, DeviceAt
<1>3. DeviceAt'
  <2>1. mgr'.running = FALSE /\ mgr'.dev = FALSE /\ mgr'.bind = FALSE /\ os'.dev = FALSE /\ os'.split = FALSE /\ reader' = "off"
    BY DEF DeviceAt
  <2>2. \A d \in Callers : job'[d].at \in {"rest", "rest"} BY <1>j
  <2>3. job'[c].at = "rest" OBVIOUS
  <2> QED BY ONLY <1>j, <2>1, <2>2, <2>3 DEF DeviceAt, Settled, Idle
<1>4. Recorded' /\ ResolverAt' BY <1>j DEF DeviceAt, Recorded, ResolverAt
<1>5. ParamsAt' BY <1>j DEF DeviceAt, ParamsAt, ParamsOrig, FileOrig, MgrOrig
<1>6. CleanAt' BY <1>j DEF DeviceAt, ResolverAt, ParamsAt, CleanAt, Settled, Idle
<1> QED BY <1>1, <1>2, <1>3, <1>4, <1>5, <1>6

LEMMA AddRulesKeeps == ASSUME Plain, TunInv, NEW c \in Callers, AddRules(c) PROVE TunInv'
<1> USE DEF TunInv, TunTypes, Turns, AddRules
<1>j. job' \in [Callers -> Position] /\ \A d \in Callers : d # c => job[d] = Resting /\ job'[d] = Resting
  BY DEF Position, StartSteps, StopSteps, Callers
<1>1. TunTypes' BY <1>j, TunAssumption
<1>2. Turns' BY <1>j DEF Callers, DeviceAt
<1>3. DeviceAt' BY <1>j DEF DeviceAt, Settled, Idle, Position, StartSteps, StopSteps
<1>4. Recorded' /\ ResolverAt' BY <1>j DEF DeviceAt, Recorded, ResolverAt
<1>5. ParamsAt' BY <1>j DEF DeviceAt, ParamsAt, ParamsOrig, FileOrig, MgrOrig
<1>6. CleanAt' BY <1>j DEF DeviceAt, ResolverAt, ParamsAt, CleanAt, Settled, Idle
<1> QED BY <1>1, <1>2, <1>3, <1>4, <1>5, <1>6

LEMMA RunKeeps == ASSUME Plain, TunInv, NEW c \in Callers, Run(c) PROVE TunInv'
<1> USE DEF TunInv, TunTypes, Turns, Run
<1>j. job' \in [Callers -> Position] /\ \A d \in Callers : d # c => job[d] = Resting /\ job'[d] = Resting
  BY DEF Position, StartSteps, StopSteps, Callers
<1>1. TunTypes' BY <1>j, TunAssumption
<1>2. Turns' BY <1>j DEF Callers, DeviceAt
<1>3. DeviceAt'
  <2>1. mgr'.running = TRUE /\ mgr'.dev = TRUE /\ mgr'.bind = TRUE /\ mgr'.applied = TRUE /\ os'.dev = TRUE /\ os'.split = TRUE
        /\ reader' = "read"
    BY DEF DeviceAt
  <2>2. \A d \in Callers : job'[d].at \in {"rest", "backup"} BY <1>j
  <2>3. job'[c].at = "backup" OBVIOUS
  <2> QED BY ONLY <1>j, <2>1, <2>2, <2>3 DEF DeviceAt, Settled, Idle
<1>4. Recorded' /\ ResolverAt' BY <1>j DEF DeviceAt, Recorded, ResolverAt
<1>5. ParamsAt' BY <1>j DEF DeviceAt, ParamsAt, ParamsOrig, FileOrig, MgrOrig
<1>6. CleanAt' BY <1>j DEF DeviceAt, ResolverAt, ParamsAt, CleanAt, Settled, Idle
<1> QED BY <1>1, <1>2, <1>3, <1>4, <1>5, <1>6

LEMMA BackupKeeps == ASSUME Plain, TunInv, NEW c \in Callers, Backup(c) PROVE TunInv'
<1> USE DEF TunInv, TunTypes, Turns, Backup
<1>j. job' \in [Callers -> Position] /\ \A d \in Callers : d # c => job[d] = Resting /\ job'[d] = Resting
  BY DEF Position, StartSteps, StopSteps, Callers
<1>1. TunTypes'
  <2>1. Reverted(os).resolv = "orig" /\ os' = [Reverted(os) EXCEPT !.bak = "orig"] BY DEF ResolverAt
  <2> QED BY <1>j, <2>1
<1>2. Turns' BY <1>j DEF Callers, DeviceAt
<1>3. DeviceAt' BY <1>j DEF DeviceAt, Settled, Idle, Position, StartSteps, StopSteps
<1>4. Recorded' /\ ResolverAt' BY <1>j DEF DeviceAt, Recorded, ResolverAt
<1>5. ParamsAt' BY <1>j DEF DeviceAt, ParamsAt, ParamsOrig, FileOrig, MgrOrig
<1>6. CleanAt' BY <1>j DEF DeviceAt, ResolverAt, ParamsAt, CleanAt, Settled, Idle
<1> QED BY <1>1, <1>2, <1>3, <1>4, <1>5, <1>6

LEMMA RedirectKeeps == ASSUME Plain, TunInv, NEW c \in Callers, Redirect(c) PROVE TunInv'
<1> USE DEF TunInv, TunTypes, Turns, Redirect
<1>j. job' \in [Callers -> Position] /\ \A d \in Callers : d # c => job[d] = Resting /\ job'[d] = Resting
  BY DEF Position, StartSteps, StopSteps, Callers
<1>1. TunTypes' BY <1>j, TunAssumption
<1>2. Turns' BY <1>j DEF Callers, DeviceAt
<1>3. DeviceAt' BY <1>j DEF DeviceAt, Settled, Idle, Position, StartSteps, StopSteps
<1>4. Recorded' /\ ResolverAt' BY <1>j DEF DeviceAt, Recorded, ResolverAt
<1>5. ParamsAt' BY <1>j DEF DeviceAt, ParamsAt, ParamsOrig, FileOrig, MgrOrig
<1>6. CleanAt' BY <1>j DEF DeviceAt, ResolverAt, ParamsAt, CleanAt, Settled, Idle
<1> QED BY <1>1, <1>2, <1>3, <1>4, <1>5, <1>6

LEMMA StopFlagKeeps == ASSUME Plain, TunInv, NEW c \in Callers, StopFlag(c) PROVE TunInv'
<1> USE DEF TunInv, TunTypes, Turns, StopFlag
<1>j. job' \in [Callers -> Position] /\ \A d \in Callers : d # c => job[d] = Resting /\ job'[d] = Resting
  BY DEF Position, StartSteps, StopSteps, Callers
<1>1. TunTypes' BY <1>j, TunAssumption
<1>2. Turns' BY <1>j DEF Callers, DeviceAt
<1>3. DeviceAt'
  <2>1. mgr'.running = FALSE /\ mgr'.dev = TRUE /\ mgr'.bind = FALSE /\ mgr'.applied = TRUE BY DEF DeviceAt
  <2>2. \A d \in Callers : job'[d].at \in {"rest", "restore"} BY <1>j
  <2>3. job'[c].at = "restore" OBVIOUS
  <2> QED BY ONLY <1>j, <2>1, <2>2, <2>3 DEF DeviceAt, Settled, Idle
<1>4. Recorded' /\ ResolverAt' BY <1>j DEF DeviceAt, Recorded, ResolverAt
<1>5. ParamsAt' BY <1>j DEF DeviceAt, ParamsAt, ParamsOrig, FileOrig, MgrOrig
<1>6. CleanAt' BY <1>j DEF DeviceAt, ResolverAt, ParamsAt, CleanAt, Settled, Idle
<1> QED BY <1>1, <1>2, <1>3, <1>4, <1>5, <1>6

LEMMA RestoreDnsKeeps == ASSUME Plain, TunInv, NEW c \in Callers, RestoreDns(c) PROVE TunInv'
<1> USE DEF TunInv, TunTypes, Turns, RestoreDns
<1>j. job' \in [Callers -> Position] /\ \A d \in Callers : d # c => job[d] = Resting /\ job'[d] = Resting
  BY DEF Position, StartSteps, StopSteps, Callers
<1>1. TunTypes' BY <1>j, TunAssumption
<1>2. Turns' BY <1>j DEF Callers, DeviceAt
<1>3. DeviceAt' BY <1>j DEF DeviceAt, Settled, Idle, Position, StartSteps, StopSteps
<1>4. Recorded' /\ ResolverAt' BY <1>j DEF DeviceAt, Recorded, ResolverAt
<1>5. ParamsAt' BY <1>j DEF DeviceAt, ParamsAt, ParamsOrig, FileOrig, MgrOrig
<1>6. CleanAt' BY <1>j DEF DeviceAt, ResolverAt, ParamsAt, CleanAt, Settled, Idle
<1> QED BY <1>1, <1>2, <1>3, <1>4, <1>5, <1>6

LEMMA ForgetBackupKeeps == ASSUME Plain, TunInv, NEW c \in Callers, ForgetBackup(c) PROVE TunInv'
<1> USE DEF TunInv, TunTypes, Turns, ForgetBackup
<1>j. job' \in [Callers -> Position] /\ \A d \in Callers : d # c => job[d] = Resting /\ job'[d] = Resting
  BY DEF Position, StartSteps, StopSteps, Callers
<1>1. TunTypes' BY <1>j, TunAssumption
<1>2. Turns' BY <1>j DEF Callers, DeviceAt
<1>3. DeviceAt' BY <1>j DEF DeviceAt, Settled, Idle, Position, StartSteps, StopSteps
<1>4. Recorded' /\ ResolverAt' BY <1>j DEF DeviceAt, Recorded, ResolverAt
<1>5. ParamsAt' BY <1>j DEF DeviceAt, ParamsAt, ParamsOrig, FileOrig, MgrOrig
<1>6. CleanAt' BY <1>j DEF DeviceAt, ResolverAt, ParamsAt, CleanAt, Settled, Idle
<1> QED BY <1>1, <1>2, <1>3, <1>4, <1>5, <1>6

LEMMA TeardownKeeps == ASSUME Plain, TunInv, NEW c \in Callers, Teardown(c) PROVE TunInv'
<1> USE DEF TunInv, TunTypes, Turns, Teardown
<1>j. job' \in [Callers -> Position] /\ \A d \in Callers : d # c => job[d] = Resting /\ job'[d] = Resting
  BY DEF Position, StartSteps, StopSteps, Callers
<1>1. TunTypes' BY <1>j, TunAssumption
<1>2. Turns' BY <1>j DEF Callers, DeviceAt
<1>3. DeviceAt' BY <1>j DEF DeviceAt, Settled, Idle, Position, StartSteps, StopSteps
<1>4. Recorded' /\ ResolverAt' BY <1>j DEF DeviceAt, Recorded, ResolverAt
<1>5. ParamsAt' BY <1>j DEF DeviceAt, ParamsAt, ParamsOrig, FileOrig, MgrOrig
<1>6. CleanAt' BY <1>j DEF DeviceAt, ResolverAt, ParamsAt, CleanAt, Settled, Idle
<1> QED BY <1>1, <1>2, <1>3, <1>4, <1>5, <1>6

LEMMA CloseDeviceKeeps == ASSUME Plain, TunInv, NEW c \in Callers, CloseDevice(c) PROVE TunInv'
<1> USE DEF TunInv, TunTypes, Turns, CloseDevice
<1>j. job' \in [Callers -> Position] /\ \A d \in Callers : d # c => job[d] = Resting /\ job'[d] = Resting
  BY DEF Position, StartSteps, StopSteps, Callers
<1>1. TunTypes' BY <1>j, TunAssumption
<1>2. Turns' BY <1>j DEF Callers, DeviceAt
<1>3. DeviceAt' BY <1>j DEF DeviceAt, Settled, Idle, Position, StartSteps, StopSteps
<1>4. Recorded' /\ ResolverAt' BY <1>j DEF DeviceAt, Recorded, ResolverAt
<1>5. ParamsAt' BY <1>j DEF DeviceAt, ParamsAt, ParamsOrig, FileOrig, MgrOrig
<1>6. CleanAt' BY <1>j DEF DeviceAt, ResolverAt, ParamsAt, CleanAt, Settled, Idle
<1> QED BY <1>1, <1>2, <1>3, <1>4, <1>5, <1>6

LEMMA WaitKeeps == ASSUME Plain, TunInv, NEW c \in Callers, Wait(c) PROVE TunInv'
<1> USE DEF TunInv, TunTypes, Turns, Wait
<1>j. job' \in [Callers -> Position] /\ \A d \in Callers : d # c => job[d] = Resting /\ job'[d] = Resting
  BY DEF Position, StartSteps, StopSteps, Callers
<1>1. TunTypes' BY <1>j, TunAssumption
<1>2. Turns' BY <1>j DEF Callers, DeviceAt
<1>3. DeviceAt' BY <1>j DEF DeviceAt, Settled, Idle, Position, StartSteps, StopSteps
<1>4. Recorded' /\ ResolverAt' BY <1>j DEF DeviceAt, Recorded, ResolverAt
<1>5. ParamsAt' BY <1>j DEF DeviceAt, ParamsAt, ParamsOrig, FileOrig, MgrOrig
<1>6. CleanAt' BY <1>j DEF DeviceAt, ResolverAt, ParamsAt, CleanAt, Settled, Idle
<1> QED BY <1>1, <1>2, <1>3, <1>4, <1>5, <1>6

-----------------------------------------------------------------------------
(* The steps of no caller, and the theorem. *)

LEMMA ToggleKeeps == ASSUME Plain, TunInv, NEW c \in Togglers, NEW op \in {"start", "stop"}, Toggle(c, op) PROVE TunInv'
<1> USE DEF TunInv, TunTypes, Turns, Toggle
<1>c. c \in Callers /\ c # 0 BY TunAssumption DEF Callers
<1>j. job' \in [Callers -> Position] /\ \A d \in Callers : d # c => job[d] = Resting /\ job'[d] = Resting
  BY <1>c DEF Position, StartSteps, StopSteps, Callers
<1>1. TunTypes' /\ Turns' BY <1>j, <1>c, TunAssumption DEF Callers
<1>2. DeviceAt' /\ Recorded' /\ ResolverAt' /\ ParamsAt'
  BY <1>j, <1>c DEF DeviceAt, Recorded, ResolverAt, ParamsAt, ParamsOrig, FileOrig, MgrOrig, Settled, Idle
<1>3. CleanAt' BY <1>j, <1>c DEF CleanAt, Settled, Idle
<1> QED BY <1>1, <1>2, <1>3

LEMMA ReaderEndsKeeps == ASSUME Plain, TunInv, ReaderEnds PROVE TunInv'
<1> USE DEF TunInv, TunTypes, Turns, ReaderEnds
<1>1. TunTypes' /\ Turns' OBVIOUS
<1>2. DeviceAt' BY DEF DeviceAt, Settled, Idle, Position, StartSteps, StopSteps
<1>3. Recorded' /\ ResolverAt' /\ ParamsAt' /\ CleanAt'
  BY DEF Recorded, ResolverAt, ParamsAt, CleanAt, ParamsOrig, FileOrig, MgrOrig, Settled
<1> QED BY <1>1, <1>2, <1>3

LEMMA DieKeeps == ASSUME Plain, TunInv, Die_ PROVE TunInv'
<1> USE DEF TunInv, TunTypes, Turns, Die_
<1>j. job' \in [Callers -> Position] /\ \A d \in Callers : job'[d] = Resting BY DEF Position
<1>m. mishap' = {} => /\ mishap = {} /\ \A c \in Callers : job[c].at # "save"
                      /\ ~ enabled => os.resolv = "orig" /\ ~ os.rules
  <2>1. mishap' = {} => mishap = {} /\ "not saved" \notin Mishaps /\ "not recorded" \notin Mishaps OBVIOUS
  <2>2. "not saved" \notin Mishaps => \A c \in Callers : job[c].at # "save"
    <3>1. ASSUME NEW c \in Callers, job[c].at = "save" PROVE job[c] = [op |-> "start", at |-> "save"]
      BY <3>1 DEF Position, StopSteps
    <3> QED BY ONLY <3>1 DEF Mishaps
  <2>3. "not recorded" \notin Mishaps => (~ enabled => os.resolv = "orig" /\ ~ os.rules) BY ONLY DEF Mishaps
  <2> QED BY ONLY <2>1, <2>2, <2>3
<1>1. TunTypes' /\ Turns' BY <1>j DEF Callers
<1>2. DeviceAt' /\ Recorded' /\ ResolverAt' BY <1>j DEF DeviceAt, Recorded, ResolverAt, Settled, Idle
<1>3. ParamsAt' BY <1>j, <1>m DEF ParamsAt, ParamsOrig, FileOrig, MgrOrig
<1>4. CleanAt' BY <1>j, <1>m DEF CleanAt
<1> QED BY <1>1, <1>2, <1>3, <1>4

LEMMA BootKeeps == ASSUME Plain, TunInv, Boot PROVE TunInv'
<1> USE DEF TunInv, TunTypes, Turns, Boot
<1>j. /\ job' \in [Callers -> Position] /\ \A d \in Callers : d # 0 => job[d] = Resting /\ job'[d] = Resting
      /\ 0 \in Callers /\ job[0] = Resting
      /\ job'[0] = IF enabled THEN [op |-> "start", at |-> "begin"] ELSE Resting
  BY DEF Position, StartSteps, Callers
<1>1. TunTypes' /\ Turns' BY <1>j
<1>2. DeviceAt' /\ Recorded' /\ ResolverAt' /\ ParamsAt'
  BY <1>j DEF DeviceAt, Recorded, ResolverAt, ParamsAt, ParamsOrig, FileOrig, MgrOrig, Settled, Idle
<1>3. CleanAt' BY <1>j DEF CleanAt, Settled, Idle
<1> QED BY <1>1, <1>2, <1>3

HIDE DEF At, Goto, Done, Plain, Resting, Stopped, NoFile, Reverted, RememberedParams

LEMMA TunStep == ASSUME Plain, TunInv, [TunNext]_tunVars PROVE TunInv'
<1>1. CASE \E c \in Togglers, op \in {"start", "stop"} : Toggle(c, op) BY <1>1, ToggleKeeps
<1>2. CASE \E c \in Callers : Already(c) \/ Record(c) \/ CleanDns(c) \/ CleanBackup(c) \/ CleanParams(c) \/ CreateDevice(c)
                              \/ CreateFails(c) \/ Relax(c) \/ SaveState(c) \/ AddRoutes(c) \/ SetupFails(c)
  BY <1>2, AlreadyKeeps, RecordKeeps, CleanDnsKeeps, CleanBackupKeeps, CleanParamsKeeps, CreateDeviceKeeps, CreateFailsKeeps,
     RelaxKeeps, SaveStateKeeps, AddRoutesKeeps, SetupFailsKeeps
<1>3. CASE \E c \in Callers : AddRules(c) \/ Run(c) \/ Backup(c) \/ Redirect(c) \/ StopFlag(c) \/ RestoreDns(c)
                              \/ ForgetBackup(c) \/ Teardown(c) \/ CloseDevice(c) \/ Wait(c)
  BY <1>3, AddRulesKeeps, RunKeeps, BackupKeeps, RedirectKeeps, StopFlagKeeps, RestoreDnsKeeps, ForgetBackupKeeps,
     TeardownKeeps, CloseDeviceKeeps, WaitKeeps
<1>4. CASE ReaderEnds BY <1>4, ReaderEndsKeeps
<1>5. CASE Die_ BY <1>5, DieKeeps
<1>6. CASE Boot BY <1>6, BootKeeps
<1>7. CASE UNCHANGED tunVars
  BY <1>7 DEF tunVars, TunInv, TunTypes, Turns, DeviceAt, Recorded, ResolverAt, ParamsAt, CleanAt, ParamsOrig, FileOrig,
     MgrOrig, Settled
<1> QED BY <1>1, <1>2, <1>3, <1>4, <1>5, <1>6, <1>7 DEF TunNext

LEMMA TunStarts == ASSUME Plain, TunInit PROVE TunInv
<1> USE DEF TunInit, Resting
<1>1. TunTypes BY TunAssumption DEF TunTypes, Position, Stopped, NoFile
<1>2. Turns /\ DeviceAt /\ Recorded /\ ResolverAt
  BY DEF Turns, DeviceAt, Recorded, ResolverAt, Settled, Idle, Stopped, Callers
<1>3. ParamsAt /\ CleanAt BY DEF ParamsAt, CleanAt, ParamsOrig, FileOrig, MgrOrig, Stopped, NoFile
<1> QED BY <1>1, <1>2, <1>3 DEF TunInv

\* On a machine whose resolv.conf is its own, used as a gateway and switched by one
\* administrator at a time, however often the process dies and at whatever step:
\* the machine's resolver configuration is never lost, a device that is off leaves
\* resolver, parameters and firewall as they were, and a running device is the
\* saved setting with its reader, routes and bindings in place.
THEOREM TunIsSound ==
    ASSUME Plain
    PROVE  TunSpec => []TunSound
<1>1. TunInv => TunSound
  <2> SUFFICES ASSUME TunInv PROVE DnsKept /\ Restored /\ SwitchFollows BY DEF TunSound
  <2>1. DnsKept BY DEF TunInv, ResolverAt, DnsKept
  <2>2. Quiet_ => Settled /\ 0 \in Callers /\ job[0].at = "rest" /\ \A c \in Callers : job[c].at = "rest"
    <3>1. 0 \in Callers BY DEF Callers
    <3>2. Quiet_ => \A c \in Callers : job[c].at = "rest" BY DEF Quiet_, Resting
    <3> QED BY <3>1, <3>2 DEF Settled, Idle
  <2>3. Restored BY <2>2 DEF Restored, TunInv, TunTypes, DeviceAt, ParamsAt, CleanAt, ParamsOrig, FileOrig, Quiet_
  <2>4. SwitchFollows BY <2>2 DEF SwitchFollows, TunInv, TunTypes, DeviceAt, Recorded
  <2> QED BY <2>1, <2>3, <2>4
<1> QED BY <1>1, TunStarts, TunStep, PTL DEF TunSpec


-----------------------------------------------------------------------------
(* The pool of fake addresses: the inductive invariant. *)

\* The addresses that are given.
Alloc == (Skip + 1) .. (PoolEnd - 1)

FakeTypeOK ==
    /\ DOMAIN domainToIP \subseteq Domains /\ domainToIP \in [DOMAIN domainToIP -> Alloc]
    /\ DOMAIN ipToDomain \subseteq Alloc /\ ipToDomain \in [DOMAIN ipToDomain -> Domains]
    /\ nextIP \in 0 .. PoolEnd
    /\ DOMAIN dbDomain \subseteq Domains /\ dbDomain \in [DOMAIN dbDomain -> Alloc]
    /\ IsFiniteSet(DOMAIN dbDomain)
    /\ crashes \in Nat /\ dbErrors \in Nat

\* An address leads to a domain that leads back.
MapsBack ==
    \A ip \in DOMAIN ipToDomain :
        ipToDomain[ip] \in DOMAIN domainToIP /\ domainToIP[ipToDomain[ip]] = ip

\* A domain's address leads back to it.
LeadsBack(d) == domainToIP[d] \in DOMAIN ipToDomain /\ ipToDomain[domainToIP[d]] = d
MapsForth == dbErrors = 0 => \A d \in DOMAIN domainToIP : LeadsBack(d)

\* The domain's entry in the database is also under its address.
Indexed(d) == dbDomain[d] \in DOMAIN dbIp /\ dbIp[dbDomain[d]] = d

DbInjective == dbErrors = 0 => \A a, b \in DOMAIN dbDomain : dbDomain[a] = dbDomain[b] => a = b

\* How far the database is behind the maps, by what is left to write.
WrittenBack ==
    /\ writes = <<>>
    /\ dbErrors = 0 => dbDomain = domainToIP
    /\ dbErrors = 0 /\ crashes = 0 => \A e \in DOMAIN dbDomain : Indexed(e)

Indexing(d, ip) ==
    /\ writes = <<Tx("put", "ip", d, ip)>>
    /\ dbErrors = 0 => dbDomain = domainToIP /\ d \in DOMAIN dbDomain /\ dbDomain[d] = ip
    /\ dbErrors = 0 /\ crashes = 0 => \A e \in DOMAIN dbDomain \ {d} : Indexed(e)

\* The new entry is missing, and the old one is gone.
Missing(d, ip) ==
    /\ dbErrors = 0 =>
         /\ domainToIP = Put(dbDomain, d, ip)
         /\ \A e \in DOMAIN dbDomain : e # d /\ dbDomain[e] # ip
    /\ dbErrors = 0 /\ crashes = 0 => \A e \in DOMAIN dbDomain : Indexed(e)

Putting(d, ip) == writes = <<Tx("put", "domain", d, ip), Tx("put", "ip", d, ip)>> /\ Missing(d, ip)

Clearing(d, ip, old) ==
    writes = <<Tx("del", "ip", old, ip), Tx("put", "domain", d, ip), Tx("put", "ip", d, ip)>> /\ Missing(d, ip)

Evicting(d, ip, old) ==
    /\ writes = <<Tx("del", "domain", old, ip), Tx("del", "ip", old, ip), Tx("put", "domain", d, ip), Tx("put", "ip", d, ip)>>
    /\ dbErrors = 0 =>
         /\ domainToIP = Put(Del(dbDomain, old), d, ip)
         /\ old \in DOMAIN dbDomain /\ dbDomain[old] = ip /\ d \notin DOMAIN dbDomain
    /\ dbErrors = 0 /\ crashes = 0 => \A e \in DOMAIN dbDomain : Indexed(e)

Behind ==
    \/ WrittenBack
    \/ \E d \in Domains, ip \in Alloc :
         \/ Indexing(d, ip) \/ Putting(d, ip)
         \/ \E old \in Domains : Clearing(d, ip, old) \/ Evicting(d, ip, old)

\* How many addresses there are to give.
Size == PoolEnd - Skip - 1

\* `n' addresses after `ip', around the end, comes the next one.
Ago(n, ip) == Free(nextIP) = ip + 1 + n \/ Free(nextIP) = ip + 1 + n - Size

TurnsCounted ==
    /\ DOMAIN turn \subseteq DOMAIN domainToIP /\ turn \in [DOMAIN turn -> Nat]
    /\ \A d \in DOMAIN turn : turn[d] < Size /\ LeadsBack(d) /\ Ago(turn[d], domainToIP[d])

FakeInv == FakeTypeOK /\ MapsBack /\ MapsForth /\ DbInjective /\ Behind /\ TurnsCounted

-----------------------------------------------------------------------------
(* The pool of fake addresses: its operators. *)

\* A map with one entry less.
LEMMA DelType ==
    ASSUME NEW S, NEW f, f \in [DOMAIN f -> S], NEW k
    PROVE  Del(f, k) \in [DOMAIN Del(f, k) -> S]
BY DEF Del

\* The search ends at the address itself or at the first one that is given.
LEMMA FreeLemma ==
    ASSUME NEW ip \in 0 .. PoolEnd
    PROVE  Free(ip) = IF Skip < ip /\ ip < PoolEnd THEN ip ELSE Skip + 1
<1> DEFINE ahead == (ip .. PoolEnd) \ Reserved
           all == (0 .. PoolEnd) \ Reserved
<1>1. ahead \in SUBSET Nat /\ all \in SUBSET Nat
  BY FakeAssumption
<1>2. \A a : a \in all <=> a \in Nat /\ Skip < a /\ a < PoolEnd
  BY FakeAssumption DEF Reserved
<1>3. \A a : a \in ahead <=> a \in Nat /\ Skip < a /\ a < PoolEnd /\ ip <= a
  BY FakeAssumption DEF Reserved
<1>4. Min(all) = Skip + 1
  BY <1>1, <1>2, FakeAssumption DEF Min
<1>5. CASE ip = PoolEnd
  <2>1. ahead = {}
    BY <1>3, <1>5, FakeAssumption
  <2> QED
    BY <1>4, <1>5, <2>1 DEF Free
<1>6. CASE ip < PoolEnd /\ Skip < ip
  <2>1. Min(ahead) = ip /\ ahead # {}
    BY <1>1, <1>3, <1>6, FakeAssumption DEF Min
  <2> QED
    BY <1>6, <2>1 DEF Free
<1>7. CASE ip <= Skip
  <2>1. Min(ahead) = Skip + 1 /\ ahead # {}
    BY <1>1, <1>3, <1>7, FakeAssumption DEF Min
  <2> QED
    BY <1>7, <2>1, FakeAssumption DEF Free
<1> QED
  BY <1>5, <1>6, <1>7, FakeAssumption

\* A finite set of naturals that is not empty has a greatest element, the one Max
\* chooses.
LEMMA MaxOfFinite ==
    ASSUME NEW S \in SUBSET Nat, IsFiniteSet(S), S # {}
    PROVE  Max(S) \in S /\ \A y \in S : y <= Max(S)
<1> DEFINE Bad == {n \in Nat : \E T \in SUBSET Nat :
                     /\ IsFiniteSet(T) /\ T # {} /\ Cardinality(T) = n
                     /\ ~ \E x \in T : \A y \in T : x >= y}
<1>1. Bad = {}
  <2>1. SUFFICES ASSUME Bad # {} PROVE FALSE
    OBVIOUS
  <2>2. PICK n \in Bad : \A k \in Bad : n <= k
    <3>1. Bad \in SUBSET Nat
      OBVIOUS
    <3>2. PICK I : I = Bad
      OBVIOUS
    <3>3. Min(I) \in I /\ \A y \in I : Min(I) <= y
      BY <2>1, <3>1, <3>2, MinOfNats
    <3> QED
      BY <3>2, <3>3
  <2>3. PICK T \in SUBSET Nat : /\ IsFiniteSet(T) /\ T # {} /\ Cardinality(T) = n
                                /\ ~ \E x \in T : \A y \in T : x >= y
    BY <2>2
  <2>4. PICK t \in T : TRUE
    BY <2>3
  <2>5. IsFiniteSet(T \ {t}) /\ Cardinality(T \ {t}) = Cardinality(T) - 1
    BY <2>3, <2>4, FS_RemoveElement
  <2>6. CASE T \ {t} = {}
    BY <2>3, <2>4, <2>6
  <2>7. CASE T \ {t} # {}
    <3>1. n \in Nat /\ n - 1 \in Nat
      <4>1. Cardinality(T \ {t}) \in Nat
        BY <2>5, FS_CardinalityType
      <4> QED
        BY <2>3, <2>5, <4>1
    <3>2. n - 1 \notin Bad
      BY <2>2, <3>1
    <3>3. PICK x \in T \ {t} : \A y \in T \ {t} : x >= y
      BY <2>3, <2>5, <2>7, <3>1, <3>2
    <3> QED
      BY <2>3, <2>4, <3>3
  <2> QED
    BY <2>6, <2>7
<1>2. Cardinality(S) \in Nat
  BY FS_CardinalityType
<1>3. \E x \in S : \A y \in S : x >= y
  BY <1>1, <1>2
<1> QED
  BY <1>3 DEF Max

\* As many addresses as between the reserved ones.
LEMMA RoomLemma == Room = Size
<1>1. IsFiniteSet(0 .. Skip) /\ Cardinality(0 .. Skip) = Skip + 1
  <2>1. 0 \in Int /\ Skip \in Int /\ 0 <= Skip
    BY FakeAssumption
  <2> QED
    BY <2>1, FS_Interval
<1>2. PoolEnd \notin 0 .. Skip
  BY FakeAssumption
<1>3. Cardinality(Reserved) = Skip + 2
  <2>1. Cardinality((0 .. Skip) \cup {PoolEnd}) = Cardinality(0 .. Skip) + 1
    BY <1>1, <1>2, FS_AddElement
  <2> QED
    BY <1>1, <2>1, FakeAssumption DEF Reserved
<1> QED
  BY <1>3, FakeAssumption DEF Room, Size

\* Head and Tail of a short sequence.
LEMMA ShortSeqs ==
    ASSUME NEW a, NEW b, NEW c, NEW d
    PROVE  /\ Head(<<a>>) = a /\ Tail(<<a>>) = <<>>
           /\ Head(<<a, b>>) = a /\ Tail(<<a, b>>) = <<b>>
           /\ Head(<<a, c, d>>) = a /\ Tail(<<a, c, d>>) = <<c, d>>
           /\ Head(<<a, b, c, d>>) = a /\ Tail(<<a, b, c, d>>) = <<b, c, d>>
           /\ <<a>> # <<>> /\ <<a, b>> # <<>> /\ <<a, c, d>> # <<>> /\ <<a, b, c, d>> # <<>>
<1>1. Head(<<a>>) = a /\ Tail(<<a>>) = <<>>
  OBVIOUS
<1>2. Head(<<a, b>>) = a /\ Tail(<<a, b>>) = <<b>>
  OBVIOUS
<1>3. Head(<<a, c, d>>) = a /\ Tail(<<a, c, d>>) = <<c, d>>
  OBVIOUS
<1>4. Head(<<a, b, c, d>>) = a /\ Tail(<<a, b, c, d>>) = <<b, c, d>>
  OBVIOUS
<1>5. <<a>> # <<>> /\ <<a, b>> # <<>> /\ <<a, c, d>> # <<>> /\ <<a, b, c, d>> # <<>>
  OBVIOUS
<1> QED
  BY <1>1, <1>2, <1>3, <1>4, <1>5

-----------------------------------------------------------------------------
(* The pool of fake addresses: the steps. *)

\* What Evicted leaves: all but the domain that had the address.
LEMMA EvictedLemma ==
    ASSUME FakeTypeOK, NEW ip \in Alloc
    PROVE  /\ DOMAIN Evicted(ip) \subseteq DOMAIN domainToIP
           /\ Evicted(ip) \in [DOMAIN Evicted(ip) -> Alloc]
           /\ \A x \in DOMAIN Evicted(ip) : Evicted(ip)[x] = domainToIP[x]
           /\ \A x \in DOMAIN domainToIP : x \notin DOMAIN Evicted(ip) <=> ip \in DOMAIN ipToDomain /\ x = ipToDomain[ip]
<1>1. CASE ip \in DOMAIN ipToDomain
  <2>1. Evicted(ip) = Del(domainToIP, ipToDomain[ip])
    BY <1>1 DEF Evicted
  <2>2. Evicted(ip) \in [DOMAIN Evicted(ip) -> Alloc]
    BY <2>1, DelType DEF FakeTypeOK
  <2> QED
    BY <1>1, <2>1, <2>2 DEF Del
<1>2. CASE ip \notin DOMAIN ipToDomain
  BY <1>2 DEF Evicted, FakeTypeOK
<1> QED
  BY <1>1, <1>2

\* What Lookup(d) does to the maps when it gives the address `ip'.
GivesTo(d, ip) ==
    /\ ip = Free(nextIP)
    /\ nextIP' = ip + 1
    /\ Free(nextIP)' = IF ip + 1 < PoolEnd THEN ip + 1 ELSE Skip + 1
    /\ DOMAIN domainToIP' = DOMAIN Evicted(ip) \cup {d}
    /\ domainToIP' \in [DOMAIN domainToIP' -> Alloc]
    /\ domainToIP'[d] = ip
    /\ \A x \in DOMAIN Evicted(ip) : x # d /\ x \in DOMAIN domainToIP /\ domainToIP'[x] = domainToIP[x]
    /\ \A x \in DOMAIN domainToIP : x \notin DOMAIN Evicted(ip) <=> ip \in DOMAIN ipToDomain /\ x = ipToDomain[ip]
    /\ DOMAIN ipToDomain' = DOMAIN ipToDomain \cup {ip}
    /\ ipToDomain' \in [DOMAIN ipToDomain' -> Domains]
    /\ ipToDomain'[ip] = d
    /\ \A x \in DOMAIN ipToDomain : x # ip => ipToDomain'[x] = ipToDomain[x]

\* What Lookup does to the maps.
LEMMA LookupMaps ==
    ASSUME FakeInv, NEW d \in Domains, Lookup(d)
    PROVE  \E ip \in Alloc : GivesTo(d, ip)
<1>1. PICK ip : ip = Free(nextIP)
  OBVIOUS
<1>2. nextIP \in 0 .. PoolEnd
  BY DEF FakeInv, FakeTypeOK
<1>3. ip \in Alloc
  BY <1>1, <1>2, FreeLemma, FakeAssumption DEF Alloc
<1>4. /\ nextIP' = Advance(ip) /\ domainToIP' = Put(Evicted(ip), d, ip) /\ ipToDomain' = Put(ipToDomain, ip, d)
      /\ d \notin DOMAIN domainToIP
  BY <1>1 DEF Lookup
<1>5. nextIP' = ip + 1
  BY <1>3, <1>4, FakeAssumption DEF Advance, After, Alloc
<1>6. Free(nextIP)' = IF ip + 1 < PoolEnd THEN ip + 1 ELSE Skip + 1
  <2>1. PICK n : n = nextIP'
    OBVIOUS
  <2>2. n \in 0 .. PoolEnd /\ n = ip + 1 /\ Skip < n
    BY <1>3, <1>5, <2>1, FakeAssumption DEF Alloc
  <2>3. Free(n) = IF Skip < n /\ n < PoolEnd THEN n ELSE Skip + 1
    BY <2>2, FreeLemma
  <2>4. Free(nextIP)' = Free(n)
    BY <2>1
  <2> QED
    BY ONLY <2>2, <2>3, <2>4
<1>7. FakeTypeOK
  BY DEF FakeInv
<1>8. PICK ev : ev = Evicted(ip)
  OBVIOUS
<1>9. /\ DOMAIN ev \subseteq DOMAIN domainToIP /\ ev \in [DOMAIN ev -> Alloc]
      /\ \A x \in DOMAIN ev : ev[x] = domainToIP[x]
      /\ \A x \in DOMAIN domainToIP : x \notin DOMAIN ev <=> ip \in DOMAIN ipToDomain /\ x = ipToDomain[ip]
  BY <1>3, <1>7, <1>8, EvictedLemma
<1>10. PICK D : D = domainToIP'
  OBVIOUS
<1>11. /\ DOMAIN D = DOMAIN ev \cup {d} /\ D[d] = ip
       /\ \A x \in DOMAIN ev : x # d => D[x] = ev[x]
       /\ D \in [DOMAIN D -> Alloc]
  BY ONLY <1>3, <1>4, <1>8, <1>9, <1>10 DEF Put
<1>12. PICK I : I = ipToDomain'
  OBVIOUS
<1>13. DOMAIN I = DOMAIN ipToDomain \cup {ip} /\ I[ip] = d /\ \A x \in DOMAIN ipToDomain : x # ip => I[x] = ipToDomain[x]
  BY ONLY <1>4, <1>12 DEF Put
<1>14. I \in [DOMAIN I -> Domains]
  BY <1>4, <1>7, <1>12 DEF FakeTypeOK, Put
<1>15. \A x \in DOMAIN ev : x # d /\ x \in DOMAIN domainToIP /\ D[x] = domainToIP[x]
  BY <1>4, <1>9, <1>11
<1> QED
  BY ONLY <1>1, <1>3, <1>5, <1>6, <1>8, <1>9, <1>10, <1>11, <1>12, <1>13, <1>14, <1>15 DEF GivesTo

LEMMA LookupKeeps ==
    ASSUME FakeInv, NEW d \in Domains, Lookup(d)
    PROVE  FakeInv'
<1>1. PICK ip \in Alloc :
             /\ ip = Free(nextIP)
             /\ nextIP' = ip + 1
             /\ Free(nextIP)' = IF ip + 1 < PoolEnd THEN ip + 1 ELSE Skip + 1
             /\ DOMAIN domainToIP' = DOMAIN Evicted(ip) \cup {d}
             /\ domainToIP' \in [DOMAIN domainToIP' -> Alloc]
             /\ domainToIP'[d] = ip
             /\ \A x \in DOMAIN Evicted(ip) : x # d /\ x \in DOMAIN domainToIP /\ domainToIP'[x] = domainToIP[x]
             /\ \A x \in DOMAIN domainToIP : x \notin DOMAIN Evicted(ip) <=> ip \in DOMAIN ipToDomain /\ x = ipToDomain[ip]
             /\ DOMAIN ipToDomain' = DOMAIN ipToDomain \cup {ip}
             /\ ipToDomain' \in [DOMAIN ipToDomain' -> Domains]
             /\ ipToDomain'[ip] = d
             /\ \A x \in DOMAIN ipToDomain : x # ip => ipToDomain'[x] = ipToDomain[x]
  BY LookupMaps DEF GivesTo
<1>2. /\ FakeTypeOK /\ MapsBack /\ MapsForth /\ DbInjective /\ Behind /\ TurnsCounted
      /\ UNCHANGED <<dbDomain, dbIp, crashes, dbErrors>> /\ writes = <<>> /\ d \notin DOMAIN domainToIP
  BY DEF FakeInv, Lookup
<1>3. FakeTypeOK'
  <2>1. nextIP' \in 0 .. PoolEnd
    BY <1>1, FakeAssumption DEF Alloc
  <2>2. DOMAIN domainToIP' \subseteq Domains /\ DOMAIN ipToDomain' \subseteq Alloc
    BY <1>1, <1>2 DEF FakeTypeOK
  <2> QED
    BY <1>1, <1>2, <2>1, <2>2 DEF FakeTypeOK
<1>4. MapsBack'
  <2>1. SUFFICES ASSUME NEW a \in DOMAIN ipToDomain'
                 PROVE  ipToDomain'[a] \in DOMAIN domainToIP' /\ domainToIP'[ipToDomain'[a]] = a
    BY DEF MapsBack
  <2>2. CASE a = ip
    BY <1>1, <2>2
  <2>3. CASE a # ip
    <3>1. a \in DOMAIN ipToDomain /\ ipToDomain'[a] = ipToDomain[a]
      BY <1>1, <2>1, <2>3
    <3>2. ipToDomain[a] \in DOMAIN domainToIP /\ domainToIP[ipToDomain[a]] = a
      BY <1>2, <3>1 DEF MapsBack
    <3>3. ip \in DOMAIN ipToDomain => domainToIP[ipToDomain[ip]] = ip
      BY <1>2 DEF MapsBack
    <3>4. ipToDomain[a] \in DOMAIN Evicted(ip)
      BY <1>1, <2>3, <3>2, <3>3
    <3> QED
      BY <1>1, <3>1, <3>2, <3>4
  <2> QED
    BY <2>2, <2>3
<1>5. ASSUME NEW x \in DOMAIN Evicted(ip), LeadsBack(x)
      PROVE  domainToIP[x] # ip /\ LeadsBack(x)'
  <2>1. x \in DOMAIN domainToIP /\ domainToIP'[x] = domainToIP[x]
    BY <1>1
  <2>2. domainToIP[x] # ip
    BY <1>1, <1>5, <2>1 DEF LeadsBack
  <2> QED
    BY <1>1, <1>5, <2>1, <2>2 DEF LeadsBack
<1>6. LeadsBack(d)'
  BY <1>1 DEF LeadsBack
<1>7. MapsForth'
  <2>1. SUFFICES ASSUME dbErrors' = 0, NEW x \in DOMAIN domainToIP'
                 PROVE  LeadsBack(x)'
    BY DEF MapsForth
  <2>2. dbErrors = 0
    BY <1>2, <2>1
  <2>3. CASE x = d
    BY <1>6, <2>3
  <2>4. CASE x # d
    <3>1. x \in DOMAIN Evicted(ip) /\ x \in DOMAIN domainToIP
      BY <1>1, <2>1, <2>4
    <3>2. LeadsBack(x)
      BY <1>2, <2>2, <3>1 DEF MapsForth
    <3> QED
      BY <1>5, <3>1, <3>2
  <2> QED
    BY <2>3, <2>4
<1>8. DbInjective'
  BY <1>2 DEF DbInjective
<1>9. Behind'
  <2>1. WrittenBack
    <3>1. \A a, b, c, e : <<a>> # <<>> /\ <<a, b>> # <<>> /\ <<a, c, e>> # <<>> /\ <<a, b, c, e>> # <<>>
      BY ShortSeqs
    <3> QED
      BY <1>2, <3>1 DEF Behind, Indexing, Putting, Clearing, Evicting
  <2>2. dbErrors' = 0 => dbErrors = 0 /\ dbDomain' = domainToIP
    BY <1>2, <2>1 DEF WrittenBack
  <2>3. dbErrors' = 0 /\ crashes' = 0 => \A e \in DOMAIN dbDomain' : Indexed(e)'
    BY <1>2, <2>1 DEF WrittenBack, Indexed
  <2>4. CASE ip \in DOMAIN ipToDomain
    <3>1. PICK old : old = ipToDomain[ip]
      OBVIOUS
    <3>2. old \in DOMAIN domainToIP /\ old \in Domains /\ domainToIP[old] = ip
      BY <1>2, <2>4, <3>1 DEF MapsBack, FakeTypeOK
    <3>3. writes' = <<Tx("del", "domain", old, ip), Tx("del", "ip", old, ip), Tx("put", "domain", d, ip), Tx("put", "ip", d, ip)>>
      BY <1>1, <2>4, <3>1 DEF Lookup, DbWrites
    <3>4. domainToIP' = Put(Del(domainToIP, old), d, ip)
      BY <1>1, <2>4, <3>1 DEF Lookup, Evicted
    <3>5. Evicting(d, ip, old)'
      BY <1>2, <2>2, <2>3, <3>2, <3>3, <3>4 DEF Evicting
    <3> QED
      BY <3>2, <3>5 DEF Behind
  <2>5. CASE ip \notin DOMAIN ipToDomain
    <3>1. writes' = <<Tx("put", "domain", d, ip), Tx("put", "ip", d, ip)>>
      BY <1>1, <2>5 DEF Lookup, DbWrites
    <3>2. domainToIP' = Put(domainToIP, d, ip)
      BY <1>1, <2>5 DEF Lookup, Evicted
    <3>3. dbErrors = 0 => \A e \in DOMAIN domainToIP : e # d /\ domainToIP[e] # ip
      BY <1>2, <2>5 DEF MapsForth, LeadsBack
    <3>4. Putting(d, ip)'
      BY <2>2, <2>3, <3>1, <3>2, <3>3 DEF Putting, Missing
    <3> QED
      BY <3>4 DEF Behind
  <2> QED
    BY <2>4, <2>5
<1>10. TurnsCounted'
  <2>1. PICK T : T = [x \in DOMAIN turn \cap DOMAIN Evicted(ip) |-> turn[x] + 1]
    OBVIOUS
  <2>2. turn' = Put(T, d, 0)
    BY <1>1, <2>1 DEF Lookup
  <2>3. turn \in [DOMAIN turn -> Nat]
    BY <1>2 DEF TurnsCounted
  <2>4. DOMAIN T = DOMAIN turn \cap DOMAIN Evicted(ip) /\ T \in [DOMAIN T -> Nat] /\ \A x \in DOMAIN T : T[x] = turn[x] + 1
    BY <2>1, <2>3
  <2>5. PICK U : U = turn'
    OBVIOUS
  <2>6. DOMAIN U = DOMAIN T \cup {d} /\ U[d] = 0 /\ (\A x \in DOMAIN T : x # d => U[x] = T[x]) /\ U \in [DOMAIN U -> Nat]
    BY ONLY <2>2, <2>4, <2>5 DEF Put
  <2>7. DOMAIN U \subseteq DOMAIN domainToIP'
    BY <1>1, <2>4, <2>6
  <2>8. ASSUME NEW x \in DOMAIN U
        PROVE  U[x] < Size /\ LeadsBack(x)' /\ (Free(nextIP)' = domainToIP'[x] + 1 + U[x] \/ Free(nextIP)' = domainToIP'[x] + 1 + U[x] - Size)
    <3>1. CASE x = d
      BY <1>1, <1>6, <2>6, <3>1, FakeAssumption DEF Alloc, Size
    <3>2. CASE x # d
      <4>1. x \in DOMAIN turn /\ x \in DOMAIN Evicted(ip) /\ U[x] = turn[x] + 1 /\ turn[x] \in Nat
        BY <2>3, <2>4, <2>6, <2>8, <3>2
      <4>2. turn[x] < Size /\ LeadsBack(x) /\ (ip = domainToIP[x] + 1 + turn[x] \/ ip = domainToIP[x] + 1 + turn[x] - Size)
        BY <1>1, <1>2, <4>1 DEF TurnsCounted, Ago
      <4>3. domainToIP[x] # ip /\ LeadsBack(x)' /\ domainToIP'[x] = domainToIP[x] /\ domainToIP[x] \in Alloc
        BY <1>1, <1>2, <1>5, <4>1, <4>2 DEF FakeTypeOK
      <4>4. PICK a \in Alloc, t \in Nat : a = domainToIP[x] /\ t = turn[x]
        BY <4>1, <4>3
      <4>5. t < Size /\ (ip = a + 1 + t \/ ip = a + 1 + t - Size) /\ a # ip
        BY <4>2, <4>3, <4>4
      <4>6. t + 1 < Size /\ Size \in Nat
        BY <4>4, <4>5, <1>1, FakeAssumption DEF Alloc, Size
      <4>7. PICK f : f = Free(nextIP)'
        OBVIOUS
      <4>8. f = IF ip + 1 < PoolEnd THEN ip + 1 ELSE Skip + 1
        BY <1>1, <4>7
      <4>9. f = a + 1 + (t + 1) \/ f = a + 1 + (t + 1) - Size
        BY ONLY <1>1, <4>4, <4>5, <4>6, <4>8, FakeAssumption DEF Alloc, Size
      <4> QED
        BY ONLY <4>1, <4>3, <4>4, <4>6, <4>7, <4>9
    <3> QED
      BY <3>1, <3>2
  <2> QED
    BY ONLY <2>5, <2>6, <2>7, <2>8 DEF TurnsCounted, Ago
<1> QED
  BY <1>3, <1>4, <1>7, <1>8, <1>9, <1>10 DEF FakeInv

\* The sequence of writes is one of four, and its first element decides which.
LEMMA WritesLemma ==
    ASSUME Behind, writes # <<>>
    PROVE  \E d \in Domains, ip \in Alloc :
             \/ Indexing(d, ip) /\ Head(writes) = Tx("put", "ip", d, ip) /\ Tail(writes) = <<>>
             \/ /\ Putting(d, ip) /\ Head(writes) = Tx("put", "domain", d, ip)
                /\ Tail(writes) = <<Tx("put", "ip", d, ip)>> /\ Tail(Tail(writes)) = <<>>
             \/ \E old \in Domains :
                  \/ /\ Clearing(d, ip, old) /\ Head(writes) = Tx("del", "ip", old, ip)
                     /\ Tail(writes) = <<Tx("put", "domain", d, ip), Tx("put", "ip", d, ip)>>
                  \/ /\ Evicting(d, ip, old) /\ Head(writes) = Tx("del", "domain", old, ip)
                     /\ Tail(writes) = <<Tx("del", "ip", old, ip), Tx("put", "domain", d, ip), Tx("put", "ip", d, ip)>>
                     /\ Tail(Tail(writes)) = <<Tx("put", "domain", d, ip), Tx("put", "ip", d, ip)>>
<1>1. ~ WrittenBack
  BY DEF WrittenBack
<1>2. PICK d \in Domains, ip \in Alloc :
         \/ Indexing(d, ip) \/ Putting(d, ip)
         \/ \E old \in Domains : Clearing(d, ip, old) \/ Evicting(d, ip, old)
  BY <1>1 DEF Behind
<1>3. PICK i, p : i = Tx("put", "ip", d, ip) /\ p = Tx("put", "domain", d, ip)
  OBVIOUS
<1>4. CASE Indexing(d, ip)
  <2>1. writes = <<i>>
    BY <1>3, <1>4 DEF Indexing
  <2> QED
    BY <1>3, <1>4, <2>1, ShortSeqs
<1>5. CASE Putting(d, ip)
  <2>1. writes = <<p, i>>
    BY <1>3, <1>5 DEF Putting
  <2>2. Head(writes) = p /\ Tail(writes) = <<i>> /\ Tail(<<i>>) = <<>>
    BY <2>1, ShortSeqs
  <2> QED
    BY <1>3, <1>5, <2>2
<1>6. ASSUME NEW old \in Domains, Clearing(d, ip, old)
      PROVE  Head(writes) = Tx("del", "ip", old, ip) /\ Tail(writes) = <<p, i>>
  <2>1. PICK j : j = Tx("del", "ip", old, ip)
    OBVIOUS
  <2>2. writes = <<j, p, i>>
    BY <1>3, <1>6, <2>1 DEF Clearing
  <2> QED
    BY <2>1, <2>2, ShortSeqs
<1>7. ASSUME NEW old \in Domains, Evicting(d, ip, old)
      PROVE  /\ Head(writes) = Tx("del", "domain", old, ip)
             /\ Tail(writes) = <<Tx("del", "ip", old, ip), p, i>> /\ Tail(Tail(writes)) = <<p, i>>
  <2>1. PICK j, k : j = Tx("del", "ip", old, ip) /\ k = Tx("del", "domain", old, ip)
    OBVIOUS
  <2>2. writes = <<k, j, p, i>>
    BY <1>3, <1>7, <2>1 DEF Evicting
  <2>3. Head(writes) = k /\ Tail(writes) = <<j, p, i>>
    BY <2>2, ShortSeqs
  <2>4. Tail(<<j, p, i>>) = <<p, i>>
    BY ShortSeqs
  <2> QED
    BY <2>1, <2>3, <2>4
<1> QED
  BY <1>2, <1>3, <1>4, <1>5, <1>6, <1>7

\* The maps and the turns depend on nothing that a transaction changes.
LEMMA MapsUntouched ==
    ASSUME FakeInv, UNCHANGED <<domainToIP, ipToDomain, nextIP, turn>>, dbErrors' = 0 => dbErrors = 0
    PROVE  MapsBack' /\ MapsForth' /\ TurnsCounted'
<1>1. MapsBack /\ MapsForth /\ TurnsCounted
  BY DEF FakeInv
<1>2. \A d : LeadsBack(d)' <=> LeadsBack(d)
  BY DEF LeadsBack
<1>3. MapsBack' /\ MapsForth'
  BY <1>1, <1>2 DEF MapsBack, MapsForth
<1>4. \A n, ip : Ago(n, ip)' <=> Ago(n, ip)
  BY DEF Ago
<1>5. TurnsCounted'
  BY <1>1, <1>2, <1>4 DEF TurnsCounted
<1> QED
  BY <1>3, <1>5

\* One more, or one less, domain in the database.
LEMMA DbStep ==
    ASSUME FakeTypeOK, NEW d \in Domains, NEW ip \in Alloc,
           UNCHANGED <<domainToIP, ipToDomain, nextIP, crashes, dbErrors>>,
           dbDomain' = dbDomain \/ dbDomain' = Put(dbDomain, d, ip) \/ dbDomain' = Del(dbDomain, d)
    PROVE  FakeTypeOK'
<1>1. PICK D : D = dbDomain'
  OBVIOUS
<1>2. DOMAIN dbDomain \subseteq Domains /\ dbDomain \in [DOMAIN dbDomain -> Alloc] /\ IsFiniteSet(DOMAIN dbDomain)
  BY DEF FakeTypeOK
<1>3. DOMAIN D \subseteq Domains /\ D \in [DOMAIN D -> Alloc] /\ IsFiniteSet(DOMAIN D)
  <2>1. CASE D = dbDomain
    BY <1>2, <2>1
  <2>2. CASE D = Put(dbDomain, d, ip)
    <3>1. DOMAIN D = DOMAIN dbDomain \cup {d} /\ D \in [DOMAIN D -> Alloc]
      BY <1>2, <2>2 DEF Put
    <3>2. IsFiniteSet(DOMAIN dbDomain \cup {d})
      BY <1>2, FS_AddElement
    <3> QED
      BY <1>2, <3>1, <3>2
  <2>3. CASE D = Del(dbDomain, d)
    <3>1. DOMAIN D = DOMAIN dbDomain \ {d} /\ D \in [DOMAIN D -> Alloc]
      BY <1>2, <2>3 DEF Del
    <3>2. IsFiniteSet(DOMAIN dbDomain \ {d})
      BY <1>2, FS_Subset
    <3> QED
      BY <1>2, <3>1, <3>2
  <2> QED
    BY <1>1, <2>1, <2>2, <2>3
<1> QED
  BY <1>1, <1>3 DEF FakeTypeOK

LEMMA DbWriteKeeps ==
    ASSUME FakeInv, DbWrite
    PROVE  FakeInv'
<1>1. /\ FakeTypeOK /\ MapsBack /\ MapsForth /\ DbInjective /\ Behind /\ TurnsCounted /\ writes # <<>>
      /\ UNCHANGED <<domainToIP, ipToDomain, nextIP, turn, crashes, dbErrors>> /\ writes' = Tail(writes)
  BY DEF FakeInv, DbWrite
<1>2. MapsBack' /\ MapsForth' /\ TurnsCounted'
  BY <1>1, MapsUntouched
<1>3. ASSUME NEW d \in Domains, NEW ip \in Alloc, Head(writes) = Tx("put", "ip", d, ip)
      PROVE  dbDomain' = dbDomain /\ dbIp' = Put(dbIp, ip, d)
  BY <1>3 DEF DbWrite, Tx
<1>4. ASSUME NEW d \in Domains, NEW ip \in Alloc, Head(writes) = Tx("put", "domain", d, ip)
      PROVE  dbDomain' = Put(dbDomain, d, ip) /\ dbIp' = dbIp
  BY <1>4 DEF DbWrite, Tx
<1>5. ASSUME NEW d \in Domains, NEW ip \in Alloc, Head(writes) = Tx("del", "ip", d, ip)
      PROVE  dbDomain' = dbDomain /\ dbIp' = Del(dbIp, ip)
  BY <1>5 DEF DbWrite, Tx
<1>6. ASSUME NEW d \in Domains, NEW ip \in Alloc, Head(writes) = Tx("del", "domain", d, ip)
      PROVE  dbDomain' = Del(dbDomain, d) /\ dbIp' = dbIp
  BY <1>6 DEF DbWrite, Tx
<1>7. PICK d \in Domains, ip \in Alloc :
             \/ Indexing(d, ip) /\ Head(writes) = Tx("put", "ip", d, ip) /\ Tail(writes) = <<>>
             \/ /\ Putting(d, ip) /\ Head(writes) = Tx("put", "domain", d, ip)
                /\ Tail(writes) = <<Tx("put", "ip", d, ip)>>
             \/ \E old \in Domains :
                  \/ /\ Clearing(d, ip, old) /\ Head(writes) = Tx("del", "ip", old, ip)
                     /\ Tail(writes) = <<Tx("put", "domain", d, ip), Tx("put", "ip", d, ip)>>
                  \/ /\ Evicting(d, ip, old) /\ Head(writes) = Tx("del", "domain", old, ip)
                     /\ Tail(writes) = <<Tx("del", "ip", old, ip), Tx("put", "domain", d, ip), Tx("put", "ip", d, ip)>>
  BY <1>1, WritesLemma
<1>8. CASE Indexing(d, ip) /\ Head(writes) = Tx("put", "ip", d, ip) /\ Tail(writes) = <<>>
  <2>1. dbDomain' = dbDomain /\ dbIp' = Put(dbIp, ip, d)
    BY <1>3, <1>8
  <2>2. FakeTypeOK' /\ DbInjective'
    BY <1>1, <2>1, DbStep DEF DbInjective
  <2>3. dbErrors = 0 /\ crashes = 0 => \A e \in DOMAIN dbDomain : Indexed(e)'
    BY <1>1, <1>8, <2>1 DEF Indexing, Indexed, Put, DbInjective
  <2>4. WrittenBack'
    BY <1>1, <1>8, <2>1, <2>3 DEF WrittenBack, Indexing
  <2> QED
    BY <1>2, <2>2, <2>4 DEF FakeInv, Behind
<1>9. CASE /\ Putting(d, ip) /\ Head(writes) = Tx("put", "domain", d, ip)
           /\ Tail(writes) = <<Tx("put", "ip", d, ip)>>
  <2>1. dbDomain' = Put(dbDomain, d, ip) /\ dbIp' = dbIp
    BY <1>4, <1>9
  <2>2. FakeTypeOK'
    BY <1>1, <2>1, DbStep
  <2>3. dbErrors = 0 => \A e \in DOMAIN dbDomain : e # d /\ dbDomain[e] # ip
    BY <1>9 DEF Putting, Missing
  <2>4. PICK D : D = dbDomain'
    OBVIOUS
  <2>5. DOMAIN D = DOMAIN dbDomain \cup {d} /\ D[d] = ip /\ \A e \in DOMAIN dbDomain : e # d => D[e] = dbDomain[e]
    BY ONLY <2>1, <2>4 DEF Put
  <2>6. DbInjective'
    BY <1>1, <2>3, <2>4, <2>5 DEF DbInjective
  <2>7. dbErrors = 0 /\ crashes = 0 => \A e \in DOMAIN D \ {d} : Indexed(e)'
    BY <1>1, <1>9, <2>1, <2>4, <2>5 DEF Putting, Missing, Indexed
  <2>8. Indexing(d, ip)'
    BY <1>1, <1>9, <2>1, <2>4, <2>5, <2>7 DEF Indexing, Putting, Missing
  <2> QED
    BY <1>2, <2>2, <2>6, <2>8 DEF FakeInv, Behind
<1>10. ASSUME NEW old \in Domains, Clearing(d, ip, old), Head(writes) = Tx("del", "ip", old, ip),
              Tail(writes) = <<Tx("put", "domain", d, ip), Tx("put", "ip", d, ip)>>
       PROVE  FakeInv'
  <2>1. dbDomain' = dbDomain /\ dbIp' = Del(dbIp, ip)
    BY <1>5, <1>10
  <2>2. FakeTypeOK' /\ DbInjective'
    BY <1>1, <2>1, DbStep DEF DbInjective
  <2>3. Missing(d, ip)
    BY <1>10 DEF Clearing
  <2>4. dbErrors = 0 /\ crashes = 0 => \A e \in DOMAIN dbDomain : Indexed(e)'
    BY <2>1, <2>3 DEF Missing, Indexed, Del
  <2>5. Putting(d, ip)'
    BY <1>1, <1>10, <2>1, <2>3, <2>4 DEF Putting, Missing
  <2> QED
    BY <1>2, <2>2, <2>5 DEF FakeInv, Behind
<1>11. ASSUME NEW old \in Domains, Evicting(d, ip, old), Head(writes) = Tx("del", "domain", old, ip),
              Tail(writes) = <<Tx("del", "ip", old, ip), Tx("put", "domain", d, ip), Tx("put", "ip", d, ip)>>
       PROVE  FakeInv'
  <2>1. dbDomain' = Del(dbDomain, old) /\ dbIp' = dbIp
    BY <1>6, <1>11
  <2>2. FakeTypeOK'
    BY <1>1, <2>1, DbStep
  <2>3. PICK D : D = dbDomain'
    OBVIOUS
  <2>4. DOMAIN D = DOMAIN dbDomain \ {old} /\ \A e \in DOMAIN D : D[e] = dbDomain[e]
    BY ONLY <2>1, <2>3 DEF Del
  <2>5. DbInjective'
    BY <1>1, <2>3, <2>4 DEF DbInjective
  <2>6. dbErrors = 0 => /\ domainToIP = Put(D, d, ip)
                        /\ old \in DOMAIN dbDomain /\ dbDomain[old] = ip /\ d \notin DOMAIN dbDomain
    BY <1>11, <2>1, <2>3 DEF Evicting
  <2>7. dbErrors = 0 => \A e \in DOMAIN D : e # d /\ D[e] # ip
    BY <1>1, <2>4, <2>6 DEF DbInjective
  <2>8. dbErrors = 0 /\ crashes = 0 => \A e \in DOMAIN D : Indexed(e)'
    BY <1>1, <1>11, <2>1, <2>3, <2>4 DEF Evicting, Indexed
  <2>9. Clearing(d, ip, old)'
    BY <1>1, <1>11, <2>3, <2>6, <2>7, <2>8 DEF Clearing, Missing
  <2> QED
    BY <1>2, <2>2, <2>5, <2>9 DEF FakeInv, Behind
<1> QED
  BY <1>7, <1>8, <1>9, <1>10, <1>11

LEMMA DbFailsKeeps ==
    ASSUME FakeInv, DbFails
    PROVE  FakeInv'
<1>1. /\ FakeTypeOK /\ DbInjective /\ Behind /\ writes # <<>>
      /\ UNCHANGED <<domainToIP, ipToDomain, nextIP, dbDomain, dbIp, turn, crashes>> /\ dbErrors' = dbErrors + 1
      /\ writes' = IF Head(writes).key = "domain" THEN Tail(Tail(writes)) ELSE Tail(writes)
  BY DEF FakeInv, DbFails
<1>2. dbErrors' \in Nat /\ dbErrors' # 0
  BY <1>1 DEF FakeTypeOK
<1>3. MapsBack' /\ MapsForth' /\ TurnsCounted'
  BY <1>1, <1>2, MapsUntouched
<1>4. FakeTypeOK' /\ DbInjective'
  BY <1>1, <1>2 DEF FakeTypeOK, DbInjective
<1>5. PICK d \in Domains, ip \in Alloc :
             \/ Head(writes) = Tx("put", "ip", d, ip) /\ Tail(writes) = <<>>
             \/ /\ Head(writes) = Tx("put", "domain", d, ip)
                /\ Tail(writes) = <<Tx("put", "ip", d, ip)>> /\ Tail(Tail(writes)) = <<>>
             \/ \E old \in Domains :
                  \/ /\ Head(writes) = Tx("del", "ip", old, ip)
                     /\ Tail(writes) = <<Tx("put", "domain", d, ip), Tx("put", "ip", d, ip)>>
                  \/ /\ Head(writes) = Tx("del", "domain", old, ip)
                     /\ Tail(Tail(writes)) = <<Tx("put", "domain", d, ip), Tx("put", "ip", d, ip)>>
  BY <1>1, WritesLemma
<1>6. writes' = <<>> \/ writes' = <<Tx("put", "domain", d, ip), Tx("put", "ip", d, ip)>>
  BY <1>1, <1>5 DEF Tx
<1>7. WrittenBack' \/ Putting(d, ip)'
  BY <1>2, <1>6 DEF WrittenBack, Putting, Missing
<1> QED
  BY <1>3, <1>4, <1>7 DEF FakeInv, Behind

LEMMA CrashKeeps ==
    ASSUME FakeInv, Crash
    PROVE  FakeInv'
<1>1. /\ FakeTypeOK /\ DbInjective /\ crashes' = crashes + 1 /\ writes' = <<>> /\ turn' = NoMap
      /\ UNCHANGED <<dbDomain, dbIp, dbErrors>>
      /\ domainToIP' = dbDomain
      /\ ipToDomain' = [ip \in Range(dbDomain) |-> Max({d \in DOMAIN dbDomain : dbDomain[d] = ip})]
      /\ nextIP' = After(Max({Skip} \cup Range(dbDomain)))
  BY DEF FakeInv, Crash, Loaded
<1>2. Range(dbDomain) \subseteq Alloc
  BY <1>1 DEF FakeTypeOK, Range
<1>3. nextIP' \in 0 .. PoolEnd
  <2>1. PICK R : R = {Skip} \cup Range(dbDomain)
    OBVIOUS
  <2>2. R \in SUBSET (0 .. PoolEnd) /\ R # {}
    BY <1>2, <2>1, FakeAssumption DEF Alloc
  <2>3. IsFiniteSet(R)
    <3>1. IsFiniteSet(0 .. PoolEnd)
      BY FakeAssumption, FS_Interval
    <3> QED
      BY <2>2, <3>1, FS_Subset
  <2>4. R \in SUBSET Nat
    BY <2>2
  <2>5. Max(R) \in R
    BY <2>2, <2>3, <2>4, MaxOfFinite
  <2>6. After(Max(R)) \in 0 .. PoolEnd
    <3>1. PICK m \in 0 .. PoolEnd : m = Max(R)
      BY <2>2, <2>5
    <3> QED
      BY <3>1, FakeAssumption DEF After
  <2> QED
    BY <1>1, <2>1, <2>6
<1>4. ASSUME NEW ip \in Range(dbDomain)
      PROVE  ipToDomain'[ip] \in DOMAIN dbDomain /\ dbDomain[ipToDomain'[ip]] = ip
  <2>1. PICK H : H = {d \in DOMAIN dbDomain : dbDomain[d] = ip}
    OBVIOUS
  <2>2. H # {}
    BY <1>4, <2>1 DEF Range
  <2>3. H \in SUBSET Nat
    BY <1>1, <2>1, FakeAssumption DEF FakeTypeOK
  <2>4. IsFiniteSet(H)
    BY <1>1, <2>1, FS_Subset DEF FakeTypeOK
  <2>5. Max(H) \in H
    BY <2>2, <2>3, <2>4, MaxOfFinite
  <2>6. ipToDomain'[ip] = Max(H)
    BY <1>1, <1>4, <2>1
  <2> QED
    BY <2>1, <2>5, <2>6
<1>5. DOMAIN ipToDomain' = Range(dbDomain)
  BY <1>1
<1>6. FakeTypeOK'
  <2>1. ipToDomain' \in [DOMAIN ipToDomain' -> Domains]
    <3>1. PICK I : I = ipToDomain'
      OBVIOUS
    <3>2. I = [ip \in DOMAIN I |-> I[ip]]
      BY <1>1, <3>1
    <3>3. \A ip \in DOMAIN I : I[ip] \in Domains
      BY <1>1, <1>4, <1>5, <3>1 DEF FakeTypeOK
    <3> QED
      BY ONLY <3>1, <3>2, <3>3
  <2> QED
    BY <1>1, <1>2, <1>3, <1>5, <2>1 DEF FakeTypeOK
<1>7. MapsBack'
  BY <1>1, <1>4, <1>5 DEF MapsBack
<1>8. MapsForth'
  <2>1. SUFFICES ASSUME dbErrors = 0, NEW d \in DOMAIN dbDomain
                 PROVE  dbDomain[d] \in DOMAIN ipToDomain' /\ ipToDomain'[dbDomain[d]] = d
    BY <1>1 DEF MapsForth, LeadsBack
  <2>2. dbDomain[d] \in Range(dbDomain)
    BY DEF Range
  <2> QED
    BY <1>1, <1>4, <1>5, <2>1, <2>2 DEF DbInjective
<1>9. DbInjective'
  BY <1>1 DEF DbInjective
<1>10. Behind'
  <2>1. crashes' # 0
    BY <1>1 DEF FakeTypeOK
  <2> QED
    BY <1>1, <2>1 DEF Behind, WrittenBack
<1>11. TurnsCounted'
  BY <1>1 DEF TurnsCounted, NoMap
<1> QED
  BY <1>6, <1>7, <1>8, <1>9, <1>10, <1>11 DEF FakeInv

LEMMA FakeStart == FakeInit => FakeInv
<1> SUFFICES ASSUME FakeInit PROVE FakeInv
  OBVIOUS
<1>1. FakeTypeOK
  <2>1. IsFiniteSet({})
    BY FS_EmptySet
  <2> QED
    BY <2>1, FakeAssumption DEF FakeInit, FakeTypeOK, NoMap, FirstAlloc
<1>2. MapsBack /\ MapsForth /\ DbInjective
  BY DEF FakeInit, MapsBack, MapsForth, DbInjective, NoMap
<1>3. Behind
  BY DEF FakeInit, Behind, WrittenBack, NoMap
<1>4. TurnsCounted
  BY DEF FakeInit, TurnsCounted, NoMap
<1> QED
  BY <1>1, <1>2, <1>3, <1>4 DEF FakeInv

\* Every step keeps the invariant.
LEMMA FakeStep ==
    ASSUME FakeInv, [FakeNext]_poolVars_
    PROVE  FakeInv'
<1>1. CASE FakeNext
  BY <1>1, LookupKeeps, DbWriteKeeps, DbFailsKeeps, CrashKeeps DEF FakeNext
<1>2. CASE UNCHANGED poolVars_
  <2>1. UNCHANGED <<domainToIP, ipToDomain, nextIP, dbDomain, dbIp, writes, turn, crashes, dbErrors>>
    BY <1>2 DEF poolVars_
  <2>2. MapsBack' /\ MapsForth' /\ TurnsCounted'
    BY <2>1, MapsUntouched
  <2>3. FakeTypeOK' /\ DbInjective'
    BY <2>1 DEF FakeInv, FakeTypeOK, DbInjective
  <2>4. Behind'
    BY <2>1 DEF FakeInv, Behind, WrittenBack, Indexing, Putting, Clearing, Evicting, Missing, Indexed
  <2> QED
    BY <2>2, <2>3, <2>4 DEF FakeInv
<1> QED
  BY <1>1, <1>2

\* An eviction comes at the end of a turn.
LEMMA EvictionIsLate ==
    ASSUME FakeInv, [FakeNext]_poolVars_, NEW d \in DOMAIN turn, d \notin DOMAIN domainToIP'
    PROVE  turn[d] = Room - 1 \/ crashes' # crashes
<1>1. d \in DOMAIN domainToIP
  BY DEF FakeInv, TurnsCounted
<1>2. ASSUME NEW e \in Domains, Lookup(e)
      PROVE  turn[d] = Room - 1
  <2>1. PICK ip \in Alloc : GivesTo(e, ip)
    BY ONLY FakeInv, <1>2, LookupMaps
  <2>2. /\ ip = Free(nextIP)
        /\ DOMAIN domainToIP' = DOMAIN Evicted(ip) \cup {e}
        /\ \A x \in DOMAIN domainToIP : x \notin DOMAIN Evicted(ip) <=> ip \in DOMAIN ipToDomain /\ x = ipToDomain[ip]
    BY <2>1 DEF GivesTo
  <2>3. ip \in DOMAIN ipToDomain /\ d = ipToDomain[ip]
    BY <1>1, <2>2
  <2>4. domainToIP[d] = ip
    BY <2>3 DEF FakeInv, MapsBack
  <2>5. turn[d] \in Nat /\ turn[d] < Size /\ (ip = ip + 1 + turn[d] \/ ip = ip + 1 + turn[d] - Size)
    BY <2>2, <2>4 DEF FakeInv, TurnsCounted, Ago
  <2>6. PICK t \in Nat : t = turn[d]
    BY <2>5
  <2>7. t = Size - 1
    BY <2>5, <2>6, FakeAssumption DEF Alloc, Size
  <2> QED
    BY <2>6, <2>7, RoomLemma
<1>3. ASSUME Crash PROVE crashes' # crashes
  BY <1>3 DEF Crash, FakeInv, FakeTypeOK
<1>4. ASSUME DbWrite \/ DbFails \/ UNCHANGED poolVars_ PROVE FALSE
  BY <1>1, <1>4 DEF DbWrite, DbFails, poolVars_
<1> QED
  BY <1>2, <1>3, <1>4 DEF FakeNext

\* For every pool, every set of names and any number of crashes and of failed
\* transactions: a fake address leads back to the name it was given for, what has been
\* answered is in the database, and Lookup takes an address from a name only after it
\* has given all the others.
THEOREM FakeAddressesAreRight == FakeSpec => FakeIpRight
<1>1. FakeInv => MapsAgree /\ Persisted
  <2>1. SUFFICES ASSUME FakeInv PROVE MapsAgree /\ Persisted
    OBVIOUS
  <2>2. MapsAgree
    BY <2>1 DEF FakeInv, MapsAgree, MapsBack, MapsForth, LeadsBack
  <2>3. writes = <<>> => WrittenBack
    <3>1. \A a, b, c, e : <<a>> # <<>> /\ <<a, b>> # <<>> /\ <<a, c, e>> # <<>> /\ <<a, b, c, e>> # <<>>
      BY ShortSeqs
    <3> QED
      BY <2>1, <3>1 DEF FakeInv, Behind, Indexing, Putting, Clearing, Evicting
  <2>4. Persisted
    BY <2>3 DEF Persisted, WrittenBack, Indexed
  <2> QED
    BY <2>2, <2>4
<1>2. FakeInv /\ [FakeNext]_poolVars_ => FakeInv'
  BY FakeStep
<1>3. FakeInv /\ [FakeNext]_poolVars_ =>
        [\A d \in DOMAIN turn : d \in DOMAIN domainToIP /\ d \notin DOMAIN domainToIP' =>
            turn[d] = Room - 1 \/ crashes' # crashes]_poolVars_
  BY EvictionIsLate
<1>4. FakeSpec => []FakeInv
  BY <1>2, FakeStart, PTL DEF FakeSpec
<1>5. FakeSpec => [](MapsAgree /\ Persisted)
  BY <1>1, <1>4, PTL
<1>6. FakeSpec => FullTurn
  BY <1>3, <1>4, PTL DEF FakeSpec, FullTurn
<1> QED
  BY <1>5, <1>6, PTL DEF FakeIpRight

-----------------------------------------------------------------------------
(* DNS queries: the inductive invariant. *)

Early == {"process", "forward", "register"}
Job == [q : Queries, t : Early \cup {"write", "remove"}] \cup {Free_}
Places == {"new", "queue", "worker", "waits", "gone"}

\* Query c is in the hands of a worker whose write failed.
Removing(d, c) == \E w \in DnsWorkers : d[w].q = c /\ d[w].t = "remove"

\* A worker's step and the place of its query agree, and no two workers have the same.
WorkersSay(wh, d, F) ==
    \A w \in DnsWorkers :
        /\ d[w].t \in Early => wh[d[w].q] = "worker"
        /\ d[w].t \in {"write", "remove"} => wh[d[w].q] \in {"waits", "gone"}
        /\ d[w].t = "write" => d[w].q \notin F
        /\ d[w].t = "remove" => d[w].q \in F
        /\ \A v \in DnsWorkers : d[w].t # "free" /\ d[v].t # "free" /\ d[v].q = d[w].q => v = w

\* The place of a query, and who has it: Q is the queue, W who waits.
PlacesSay(wh, d, n, F, Q, W) ==
    \A c \in Queries :
        /\ wh[c] = "queue" <=> c \in Q
        /\ wh[c] = "worker" => \E w \in DnsWorkers : d[w].q = c /\ d[w].t \in Early
        /\ wh[c] \in {"new", "queue", "worker"} => c \notin W /\ n[c] = 0 /\ c \notin F
        /\ wh[c] = "waits" => c \in W

\* The number of answers: T are the queries with a SERVFAIL, F those whose write failed.
\* A query that still waits has had none, or the SERVFAIL of its worker.
Counted(d, n, T, F, W) ==
    \A c \in Queries :
        /\ n[c] \in 0 .. 1 \/ (n[c] = 2 /\ c \in F \cap T /\ ~ Removing(d, c))
        /\ c \in W => n[c] = 0 \/ (n[c] = 1 /\ c \in F \cap T /\ ~ Removing(d, c))

Book(wh, d, n, T, F, Q, W) == WorkersSay(wh, d, F) /\ PlacesSay(wh, d, n, F, Q, W) /\ Counted(d, n, T, F, W)

Apart(P, L, R) == P \cap L = {} /\ P \cap R = {} /\ L \cap R = {}

\* After Stop has emptied the map only a worker that had the socket before registers
\* a client, and it will find the socket closed.
Latecomers(d, P) == \A c \in P : \E w \in DnsWorkers : d[w].q = c /\ d[w].t \in {"write", "remove"}

Count == [c \in Queries |-> Len(answered[c])]
Told == {c \in Queries : "fail" \in ToSet(answered[c])}
Waiting == ToSet(pending) \cup ToSet(listener.todo) \cup ToSet(rest)

DnsShapes ==
    /\ where \in [Queries -> Places] /\ doing \in [DnsWorkers -> Job] /\ failed \subseteq Queries
    /\ queue \in Seq(Queries) /\ IsInjective(queue) /\ pending \in Seq(Queries) /\ IsInjective(pending)
    /\ rest \in Seq(Queries) /\ IsInjective(rest)
    /\ listener \in [t : {"read", "take", "ip", "fail"}, name : RemoteNames \cup {0}, todo : Seq(Queries)]
    /\ IsInjective(listener.todo) /\ (listener.t \in {"read", "take"} => listener.todo = <<>>)
    /\ answered \in [Queries -> Seq({"ip", "empty", "fail"})]
    /\ stop \in {"no", "drain", "answer", "done"} /\ (stop # "no" => sock = "closed") /\ (stop # "answer" => rest = <<>>)

DnsInv ==
    /\ DnsShapes /\ Apart(ToSet(pending), ToSet(listener.todo), ToSet(rest))
    /\ Book(where, doing, Count, Told, failed, ToSet(queue), Waiting)
    /\ stop \in {"answer", "done"} => Latecomers(doing, ToSet(pending))

-----------------------------------------------------------------------------
(* DNS queries: what each kind of step does to the book.                   *)

JobsAgree(d, e, w) == e \in [DnsWorkers -> Job] /\ \A v \in DnsWorkers \ {w} : e[v] = d[v]

\* One answer more, or none if the socket is closed.
Adds(n, m, T, U, c) ==
    /\ m \in [Queries -> Nat] /\ m[c] \in {n[c], n[c] + 1} /\ (\A x \in Queries \ {c} : m[x] = n[x])
    /\ T \subseteq U /\ U \subseteq T \cup {c}

LEMMA JobIsQuery == ASSUME NEW j \in Job, j.t # "free" PROVE j.q \in Queries
BY DEF Job, Free_

\* A query enters the queue.
LEMMA BookQueued ==
    ASSUME NEW wh \in [Queries -> Places], NEW d \in [DnsWorkers -> Job], NEW n \in [Queries -> Nat], NEW T, NEW F, NEW Q, NEW W,
           Book(wh, d, n, T, F, Q, W),
           NEW c \in Queries, wh[c] = "new"
    PROVE  Book([wh EXCEPT ![c] = "queue"], d, n, T, F, Q \cup {c}, W)
<1>0. WorkersSay(wh, d, F) /\ PlacesSay(wh, d, n, F, Q, W) /\ Counted(d, n, T, F, W) BY DEF Book
<1>1. WorkersSay([wh EXCEPT ![c] = "queue"], d, F) BY <1>0, JobIsQuery DEF WorkersSay, PlacesSay, JobsAgree, Early
<1>2. PlacesSay([wh EXCEPT ![c] = "queue"], d, n, F, Q \cup {c}, W) BY <1>0, JobIsQuery DEF WorkersSay, PlacesSay, JobsAgree, Early
<1>3. Counted(d, n, T, F, W) BY <1>0, JobIsQuery DEF WorkersSay, PlacesSay, Counted, Removing, JobsAgree, Early
<1> QED BY <1>1, <1>2, <1>3 DEF Book

\* A query is dropped.
LEMMA BookDropped ==
    ASSUME NEW wh \in [Queries -> Places], NEW d \in [DnsWorkers -> Job], NEW n \in [Queries -> Nat], NEW T, NEW F, NEW Q, NEW W,
           Book(wh, d, n, T, F, Q, W),
           NEW c \in Queries, wh[c] = "new"
    PROVE  Book([wh EXCEPT ![c] = "gone"], d, n, T, F, Q, W)
<1>0. WorkersSay(wh, d, F) /\ PlacesSay(wh, d, n, F, Q, W) /\ Counted(d, n, T, F, W) BY DEF Book
<1>1. WorkersSay([wh EXCEPT ![c] = "gone"], d, F) BY <1>0, JobIsQuery DEF WorkersSay, PlacesSay, JobsAgree, Early
<1>2. PlacesSay([wh EXCEPT ![c] = "gone"], d, n, F, Q, W) BY <1>0, JobIsQuery DEF WorkersSay, PlacesSay, JobsAgree, Early
<1>3. Counted(d, n, T, F, W) BY <1>0, JobIsQuery DEF WorkersSay, PlacesSay, Counted, Removing, JobsAgree, Early
<1> QED BY <1>1, <1>2, <1>3 DEF Book

\* A worker takes a query.
LEMMA BookTaken ==
    ASSUME NEW wh \in [Queries -> Places], NEW d \in [DnsWorkers -> Job], NEW n \in [Queries -> Nat], NEW T, NEW F, NEW Q, NEW W,
           Book(wh, d, n, T, F, Q, W),
           NEW c \in Queries, c \in Q, NEW w \in DnsWorkers, d[w].t = "free", NEW e, JobsAgree(d, e, w), e[w].q = c, e[w].t = "process"
    PROVE  Book([wh EXCEPT ![c] = "worker"], e, n, T, F, Q \ {c}, W)
<1>0. WorkersSay(wh, d, F) /\ PlacesSay(wh, d, n, F, Q, W) /\ Counted(d, n, T, F, W) BY DEF Book
<1>1. WorkersSay([wh EXCEPT ![c] = "worker"], e, F)
  <2>1. \A v \in DnsWorkers \ {w} : e[v] = d[v] BY DEF JobsAgree
  <2>2. wh[c] = "queue" BY <1>0 DEF PlacesSay
  <2>3. \A v \in DnsWorkers : d[v].t # "free" => d[v].q # c BY <1>0, <2>2 DEF WorkersSay, Early, Job, Free_
  <2>4. c \notin F BY <1>0, <2>2 DEF PlacesSay
  <2> QED BY <1>0, <2>1, <2>2, <2>3, <2>4, JobIsQuery DEF WorkersSay, Early
<1>2. PlacesSay([wh EXCEPT ![c] = "worker"], e, n, F, Q \ {c}, W)
  <2>1. \A v \in DnsWorkers \ {w} : e[v] = d[v] BY DEF JobsAgree
  <2>2. \A x \in Queries : wh[x] = "worker" => \E v \in DnsWorkers \ {w} : e[v].q = x /\ e[v].t \in Early BY <1>0, <2>1 DEF PlacesSay, Early
  <2>3. wh[c] = "queue" BY <1>0 DEF PlacesSay
  <2> QED BY <1>0, <2>2, <2>3 DEF PlacesSay, Early
<1>3. Counted(e, n, T, F, W) BY <1>0, JobIsQuery DEF WorkersSay, PlacesSay, Counted, Removing, JobsAgree, Early
<1> QED BY <1>1, <1>2, <1>3 DEF Book

\* A worker comes to its next step.
LEMMA BookMoved ==
    ASSUME NEW wh \in [Queries -> Places], NEW d \in [DnsWorkers -> Job], NEW n \in [Queries -> Nat], NEW T, NEW F, NEW Q, NEW W,
           Book(wh, d, n, T, F, Q, W),
           NEW w \in DnsWorkers, d[w].t \in Early, NEW e, JobsAgree(d, e, w), e[w].q = d[w].q, e[w].t \in Early
    PROVE  Book(wh, e, n, T, F, Q, W)
<1>0. WorkersSay(wh, d, F) /\ PlacesSay(wh, d, n, F, Q, W) /\ Counted(d, n, T, F, W) BY DEF Book
<1>1. WorkersSay(wh, e, F) BY <1>0, JobIsQuery DEF WorkersSay, PlacesSay, JobsAgree, Early
<1>2. PlacesSay(wh, e, n, F, Q, W) BY <1>0, JobIsQuery DEF WorkersSay, PlacesSay, JobsAgree, Early
<1>3. Counted(e, n, T, F, W) BY <1>0, JobIsQuery DEF WorkersSay, PlacesSay, Counted, Removing, JobsAgree, Early
<1> QED BY <1>1, <1>2, <1>3 DEF Book

\* A worker answers its query and is free.
LEMMA BookAnswered ==
    ASSUME NEW wh \in [Queries -> Places], NEW d \in [DnsWorkers -> Job], NEW n \in [Queries -> Nat], NEW T, NEW F, NEW Q, NEW W,
           Book(wh, d, n, T, F, Q, W),
           NEW w \in DnsWorkers, NEW c \in Queries, c = d[w].q, d[w].t \in Early, NEW e, JobsAgree(d, e, w), e[w].t = "free", NEW m, NEW U, Adds(n, m, T, U, c)
    PROVE  Book([wh EXCEPT ![c] = "gone"], e, m, U, F, Q, W)
<1>0. WorkersSay(wh, d, F) /\ PlacesSay(wh, d, n, F, Q, W) /\ Counted(d, n, T, F, W) BY DEF Book
<1>a. /\ m \in [Queries -> Nat] /\ m[c] \in {n[c], n[c] + 1} /\ (\A x \in Queries \ {c} : m[x] = n[x])
      /\ T \subseteq U /\ U \subseteq T \cup {c}
  BY DEF Adds
<1>1. WorkersSay([wh EXCEPT ![c] = "gone"], e, F) BY <1>0, <1>a, JobIsQuery DEF WorkersSay, PlacesSay, JobsAgree, Early
<1>2. PlacesSay([wh EXCEPT ![c] = "gone"], e, m, F, Q, W) BY <1>0, <1>a, JobIsQuery DEF WorkersSay, PlacesSay, JobsAgree, Early
<1>3. Counted(e, m, U, F, W) BY <1>0, <1>a, JobIsQuery DEF WorkersSay, PlacesSay, Counted, Removing, JobsAgree, Early
<1> QED BY <1>1, <1>2, <1>3 DEF Book

\* The client of a query becomes a waiter.
LEMMA BookRegistered ==
    ASSUME NEW wh \in [Queries -> Places], NEW d \in [DnsWorkers -> Job], NEW n \in [Queries -> Nat], NEW T, NEW F, NEW Q, NEW W,
           Book(wh, d, n, T, F, Q, W),
           NEW w \in DnsWorkers, NEW c \in Queries, c = d[w].q, d[w].t = "register", NEW e, JobsAgree(d, e, w), e[w].q = c, e[w].t = "write"
    PROVE  Book([wh EXCEPT ![c] = "waits"], e, n, T, F, Q, W \cup {c})
<1>0. WorkersSay(wh, d, F) /\ PlacesSay(wh, d, n, F, Q, W) /\ Counted(d, n, T, F, W) BY DEF Book
<1>1. WorkersSay([wh EXCEPT ![c] = "waits"], e, F) BY <1>0, JobIsQuery DEF WorkersSay, PlacesSay, JobsAgree, Early
<1>2. PlacesSay([wh EXCEPT ![c] = "waits"], e, n, F, Q, W \cup {c}) BY <1>0, JobIsQuery DEF WorkersSay, PlacesSay, JobsAgree, Early
<1>3. Counted(e, n, T, F, W \cup {c}) BY <1>0, JobIsQuery DEF WorkersSay, PlacesSay, Counted, Removing, JobsAgree, Early
<1> QED BY <1>1, <1>2, <1>3 DEF Book

\* The worker is through with a waiter.
LEMMA BookWritten ==
    ASSUME NEW wh \in [Queries -> Places], NEW d \in [DnsWorkers -> Job], NEW n \in [Queries -> Nat], NEW T, NEW F, NEW Q, NEW W,
           Book(wh, d, n, T, F, Q, W),
           NEW w \in DnsWorkers, d[w].t = "write", NEW e, JobsAgree(d, e, w), e[w].t = "free"
    PROVE  Book(wh, e, n, T, F, Q, W)
<1>0. WorkersSay(wh, d, F) /\ PlacesSay(wh, d, n, F, Q, W) /\ Counted(d, n, T, F, W) BY DEF Book
<1>1. WorkersSay(wh, e, F) BY <1>0, JobIsQuery DEF WorkersSay, PlacesSay, JobsAgree, Early
<1>2. PlacesSay(wh, e, n, F, Q, W) BY <1>0, JobIsQuery DEF WorkersSay, PlacesSay, JobsAgree, Early
<1>3. Counted(e, n, T, F, W) BY <1>0, JobIsQuery DEF WorkersSay, PlacesSay, Counted, Removing, JobsAgree, Early
<1> QED BY <1>1, <1>2, <1>3 DEF Book

\* Its write fails.
LEMMA BookFailed ==
    ASSUME NEW wh \in [Queries -> Places], NEW d \in [DnsWorkers -> Job], NEW n \in [Queries -> Nat], NEW T, NEW F, NEW Q, NEW W,
           Book(wh, d, n, T, F, Q, W),
           NEW w \in DnsWorkers, NEW c \in Queries, c = d[w].q, d[w].t = "write", NEW e, JobsAgree(d, e, w), e[w].q = c, e[w].t = "remove"
    PROVE  Book(wh, e, n, T, F \cup {c}, Q, W)
<1>0. WorkersSay(wh, d, F) /\ PlacesSay(wh, d, n, F, Q, W) /\ Counted(d, n, T, F, W) BY DEF Book
<1>1. WorkersSay(wh, e, F \cup {c}) BY <1>0, JobIsQuery DEF WorkersSay, PlacesSay, JobsAgree, Early
<1>2. PlacesSay(wh, e, n, F \cup {c}, Q, W) BY <1>0, JobIsQuery DEF WorkersSay, PlacesSay, JobsAgree, Early
<1>3. Counted(e, n, T, F \cup {c}, W) BY <1>0, JobIsQuery DEF WorkersSay, PlacesSay, Counted, Removing, JobsAgree, Early
<1> QED BY <1>1, <1>2, <1>3 DEF Book

\* It takes the waiter back, if it still finds it, and says SERVFAIL.
LEMMA BookRemoved ==
    ASSUME NEW wh \in [Queries -> Places], NEW d \in [DnsWorkers -> Job], NEW n \in [Queries -> Nat], NEW T, NEW F, NEW Q, NEW W,
           Book(wh, d, n, T, F, Q, W),
           NEW w \in DnsWorkers, NEW c \in Queries, c = d[w].q, d[w].t = "remove", NEW e, JobsAgree(d, e, w), e[w].t = "free", NEW V, V = W \ {c} \/ V = W, NEW m, NEW U, Adds(n, m, T, U, c), m[c] = n[c] \/ c \in U
    PROVE  Book([wh EXCEPT ![c] = "gone"], e, m, U, F, Q, V)
<1>0. WorkersSay(wh, d, F) /\ PlacesSay(wh, d, n, F, Q, W) /\ Counted(d, n, T, F, W) BY DEF Book
<1>a. /\ m \in [Queries -> Nat] /\ m[c] \in {n[c], n[c] + 1} /\ (\A x \in Queries \ {c} : m[x] = n[x])
      /\ T \subseteq U /\ U \subseteq T \cup {c}
  BY DEF Adds
<1>1. WorkersSay([wh EXCEPT ![c] = "gone"], e, F) BY <1>0, <1>a, JobIsQuery DEF WorkersSay, PlacesSay, JobsAgree, Early
<1>2. PlacesSay([wh EXCEPT ![c] = "gone"], e, m, F, Q, V) BY <1>0, <1>a, JobIsQuery DEF WorkersSay, PlacesSay, JobsAgree, Early
<1>3. Counted(e, m, U, F, V) BY <1>0, <1>a, JobIsQuery DEF WorkersSay, PlacesSay, Counted, Removing, JobsAgree, Early
<1> QED BY <1>1, <1>2, <1>3 DEF Book

\* The listener or Stop answers one that it has taken.
LEMMA BookTold ==
    ASSUME NEW wh \in [Queries -> Places], NEW d \in [DnsWorkers -> Job], NEW n \in [Queries -> Nat], NEW T, NEW F, NEW Q, NEW W,
           Book(wh, d, n, T, F, Q, W),
           NEW c \in Queries, c \in W, NEW m, NEW U, Adds(n, m, T, U, c)
    PROVE  Book([wh EXCEPT ![c] = "gone"], d, m, U, F, Q, W \ {c})
<1>0. WorkersSay(wh, d, F) /\ PlacesSay(wh, d, n, F, Q, W) /\ Counted(d, n, T, F, W) BY DEF Book
<1>a. /\ m \in [Queries -> Nat] /\ m[c] \in {n[c], n[c] + 1} /\ (\A x \in Queries \ {c} : m[x] = n[x])
      /\ T \subseteq U /\ U \subseteq T \cup {c}
  BY DEF Adds
<1>1. WorkersSay([wh EXCEPT ![c] = "gone"], d, F) BY <1>0, <1>a, JobIsQuery DEF WorkersSay, PlacesSay, JobsAgree, Early
<1>2. PlacesSay([wh EXCEPT ![c] = "gone"], d, m, F, Q, W \ {c}) BY <1>0, <1>a, JobIsQuery DEF WorkersSay, PlacesSay, JobsAgree, Early
<1>3. Counted(d, m, U, F, W \ {c}) BY <1>0, <1>a, JobIsQuery DEF WorkersSay, PlacesSay, Counted, Removing, JobsAgree, Early
<1> QED BY <1>1, <1>2, <1>3 DEF Book


-----------------------------------------------------------------------------
(* DNS queries: sequences of waiters.                                      *)

\* Tail drops the head only, from a sequence that has it once.
LEMMA HeadLeaves ==
    ASSUME NEW S, NEW s \in Seq(S), s # <<>>, IsInjective(s)
    PROVE  /\ Tail(s) \in Seq(S) /\ IsInjective(Tail(s)) /\ Head(s) \in S
           /\ Head(s) \in ToSet(s) /\ ToSet(Tail(s)) = ToSet(s) \ {Head(s)}
<1>1. PICK t, h : t = Tail(s) /\ h = Head(s) OBVIOUS
<1>2. /\ t \in Seq(S) /\ h \in S /\ h \in ToSet(s) /\ ToSet(t) \subseteq ToSet(s) /\ IsInjective(t) /\ h \notin ToSet(t)
  BY <1>1, TailLemma
<1>3. Len(s) \in Nat \ {0} /\ h = s[1] /\ Len(t) = Len(s) - 1 /\ \A i \in 1 .. Len(t) : t[i] = s[i + 1]
  BY <1>1, EmptySeq, LenProperties, HeadTailProperties
<1>4. ASSUME NEW x \in ToSet(s), x # h PROVE x \in ToSet(t)
  <2>1. PICK i \in 1 .. Len(s) : s[i] = x BY ToSetType
  <2>2. i - 1 \in 1 .. Len(t) /\ i = (i - 1) + 1 BY <1>3, <1>4, <2>1
  <2>3. t[i - 1] = x BY <1>3, <2>1, <2>2
  <2> QED BY <1>2, <2>2, <2>3, ToSetType
<1> QED BY <1>1, <1>2, <1>4

\* A sequence cut after its first k elements.
Cuts(s, n, k, a, b) ==
    /\ n = Len(s) /\ Len(a) = k /\ Len(b) = n - k
    /\ (\A i \in 1 .. k : a[i] = s[i]) /\ (\A i \in 1 .. n - k : b[i] = s[k + i])

LEMMA CutParts ==
    ASSUME NEW S, NEW s \in Seq(S), IsInjective(s), NEW n \in Nat, NEW k \in 1 .. n,
           NEW a \in Seq(S), NEW b \in Seq(S), Cuts(s, n, k, a, b)
    PROVE  IsInjective(a) /\ IsInjective(b) /\ ToSet(a) \cap ToSet(b) = {} /\ ToSet(a) \cup ToSet(b) = ToSet(s)
<1>0. /\ n = Len(s) /\ Len(a) = k /\ Len(b) = n - k
      /\ (\A i \in 1 .. k : a[i] = s[i]) /\ (\A i \in 1 .. n - k : b[i] = s[k + i])
  BY DEF Cuts
<1>1. DOMAIN a = 1 .. k /\ DOMAIN b = 1 .. n - k /\ DOMAIN s = 1 .. n BY <1>0, LenProperties
<1>2. ASSUME NEW i \in DOMAIN a PROVE i \in DOMAIN s /\ a[i] = s[i] BY <1>0, <1>1
<1>3. ASSUME NEW i \in DOMAIN b PROVE k + i \in DOMAIN s /\ b[i] = s[k + i]
  <2>1. i \in 1 .. n - k BY <1>1
  <2>2. k + i \in 1 .. n BY <2>1
  <2> QED BY <1>0, <1>1, <2>1, <2>2
<1>4. IsInjective(a) BY <1>2 DEF IsInjective
<1>5. IsInjective(b)
  <2>1. \A i, j \in DOMAIN b : k + i = k + j => i = j BY <1>1
  <2> QED BY <1>3, <2>1 DEF IsInjective
<1>6. ToSet(a) \cap ToSet(b) = {}
  <2>1. SUFFICES ASSUME NEW i \in DOMAIN a, NEW j \in DOMAIN b, a[i] = b[j] PROVE FALSE BY DEF ToSet
  <2>2. i # k + j BY <1>1
  <2>3. s[i] = s[k + j] BY <1>2, <1>3, <2>1
  <2> QED BY <1>2, <1>3, <2>2, <2>3 DEF IsInjective
<1>7. ToSet(a) \subseteq ToSet(s) BY <1>2 DEF ToSet
<1>8. ToSet(b) \subseteq ToSet(s) BY <1>3 DEF ToSet
<1>9. ASSUME NEW i \in DOMAIN s PROVE s[i] \in ToSet(a) \cup ToSet(b)
  <2>1. CASE i <= k
    <3>1. i \in 1 .. k BY <1>1, <2>1
    <3> QED BY <1>0, <1>1, <3>1 DEF ToSet
  <2>2. CASE i > k
    <3>1. PICK j : j = i - k OBVIOUS
    <3>2. j \in 1 .. n - k /\ k + j = i BY <1>1, <2>2, <3>1
    <3> QED BY <1>0, <1>1, <3>2 DEF ToSet
  <2> QED BY <1>1, <2>1, <2>2
<1>10. ToSet(s) \subseteq ToSet(a) \cup ToSet(b) BY <1>9 DEF ToSet
<1> QED BY <1>4, <1>5, <1>6, <1>7, <1>8, <1>10

CutAt(s, n, k, a, b) == n = Len(s) /\ a = SubSeq(s, 1, k) /\ b = SubSeq(s, k + 1, n)

LEMMA CutLemma ==
    ASSUME NEW S, NEW s \in Seq(S), IsInjective(s), NEW n \in Nat, NEW k \in 1 .. n, NEW a, NEW b, CutAt(s, n, k, a, b)
    PROVE  /\ a \in Seq(S) /\ b \in Seq(S) /\ IsInjective(a) /\ IsInjective(b)
           /\ ToSet(a) \cap ToSet(b) = {} /\ ToSet(a) \cup ToSet(b) = ToSet(s)
<1>0. n = Len(s) /\ a = SubSeq(s, 1, k) /\ b = SubSeq(s, k + 1, n) BY DEF CutAt
<1>1. \A i \in 1 .. n : s[i] \in S BY <1>0, ElementOfSeq
<1>2. /\ a \in Seq(S) /\ Len(a) = (IF 1 <= k THEN k - 1 + 1 ELSE 0)
      /\ \A i \in 1 .. k - 1 + 1 : a[i] = s[1 + i - 1]
  <2>1. \A i \in 1 .. k : s[i] \in S BY <1>1
  <2> QED BY <1>0, <2>1, SubSeqProperties
<1>3. PICK l : l = k + 1 OBVIOUS
<1>4. l \in Int BY <1>3
<1>5. /\ b \in Seq(S) /\ Len(b) = (IF l <= n THEN n - l + 1 ELSE 0)
      /\ \A i \in 1 .. n - l + 1 : b[i] = s[l + i - 1]
  <2>1. \A i \in l .. n : s[i] \in S BY <1>1, <1>3
  <2>2. b = SubSeq(s, l, n) BY <1>0, <1>3
  <2>3. n \in Int OBVIOUS
  <2>4. /\ SubSeq(s, l, n) \in Seq(S) /\ Len(SubSeq(s, l, n)) = (IF l <= n THEN n - l + 1 ELSE 0)
        /\ \A i \in 1 .. n - l + 1 : SubSeq(s, l, n)[i] = s[l + i - 1]
    BY ONLY <1>4, <2>1, <2>3, SubSeqProperties
  <2> QED BY ONLY <2>2, <2>4
<1>6. Len(a) = k /\ Len(b) = n - k BY <1>2, <1>3, <1>5
<1>7. ASSUME NEW i \in 1 .. k PROVE a[i] = s[i]
  <2>1. i \in 1 .. k - 1 + 1 /\ 1 + i - 1 = i OBVIOUS
  <2> QED BY <1>2, <2>1
<1>8. ASSUME NEW i \in 1 .. n - k PROVE b[i] = s[k + i]
  <2>1. i \in 1 .. n - l + 1 /\ l + i - 1 = k + i BY <1>3
  <2> QED BY <1>5, <2>1
<1>9. a \in Seq(S) /\ b \in Seq(S) BY <1>2, <1>5
<1>10. IsInjective(s) /\ n = Len(s) BY <1>0
<1>11. Cuts(s, n, k, a, b) BY <1>6, <1>7, <1>8, <1>10 DEF Cuts
<1>12. IsInjective(a) /\ IsInjective(b) /\ ToSet(a) \cap ToSet(b) = {} /\ ToSet(a) \cup ToSet(b) = ToSet(s)
  BY ONLY <1>9, <1>10, <1>11, CutParts
<1> QED BY <1>9, <1>12

LEMMA TellAdds ==
    ASSUME answered \in [Queries -> Seq({"ip", "empty", "fail"})], NEW c \in Queries, NEW a \in {"ip", "empty", "fail"}, Tell(c, a)
    PROVE  /\ (answered \in [Queries -> Seq({"ip", "empty", "fail"})])' /\ Count \in [Queries -> Nat]
           /\ Adds(Count, Count', Told, Told', c)
           /\ a = "fail" => Count'[c] = Count[c] \/ c \in Told'
<1>1. Count \in [Queries -> Nat]
  <2>1. \A x \in Queries : Len(answered[x]) \in Nat BY LenProperties
  <2> QED BY <2>1 DEF Count
<1>2. CASE answered' = answered
  <2>1. Count' = Count /\ Told' = Told BY <1>2 DEF Count, Told
  <2> QED BY <1>1, <1>2, <2>1 DEF Adds
<1>3. CASE answered' = [answered EXCEPT ![c] = Append(@, a)]
  <2>1. PICK s \in Seq({"ip", "empty", "fail"}) : s = answered[c] OBVIOUS
  <2>2. PICK r : r = Append(s, a) OBVIOUS
  <2>3. r \in Seq({"ip", "empty", "fail"}) /\ Len(r) = Len(s) + 1 /\ ToSet(r) = ToSet(s) \cup {a} BY <2>2, AppendLemma, AppendProperties
  <2>4. answered' = [answered EXCEPT ![c] = r] BY <1>3, <2>1, <2>2
  <2>5. answered' \in [Queries -> Seq({"ip", "empty", "fail"})] /\ answered'[c] = r /\ \A x \in Queries \ {c} : answered'[x] = answered[x]
    BY <2>3, <2>4
  <2>6. Count' = [x \in Queries |-> Len(answered'[x])] BY DEF Count
  <2>7. Count'[c] = Count[c] + 1 /\ \A x \in Queries \ {c} : Count'[x] = Count[x]
    BY <2>1, <2>3, <2>5, <2>6 DEF Count
  <2>8. Count' \in [Queries -> Nat]
    <3>1. \A x \in Queries : Len(answered'[x]) \in Nat BY <2>5, LenProperties
    <3> QED BY <2>6, <3>1
  <2>9. Told' = {x \in Queries : "fail" \in ToSet(answered'[x])} BY DEF Told
  <2>10. Told \subseteq Told' /\ Told' \subseteq Told \cup {c} /\ (a = "fail" => c \in Told')
    BY <2>1, <2>3, <2>5, <2>9 DEF Told
  <2> QED BY <1>1, <2>5, <2>7, <2>8, <2>10 DEF Adds
<1> QED BY <1>2, <1>3 DEF Tell

-----------------------------------------------------------------------------
(* DNS queries: the steps.                                                 *)

\* The answers are as before.
LEMMA SameAnswers == ASSUME answered' = answered PROVE Count' = Count /\ Told' = Told
BY DEF Count, Told

LEMMA CountType == ASSUME DnsShapes PROVE Count \in [Queries -> Nat]
<1>1. \A x \in Queries : Len(answered[x]) \in Nat BY LenProperties DEF DnsShapes
<1> QED BY <1>1 DEF Count

\* A worker at its next step, and one that is free again.
LEMMA NextJob ==
    ASSUME doing \in [DnsWorkers -> Job], NEW w \in DnsWorkers, doing[w].t # "free", NEW t \in Early \cup {"write", "remove"}, Next_(w, t)
    PROVE  /\ doing' \in [DnsWorkers -> Job] /\ JobsAgree(doing, doing', w)
           /\ doing'[w].q = doing[w].q /\ doing'[w].t = t /\ doing[w].q \in Queries
<1>1. PICK j : j = doing[w] OBVIOUS
<1>2. j \in [q : Queries, t : Early \cup {"write", "remove"}] BY <1>1 DEF Job, Free_
<1>3. [j EXCEPT !.t = t] \in Job /\ [j EXCEPT !.t = t].q = j.q /\ [j EXCEPT !.t = t].t = t BY <1>2 DEF Job
<1>4. doing' = [doing EXCEPT ![w] = [j EXCEPT !.t = t]] BY <1>1 DEF Next_
<1>5. doing'[w] = [j EXCEPT !.t = t] /\ doing' \in [DnsWorkers -> Job] /\ \A v \in DnsWorkers \ {w} : doing'[v] = doing[v]
  BY <1>3, <1>4
<1> QED BY <1>1, <1>2, <1>3, <1>5 DEF JobsAgree

LEMMA FreeJob ==
    ASSUME doing \in [DnsWorkers -> Job], NEW w \in DnsWorkers, Release(w)
    PROVE  doing' \in [DnsWorkers -> Job] /\ JobsAgree(doing, doing', w) /\ doing'[w].t = "free"
<1>1. Free_ \in Job /\ Free_.t = "free" BY DEF Job, Free_
<1> QED BY <1>1 DEF Release, JobsAgree

LEMMA LateKept ==
    ASSUME NEW d, NEW e, NEW w \in DnsWorkers, JobsAgree(d, e, w), NEW P, Latecomers(d, P),
           d[w].t \notin {"write", "remove"} \/ (e[w].q = d[w].q /\ e[w].t \in {"write", "remove"})
    PROVE  Latecomers(e, P)
BY DEF JobsAgree, Latecomers

\* A query enters the queue or is dropped.
LEMMA ServeKeeps == ASSUME DnsInv, NEW c \in Queries, Serve(c) PROVE DnsInv'
<1>1. DnsShapes /\ Book(where, doing, Count, Told, failed, ToSet(queue), Waiting) BY DEF DnsInv
<1>2. /\ where[c] = "new"
      /\ UNCHANGED <<doing, pending, cached, asked, answers, listener, answered, failed, sock, stop, rest, odd>>
  BY DEF Serve
<1>3. Count' = Count /\ Told' = Told /\ Waiting' = Waiting BY <1>2, SameAnswers DEF Waiting
<1>4. Count \in [Queries -> Nat] BY <1>1, CountType
<1>5. where \in [Queries -> Places] /\ doing \in [DnsWorkers -> Job] /\ queue \in Seq(Queries) /\ IsInjective(queue) BY <1>1 DEF DnsShapes
<1>6. CASE queue' = Append(queue, c) /\ where' = [where EXCEPT ![c] = "queue"]
  <2>1. c \notin ToSet(queue) BY <1>1, <1>2 DEF Book, PlacesSay
  <2>2. queue' \in Seq(Queries) /\ IsInjective(queue') /\ ToSet(queue') = ToSet(queue) \cup {c} BY <1>5, <1>6, <2>1, AppendLemma
  <2>3. DnsShapes' BY <1>1, <1>2, <1>6, <2>2 DEF DnsShapes, Places
  <2>4. Book(where', doing, Count, Told, failed, ToSet(queue'), Waiting)
    <3>1. Book([where EXCEPT ![c] = "queue"], doing, Count, Told, failed, ToSet(queue) \cup {c}, Waiting)
      BY <1>1, <1>2, <1>4, <1>5, BookQueued
    <3> QED BY <1>6, <2>2, <3>1
  <2> QED BY <1>2, <1>3, <2>3, <2>4 DEF DnsInv
<1>7. CASE where' = [where EXCEPT ![c] = "gone"] /\ UNCHANGED queue
  <2>1. DnsShapes' BY <1>1, <1>2, <1>7 DEF DnsShapes, Places
  <2>2. Book(where', doing, Count, Told, failed, ToSet(queue), Waiting) BY <1>1, <1>2, <1>4, <1>5, <1>7, BookDropped
  <2> QED BY <1>2, <1>3, <1>7, <2>1, <2>2 DEF DnsInv
<1> QED BY <1>6, <1>7 DEF Serve

LEMMA TakeKeeps == ASSUME DnsInv, NEW w \in DnsWorkers, Take(w) PROVE DnsInv'
<1>1. DnsShapes /\ Book(where, doing, Count, Told, failed, ToSet(queue), Waiting) BY DEF DnsInv
<1>2. /\ doing[w] = Free_ /\ queue # <<>> /\ queue' = Tail(queue)
      /\ doing' = [doing EXCEPT ![w] = [q |-> Head(queue), t |-> "process"]] /\ where' = [where EXCEPT ![Head(queue)] = "worker"]
      /\ UNCHANGED <<pending, cached, asked, answers, listener, answered, failed, sock, stop, rest, odd>>
  BY DEF Take
<1>3. Count' = Count /\ Told' = Told /\ Waiting' = Waiting BY <1>2, SameAnswers DEF Waiting
<1>4. Count \in [Queries -> Nat] BY <1>1, CountType
<1>5. where \in [Queries -> Places] /\ doing \in [DnsWorkers -> Job] /\ queue \in Seq(Queries) /\ IsInjective(queue) BY <1>1 DEF DnsShapes
<1>6. PICK c : c = Head(queue) OBVIOUS
<1>7. c \in Queries /\ queue' \in Seq(Queries) /\ IsInjective(queue') /\ c \in ToSet(queue) /\ ToSet(queue') = ToSet(queue) \ {c}
  BY <1>2, <1>5, <1>6, HeadLeaves
<1>8. PICK j : j = [q |-> c, t |-> "process"] OBVIOUS
<1>9. j \in Job /\ j.q = c /\ j.t = "process" BY <1>7, <1>8 DEF Job, Early
<1>9a. doing' = [doing EXCEPT ![w] = j] BY <1>2, <1>6, <1>8
<1>9b. doing' \in [DnsWorkers -> Job] /\ JobsAgree(doing, doing', w) /\ doing'[w].q = c /\ doing'[w].t = "process" /\ doing[w].t = "free"
  BY <1>2, <1>5, <1>9, <1>9a DEF JobsAgree, Free_
<1>10. DnsShapes' BY <1>1, <1>2, <1>6, <1>7, <1>9b DEF DnsShapes, Places
<1>11. where' = [where EXCEPT ![c] = "worker"] BY <1>2, <1>6
<1>12. PICK e : e = doing' OBVIOUS
<1>13. Book(where', e, Count, Told, failed, ToSet(queue'), Waiting)
  <2>1. JobsAgree(doing, e, w) /\ e[w].q = c /\ e[w].t = "process" /\ doing[w].t = "free" BY <1>9b, <1>12
  <2>2. Book([where EXCEPT ![c] = "worker"], e, Count, Told, failed, ToSet(queue) \ {c}, Waiting)
    BY <1>1, <1>4, <1>5, <1>7, <2>1, BookTaken
  <2> QED BY <1>7, <1>11, <2>2
<1>14. ASSUME Latecomers(doing, ToSet(pending)) PROVE Latecomers(doing', ToSet(pending)) BY <1>9b, <1>14, LateKept
<1> QED BY <1>2, <1>3, <1>10, <1>12, <1>13, <1>14 DEF DnsInv

\* A worker answers its query at once, or goes on with it.
LEMMA WorkerAnswers ==
    ASSUME DnsInv, NEW w \in DnsWorkers, doing[w].t \in Early, NEW a \in {"ip", "empty", "fail"},
           Tell(doing[w].q, a), Release(w), where' = [where EXCEPT ![doing[w].q] = "gone"],
           UNCHANGED <<queue, pending, listener, failed, sock, stop, rest>>
    PROVE  DnsInv'
<1>1. DnsShapes /\ Book(where, doing, Count, Told, failed, ToSet(queue), Waiting) BY DEF DnsInv
<1>2. Waiting' = Waiting BY DEF Waiting
<1>3. Count \in [Queries -> Nat] BY <1>1, CountType
<1>4. where \in [Queries -> Places] /\ doing \in [DnsWorkers -> Job] BY <1>1 DEF DnsShapes
<1>5. PICK c : c = doing[w].q OBVIOUS
<1>6. c \in Queries BY <1>4, <1>5, JobIsQuery DEF Early
<1>7. (answered \in [Queries -> Seq({"ip", "empty", "fail"})])' /\ Adds(Count, Count', Told, Told', c)
  BY <1>1, <1>5, <1>6, TellAdds DEF DnsShapes
<1>8. doing' \in [DnsWorkers -> Job] /\ JobsAgree(doing, doing', w) /\ doing'[w].t = "free" BY <1>4, FreeJob
<1>9. DnsShapes' BY <1>1, <1>5, <1>6, <1>7, <1>8 DEF DnsShapes, Places
<1>10. PICK e, m, U : e = doing' /\ m = Count' /\ U = Told' OBVIOUS
<1>11. Book(where', e, m, U, failed, ToSet(queue), Waiting)
  <2>1. JobsAgree(doing, e, w) /\ e[w].t = "free" BY <1>8, <1>10
  <2>2. Adds(Count, m, Told, U, c) BY <1>7, <1>10
  <2>3. Book([where EXCEPT ![c] = "gone"], e, m, U, failed, ToSet(queue), Waiting)
    BY <1>1, <1>3, <1>4, <1>5, <1>6, <2>1, <2>2, BookAnswered
  <2> QED BY <1>5, <2>3
<1>12. ASSUME Latecomers(doing, ToSet(pending)) PROVE Latecomers(doing', ToSet(pending)) BY <1>8, <1>12, LateKept DEF Early
<1> QED BY <1>2, <1>9, <1>10, <1>11, <1>12 DEF DnsInv

LEMMA WorkerGoesOn ==
    ASSUME DnsInv, NEW w \in DnsWorkers, doing[w].t \in Early, NEW t \in Early, Next_(w, t),
           UNCHANGED <<where, queue, pending, listener, answered, failed, sock, stop, rest>>
    PROVE  DnsInv'
<1>1. DnsShapes /\ Book(where, doing, Count, Told, failed, ToSet(queue), Waiting) BY DEF DnsInv
<1>2. Count' = Count /\ Told' = Told /\ Waiting' = Waiting BY SameAnswers DEF Waiting
<1>3. Count \in [Queries -> Nat] BY <1>1, CountType
<1>4. where \in [Queries -> Places] /\ doing \in [DnsWorkers -> Job] BY <1>1 DEF DnsShapes
<1>5. doing' \in [DnsWorkers -> Job] /\ JobsAgree(doing, doing', w) /\ doing'[w].q = doing[w].q /\ doing'[w].t = t
  BY <1>4, NextJob DEF Early
<1>6. DnsShapes' BY <1>1, <1>5 DEF DnsShapes
<1>7. PICK e : e = doing' OBVIOUS
<1>8. Book(where, e, Count, Told, failed, ToSet(queue), Waiting) BY <1>1, <1>3, <1>4, <1>5, <1>7, BookMoved
<1>9. ASSUME Latecomers(doing, ToSet(pending)) PROVE Latecomers(doing', ToSet(pending)) BY <1>5, <1>9, LateKept DEF Early
<1> QED BY <1>2, <1>6, <1>7, <1>8, <1>9 DEF DnsInv

LEMMA RegisterKeeps == ASSUME DnsInv, NEW w \in DnsWorkers, RegisterWaiter(w) PROVE DnsInv'
<1>1. DnsShapes /\ Book(where, doing, Count, Told, failed, ToSet(queue), Waiting) /\ Apart(ToSet(pending), ToSet(listener.todo), ToSet(rest))
  BY DEF DnsInv
<1>2. PICK c : c = doing[w].q OBVIOUS
<1>3. /\ doing[w].t = "register" /\ pending' = Append(pending, c) /\ where' = [where EXCEPT ![c] = "waits"] /\ Next_(w, "write")
      /\ UNCHANGED <<queue, cached, asked, answers, listener, answered, failed, sock, stop, rest, odd>>
  BY <1>2 DEF RegisterWaiter
<1>4. Count' = Count /\ Told' = Told BY <1>3, SameAnswers
<1>5. Count \in [Queries -> Nat] BY <1>1, CountType
<1>6. where \in [Queries -> Places] /\ doing \in [DnsWorkers -> Job] /\ pending \in Seq(Queries) /\ IsInjective(pending) BY <1>1 DEF DnsShapes
<1>7. doing' \in [DnsWorkers -> Job] /\ JobsAgree(doing, doing', w) /\ doing'[w].q = c /\ doing'[w].t = "write" /\ c \in Queries
  BY <1>2, <1>3, <1>6, NextJob
<1>8. c \notin Waiting
  <2>1. where[c] = "worker" BY <1>1, <1>2, <1>3 DEF Book, WorkersSay, Early
  <2> QED BY <1>1, <1>7, <2>1 DEF Book, PlacesSay
<1>9. pending' \in Seq(Queries) /\ IsInjective(pending') /\ ToSet(pending') = ToSet(pending) \cup {c}
  BY <1>3, <1>6, <1>7, <1>8, AppendLemma DEF Waiting
<1>10. Waiting' = Waiting \cup {c} BY <1>3, <1>9 DEF Waiting
<1>11. Apart(ToSet(pending'), ToSet(listener'.todo), ToSet(rest')) BY <1>1, <1>3, <1>8, <1>9 DEF Apart, Waiting
<1>12. DnsShapes' BY <1>1, <1>3, <1>7, <1>9 DEF DnsShapes, Places
<1>13. PICK e : e = doing' OBVIOUS
<1>14. Book([where EXCEPT ![c] = "waits"], e, Count, Told, failed, ToSet(queue), Waiting \cup {c})
  <2>1. JobsAgree(doing, e, w) /\ e[w].q = c /\ e[w].t = "write" BY <1>7, <1>13
  <2> QED BY <1>1, <1>2, <1>3, <1>5, <1>6, <1>7, <2>1, BookRegistered
<1>15. ASSUME Latecomers(doing, ToSet(pending)) PROVE Latecomers(doing', ToSet(pending'))
  <2>1. Latecomers(doing', ToSet(pending)) BY <1>3, <1>7, <1>15, LateKept
  <2> QED BY <1>7, <1>9, <2>1 DEF Latecomers
<1> QED BY <1>3, <1>4, <1>10, <1>11, <1>12, <1>13, <1>14, <1>15 DEF DnsInv

LEMMA WriteKeeps == ASSUME DnsInv, NEW w \in DnsWorkers, WriteQuery(w) PROVE DnsInv'
<1>1. DnsShapes /\ Book(where, doing, Count, Told, failed, ToSet(queue), Waiting) BY DEF DnsInv
<1>2. PICK c : c = doing[w].q OBVIOUS
<1>3. doing[w].t = "write" /\ UNCHANGED <<where, queue, pending, cached, answers, listener, answered, sock, stop, rest, odd>>
  BY DEF WriteQuery
<1>4. Count' = Count /\ Told' = Told /\ Waiting' = Waiting BY <1>3, SameAnswers DEF Waiting
<1>5. Count \in [Queries -> Nat] BY <1>1, CountType
<1>6. where \in [Queries -> Places] /\ doing \in [DnsWorkers -> Job] BY <1>1 DEF DnsShapes
<1>7. CASE sock = "open" /\ Release(w) /\ UNCHANGED failed
  <2>1. doing' \in [DnsWorkers -> Job] /\ JobsAgree(doing, doing', w) /\ doing'[w].t = "free" BY <1>6, <1>7, FreeJob
  <2>2. DnsShapes' BY <1>1, <1>3, <1>7, <2>1 DEF DnsShapes
  <2>3. PICK e : e = doing' OBVIOUS
  <2>4. Book(where, e, Count, Told, failed, ToSet(queue), Waiting) BY <1>1, <1>3, <1>5, <1>6, <2>1, <2>3, BookWritten
  <2>5. stop' = "no" BY <1>1, <1>3, <1>7 DEF DnsShapes
  <2> QED BY <1>3, <1>4, <1>7, <2>2, <2>3, <2>4, <2>5 DEF DnsInv
<1>8. CASE failed' = failed \cup {c} /\ Next_(w, "remove")
  <2>1. doing' \in [DnsWorkers -> Job] /\ JobsAgree(doing, doing', w) /\ doing'[w].q = c /\ doing'[w].t = "remove" /\ c \in Queries
    BY <1>2, <1>3, <1>6, <1>8, NextJob
  <2>2. DnsShapes' BY <1>1, <1>3, <1>8, <2>1 DEF DnsShapes
  <2>3. PICK e : e = doing' OBVIOUS
  <2>4. Book(where, e, Count, Told, failed \cup {c}, ToSet(queue), Waiting) BY <1>1, <1>2, <1>3, <1>5, <1>6, <2>1, <2>3, BookFailed
  <2>5. ASSUME Latecomers(doing, ToSet(pending)) PROVE Latecomers(doing', ToSet(pending)) BY <1>2, <2>1, <2>5, LateKept
  <2> QED BY <1>3, <1>4, <1>8, <2>2, <2>3, <2>4, <2>5 DEF DnsInv
<1> QED BY <1>2, <1>7, <1>8 DEF WriteQuery

LEMMA RemoveKeeps == ASSUME DnsInv, NEW w \in DnsWorkers, RemoveWaiter(w) PROVE DnsInv'
<1>1. DnsShapes /\ Book(where, doing, Count, Told, failed, ToSet(queue), Waiting) /\ Apart(ToSet(pending), ToSet(listener.todo), ToSet(rest))
  BY DEF DnsInv
<1>2. PICK c : c = doing[w].q OBVIOUS
<1>3. /\ doing[w].t = "remove" /\ pending' = Only(pending, Queries \ {c}) /\ where' = [where EXCEPT ![c] = "gone"]
      /\ Tell(c, "fail") /\ Release(w)
      /\ UNCHANGED <<queue, cached, asked, answers, listener, failed, sock, stop, rest, odd>>
  BY <1>2 DEF RemoveWaiter, Others
<1>4. Count \in [Queries -> Nat] BY <1>1, CountType
<1>5. where \in [Queries -> Places] /\ doing \in [DnsWorkers -> Job] /\ pending \in Seq(Queries) /\ IsInjective(pending) BY <1>1 DEF DnsShapes
<1>6. doing' \in [DnsWorkers -> Job] /\ JobsAgree(doing, doing', w) /\ doing'[w].t = "free" BY <1>3, <1>5, FreeJob
<1>7. c \in Queries BY <1>2, <1>3, <1>5, JobIsQuery
<1>8. /\ (answered \in [Queries -> Seq({"ip", "empty", "fail"})])' /\ Adds(Count, Count', Told, Told', c)
      /\ Count'[c] = Count[c] \/ c \in Told'
  BY <1>1, <1>3, <1>7, TellAdds DEF DnsShapes
<1>9. pending' \in Seq(Queries) /\ IsInjective(pending') /\ ToSet(pending') = ToSet(pending) \cap (Queries \ {c})
  BY <1>3, <1>5, OnlyLemma
<1>10. ToSet(pending') = ToSet(pending) \ {c} BY <1>5, <1>9, ToSetType
<1>11. Apart(ToSet(pending'), ToSet(listener'.todo), ToSet(rest')) BY <1>1, <1>3, <1>10 DEF Apart
<1>12. DnsShapes' BY <1>1, <1>3, <1>6, <1>7, <1>8, <1>9 DEF DnsShapes, Places
<1>13. PICK e, m, U, V : e = doing' /\ m = Count' /\ U = Told' /\ V = Waiting' OBVIOUS
<1>14. Book([where EXCEPT ![c] = "gone"], e, m, U, failed, ToSet(queue), V)
  <2>1. JobsAgree(doing, e, w) /\ e[w].t = "free" BY <1>6, <1>13
  <2>2. Adds(Count, m, Told, U, c) /\ (m[c] = Count[c] \/ c \in U) BY <1>8, <1>13
  <2>3. V = Waiting \ {c} \/ V = Waiting BY <1>1, <1>3, <1>10, <1>13 DEF Waiting, Apart
  <2>4. PICK n, T, Q, W : n = Count /\ T = Told /\ Q = ToSet(queue) /\ W = Waiting OBVIOUS
  <2>5. /\ n \in [Queries -> Nat] /\ Book(where, doing, n, T, failed, Q, W) /\ doing[w].t = "remove" /\ c = doing[w].q
        /\ Adds(n, m, T, U, c) /\ (m[c] = n[c] \/ c \in U) /\ (V = W \ {c} \/ V = W)
    BY <1>1, <1>2, <1>3, <1>4, <2>2, <2>3, <2>4
  <2>6. Book([where EXCEPT ![c] = "gone"], e, m, U, failed, Q, V) BY ONLY <1>5, <1>7, <2>1, <2>5, BookRemoved
  <2> QED BY <2>4, <2>6
<1>15. ASSUME Latecomers(doing, ToSet(pending)) PROVE Latecomers(doing', ToSet(pending'))
  <2>1. ASSUME NEW x \in ToSet(pending') PROVE \E v \in DnsWorkers : doing'[v].q = x /\ doing'[v].t \in {"write", "remove"}
    <3>1. x \in ToSet(pending) /\ x # c BY <1>10, <2>1
    <3>2. PICK v \in DnsWorkers : doing[v].q = x /\ doing[v].t \in {"write", "remove"} BY <1>15, <3>1 DEF Latecomers
    <3>3. v # w BY <1>2, <3>1, <3>2
    <3> QED BY <1>6, <3>2, <3>3 DEF JobsAgree
  <2> QED BY <2>1 DEF Latecomers
<1> QED BY <1>3, <1>11, <1>12, <1>13, <1>14, <1>15 DEF DnsInv

\* The listener, the sweep and Stop take waiters from the map.
LEMMA TakenKeeps ==
    ASSUME DnsInv, DnsShapes', UNCHANGED <<where, queue, doing, answered, failed>>,
           Apart(ToSet(pending'), ToSet(listener'.todo), ToSet(rest')), Waiting' = Waiting,
           stop' \in {"answer", "done"} => Latecomers(doing, ToSet(pending'))
    PROVE  DnsInv'
<1>1. Book(where, doing, Count, Told, failed, ToSet(queue), Waiting) BY DEF DnsInv
<1>2. Count' = Count /\ Told' = Told BY SameAnswers
<1> QED BY <1>1, <1>2 DEF DnsInv

LEMMA TakeWaitersKeeps == ASSUME DnsInv, TakeWaiters PROVE DnsInv'
<1>1. DnsShapes /\ Apart(ToSet(pending), ToSet(listener.todo), ToSet(rest)) BY DEF DnsInv
<1>2. PICK l : l = listener.name OBVIOUS
<1>3. PICK X, Y : X = {c \in Queries : NameOf[c] = l} /\ Y = {c \in Queries : NameOf[c] # l} OBVIOUS
<1>4. PICK a, b : a = Only(pending, X) /\ b = Only(pending, Y) OBVIOUS
<1>5. /\ listener.t = "take" /\ listener' = [t |-> "ip", name |-> l, todo |-> a] /\ pending' = b
      /\ UNCHANGED <<where, queue, doing, cached, asked, answers, answered, failed, sock, stop, rest, odd>>
  BY <1>2, <1>3, <1>4 DEF TakeWaiters, WaitersOf
<1>6. pending \in Seq(Queries) /\ IsInjective(pending) /\ listener.todo = <<>> BY <1>1, <1>5 DEF DnsShapes
<1>7. /\ a \in Seq(Queries) /\ IsInjective(a) /\ ToSet(a) = ToSet(pending) \cap X
      /\ b \in Seq(Queries) /\ IsInjective(b) /\ ToSet(b) = ToSet(pending) \cap Y
  BY <1>4, <1>6, OnlyLemma
<1>8. ToSet(a) \cup ToSet(b) = ToSet(pending) /\ ToSet(a) \cap ToSet(b) = {} BY <1>3, <1>6, <1>7, ToSetType
<1>9. ToSet(listener.todo) = {} BY <1>6 DEF ToSet
<1>10. listener'.todo = a /\ listener'.t = "ip" BY <1>5
<1>11. Waiting' = Waiting BY <1>5, <1>8, <1>9, <1>10 DEF Waiting
<1>12. Apart(ToSet(pending'), ToSet(listener'.todo), ToSet(rest')) BY <1>1, <1>5, <1>8, <1>10 DEF Apart
<1>13. l \in RemoteNames \cup {0} BY <1>1, <1>2 DEF DnsShapes
<1>14. listener' \in [t : {"read", "take", "ip", "fail"}, name : RemoteNames \cup {0}, todo : Seq(Queries)] BY <1>5, <1>7, <1>13
<1>15. DnsShapes' BY <1>1, <1>5, <1>7, <1>10, <1>14 DEF DnsShapes
<1>16. stop' \in {"answer", "done"} => Latecomers(doing, ToSet(pending')) BY <1>5, <1>8 DEF DnsInv, Latecomers
<1> QED BY <1>5, <1>11, <1>12, <1>15, <1>16, TakenKeeps

LEMMA SweepKeeps == ASSUME DnsInv, NEW k \in 1 .. Cardinality(Queries), SweepPending(k) PROVE DnsInv'
<1>1. DnsShapes /\ Apart(ToSet(pending), ToSet(listener.todo), ToSet(rest)) BY DEF DnsInv
<1>2. PICK n : n = Len(pending) OBVIOUS
<1>3. PICK a, b : a = SubSeq(pending, 1, k) /\ b = SubSeq(pending, k + 1, n) OBVIOUS
<1>4. /\ listener.t = "read" /\ sock = "open" /\ k <= n /\ listener' = [t |-> "fail", name |-> 0, todo |-> a] /\ pending' = b
      /\ UNCHANGED <<where, queue, doing, cached, asked, answers, answered, failed, sock, stop, rest, odd>>
  BY <1>2, <1>3 DEF SweepPending, Expired
<1>5. pending \in Seq(Queries) /\ IsInjective(pending) /\ listener.todo = <<>> /\ stop = "no" BY <1>1, <1>4 DEF DnsShapes
<1>6. n \in Nat /\ k \in 1 .. n
  <2>1. n \in Nat BY <1>2, <1>5, LenProperties
  <2>2. Cardinality(Queries) \in Nat BY DnsAssumption, FS_CardinalityType
  <2> QED BY <1>4, <2>1, <2>2
<1>7. /\ a \in Seq(Queries) /\ b \in Seq(Queries) /\ IsInjective(a) /\ IsInjective(b)
      /\ ToSet(a) \cap ToSet(b) = {} /\ ToSet(a) \cup ToSet(b) = ToSet(pending)
  <2>1. PICK s \in Seq(Queries) : s = pending BY <1>5
  <2>2. IsInjective(s) /\ CutAt(s, n, k, a, b) BY <1>2, <1>3, <1>5, <2>1 DEF CutAt
  <2>3. /\ a \in Seq(Queries) /\ b \in Seq(Queries) /\ IsInjective(a) /\ IsInjective(b)
        /\ ToSet(a) \cap ToSet(b) = {} /\ ToSet(a) \cup ToSet(b) = ToSet(s)
    BY ONLY <1>6, <2>1, <2>2, CutLemma
  <2> QED BY <2>1, <2>3
<1>8. ToSet(listener.todo) = {} BY <1>5 DEF ToSet
<1>9. PICK r : r = [t |-> "fail", name |-> 0, todo |-> a] OBVIOUS
<1>10. r.todo = a /\ r.t = "fail" /\ r \in [t : {"read", "take", "ip", "fail"}, name : RemoteNames \cup {0}, todo : Seq(Queries)] BY <1>7, <1>9
<1>11. listener' = r BY <1>4, <1>9
<1>12. Waiting' = Waiting BY <1>4, <1>7, <1>8, <1>10, <1>11 DEF Waiting
<1>13. Apart(ToSet(pending'), ToSet(listener'.todo), ToSet(rest')) BY <1>1, <1>4, <1>7, <1>10, <1>11 DEF Apart
<1>14. DnsShapes' BY <1>1, <1>4, <1>7, <1>10, <1>11 DEF DnsShapes
<1> QED BY <1>4, <1>5, <1>12, <1>13, <1>14, TakenKeeps

LEMMA DrainKeeps == ASSUME DnsInv, DrainPending PROVE DnsInv'
<1>1. DnsShapes /\ Apart(ToSet(pending), ToSet(listener.todo), ToSet(rest)) BY DEF DnsInv
<1>2. /\ stop = "drain" /\ stop' = "answer" /\ rest' = pending /\ pending' = Only(pending, Queries \ ToSet(pending))
      /\ UNCHANGED <<where, queue, doing, cached, asked, answers, listener, answered, failed, sock, odd>>
  BY DEF DrainPending, Drained
<1>3. pending \in Seq(Queries) /\ IsInjective(pending) /\ rest = <<>> BY <1>1, <1>2 DEF DnsShapes
<1>4. pending' \in Seq(Queries) /\ IsInjective(pending') /\ ToSet(pending') = {} BY <1>2, <1>3, OnlyLemma
<1>5. ToSet(rest) = {} BY <1>3 DEF ToSet
<1>6. Waiting' = Waiting BY <1>2, <1>4, <1>5 DEF Waiting
<1>7. Apart(ToSet(pending'), ToSet(listener'.todo), ToSet(rest')) BY <1>1, <1>2, <1>4 DEF Apart
<1>8. DnsShapes' BY <1>1, <1>2, <1>3, <1>4 DEF DnsShapes
<1>9. Latecomers(doing, ToSet(pending')) BY <1>4 DEF Latecomers
<1> QED BY <1>2, <1>6, <1>7, <1>8, <1>9, TakenKeeps

\* Who has been taken is answered.
LEMMA ToldKeeps ==
    ASSUME DnsInv, DnsShapes', NEW c \in Queries, c \in Waiting, NEW a \in {"ip", "empty", "fail"}, Tell(c, a),
           where' = [where EXCEPT ![c] = "gone"], UNCHANGED <<queue, doing, pending, failed, stop>>,
           Apart(ToSet(pending'), ToSet(listener'.todo), ToSet(rest')), Waiting' = Waiting \ {c}
    PROVE  DnsInv'
<1>1. DnsShapes /\ Book(where, doing, Count, Told, failed, ToSet(queue), Waiting) BY DEF DnsInv
<1>2. Count \in [Queries -> Nat] BY <1>1, CountType
<1>3. where \in [Queries -> Places] /\ doing \in [DnsWorkers -> Job] BY <1>1 DEF DnsShapes
<1>4. Adds(Count, Count', Told, Told', c) BY <1>1, TellAdds DEF DnsShapes
<1>5. PICK m, U : m = Count' /\ U = Told' OBVIOUS
<1>6. PICK n, T, Q, W : n = Count /\ T = Told /\ Q = ToSet(queue) /\ W = Waiting OBVIOUS
<1>7. Adds(n, m, T, U, c) /\ n \in [Queries -> Nat] /\ Book(where, doing, n, T, failed, Q, W) /\ c \in W
  BY <1>1, <1>2, <1>4, <1>5, <1>6
<1>8. Book([where EXCEPT ![c] = "gone"], doing, m, U, failed, Q, W \ {c}) BY ONLY <1>3, <1>7, BookTold
<1>9. stop' \in {"answer", "done"} => Latecomers(doing', ToSet(pending')) BY DEF DnsInv
<1> QED BY <1>5, <1>6, <1>8, <1>9 DEF DnsInv

LEMMA TellWaiterKeeps == ASSUME DnsInv, TellWaiter PROVE DnsInv'
<1>1. DnsShapes /\ Apart(ToSet(pending), ToSet(listener.todo), ToSet(rest)) BY DEF DnsInv
<1>2. listener.t \in {"ip", "fail"} /\ UNCHANGED <<queue, doing, pending, cached, asked, answers, failed, sock, stop, rest, odd>>
  BY DEF TellWaiter
<1>3. PICK s, t : s = listener.todo /\ t = listener.t OBVIOUS
<1>4. s \in Seq(Queries) /\ IsInjective(s) /\ t \in {"ip", "fail"} BY <1>1, <1>2, <1>3 DEF DnsShapes
<1>5. CASE /\ s # <<>> /\ Tell(Head(s), t) /\ where' = [where EXCEPT ![Head(s)] = "gone"]
           /\ listener' = [listener EXCEPT !.todo = Tail(@)]
  <2>1. PICK c, r : c = Head(s) /\ r = Tail(s) OBVIOUS
  <2>2. r \in Seq(Queries) /\ IsInjective(r) /\ c \in Queries /\ c \in ToSet(s) /\ ToSet(r) = ToSet(s) \ {c} BY <1>4, <1>5, <2>1, HeadLeaves
  <2>3. /\ listener' \in [t : {"read", "take", "ip", "fail"}, name : RemoteNames \cup {0}, todo : Seq(Queries)]
        /\ listener'.todo = r /\ listener'.t = t
    <3>1. PICK y : y = listener OBVIOUS
    <3>2. y \in [t : {"read", "take", "ip", "fail"}, name : RemoteNames \cup {0}, todo : Seq(Queries)] BY <1>1, <3>1 DEF DnsShapes
    <3>3. listener' = [y EXCEPT !.todo = r] BY <1>3, <1>5, <2>1, <3>1
    <3>4. /\ [y EXCEPT !.todo = r] \in [t : {"read", "take", "ip", "fail"}, name : RemoteNames \cup {0}, todo : Seq(Queries)]
          /\ [y EXCEPT !.todo = r].todo = r /\ [y EXCEPT !.todo = r].t = y.t
      BY <2>2, <3>2
    <3> QED BY <1>3, <3>1, <3>3, <3>4
  <2>4. (answered \in [Queries -> Seq({"ip", "empty", "fail"})])' BY <1>1, <1>4, <1>5, <2>1, <2>2, TellAdds DEF DnsShapes
  <2>5. DnsShapes' BY <1>1, <1>2, <1>4, <1>5, <2>1, <2>2, <2>3, <2>4 DEF DnsShapes, Places
  <2>6. c \notin ToSet(pending) /\ c \notin ToSet(rest) BY <1>1, <1>3, <2>2 DEF Apart
  <2>7. Waiting' = Waiting \ {c} /\ c \in Waiting BY <1>2, <1>3, <2>2, <2>3, <2>6 DEF Waiting
  <2>8. Apart(ToSet(pending'), ToSet(listener'.todo), ToSet(rest')) BY <1>1, <1>2, <1>3, <2>2, <2>3 DEF Apart
  <2> QED BY <1>2, <1>4, <1>5, <2>1, <2>2, <2>5, <2>7, <2>8, ToldKeeps
<1>6. CASE s = <<>> /\ listener' = Reading_ /\ UNCHANGED <<answered, where>>
  <2>1. /\ listener' \in [t : {"read", "take", "ip", "fail"}, name : RemoteNames \cup {0}, todo : Seq(Queries)]
        /\ listener'.todo = s /\ listener'.t = "read"
    BY <1>6 DEF Reading_
  <2>2. DnsShapes' BY <1>1, <1>2, <1>4, <1>6, <2>1 DEF DnsShapes
  <2>3. Waiting' = Waiting BY <1>2, <1>3, <2>1 DEF Waiting
  <2>4. Apart(ToSet(pending'), ToSet(listener'.todo), ToSet(rest')) BY <1>1, <1>2, <1>3, <2>1 DEF Apart
  <2>5. stop' \in {"answer", "done"} => Latecomers(doing, ToSet(pending')) BY <1>2 DEF DnsInv
  <2> QED BY <1>2, <1>6, <2>2, <2>3, <2>4, <2>5, TakenKeeps
<1> QED BY <1>3, <1>5, <1>6 DEF TellWaiter

LEMMA TellRestKeeps == ASSUME DnsInv, TellRest PROVE DnsInv'
<1>1. DnsShapes /\ Apart(ToSet(pending), ToSet(listener.todo), ToSet(rest)) BY DEF DnsInv
<1>2. stop = "answer" /\ UNCHANGED <<queue, doing, pending, cached, asked, answers, listener, failed, sock, odd>> BY DEF TellRest
<1>3. rest \in Seq(Queries) /\ IsInjective(rest) BY <1>1 DEF DnsShapes
<1>4. CASE /\ rest # <<>> /\ Tell(Head(rest), "fail") /\ rest' = Tail(rest)
           /\ where' = [where EXCEPT ![Head(rest)] = "gone"] /\ UNCHANGED stop
  <2>1. PICK c : c = Head(rest) OBVIOUS
  <2>2. rest' \in Seq(Queries) /\ IsInjective(rest') /\ c \in Queries /\ c \in ToSet(rest) /\ ToSet(rest') = ToSet(rest) \ {c}
    BY <1>3, <1>4, <2>1, HeadLeaves
  <2>3. (answered \in [Queries -> Seq({"ip", "empty", "fail"})])' BY <1>1, <1>4, <2>1, <2>2, TellAdds DEF DnsShapes
  <2>4. DnsShapes' BY <1>1, <1>2, <1>4, <2>1, <2>2, <2>3 DEF DnsShapes, Places
  <2>5. c \notin ToSet(pending) /\ c \notin ToSet(listener.todo) BY <1>1, <2>2 DEF Apart
  <2>6. Waiting' = Waiting \ {c} /\ c \in Waiting BY <1>2, <2>2, <2>5 DEF Waiting
  <2>7. Apart(ToSet(pending'), ToSet(listener'.todo), ToSet(rest')) BY <1>1, <1>2, <2>2 DEF Apart
  <2> QED BY <1>2, <1>4, <2>1, <2>2, <2>4, <2>6, <2>7, ToldKeeps
<1>5. CASE rest = <<>> /\ stop' = "done" /\ UNCHANGED <<answered, rest, where>>
  <2>1. DnsShapes' BY <1>1, <1>2, <1>5 DEF DnsShapes
  <2>2. Waiting' = Waiting BY <1>2, <1>5 DEF Waiting
  <2>3. Apart(ToSet(pending'), ToSet(listener'.todo), ToSet(rest')) BY <1>1, <1>2, <1>5
  <2>4. Latecomers(doing, ToSet(pending')) BY <1>2 DEF DnsInv
  <2> QED BY <1>2, <1>5, <2>1, <2>2, <2>3, <2>4, TakenKeeps
<1> QED BY <1>4, <1>5 DEF TellRest

\* Steps that leave the queries where they are.
LEMMA DnsFrame ==
    ASSUME DnsInv, UNCHANGED <<where, queue, doing, pending, answered, failed, rest>>, listener' = listener,
           (stop' = stop /\ sock' = sock) \/ (stop' = "drain" /\ sock' = "closed" /\ stop = "no")
    PROVE  DnsInv'
<1>1. DnsShapes' BY DEF DnsInv, DnsShapes
<1>2. Waiting' = Waiting BY DEF Waiting
<1>3. Apart(ToSet(pending'), ToSet(listener'.todo), ToSet(rest')) BY DEF DnsInv
<1>4. stop' \in {"answer", "done"} => Latecomers(doing, ToSet(pending')) BY DEF DnsInv
<1> QED BY <1>1, <1>2, <1>3, <1>4, TakenKeeps

LEMMA DnsSame ==
    ASSUME DnsInv, UNCHANGED <<where, queue, doing, pending, answered, failed, rest, listener, stop, sock>>
    PROVE  DnsInv'
BY DnsFrame

LEMMA ReadKeeps == ASSUME DnsInv, NEW n \in RemoteNames, ReadAnswer(n) PROVE DnsInv'
<1>1. DnsShapes /\ Apart(ToSet(pending), ToSet(listener.todo), ToSet(rest)) BY DEF DnsInv
<1>2. /\ listener.t = "read" /\ listener' = [t |-> "take", name |-> n, todo |-> <<>>]
      /\ UNCHANGED <<where, queue, doing, pending, asked, answered, failed, sock, stop, rest, odd>>
  BY DEF ReadAnswer
<1>3. listener.todo = <<>> /\ IsInjective(listener.todo) BY <1>1, <1>2 DEF DnsShapes
<1>4. PICK r : r = [t |-> "take", name |-> n, todo |-> <<>>] OBVIOUS
<1>5. r.todo = <<>> /\ r.t = "take" /\ r \in [t : {"read", "take", "ip", "fail"}, name : RemoteNames \cup {0}, todo : Seq(Queries)] BY <1>4
<1>6. listener' = r /\ listener'.todo = listener.todo BY <1>2, <1>3, <1>4, <1>5
<1>7. DnsShapes' BY <1>1, <1>2, <1>3, <1>5, <1>6 DEF DnsShapes
<1>8. Waiting' = Waiting BY <1>2, <1>6 DEF Waiting
<1>9. Apart(ToSet(pending'), ToSet(listener'.todo), ToSet(rest')) BY <1>1, <1>2, <1>6
<1>10. stop' \in {"answer", "done"} => Latecomers(doing, ToSet(pending')) BY <1>2 DEF DnsInv
<1> QED BY <1>2, <1>7, <1>8, <1>9, <1>10, TakenKeeps

LEMMA ProcessKeeps == ASSUME DnsInv, NEW w \in DnsWorkers, ProcessQuery(w) PROVE DnsInv'
<1>1. doing[w].t \in Early /\ UNCHANGED <<queue, pending, cached, asked, answers, listener, failed, sock, stop, rest, odd>>
  BY DEF ProcessQuery, Early
<1>2. CASE Tell(doing[w].q, "empty") /\ Release(w) /\ where' = [where EXCEPT ![doing[w].q] = "gone"] BY <1>1, <1>2, WorkerAnswers
<1>3. CASE Tell(doing[w].q, "ip") /\ Release(w) /\ where' = [where EXCEPT ![doing[w].q] = "gone"] BY <1>1, <1>3, WorkerAnswers
<1>4. CASE Next_(w, "forward") /\ UNCHANGED <<answered, where>> BY <1>1, <1>4, WorkerGoesOn DEF Early
<1> QED BY <1>2, <1>3, <1>4 DEF ProcessQuery

LEMMA ForwardKeeps == ASSUME DnsInv, NEW w \in DnsWorkers, Forward(w) PROVE DnsInv'
<1>1. doing[w].t \in Early /\ UNCHANGED <<queue, pending, cached, asked, answers, listener, failed, sock, stop, rest, odd>>
  BY DEF Forward, Early
<1>2. CASE Tell(doing[w].q, "fail") /\ Release(w) /\ where' = [where EXCEPT ![doing[w].q] = "gone"] BY <1>1, <1>2, WorkerAnswers
<1>3. CASE Tell(doing[w].q, "ip") /\ Release(w) /\ where' = [where EXCEPT ![doing[w].q] = "gone"] BY <1>1, <1>3, WorkerAnswers
<1>4. CASE Next_(w, "register") /\ UNCHANGED <<answered, where>> BY <1>1, <1>4, WorkerGoesOn DEF Early
<1> QED BY <1>2, <1>3, <1>4 DEF Forward

LEMMA DnsStart == ASSUME DnsInit PROVE DnsInv
<1>1. /\ where = [c \in Queries |-> "new"] /\ queue = <<>> /\ doing = [w \in DnsWorkers |-> Free_] /\ pending = <<>>
      /\ listener = Reading_ /\ answered = [c \in Queries |-> <<>>] /\ failed = {} /\ stop = "no" /\ rest = <<>>
  BY DEF DnsInit
<1>2. Free_ \in Job /\ Free_.t = "free" BY DEF Job, Free_
<1>3. IsInjective(<<>>) /\ ToSet(<<>>) = {} BY DEF IsInjective, ToSet
<1>4. /\ Reading_ \in [t : {"read", "take", "ip", "fail"}, name : RemoteNames \cup {0}, todo : Seq(Queries)]
      /\ Reading_.todo = <<>> /\ Reading_.t = "read"
  BY DEF Reading_
<1>5. DnsShapes BY <1>1, <1>2, <1>3, <1>4 DEF DnsShapes, Places
<1>6. Count = [c \in Queries |-> 0] BY <1>1 DEF Count
<1>7. Waiting = {} BY <1>1, <1>3, <1>4 DEF Waiting
<1>8. WorkersSay(where, doing, failed) BY <1>1, <1>2 DEF WorkersSay, Early
<1>9. PlacesSay(where, doing, Count, failed, ToSet(queue), Waiting) BY <1>1, <1>3, <1>6, <1>7 DEF PlacesSay
<1>10. Counted(doing, Count, Told, failed, Waiting) BY <1>6, <1>7 DEF Counted
<1>11. Apart(ToSet(pending), ToSet(listener.todo), ToSet(rest)) BY <1>1, <1>3, <1>4 DEF Apart
<1> QED BY <1>1, <1>5, <1>8, <1>9, <1>10, <1>11 DEF DnsInv, Book

LEMMA DnsKeeps == ASSUME DnsInv, [DnsNext]_dnsVars PROVE DnsInv'
<1>1. ASSUME NEW c \in Queries, Serve(c) PROVE DnsInv' BY <1>1, ServeKeeps
<1>2. ASSUME NEW w \in DnsWorkers, Take(w) PROVE DnsInv' BY <1>2, TakeKeeps
<1>3. ASSUME NEW w \in DnsWorkers, WorkerStep(w) PROVE DnsInv'
  BY <1>3, ProcessKeeps, ForwardKeeps, RegisterKeeps, WriteKeeps, RemoveKeeps DEF WorkerStep
<1>4. ASSUME NEW n \in RemoteNames, RemoteAnswer(n) \/ LoseQuery(n) \/ Repeat(n) \/ Expire(n) PROVE DnsInv'
  <2>1. CASE RemoteAnswer(n) BY <2>1, DnsSame DEF RemoteAnswer
  <2>2. CASE LoseQuery(n) BY <2>2, DnsSame DEF LoseQuery
  <2>3. CASE Repeat(n) BY <2>3, DnsSame DEF Repeat
  <2>4. CASE Expire(n) BY <2>4, DnsSame DEF Expire
  <2> QED BY <1>4, <2>1, <2>2, <2>3, <2>4
<1>5. ASSUME NEW n \in RemoteNames, ReadAnswer(n) PROVE DnsInv' BY <1>5, ReadKeeps
<1>6. ASSUME NEW k \in 1 .. Cardinality(Queries), SweepPending(k) PROVE DnsInv' BY <1>6, SweepKeeps
<1>7. ASSUME ListenerStep PROVE DnsInv' BY <1>7, TakeWaitersKeeps, TellWaiterKeeps DEF ListenerStep
<1>8. ASSUME StopForwarder PROVE DnsInv' BY <1>8, DnsFrame DEF StopForwarder
<1>9. ASSUME StopStep PROVE DnsInv' BY <1>9, DrainKeeps, TellRestKeeps DEF StopStep
<1>10. ASSUME UNCHANGED dnsVars PROVE DnsInv' 
  BY <1>10, DnsSame DEF dnsVars
<1> QED BY <1>1, <1>2, <1>3, <1>4, <1>5, <1>6, <1>7, <1>8, <1>9, <1>10 DEF DnsNext

LEMMA DnsGives == ASSUME DnsInv PROVE AnsweredOnce /\ NobodyForgotten /\ ShutdownDrains
<1>1. DnsShapes /\ Book(where, doing, Count, Told, failed, ToSet(queue), Waiting) BY DEF DnsInv
<1>2. Counted(doing, Count, Told, failed, Waiting) /\ PlacesSay(where, doing, Count, failed, ToSet(queue), Waiting) BY <1>1 DEF Book
<1>3. AnsweredOnce
  <2>1. ASSUME NEW c \in Queries PROVE Len(answered[c]) <= IF c \in failed /\ "fail" \in Range(answered[c]) THEN 2 ELSE 1
    <3>1. Range(answered[c]) = ToSet(answered[c]) BY DEF Range, ToSet
    <3>2. Count[c] = Len(answered[c]) BY DEF Count
    <3>3. c \in Told <=> "fail" \in ToSet(answered[c]) BY DEF Told
    <3>4. Count[c] \in 0 .. 1 \/ (Count[c] = 2 /\ c \in failed \cap Told) BY <1>2 DEF Counted
    <3>5. PICK n : n = Len(answered[c]) OBVIOUS
    <3>6. n \in 0 .. 1 \/ (n = 2 /\ c \in failed /\ "fail" \in Range(answered[c])) BY <3>1, <3>2, <3>3, <3>4, <3>5
    <3>7. n <= IF c \in failed /\ "fail" \in Range(answered[c]) THEN 2 ELSE 1
      <4>1. CASE n \in 0 .. 1 BY <4>1
      <4>2. CASE n = 2 /\ c \in failed /\ "fail" \in Range(answered[c]) BY <4>2
      <4> QED BY <3>6, <4>1, <4>2
    <3> QED BY <3>5, <3>7
  <2> QED BY <2>1 DEF AnsweredOnce
<1>4. NobodyForgotten
  <2>1. ASSUME NEW c \in Queries, where[c] \in {"worker", "waits"} PROVE Held(c)
    <3>1. CASE where[c] = "worker" BY <1>2, <3>1 DEF PlacesSay, Held
    <3>2. CASE where[c] = "waits"
      <4>1. c \in ToSet(pending) \cup ToSet(listener.todo) \cup ToSet(rest) BY <1>2, <3>2 DEF PlacesSay, Waiting
      <4> QED BY <4>1 DEF Held, ToSet
    <3> QED BY <2>1, <3>1, <3>2
  <2> QED BY <2>1 DEF NobodyForgotten
<1>5. ShutdownDrains
  <2>1. SUFFICES ASSUME stop = "done", \A w \in DnsWorkers : doing[w] = Free_ PROVE pending = <<>> BY DEF ShutdownDrains
  <2>2. Latecomers(doing, ToSet(pending)) BY <2>1 DEF DnsInv
  <2>3. ToSet(pending) = {} BY <2>1, <2>2 DEF Latecomers, Free_
  <2>4. pending \in Seq(Queries) BY <1>1 DEF DnsShapes
  <2> QED BY <2>3, <2>4, ToSetType
<1> QED BY <1>3, <1>4, <1>5

\* Whatever the order in which the worker, the listener, the sweep and Stop get to
\* a query it is answered once, or twice after a write that failed; none that was
\* read is forgotten; and Stop leaves no waiter: for any number of queries, names
\* and workers and every loss, delay and repetition of the other node's answers.
THEOREM QueriesAreAnsweredOnce == DnsSpec => [](AnsweredOnce /\ NobodyForgotten /\ ShutdownDrains)
<1>1. DnsInit => DnsInv BY DnsStart
<1>2. DnsInv /\ [DnsNext]_dnsVars => DnsInv' BY DnsKeeps
<1>3. DnsInv => AnsweredOnce /\ NobodyForgotten /\ ShutdownDrains BY DnsGives
<1> QED BY <1>1, <1>2, <1>3, PTL DEF DnsSpec

-----------------------------------------------------------------------------
(* The watchdog: the inductive invariant. *)

Dog ==
    [at : {"first", "monitor", "restart", "choose", "spawn", "term", "exited"}, ready : BOOLEAN, exe : {"none", "self", "pkg"},
     try : Nat]
Worker == [bin : {"none", "self", "pkg"}, st : {"starting", "booting", "ready", "stuck", "closing", "dead"}]

WdTypeOK ==
    /\ wd \in Dog /\ child \in Worker
    /\ cpReady \in BOOLEAN /\ late \in BOOLEAN /\ marker \in BOOLEAN /\ restarting \in BOOLEAN
    /\ lastGood \in {"none", "self", "pkg"} /\ current \in {"none", "self", "pkg"}
    /\ signals \in Nat /\ dozes \in Nat /\ spawnFails \in Nat

\* What the watchdog knows of its child is about the child it has.
KnowsChild ==
    /\ Alive_ => child.bin = current
    /\ cpReady => current \in proven
    /\ GoodOnly

\* While the watchdog restarts, or has ended, no worker runs.
NoneMeanwhile == wd.at \in {"first", "restart", "choose", "spawn", "exited"} => ~ Alive_

\* Without a signal the marker is a late worker's, and it stays only until its
\* successor boots.
MarkerWhy ==
    signals = 0 =>
        /\ child.st = "ready" /\ late => dozes > 0
        /\ child.st = "closing" => dozes > 0 /\ wd.at = "term"
        /\ handler = "idle"
        /\ marker => /\ dozes > 0
                     /\ \/ wd.at \in {"term", "choose", "spawn"}
                        \/ wd.at = "monitor" /\ (child.st = "starting" \/ spawnFails > 0 \/ ~ Works(current))

FirstTime == wd.at = "first" => current = "none" /\ signals = 0 /\ ~ cpReady /\ ~ marker

WdInv ==
    /\ WdTypeOK /\ KnowsChild /\ NoneMeanwhile /\ MarkerWhy /\ QuitsIfAsked /\ FirstTime

LEMMA WdStart == ASSUME WdInit PROVE WdInv
BY DEF WdInit, WdInv, WdTypeOK, KnowsChild, NoneMeanwhile, MarkerWhy, QuitsIfAsked, FirstTime, GoodOnly, Alive_, Monitoring, Dog, Worker

LEMMA WdKeeps == ASSUME WdInv, [WdNext]_wdVars PROVE WdInv'
<1> USE DEF WdInv, WdTypeOK, KnowsChild, NoneMeanwhile, MarkerWhy, QuitsIfAsked, FirstTime, GoodOnly, Alive_, Works, files
<1>a. wd \in Dog /\ child \in Worker OBVIOUS
<1>b. ASSUME NEW s \in {"booting", "ready", "stuck", "closing", "dead"}
      PROVE  [child EXCEPT !.st = s] \in Worker /\ [child EXCEPT !.st = s].st = s /\ [child EXCEPT !.st = s].bin = child.bin
  BY <1>a DEF Worker
<1>c. ASSUME NEW s \in {"monitor", "restart", "choose", "spawn", "term", "exited"}
      PROVE  [wd EXCEPT !.at = s] \in Dog /\ [wd EXCEPT !.at = s].at = s
  BY <1>a DEF Dog
<1>d. ASSUME NEW s \in {"monitor", "restart", "choose", "spawn", "term", "exited"}, NEW r \in BOOLEAN
      PROVE  [wd EXCEPT !.at = s, !.ready = r] \in Dog /\ [wd EXCEPT !.at = s, !.ready = r].at = s
  BY <1>a DEF Dog
<1>e. Monitoring \in Dog /\ Monitoring.at = "monitor" BY DEF Monitoring, Dog
<1>f. ASSUME NEW x \in {"none", "self", "pkg"} PROVE [wd EXCEPT !.exe = x] \in Dog /\ [wd EXCEPT !.exe = x].at = wd.at
  BY <1>a DEF Dog
<1>g. ASSUME NEW x \in {"none", "self", "pkg"}
      PROVE  [wd EXCEPT !.exe = x, !.try = @ + 1] \in Dog /\ [wd EXCEPT !.exe = x, !.try = @ + 1].at = wd.at
  <2>1. PICK t \in Nat : t = wd.try + 1 BY <1>a DEF Dog
  <2>2. [wd EXCEPT !.exe = x, !.try = t] \in Dog /\ [wd EXCEPT !.exe = x, !.try = t].at = wd.at BY <1>a DEF Dog
  <2> QED BY <2>1, <2>2
<1>h. SelectWorkerBinary \in {"self", "pkg"} BY DEF SelectWorkerBinary
<1>1. ASSUME Boots PROVE WdInv' BY <1>1, <1>b DEF Boots
<1>2. ASSUME BecomesReady PROVE WdInv' BY <1>2, <1>b DEF BecomesReady
<1>3. ASSUME Closes PROVE WdInv' BY <1>3, <1>b DEF Closes
<1>4. ASSUME Dozes PROVE WdInv' BY <1>4 DEF Dozes
<1>5. ASSUME HotSwap PROVE WdInv' BY <1>5, <1>b DEF HotSwap
<1>6. ASSUME Signal PROVE WdInv' BY <1>6 DEF Signal
<1>7. ASSUME PassOn PROVE WdInv' BY <1>7, <1>b DEF PassOn, Terminated
<1>8. ASSUME Tick_ PROVE WdInv' BY <1>8 DEF Tick_, Proves
<1>9. ASSUME Begin PROVE WdInv' BY <1>9, <1>c DEF Begin
<1>10. ASSUME TimedOut PROVE WdInv' BY <1>10, <1>b, <1>d DEF TimedOut, Proves, Terminated
<1>11. ASSUME TermKill PROVE WdInv' BY <1>11, <1>b DEF TermKill
<1>12. ASSUME TermDone PROVE WdInv' BY <1>12, <1>c DEF TermDone
<1>13. ASSUME FailsToStart PROVE WdInv'
  <2>1. CASE child' = [child EXCEPT !.st = "dead"] /\ UNCHANGED late BY <1>13, <2>1, <1>b DEF FailsToStart
  <2>2. CASE child' = [child EXCEPT !.st = "stuck"] /\ late' = TRUE BY <1>13, <2>2, <1>b DEF FailsToStart
  <2> QED BY <1>13, <2>1, <2>2 DEF FailsToStart
<1>14. ASSUME Breaks PROVE WdInv'
  <2>1. CASE child' = [child EXCEPT !.st = "dead"] /\ UNCHANGED late BY <1>14, <2>1, <1>b DEF Breaks
  <2>2. CASE child' = [child EXCEPT !.st = "stuck"] /\ late' = TRUE BY <1>14, <2>2, <1>b DEF Breaks
  <2> QED BY <1>14, <2>1, <2>2 DEF Breaks
<1>15. ASSUME FirstSpawn PROVE WdInv'
  <2>1. CASE wd' = Monitoring /\ child' = [bin |-> "self", st |-> "starting"] /\ current' = "self" 
    <3>1. [bin |-> "self", st |-> "starting"] \in Worker BY DEF Worker
    <3>2. child'.st = "starting" /\ child'.bin = current' /\ wd'.at = "monitor" /\ ~ cpReady' /\ wd' \in Dog /\ child' \in Worker /\ ~ marker'
      BY <1>15, <2>1, <1>e, <3>1 DEF FirstSpawn
    <3> QED BY <1>15, <2>1, <3>2 DEF FirstSpawn
  <2>2. CASE wd' = [wd EXCEPT !.at = "exited"] /\ UNCHANGED <<child, current>> BY <1>15, <2>2, <1>c, <1>e DEF FirstSpawn, Worker
  <2> QED BY <1>15, <2>1, <2>2 DEF FirstSpawn
<1>16. ASSUME ExitSeen PROVE WdInv'
  <2>1. CASE marker /\ marker' = FALSE /\ wd' = [wd EXCEPT !.at = "exited"] 
    <3>1. signals > 0 \/ (dozes > 0 /\ (spawnFails > 0 \/ ~ Works(current)))
      <4>1. child.st = "dead" /\ wd.at = "monitor" /\ signals \in Nat BY <1>16, <2>1 DEF ExitSeen
      <4> QED BY <2>1, <4>1
    <3>2. wd'.at = "exited" /\ wd' \in Dog BY <2>1, <1>c
    <3>3. KnowsChild' BY <1>16 DEF ExitSeen, Proves
    <3>4. lastGood' \in {"none", "self", "pkg"} BY <1>16 DEF ExitSeen, Proves
    <3> QED BY <1>16, <2>1, <3>1, <3>2, <3>3, <3>4 DEF ExitSeen
  <2>2. CASE ~ marker /\ UNCHANGED marker /\ wd' = [wd EXCEPT !.at = "restart", !.ready = cpReady] BY <1>16, <2>2, <1>c, <1>d DEF ExitSeen, Proves
  <2> QED BY <1>16, <2>1, <2>2 DEF ExitSeen
<1>17. ASSUME Choose_ PROVE WdInv' BY <1>17, <1>h DEF Choose_, NewExe, Dog
<1>18. ASSUME Spawn PROVE WdInv' BY <1>18, <1>a, <1>e DEF Spawn, Dog, Worker
<1>19. ASSUME SpawnFails_ PROVE WdInv'
  <2>1. CASE wd' = [wd EXCEPT !.exe = current] /\ UNCHANGED restarting BY <1>19, <2>1, <1>e, <1>f, <1>g, <1>h DEF SpawnFails_
  <2>2. CASE wd' = [wd EXCEPT !.exe = SelectWorkerBinary, !.try = @ + 1] /\ UNCHANGED restarting
    <3>1. wd' \in Dog /\ wd'.at = wd.at BY <2>2, <1>g, <1>h
    <3>2. spawnFails' \in Nat /\ spawnFails' > 0 BY <1>19 DEF SpawnFails_
    <3> QED BY <1>19, <2>2, <3>1, <3>2 DEF SpawnFails_
  <2>3. CASE wd' = Monitoring /\ restarting' = FALSE
    <3>1. wd' \in Dog /\ wd'.at = "monitor" BY <2>3, <1>e
    <3>2. spawnFails' \in Nat /\ spawnFails' > 0 BY <1>19 DEF SpawnFails_
    <3> QED BY <1>19, <2>3, <3>1, <3>2 DEF SpawnFails_
  <2> QED BY <1>19, <2>1, <2>2, <2>3 DEF SpawnFails_
<1>20. ASSUME UNCHANGED wdVars PROVE WdInv' BY <1>20 DEF wdVars
<1> QED BY <1>1, <1>2, <1>3, <1>4, <1>5, <1>6, <1>7, <1>8, <1>9, <1>10, <1>11, <1>12, <1>13, <1>14, <1>15, <1>16, <1>17, <1>18, <1>19, <1>20 DEF WdNext, WdStep, ChildStep

\* The watchdog falls back only to a binary that was ready, and ends only when it
\* was asked to or a late worker's marker outlived it, leaving no worker behind:
\* for every package, and any number of crashes, failing spawns, signals and sleeps.
THEOREM WatchdogIsSafe == WdSpec => [](GoodOnly /\ QuitsIfAsked)
<1>1. WdInit => WdInv BY WdStart
<1>2. WdInv /\ [WdNext]_wdVars => WdInv' BY WdKeeps
<1>3. WdInv => GoodOnly /\ QuitsIfAsked BY DEF WdInv, KnowsChild
<1> QED BY <1>1, <1>2, <1>3, PTL DEF WdSpec

-----------------------------------------------------------------------------
(* One relayed connection: the inductive invariant. *)

RelayShapes ==
    /\ half \in SUBSET Ends_ /\ kind \in RelayKinds /\ (kind = "udp" => half = {})
    /\ cp \in [Ends_ -> {"off", "read", "write", "over"}] /\ us \in [Ends_ -> {"open", "half", "closed"}]
    /\ peer \in [Ends_ -> {"open", "fin", "dead"}]
    /\ sent \in [Ends_ -> Nat] /\ taken \in [Ends_ -> Nat] /\ given \in [Ends_ -> Nat] /\ seen \in [Ends_ -> Nat]

\* Where the handler is says what the goroutines do.
HandlerSays ==
    /\ hd \in {"decide", "dial", "serve"} => \A e \in Ends_ : cp[e] = "off" /\ us[e] = "open"
    /\ hd = "relay" => \A e \in Ends_ : cp[e] # "off"
    /\ hd = "done" => (\A e \in Ends_ : cp[e] = "off") \/ (\A e \in Ends_ : cp[e] = "over")
    /\ hd \in {"decide", "dial", "serve", "relay", "done"}

\* Both ends can be half closed and nobody died.
Clean == half = Ends_ /\ \A e \in Ends_ : peer[e] # "dead"

\* Then no end is closed while copying goes on, and a goroutine ends only after
\* the last unit of a peer that has finished.
CleanEnds ==
    Clean => /\ hd = "relay" => \A e \in Ends_ : us[e] # "closed"
             /\ \A e \in Ends_ : cp[e] = "over" => peer[e] = "fin" /\ taken[e] = sent[e] /\ given[Other_(e)] = sent[e]

RelayInv == RelayShapes /\ RelayTypeOK /\ HandlerSays /\ CleanEnds

LEMMA RelayStart == ASSUME RelayInit PROVE RelayInv
BY DEF RelayInit, RelayInv, RelayShapes, RelayTypeOK, HandlerSays, CleanEnds, Clean, Ends_, Other_

LEMMA OtherEnd == \A e \in Ends_ : Other_(e) \in Ends_ /\ Other_(e) # e /\ Other_(Other_(e)) = e
BY DEF Ends_, Other_

LEMMA RelayKeeps == ASSUME RelayInv, [RelayNext]_relayVars PROVE RelayInv'
<1> USE DEF RelayInv, RelayShapes, RelayTypeOK, HandlerSays, CleanEnds, Clean, peers_
<1>1. ASSUME TurnAway PROVE RelayInv' BY <1>1 DEF TurnAway
<1>2. ASSUME Reject PROVE RelayInv' BY <1>2 DEF Reject
<1>3. ASSUME ServeConn PROVE RelayInv' BY <1>3 DEF ServeConn
<1>4. ASSUME Served PROVE RelayInv' BY <1>4 DEF Served
<1>5. ASSUME Resolve PROVE RelayInv' BY <1>5 DEF Resolve
<1>6. ASSUME DialFails PROVE RelayInv' BY <1>6 DEF DialFails
<1>7. ASSUME Establish PROVE RelayInv' BY <1>7 DEF Establish
<1>8. ASSUME RelayReturns PROVE RelayInv' BY <1>8 DEF RelayReturns
<1>9. ASSUME NEW e \in Ends_, ReadData(e) PROVE RelayInv' BY <1>9, OtherEnd DEF ReadData
<1>10. ASSUME NEW e \in Ends_, ReadEof(e) PROVE RelayInv'
  <2>1. CASE kind = "tcp" BY <1>10, <2>1, OtherEnd DEF ReadEof, CloseWriteOrClose
  <2>2. CASE kind # "tcp"
    <3>1. half = {} BY <2>2, RelayAssumption
    <3>2. ~ Clean /\ ~ Clean' BY <1>10, <3>1 DEF Ends_, ReadEof
    <3> QED BY <1>10, <2>2, <3>2, OtherEnd DEF ReadEof, HardClose
  <2> QED BY <2>1, <2>2
<1>11. ASSUME NEW e \in Ends_, ReadFails(e) PROVE RelayInv' BY <1>11, OtherEnd DEF ReadFails, HardClose, Broken
<1>12. ASSUME NEW e \in Ends_, WriteData(e) PROVE RelayInv' BY <1>12, OtherEnd DEF WriteData
<1>13. ASSUME NEW e \in Ends_, WriteFails(e) PROVE RelayInv' BY <1>13, OtherEnd DEF WriteFails, HardClose, Broken
<1>14. ASSUME NEW e \in Ends_, PeerSends(e) PROVE RelayInv' BY <1>14, OtherEnd DEF PeerSends
<1>15. ASSUME NEW e \in Ends_, PeerFinishes(e) PROVE RelayInv' BY <1>15, OtherEnd DEF PeerFinishes
<1>16. ASSUME NEW e \in Ends_, PeerReads(e) PROVE RelayInv' BY <1>16, OtherEnd DEF PeerReads
<1>17. ASSUME NEW e \in Ends_, PeerDies(e) PROVE RelayInv' BY <1>17, OtherEnd DEF PeerDies
<1>18. ASSUME UNCHANGED relayVars PROVE RelayInv' BY <1>18 DEF relayVars
<1> QED BY <1>1, <1>2, <1>3, <1>4, <1>5, <1>6, <1>7, <1>8, <1>9, <1>10, <1>11, <1>12, <1>13, <1>14, <1>15, <1>16, <1>17, <1>18
      DEF RelayNext, HandlerStep, CopyStep

\* What a Read took a Write has passed on or is about to, and where both ends can
\* be half closed and no peer died a connection that is over has delivered every
\* unit both ways, however many units were sent and however long each side lagged.
THEOREM RelayDelivers == RelaySpec => [](RelayTypeOK /\ HalfCloseKept)
<1>1. RelayInit => RelayInv BY RelayStart
<1>2. RelayInv /\ [RelayNext]_relayVars => RelayInv' BY RelayKeeps
<1>3. RelayInv => RelayTypeOK /\ HalfCloseKept BY OtherEnd DEF RelayInv, CleanEnds, HandlerSays, Clean, HalfCloseKept, Ends_
<1> QED BY <1>1, <1>2, <1>3, PTL DEF RelaySpec
=============================================================================

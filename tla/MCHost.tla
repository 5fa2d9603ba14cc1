-------------------------------- MODULE MCHost --------------------------------
(***************************************************************************)
(* Small instances of what surrounds the mesh on one machine, for TLC: the *)
(* pool of fake addresses, DNS, DHCP, the TUN device, the watchdog,        *)
(* package distribution and the relay of a connection.  They share no      *)
(* state: a behaviour follows one of them, `part', and leaves the others  *)
(* as they start.                                                          *)
(***************************************************************************)
EXTENDS FakeIpPool, DnsForward, DhcpServer, TunDevice, Watchdog, PackageSync, Relay, TLC

VARIABLE part

mcVars == <<part, poolVars_, dnsVars, dhcpVars, tunVars, wdVars, pkgVars, relayVars>>

-----------------------------------------------------------------------------
(* Values of the constants. *)

\* Two clients ask for one name; the third query is for an AAAA record.
NameOf_ == <<1, 1, 2>>
\* No binding; or one for a client and one for a client that never comes.
BindingSets_ == {NoLease, (2 :> 2) @@ (3 :> 1)}

Rank_ == <<1, 2>>
\* Both nodes start with version 1; version 2 is uploaded on the first.
Starting_ == <<{1}, {1}>>
Peers_ == {{1, 2}}
Uploadable_ == {<<1, 2>>}
Removable_ == {<<2, 2>>}

-----------------------------------------------------------------------------
Init ==
    /\ part \in {"fake", "dns", "dhcp", "tun", "watchdog", "packages", "relay"}
    /\ FakeInit /\ DnsInit /\ DhcpInit /\ TunInit /\ WdInit
    /\ PkgInit /\ RelayInit /\ (part # "relay" => kind = "tcp" /\ half = {})

Next ==
    \/ part = "fake" /\ FakeNext /\ UNCHANGED <<part, dnsVars, dhcpVars, tunVars, wdVars, pkgVars, relayVars>>
    \/ part = "dns" /\ DnsNext /\ UNCHANGED <<part, poolVars_, dhcpVars, tunVars, wdVars, pkgVars, relayVars>>
    \/ part = "dhcp" /\ DhcpNext /\ UNCHANGED <<part, poolVars_, dnsVars, tunVars, wdVars, pkgVars, relayVars>>
    \/ part = "tun" /\ TunNext /\ UNCHANGED <<part, poolVars_, dnsVars, dhcpVars, wdVars, pkgVars, relayVars>>
    \/ part = "watchdog" /\ WdNext /\ UNCHANGED <<part, poolVars_, dnsVars, dhcpVars, tunVars, pkgVars, relayVars>>
    \/ part = "packages" /\ PkgNext /\ UNCHANGED <<part, poolVars_, dnsVars, dhcpVars, tunVars, wdVars, relayVars>>
    \/ part = "relay" /\ RelayNext /\ UNCHANGED <<part, poolVars_, dnsVars, dhcpVars, tunVars, wdVars, pkgVars>>

-----------------------------------------------------------------------------
(* Fairness, of the component that is followed. *)

\* Workers, the listener and Stop go on; the sweep is a ticker.
DnsFairness ==
    LET on == part = "dns" IN
    /\ \A w \in DnsWorkers : WF_dnsVars(on /\ WorkerStep(w)) /\ WF_dnsVars(on /\ Take(w))
    /\ WF_dnsVars(on /\ ListenerStep) /\ WF_dnsVars(on /\ StopStep)
    /\ WF_dnsVars(on /\ \E k \in 1..Cardinality(Queries) : SweepPending(k))

\* The watchdog, the worker and the signal goroutine go on.
WdFairness ==
    LET on == part = "watchdog" IN
    WF_wdVars(on /\ WdStep) /\ WF_wdVars(on /\ Spawn) /\ WF_wdVars(on /\ ChildStep) /\ WF_wdVars(on /\ PassOn)

\* Requests in hand are worked off, packages arrive or fail, syncs recur by a ticker, the
\* exit timer fires and the watchdog restarts.
PkgFairness ==
    LET on == part = "packages" IN
    /\ \A n \in Nodes : /\ WF_pkgVars(on /\ Saves(n)) /\ WF_pkgVars(on /\ SyncSteps(n)) /\ WF_pkgVars(on /\ ApplyRetention(n))
                         /\ WF_pkgVars(on /\ ExitForUpgrade(n)) /\ WF_pkgVars(on /\ RestartNode(n))
                         /\ WF_pkgVars(on /\ \E p \in PeersOf(n) : SyncPlan(n, p))
    /\ WF_pkgVars(on /\ \E m \in posts : ReceivePackage(m) \/ PostFails(m))

\* The handler and both goroutines go on, living peers read what they are given.
RelayFairness ==
    LET on == part = "relay" IN
    WF_relayVars(on /\ HandlerStep) /\ \A e \in Ends_ : WF_relayVars(on /\ CopyStep(e)) /\ WF_relayVars(on /\ PeerReads(e))

Spec == Init /\ [][Next]_mcVars /\ DnsFairness /\ WdFairness /\ PkgFairness /\ RelayFairness

\* What the last two components promise: packages spread and the newest is never lost, and
\* a relayed connection delivers what it took and comes to its end on every side.
EdgeRight == PackagesRight /\ RelayRight
=============================================================================

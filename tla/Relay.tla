------------------------------- MODULE Relay -------------------------------
(***************************************************************************)
(* One connection that leaves the netstack (mesh/netstack.go, acceptTCP    *)
(* and acceptUDP): HandleTCPConn or HandleUDPConn decides what becomes of  *)
(* it (handler/connection_handler.go), and relay or relayUDP copies        *)
(* between it, the end "conn", and what was dialed, the end "target".  One *)
(* goroutine copies each way; what one of them does at its end is all that *)
(* can wake the other.                                                     *)
(*                                                                         *)
(* Payload is counted in units.  A peer that dies is noticed, by TCP       *)
(* keepalive at the latest, as an error of Read and Write.                 *)
(***************************************************************************)
EXTENDS Naturals

CONSTANTS
    RelayKinds,  \* "tcp", "udp"
    MaxUnits,    \* units each peer sends
    Unread       \* units a peer leaves unread before Write blocks

ASSUME RelayAssumption == RelayKinds \subseteq {"tcp", "udp"}

Ends_ == {"conn", "target"}
Other_(e) == IF e = "conn" THEN "target" ELSE "conn"

VARIABLES
    kind,     \* of the connection
    half,     \* ends with a CloseWrite
    hd,       \* the handler: "decide", "dial", "relay", "serve", "done"
    record,   \* its connlog record: "none", "open", "active", "closed"
    cp,       \* the goroutine that reads from each end: "off", "read", "write", "over"
    us,       \* each end on our side: "open", "half" (CloseWrite), "closed"
    peer,     \* each peer: "open", "fin" (sends no more), "dead"
    sent, taken, \* units each peer has sent; of them, taken by a Read here
    given, seen  \* units written to each peer; of them, read by it

relayVars == <<kind, half, hd, record, cp, us, peer, sent, taken, given, seen>>
peers_ == <<peer, sent, seen>>

RelayTypeOK ==
    /\ \A e \in Ends_ : /\ taken[e] <= sent[e] /\ seen[e] <= given[e]
                        /\ taken[e] = given[Other_(e)] + (IF cp[e] = "write" THEN 1 ELSE 0) \/ cp[e] = "over"
    /\ record \in {"open", "active"} => hd \in {"dial", "relay", "serve"}

-----------------------------------------------------------------------------
(* The handler. *)

RelayInit ==
    /\ kind \in RelayKinds /\ half \in SUBSET Ends_ /\ (kind = "udp" => half = {})
    /\ hd = "decide" /\ record = "none" /\ cp = [e \in Ends_ |-> "off"]
    /\ us = [e \in Ends_ |-> "open"] /\ peer = [e \in Ends_ |-> "open"]
    /\ sent = [e \in Ends_ |-> 0] /\ taken = [e \in Ends_ |-> 0] /\ given = [e \in Ends_ |-> 0] /\ seen = [e \in Ends_ |-> 0]

\* A stale fake address or no rule that resolves: nothing is recorded.
TurnAway == hd = "decide" /\ hd' = "done" /\ us' = [e \in Ends_ |-> "closed"] /\ UNCHANGED <<kind, half, record, cp, peers_, taken, given>>

\* A rule says REJECT.
Reject == hd = "decide" /\ hd' = "done" /\ us' = [e \in Ends_ |-> "closed"] /\ record' = "closed" /\ UNCHANGED <<kind, half, cp, peers_, taken, given>>

\* The node's own name or address: the admin or SSH service has the connection until
\* its peer is through.
ServeConn ==
    /\ hd = "decide" /\ kind = "tcp" /\ hd' = "serve" /\ record' = "active"
    /\ UNCHANGED <<kind, half, cp, us, peers_, taken, given>>
Served ==
    /\ hd = "serve" /\ peer["conn"] # "open" /\ hd' = "done" /\ record' = "closed" /\ us' = [e \in Ends_ |-> "closed"]
    /\ UNCHANGED <<kind, half, cp, peers_, taken, given>>

Resolve == hd = "decide" /\ hd' = "dial" /\ record' = "open" /\ UNCHANGED <<kind, half, cp, us, peers_, taken, given>>

\* No address, or the proxy, the mesh or the target does not answer.
DialFails == hd = "dial" /\ hd' = "done" /\ record' = "closed" /\ us' = [e \in Ends_ |-> "closed"] /\ UNCHANGED <<kind, half, cp, peers_, taken, given>>

Establish ==
    /\ hd = "dial" /\ hd' = "relay" /\ record' = "active" /\ cp' = [e \in Ends_ |-> "read"]
    /\ UNCHANGED <<kind, half, us, peers_, taken, given>>

\* Both goroutines are over: relay returns, and with it the handler.
RelayReturns ==
    /\ hd = "relay" /\ \A e \in Ends_ : cp[e] = "over"
    /\ hd' = "done" /\ record' = "closed" /\ us' = [e \in Ends_ |-> "closed"]
    /\ UNCHANGED <<kind, half, cp, peers_, taken, given>>

-----------------------------------------------------------------------------
(* The goroutine that reads from e. *)

\* A real error closes both ends, so that the other goroutine wakes up.
HardClose(e) == us' = [x \in Ends_ |-> "closed"]

\* CloseWriteOrClose.
CloseWriteOrClose(e) ==
    us' = [us EXCEPT ![e] = IF @ = "closed" \/ e \notin half THEN "closed" ELSE "half"]

Broken(e) == us[e] = "closed" \/ peer[e] = "dead"

ReadData(e) ==
    /\ cp[e] = "read" /\ ~ Broken(e) /\ taken[e] < sent[e]
    /\ taken' = [taken EXCEPT ![e] = @ + 1] /\ cp' = [cp EXCEPT ![e] = "write"]
    /\ UNCHANGED <<kind, half, hd, record, us, peers_, given>>

\* The peer's clean end goes to the other side; datagrams know no such end.
ReadEof(e) ==
    /\ cp[e] = "read" /\ ~ Broken(e) /\ taken[e] = sent[e] /\ peer[e] = "fin"
    /\ cp' = [cp EXCEPT ![e] = "over"]
    /\ IF kind = "tcp" THEN CloseWriteOrClose(Other_(e)) ELSE HardClose(e)
    /\ UNCHANGED <<kind, half, hd, record, peers_, taken, given>>

ReadFails(e) ==
    /\ cp[e] = "read" /\ Broken(e) /\ cp' = [cp EXCEPT ![e] = "over"] /\ HardClose(e)
    /\ UNCHANGED <<kind, half, hd, record, peers_, taken, given>>

WriteData(e) ==
    LET to == Other_(e) IN
    /\ cp[e] = "write" /\ ~ Broken(to) /\ given[to] - seen[to] < Unread
    /\ given' = [given EXCEPT ![to] = @ + 1] /\ cp' = [cp EXCEPT ![e] = "read"]
    /\ UNCHANGED <<kind, half, hd, record, us, peers_, taken>>

WriteFails(e) ==
    /\ cp[e] = "write" /\ Broken(Other_(e)) /\ cp' = [cp EXCEPT ![e] = "over"] /\ HardClose(e)
    /\ UNCHANGED <<kind, half, hd, record, peers_, taken, given>>

-----------------------------------------------------------------------------
(* The peers. *)

PeerSends(e) ==
    /\ peer[e] = "open" /\ us[e] # "closed" /\ (e = "target" => hd = "relay") /\ sent[e] < MaxUnits
    /\ sent' = [sent EXCEPT ![e] = @ + 1] /\ UNCHANGED <<kind, half, hd, record, cp, us, peer, taken, given, seen>>

PeerFinishes(e) ==
    /\ peer[e] = "open" /\ us[e] # "closed" /\ kind = "tcp" /\ (e = "target" => hd = "relay")
    /\ peer' = [peer EXCEPT ![e] = "fin"] /\ UNCHANGED <<kind, half, hd, record, cp, us, sent, taken, given, seen>>

PeerReads(e) ==
    /\ peer[e] # "dead" /\ seen[e] < given[e]
    /\ seen' = [seen EXCEPT ![e] = @ + 1] /\ UNCHANGED <<kind, half, hd, record, cp, us, peer, sent, taken, given>>

PeerDies(e) ==
    /\ peer[e] # "dead" /\ us[e] # "closed" /\ (e = "target" => hd = "relay")
    /\ peer' = [peer EXCEPT ![e] = "dead"] /\ UNCHANGED <<kind, half, hd, record, cp, us, sent, taken, given, seen>>

-----------------------------------------------------------------------------
HandlerStep == RelayReturns \/ Served \/ Resolve \/ Establish \/ DialFails \/ Reject \/ TurnAway \/ ServeConn
CopyStep(e) == ReadData(e) \/ ReadEof(e) \/ ReadFails(e) \/ WriteData(e) \/ WriteFails(e)

RelayNext ==
    \/ HandlerStep
    \/ \E e \in Ends_ : CopyStep(e) \/ PeerSends(e) \/ PeerFinishes(e) \/ PeerReads(e) \/ PeerDies(e)

\* Safety part of the specification.
RelaySpec == RelayInit /\ [][RelayNext]_relayVars

-----------------------------------------------------------------------------
(* Properties. *)

\* A clean end of one side does not cut the other: where both ends can be half closed and
\* no peer died, a connection that is over has delivered every unit in both directions.
HalfCloseKept ==
    (hd = "done" /\ half = Ends_ /\ cp["conn"] = "over" /\ \A e \in Ends_ : peer[e] # "dead")
        => \A e \in Ends_ : given[Other_(e)] = sent[e]

\* The peer of e had finished before it died, nobody reads from it any more, and the
\* other side neither ends nor sends: nothing here touches the dead end.
Unnoticed(e) == peer[e] = "dead" /\ cp[e] = "over" /\ cp[Other_(e)] = "read" /\ peer[Other_(e)] = "open"

\* Nothing outlives a peer: after one has died, or both have finished, the handler, both
\* goroutines, both connections and the record of the connection come to their end,
\* whichever of Read and Write the goroutines were blocked in.
RelayUnwinds ==
    []<>(((\E e \in Ends_ : peer[e] = "dead") \/ (\A e \in Ends_ : peer[e] = "fin"))
            => \/ hd = "done" /\ record # "active" /\ \A e \in Ends_ : us[e] = "closed" /\ cp[e] \in {"off", "over"}
               \/ \E e \in Ends_ : Unnoticed(e))

\* Where an end knows no half close one side's end is the other's.
ClosesTogether == []<>((\E e \in Ends_ : peer[e] = "fin" /\ Other_(e) \notin half) => hd = "done")

RelayRight == [](RelayTypeOK /\ HalfCloseKept) /\ RelayUnwinds /\ ClosesTogether
=============================================================================

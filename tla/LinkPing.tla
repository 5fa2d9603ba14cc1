------------------------------ MODULE LinkPing ------------------------------
(***************************************************************************)
(* The pings of a P2P link (p2p/p2p.go, pingTracker): one per second, lost *)
(* after a timeout, unless a late pong overturns the verdict; a link whose *)
(* pings are lost in a row, with no frame of any kind arriving, is closed. *)
(*                                                                         *)
(* Time is counted in pings, so a ping is named by its age.  Frames may be *)
(* late, lost or overtake each other; a ping the send queue refuses is     *)
(* taken back.                                                             *)
(***************************************************************************)
EXTENDS Naturals, Sequences, FiniteSets, SequencesExt

CONSTANTS
    PongTimeout,   \* pingTimeout
    LateGrace,     \* pingLateGrace
    LossWindow,    \* pingLossWindowSize
    FailThreshold, \* pingFailDisconnectThreshold
    InboundQuiet   \* pingDeadInboundQuiet

ASSUME PingAssumption ==
    /\ {PongTimeout, LateGrace, LossWindow, FailThreshold, InboundQuiet} \subseteq Nat \ {0}
    /\ PongTimeout < LateGrace

VARIABLES
    pend,     \* pendingPings
    grace,    \* lateGrace
    window,   \* samples, each with the age of its ping
    lost,     \* consecutiveLost, counted up to the threshold
    wire,     \* pings whose pong may still come
    heard,    \* pings whose pong was taken into account
    quiet,    \* time since the last frame, counted up to InboundQuiet
    silent,   \* time since the last pong, counted up to FailThreshold
    alive,    \* the other end answers
    open      \* transport not closed

pingVars == <<pend, grace, window, lost, wire, heard, quiet, silent, alive, open>>

\* Ages beyond LateGrace are not told apart.
Forgotten_ == LateGrace + 1
Older(a) == IF a < Forgotten_ THEN a + 1 ELSE a
Aged(A) == {a + 1 : a \in A} \ {Forgotten_}
UpTo(n, m) == IF n < m THEN n ELSE m

\* addSampleLocked.
Sampled(w, s) == LET v == Append(w, s) IN IF Len(v) > LossWindow THEN Tail(v) ELSE v

\* A late pong turns its sample, if the window still has it.
Overturned(w, a) == [i \in DOMAIN w |-> IF w[i].age = a THEN [w[i] EXCEPT !.acked = TRUE] ELSE w[i]]

\* sendPing gives the link up.
GiveUp == lost >= FailThreshold /\ quiet >= InboundQuiet

\* Mutant: pings wait for their pong for ever.
TooOld_Never(a) == FALSE

TooOld(a) == a + 1 > PongTimeout

\* recordPing: at most one ping a second becomes too old.
RecordPing(sent) ==
    LET stale == {a \in pend : TooOld(a)}
        w == [i \in DOMAIN window |-> [window[i] EXCEPT !.age = Older(@)]]
    IN  /\ pend' = Aged(pend \ stale) \cup (IF sent THEN {0} ELSE {})
        /\ grace' = Aged(grace \cup stale)
        /\ window' = IF stale = {} THEN w ELSE Sampled(w, [age |-> PongTimeout + 1, acked |-> FALSE])
        /\ lost' = UpTo(lost + Cardinality(stale), FailThreshold)
        /\ wire' = Aged(wire) \cup (IF sent /\ alive THEN {0} ELSE {})
        /\ heard' = Aged(heard)

\* A second passes and sendPing is called; cancelPing if the queue is full.
SendPing(sent) ==
    /\ open
    /\ quiet' = UpTo(quiet + 1, InboundQuiet) /\ silent' = UpTo(silent + 1, FailThreshold)
    /\ \/ GiveUp /\ open' = FALSE /\ UNCHANGED <<pend, grace, window, lost, wire, heard>>
       \/ ~GiveUp /\ RecordPing(sent) /\ UNCHANGED open
    /\ UNCHANGED alive

\* recordPong: in flight, or a verdict to overturn, or too late.
RecordPong(a) ==
    /\ open /\ a \in wire /\ wire' = wire \ {a} /\ quiet' = 0
    /\ \/ /\ a \in pend /\ pend' = pend \ {a} /\ window' = Sampled(window, [age |-> a, acked |-> TRUE])
          /\ UNCHANGED grace
       \/ /\ a \in grace /\ grace' = grace \ {a} /\ window' = Overturned(window, a)
          /\ UNCHANGED pend
    /\ lost' = 0 /\ silent' = 0 /\ heard' = heard \cup {a}
    /\ UNCHANGED <<alive, open>>

\* A frame is lost on the way, or dropped in a queue.
LosePing(a) == a \in wire /\ wire' = wire \ {a} /\ UNCHANGED <<pend, grace, window, lost, heard, quiet, silent, alive, open>>

\* Any other frame of the peer.
Inbound ==
    /\ open /\ alive /\ quiet > 0 /\ quiet' = 0
    /\ UNCHANGED <<pend, grace, window, lost, wire, heard, silent, alive, open>>

\* The other end is gone.
Vanish == alive /\ alive' = FALSE /\ UNCHANGED <<pend, grace, window, lost, wire, heard, quiet, silent, open>>

PingInit ==
    /\ pend = {} /\ grace = {} /\ window = <<>> /\ lost = 0 /\ wire = {} /\ heard = {}
    /\ quiet = 0 /\ silent = 0 /\ alive = TRUE /\ open = TRUE

PingNext ==
    \/ \E sent \in BOOLEAN : SendPing(sent)
    \/ \E a \in 0..LateGrace : RecordPong(a) \/ LosePing(a)
    \/ Inbound \/ Vanish

\* Safety part of the specification.
PingSpec == PingInit /\ [][PingNext]_pingVars

-----------------------------------------------------------------------------
(* Properties. *)

\* LossExact: a ping has one sample at most, and as long as a pong can still
\* change it the sample says whether the pong came: "lossRate only reflects real
\* loss", although pongs come late and out of order.
LossExact ==
    \A i, j \in DOMAIN window :
        /\ window[i].age < Forgotten_ => (window[i].acked <=> window[i].age \in heard)
        /\ i # j /\ window[i].age = window[j].age => window[i].age = Forgotten_

\* KilledOnlyDead: a link is closed only if for the time of ten pings there was
\* no pong, and no frame at all for the quiet time: a backlog that delays pongs
\* does not close a link that works.
KilledOnlyDead == [][open /\ ~open' => silent >= FailThreshold /\ quiet >= InboundQuiet]_pingVars

\* DeadFound: the link to an end that is gone is closed, provided pings still
\* enter the send queue.
DeadFound == []<>(~alive => ~open)

\* PingRight: the loss window says what happened, and exactly the dead links are closed.
PingRight == []LossExact /\ KilledOnlyDead /\ DeadFound
=============================================================================

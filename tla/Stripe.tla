-------------------------------- MODULE Stripe --------------------------------
(***************************************************************************)
(* Extra data lanes over one P2P session: src/p2p/stripe_transport.go.     *)
(* The session's write loop resolves every frame to a lane through the     *)
(* table of sticky pins, lane writers drain the queues, the controller     *)
(* attaches and removes lanes, and any lane may break.  Lane 0 is the      *)
(* primary connection.  Frames are numbered in the order they are sent.    *)
(* How hashes, probe weights and gauges come out is left open: pickLane    *)
(* may return any candidate, a lane may be found degraded at any time.     *)
(***************************************************************************)
EXTENDS Integers, Sequences, SequencesExt, FiniteSets, FiniteSetsExt

CONSTANTS Lanes,       \* stripe ids: positive numbers
          Flows,       \* flow keys
          Loose,       \* the key 0: packets whose flow is not recognised
          MaxSent,     \* frames sent
          MaxLanes,    \* stripeMaxLanes
          Depth_,      \* stripeLaneQueueDepth
          AffinityCap, \* stripeAffinityCap
          MaxBreaks_,  \* lanes that break or are found degraded
          MayClose_    \* may the session be closed?

ASSUME StripeAssumption ==
    /\ Lanes \subseteq Nat \ {0} /\ Loose \subseteq Flows
    /\ {MaxSent, MaxLanes, MaxBreaks_} \subseteq Nat /\ {Depth_, AffinityCap} \subseteq Nat \ {0}
    /\ MayClose_ \in BOOLEAN

Unpinned == -1
Sending == [pc |-> "idle", flow |-> <<>>, snap |-> <<>>, at |-> 0, pick |-> <<>>]

VARIABLES
    attached,  \* t.lanes, oldest first
    lane,      \* per lane: "none", "dialed", "up", "broken", "leaving" or "closed"
    lqueue,    \* per lane: its outbound queue
    wire,      \* per lane, 0 included: frames written and not received yet
    affinity,  \* t.affinity
    snd,       \* SendBatch: the frames' flows, the snapshot of the lanes, the lanes picked
    count,     \* frames sent so far
    arrived,   \* frames the other end has received
    overtaken, \* frames that arrived behind a later one of their flow and epoch
    epoch,     \* changes of the lane set or the table so far
    stamp,     \* per frame: flow and epoch it was resolved in, 0 if that changed meanwhile
    lost,      \* frames that went down with their lane
    downs,     \* lanes that broke
    tdone      \* Close: "no", "closed" (t.closed), "lanes" or "done"

stripeVars == <<attached, lane, lqueue, wire, affinity, snd, count, arrived, overtaken, epoch, stamp, lost, downs, tdone>>

StripeInit ==
    /\ attached = <<>> /\ lane = [l \in Lanes |-> "none"]
    /\ lqueue = [l \in Lanes |-> <<>>] /\ wire = [l \in Lanes \cup {0} |-> <<>>]
    /\ affinity = [f \in Flows |-> Unpinned] /\ snd = Sending
    /\ count = 0 /\ arrived = {} /\ overtaken = {} /\ epoch = 1 /\ stamp = <<>> /\ lost = {} /\ downs = 0 /\ tdone = "no"

-----------------------------------------------------------------------------
(* The sender.                                                             *)

\* SendBatch: one or two frames, and the lanes there are.
SendBatch ==
    /\ snd.pc = "idle" /\ tdone = "no"
    /\ \E fs \in Flows \cup (Flows \X Flows) :
          LET flows == IF fs \in Flows THEN <<fs>> ELSE fs IN
          /\ count + Len(flows) <= MaxSent /\ count' = count + Len(flows)
          /\ snd' = [Sending EXCEPT !.pc = "lookup", !.flow = flows, !.snap = attached, !.at = epoch]
    /\ UNCHANGED <<attached, lane, lqueue, wire, affinity, arrived, overtaken, epoch, stamp, lost, downs, tdone>>

Resolving == snd.flow[Len(snd.pick) + 1]
Picked(s, l, e) ==
    /\ snd' = [s EXCEPT !.pick = Append(@, l), !.pc = IF Len(s.pick) + 1 = Len(s.flow) THEN "primary" ELSE "lookup"]
    /\ stamp' = Append(stamp, [flow |-> Resolving, epoch |-> IF s.at = e THEN e ELSE 0])

\* Mutant: every lookup misses, a drift of the weights moves the flow.
Lookup_NoTable ==
    /\ snd.pc = "lookup" /\ affinity' = [affinity EXCEPT ![Resolving] = Unpinned]
    /\ snd' = [snd EXCEPT !.pc = "miss"] /\ UNCHANGED stamp
    /\ UNCHANGED <<attached, lane, lqueue, wire, count, arrived, overtaken, epoch, lost, downs, tdone>>

\* pickLanePinned, first section: a pin to the primary or to a lane of the
\* snapshot is followed; with no lanes every frame takes the primary.
Lookup ==
    LET pin == affinity[Resolving]
        hit == snd.snap = <<>> \/ pin = 0 \/ Contains(snd.snap, pin) IN
    /\ snd.pc = "lookup"
    /\ \/ hit /\ Picked(snd, IF snd.snap = <<>> THEN 0 ELSE pin, epoch) /\ UNCHANGED affinity
       \/ ~hit /\ affinity' = [affinity EXCEPT ![Resolving] = Unpinned] /\ snd' = [snd EXCEPT !.pc = "miss"]
          /\ UNCHANGED stamp
    /\ UNCHANGED <<attached, lane, lqueue, wire, count, arrived, overtaken, epoch, lost, downs, tdone>>

\* Second section: rendezvous over the snapshot, and the pin, unless the packet
\* has no flow.  A full table is dropped.
Full_ == Cardinality({f \in Flows : affinity[f] # Unpinned}) >= AffinityCap
Pin ==
    /\ snd.pc = "miss"
    /\ \E l \in Range(snd.snap) \cup {0} :
          IF Resolving \in Loose
          THEN Picked(snd, l, epoch) /\ UNCHANGED <<affinity, epoch>>
          ELSE /\ affinity' = [f \in Flows |-> IF f = Resolving THEN l ELSE IF Full_ THEN Unpinned ELSE affinity[f]]
               /\ epoch' = IF Full_ THEN epoch + 1 ELSE epoch
               /\ Picked(IF Full_ THEN [snd EXCEPT !.at = @ + 1] ELSE snd, l, epoch')
    /\ UNCHANGED <<attached, lane, lqueue, wire, count, arrived, overtaken, lost, downs, tdone>>

\* The frames of the batch that go to lane l, and queue s with them at its end, in
\* their order.
First == count - Len(snd.flow)
ForLane(l) == {First + i : i \in {j \in DOMAIN snd.pick : snd.pick[j] = l}}
With(s, l, i) == IF i \in DOMAIN snd.pick /\ snd.pick[i] = l THEN Append(s, First + i) ELSE s
Extended(s, l) == With(With(s, l, 1), l, 2)
LanesLeft == Range(snd.pick) \ {0}
Handed(l) == LET rest == [i \in DOMAIN snd.pick |-> IF snd.pick[i] = l THEN 0 ELSE snd.pick[i]]
             IN  snd' = IF \A i \in DOMAIN rest : rest[i] = 0 THEN Sending ELSE [snd EXCEPT !.pick = rest, !.pc = "lanes"]

SendPrimary ==
    /\ snd.pc = "primary"
    /\ wire' = [wire EXCEPT ![0] = Extended(@, 0)] /\ Handed(0)
    /\ UNCHANGED <<attached, lane, lqueue, affinity, count, arrived, overtaken, epoch, stamp, lost, downs, tdone>>

Done(l) == lane[l] = "closed" \/ tdone # "no"

\* Mutant: laneEnqueue has no bound on its wait.
FallBack_Never(l) == FALSE /\ UNCHANGED stripeVars

\* laneEnqueue: the batch is queued ...
Enqueue(l) ==
    /\ snd.pc = "lanes" /\ l \in LanesLeft /\ Len(lqueue[l]) < Depth_
    /\ IF lane[l] = "closed" THEN lost' = lost \cup ForLane(l) /\ UNCHANGED lqueue
                             ELSE lqueue' = [lqueue EXCEPT ![l] = Extended(@, l)] /\ UNCHANGED lost
    /\ Handed(l)
    /\ UNCHANGED <<attached, lane, wire, affinity, count, arrived, overtaken, epoch, stamp, downs, tdone>>

\* ... or, the queue full for 50 ms or the lane dead, its flows are pinned to the
\* primary and the batch takes it; with the transport closed it is dropped.
FallBack(l) ==
    /\ snd.pc = "lanes" /\ l \in LanesLeft /\ (Len(lqueue[l]) >= Depth_ \/ Done(l))
    /\ IF tdone = "no"
       THEN /\ affinity' = [f \in Flows |-> IF f \notin Loose /\ \E n \in ForLane(l) : snd.flow[n - First] = f
                                            THEN 0 ELSE affinity[f]]
            /\ wire' = [wire EXCEPT ![0] = Extended(@, l)] /\ Handed(l)
            /\ stamp' = [n \in DOMAIN stamp |-> IF n \in ForLane(l) THEN [stamp[n] EXCEPT !.epoch = 0] ELSE stamp[n]]
            /\ epoch' = epoch + 1 /\ UNCHANGED lost
       ELSE /\ lost' = lost \cup {First + i : i \in {j \in DOMAIN snd.pick : snd.pick[j] # 0}}
            /\ snd' = Sending /\ UNCHANGED <<affinity, wire, epoch, stamp>>
    /\ UNCHANGED <<attached, lane, lqueue, count, arrived, overtaken, downs, tdone>>

-----------------------------------------------------------------------------
(* Lanes.                                                                  *)

\* laneWriter.
LaneWrite(l) ==
    /\ lane[l] \in {"up", "leaving"} /\ lqueue[l] # <<>> /\ tdone = "no"
    /\ wire' = [wire EXCEPT ![l] = Append(@, Head(lqueue[l]))] /\ lqueue' = [lqueue EXCEPT ![l] = Tail(@)]
    /\ UNCHANGED <<attached, lane, affinity, snd, count, arrived, overtaken, epoch, stamp, lost, downs, tdone>>

\* The other end reads from a lane, or from the primary.
Arrives(l) ==
    /\ wire[l] # <<>> /\ wire' = [wire EXCEPT ![l] = Tail(@)]
    /\ LET n == Head(wire[l]) IN
       /\ arrived' = arrived \cup {n}
       /\ overtaken' = overtaken \cup {x \in {n} : \E m \in arrived : m > n /\ stamp[m] = stamp[n] /\ stamp[n].epoch # 0}
    /\ UNCHANGED <<attached, lane, lqueue, affinity, snd, count, epoch, stamp, lost, downs, tdone>>

\* A lane's connection breaks, or its probes show it degraded.
Breaks(l) ==
    /\ lane[l] = "up" /\ downs < MaxBreaks_ /\ downs' = downs + 1
    /\ lane' = [lane EXCEPT ![l] = "broken"]
    /\ lost' = lost \cup Range(wire[l]) /\ wire' = [wire EXCEPT ![l] = <<>>]
    /\ UNCHANGED <<attached, lqueue, affinity, snd, count, arrived, overtaken, epoch, stamp, tdone>>

\* removeLane, by the writer or the reader of a broken lane, or by the controller:
\* the lane leaves the list ...
RemoveLane(l) ==
    /\ lane[l] = "broken" \/ (lane[l] = "up" /\ attached # <<>> /\ l = Last(attached) /\ tdone = "no")
    /\ attached' = RemoveFirst(attached, l) /\ epoch' = epoch + 1
    /\ lane' = [lane EXCEPT ![l] = "leaving"]
    /\ lost' = IF lane[l] = "broken" THEN lost \cup Range(lqueue[l]) ELSE lost
    /\ lqueue' = IF lane[l] = "broken" THEN [lqueue EXCEPT ![l] = <<>>] ELSE lqueue
    /\ UNCHANGED <<wire, affinity, snd, count, arrived, overtaken, stamp, downs, tdone>>

DropAffinity == affinity' = [f \in Flows |-> Unpinned] /\ epoch' = epoch + 1

\* ... then the table is dropped and the lane closed; what it still holds is lost.
LaneCloses(l) ==
    /\ lane[l] = "leaving" /\ DropAffinity /\ lane' = [lane EXCEPT ![l] = "closed"]
    /\ lost' = lost \cup Range(lqueue[l]) \cup Range(wire[l])
    /\ lqueue' = [lqueue EXCEPT ![l] = <<>>] /\ wire' = [wire EXCEPT ![l] = <<>>]
    /\ UNCHANGED <<attached, snd, count, arrived, overtaken, stamp, downs, tdone>>

\* The controller's decision to add a lane, and the dial.
AddDue == tdone = "no" /\ Len(attached) < MaxLanes
DialStripeLane(l) ==
    /\ AddDue /\ lane[l] = "none" /\ "dialed" \notin Range(lane)
    /\ lane' = [lane EXCEPT ![l] = "dialed"]
    /\ UNCHANGED <<attached, lqueue, wire, affinity, snd, count, arrived, overtaken, epoch, stamp, lost, downs, tdone>>

\* attachLane.
AttachLane(l) ==
    /\ lane[l] = "dialed" /\ lane' = [lane EXCEPT ![l] = "up"] /\ attached' = Append(attached, l)
    /\ DropAffinity
    /\ UNCHANGED <<lqueue, wire, snd, count, arrived, overtaken, stamp, lost, downs, tdone>>

\* Close, in its three sections.
CloseStripe ==
    /\ MayClose_
    /\ \/ tdone = "no" /\ tdone' = "closed" /\ UNCHANGED <<attached, lane>>
       \/ /\ tdone = "closed" /\ tdone' = "lanes" /\ UNCHANGED attached
          /\ lane' = [l \in Lanes |-> IF Contains(attached, l) THEN "closed" ELSE lane[l]]
       \/ tdone = "lanes" /\ tdone' = "done" /\ attached' = <<>> /\ UNCHANGED lane
    /\ UNCHANGED <<lqueue, wire, affinity, snd, count, arrived, overtaken, epoch, stamp, lost, downs>>

Sender == SendPrimary \/ Lookup \/ Pin \/ \E l \in Lanes : Enqueue(l) \/ FallBack(l)

StripeNext ==
    \/ SendBatch \/ Sender \/ CloseStripe \/ Arrives(0)
    \/ \E l \in Lanes : LaneWrite(l) \/ Arrives(l) \/ Breaks(l) \/ RemoveLane(l) \/ LaneCloses(l)
                        \/ DialStripeLane(l) \/ AttachLane(l)

StripeSpec == StripeInit /\ [][StripeNext]_stripeVars
-----------------------------------------------------------------------------
\* Every variable stays in the range the code gives it.
StripeTypeOK ==
    /\ lane \in [Lanes -> {"none", "dialed", "up", "broken", "leaving", "closed"}]
    /\ Range(attached) \subseteq Lanes /\ IsInjective(attached)
    /\ \A f \in Flows : affinity[f] \in Lanes \cup {0, Unpinned}
    /\ \A f \in Loose : affinity[f] = Unpinned
    /\ Len(attached) <= MaxLanes

\* Every frame resolved to a lane is in one place: in a queue, on the wire, received,
\* or lost with the lane it was on.  The fallback sends nothing twice.
Unsent == {First + i : i \in DOMAIN snd.flow} \ {First + i : i \in {j \in DOMAIN snd.pick : snd.pc = "lanes" /\ snd.pick[j] = 0}}
Copies(n) ==
    Cardinality({l \in Lanes : Contains(lqueue[l], n)}) + Cardinality({l \in Lanes \cup {0} : Contains(wire[l], n)})
    + (IF n \in arrived THEN 1 ELSE 0) + (IF n \in lost THEN 1 ELSE 0)
SentOnce == \A n \in 1 .. count : Copies(n) = IF n \in Unsent THEN 0 ELSE 1

\* pickLanePinned: between two changes of the lane set, of the table or fallbacks,
\* the frames of a flow arrive in the order they were sent.
FlowOrder == \A n \in overtaken : stamp[n].flow \in Loose

\* "One wedged lane cannot backpressure the dispatcher": SendBatch returns, even if
\* a lane's writer makes no progress.
SendReturns == []<>(snd.pc = "idle")

\* "Close() tears down all of them": after Close every lane's connection is closed.
CloseTearsDown == tdone = "done" => \A l \in Lanes : lane[l] \notin {"up", "broken"}

\* StripeSound: a frame goes out on one lane only, and a flow's frames in their order.
StripeSound == StripeTypeOK /\ SentOnce /\ FlowOrder
=============================================================================

---------------------------- MODULE UdpLegProofs ----------------------------
(***************************************************************************)
(* Proofs about UdpLeg, for every timeout, backoff and gossip period, every *)
(* range of ports, and any number of outages, broken channels and frames   *)
(* in flight, whether messages are prompt or not.                          *)
(*                                                                         *)
(* The state machine is locked only while it decides: the actions it       *)
(* decides on are executed later, by either of two goroutines and in any   *)
(* order between them.  The argument is that an action is never left over  *)
(* from a phase that has passed: what may be pending is told by the phase. *)
(*                                                                         *)
(* And about MeshRouter, for any number of links and lengths of the queues: *)
(* what criticalCh holds of a link, and in which order, is told by where   *)
(* the link's receive loop is.                                             *)
(***************************************************************************)
EXTENDS UdpLeg, MeshRouter, SequenceTheorems, TLAPS

-----------------------------------------------------------------------------
(* The inductive invariant. *)

Frame == [udp : BOOLEAN, port : 0 .. PortMax]

Actions == {"dial", "redial", "close", "allocate", "release"}

\* What the goroutines may have to execute; a ticker that fired finds nothing left over.
LegShape ==
    /\ acts \in [Sides -> [Goroutines -> Seq(Actions)]]
    /\ acts["A"]["recv"] \in {<<>>, <<"dial">>}
    /\ acts["A"]["tick"] \in {<<>>, <<"redial">>, <<"dial", "redial">>, <<"close", "redial">>}
    /\ acts["P"]["recv"] \in {<<>>, <<"allocate">>, <<"release">>}
    /\ acts["P"]["tick"] \in {<<>>, <<"allocate">>, <<"release">>}
    /\ \A s \in toTick : acts[s]["tick"] = <<>>

Releasing == acts["P"]["recv"] = <<"release">> \/ acts["P"]["tick"] = <<"release">>

\* The passive end advertises only to a peer that advertises too.
PassivePhase ==
    /\ phase["P"] \in {"none", "advertising", "active", "backoff"}
    /\ phase["P"] \in {"advertising", "active"} => capable["P"] = TRUE

\* A port is allocated for a leg that is still wanted, or was withdrawn before it was
\* told of: never into a backoff.
AllocateTimely ==
    /\ acts["P"]["recv"] = <<"allocate">> =>
         phase["P"] = "advertising" \/ (phase["P"] = "active" /\ left["P"] > 0)
    /\ acts["P"]["tick"] = <<"allocate">> => phase["P"] # "backoff"

\* A release is decided on once, and nothing allocates before it is done.
ReleaseTimely ==
    /\ acts["P"]["recv"] = <<"release">> => phase["P"] = "none" /\ capable["P"] = FALSE
    /\ acts["P"]["tick"] = <<"release">> => phase["P"] = "backoff"
    /\ Releasing /\ "P" \notin closed => localPort = 0 /\ ep # 0

\* The port in the state machine is the registered one, or is about to be released.
PortKept ==
    /\ "P" \notin closed => IF localPort = 0 THEN ep = 0 \/ Releasing ELSE ep = localPort
    /\ phase["P"] = "backoff" => localPort = 0 /\ (ep = 0 \/ Releasing)

WithChannel == {"channel", "negotiated", "pending", "active"}

\* A dial is decided on for a leg that has no deadline yet, a close only in a backoff.
DialTimely ==
    /\ acts["A"]["recv"] = <<"dial">> \/ acts["A"]["tick"] = <<"dial", "redial">> =>
         /\ phase["A"] \notin {"none", "backoff"}
         /\ phase["A"] \in {"pending", "active"} => left["A"] > 0
    /\ acts["A"]["tick"] = <<"close", "redial">> => phase["A"] = "backoff"

\* The state machine knows of a channel exactly from its dial to its withdrawal, and
\* while the transport is open there is one.
ChannelKept ==
    /\ (chanReady = TRUE) <=> (phase["A"] \in WithChannel)
    /\ "A" \notin closed =>
         /\ phase["A"] \in WithChannel => packetConn # "none"
         /\ phase["A"] \in {"none", "advertising"} => packetConn = "none"
         /\ phase["A"] = "backoff" => packetConn = "none" \/ acts["A"]["tick"] = <<"close", "redial">>
         /\ dialing = TRUE => phase["A"] = "advertising"

PassiveInv == PassivePhase /\ AllocateTimely /\ ReleaseTimely /\ PortKept
ActiveInv == DialTimely /\ ChannelKept
TypeInv == LegTypeOK /\ gossip \in [Sides -> Seq(Frame)]
LegInv == TypeInv /\ LegShape /\ PassiveInv /\ ActiveInv

-----------------------------------------------------------------------------
(* Sequences of one or two actions. *)

LEMMA ShortSequences ==
    /\ \A a : Tail(<<a>>) = <<>> /\ Head(<<a>>) = a /\ <<a>> # <<>>
    /\ \A a, b : Tail(<<a, b>>) = <<b>> /\ Head(<<a, b>>) = a /\ <<a, b>> # <<>> /\ \A c : <<a, b>> # <<c>>
    /\ \A a, b : (<<a>> = <<b>>) <=> (a = b)
    /\ \A a, b, c, d : (<<a, b>> = <<c, d>>) <=> (a = c /\ b = d)
OBVIOUS

LEMMA ShortTails ==
    /\ \A a \in Actions : Tail(<<a>>) = <<>> /\ Head(<<a>>) = a /\ <<a>> # <<>>
    /\ Tail(<<"dial", "redial">>) = <<"redial">> /\ Head(<<"dial", "redial">>) = "dial" /\ <<"dial", "redial">> # <<>>
    /\ Tail(<<"close", "redial">>) = <<"redial">> /\ Head(<<"close", "redial">>) = "close" /\ <<"close", "redial">> # <<>>
OBVIOUS

LEMMA ShortConcatenations ==
    /\ <<>> \o <<>> = <<>>
    /\ \A a : <<>> \o <<a>> = <<a>> /\ <<a>> \o <<>> = <<a>>
    /\ \A a, b : <<a>> \o <<b>> = <<a, b>> /\ <<>> \o <<a, b>> = <<a, b>>
<1>1. <<>> \o <<>> = <<>> BY ConcatEmptySeq
<1>2. ASSUME NEW a PROVE <<>> \o <<a>> = <<a>> /\ <<a>> \o <<>> = <<a>>
  <2>1. <<a>> \in Seq({a}) OBVIOUS
  <2> QED BY <2>1, ConcatEmptySeq
<1>3. ASSUME NEW a, NEW b PROVE <<a>> \o <<b>> = <<a, b>> /\ <<>> \o <<a, b>> = <<a, b>>
  <2>1. <<a>> \in Seq({a, b}) /\ <<b>> \in Seq({a, b}) /\ <<a, b>> \in Seq({a, b}) OBVIOUS
  <2>2. Len(<<a>>) = 1 /\ Len(<<b>>) = 1 /\ Len(<<a, b>>) = 2 OBVIOUS
  <2>3. /\ <<a>> \o <<b>> \in Seq({a, b}) /\ Len(<<a>> \o <<b>>) = 2
        /\ (<<a>> \o <<b>>)[1] = a /\ (<<a>> \o <<b>>)[2] = b
    BY <2>1, <2>2, ConcatProperties
  <2>4. ASSUME NEW t \in Seq({a, b}), Len(t) = 2, t[1] = a, t[2] = b PROVE t = <<a, b>>
    BY <2>4
  <2> QED BY <2>1, <2>3, <2>4, ConcatEmptySeq
<1> QED BY <1>1, <1>2, <1>3

-----------------------------------------------------------------------------

LEMMA LegInitInv == LegInit => LegInv
<1> SUFFICES ASSUME LegInit PROVE LegInv OBVIOUS
<1>1. TypeInv
  <2>1. /\ phase \in [Sides -> Advertised \cup {"none", "backoff"}]
        /\ capable \in [Sides -> BOOLEAN] /\ heard \in [Sides -> BOOLEAN]
        /\ left \in [Sides -> Nat] /\ \A s \in Sides : left[s] <= K \/ left[s] <= R
    BY LegAssumption DEF LegInit
  <2>2. /\ {peerPort, localPort, ep} \subseteq 0 .. PortMax
        /\ relay \in 0 .. Gone /\ next \in 1 .. PortMax
    BY LegAssumption DEF LegInit, Gone
  <2>3. LegTypeOK BY <2>1, <2>2 DEF LegInit, LegTypeOK
  <2>4. gossip \in [Sides -> Seq(Frame)] BY DEF LegInit
  <2> QED BY <2>3, <2>4 DEF TypeInv
<1>2. LegShape BY DEF LegInit, LegShape, Sides, Goroutines
<1>3. PassiveInv /\ ActiveInv
  BY ShortSequences DEF LegInit, Sides, Goroutines, PassiveInv, ActiveInv, PassivePhase, AllocateTimely, ReleaseTimely, PortKept,
     DialTimely, ChannelKept, WithChannel, Releasing
<1> QED BY <1>1, <1>2, <1>3 DEF LegInv

-----------------------------------------------------------------------------
(* What a step leaves alone. *)

PassiveSame ==
    /\ phase'["P"] = phase["P"] /\ capable'["P"] = capable["P"] /\ left'["P"] = left["P"]
    /\ localPort' = localPort /\ ep' = ep /\ acts'["P"] = acts["P"] /\ ("P" \in closed' <=> "P" \in closed)

ActiveSame ==
    /\ phase'["A"] = phase["A"] /\ left'["A"] = left["A"] /\ chanReady' = chanReady
    /\ packetConn' = packetConn /\ dialing' = dialing /\ acts'["A"] = acts["A"] /\ ("A" \in closed' <=> "A" \in closed)

LEMMA PassiveFrame == PassiveInv /\ PassiveSame => PassiveInv'
BY DEF PassiveInv, PassiveSame, PassivePhase, AllocateTimely, ReleaseTimely, PortKept, Releasing

LEMMA ActiveFrame == ActiveInv /\ ActiveSame => ActiveInv'
BY DEF ActiveInv, ActiveSame, DialTimely, ChannelKept

\* Deciding on actions: the goroutine has none left.
LEMMA EnqueueEffect ==
    ASSUME LegShape, NEW s \in Sides, NEW g \in Goroutines, acts[s][g] = <<>>, NEW as \in Seq(Actions), Enqueue(s, g, as)
    PROVE  /\ acts' \in [Sides -> [Goroutines -> Seq(Actions)]]
           /\ acts'[s][g] = as
           /\ \A h \in Goroutines \ {g} : acts'[s][h] = acts[s][h]
           /\ \A t \in Sides \ {s} : acts'[t] = acts[t]
<1>1. <<>> \o as = as BY ConcatEmptySeq
<1>2. acts' = [acts EXCEPT ![s][g] = as] BY <1>1 DEF Enqueue, LegShape
<1> QED BY <1>2 DEF LegShape

\* Executing one.
LEMMA ExecutesEffect ==
    ASSUME LegShape, NEW s \in Sides, NEW g \in Goroutines, NEW a, Executes(s, g, a)
    PROVE  /\ acts[s][g] # <<>> /\ Head(acts[s][g]) = a
           /\ acts' \in [Sides -> [Goroutines -> Seq(Actions)]]
           /\ acts'[s][g] = Tail(acts[s][g])
           /\ \A h \in Goroutines \ {g} : acts'[s][h] = acts[s][h]
           /\ \A t \in Sides \ {s} : acts'[t] = acts[t]
<1>1. acts[s][g] # <<>> /\ acts[s][g] \in Seq(Actions) BY DEF Executes, LegShape
<1>2. Tail(acts[s][g]) \in Seq(Actions) BY <1>1
<1> QED BY <1>1, <1>2 DEF Executes, LegShape

\* The actions that are executed, each from the few places it may be at.
LEMMA ExecutesShape ==
    ASSUME TypeInv, LegShape, NEW s \in Sides, NEW g \in Goroutines, NEW a, Executes(s, g, a), toTick' = toTick
    PROVE  LegShape'
<1>1. /\ acts[s][g] # <<>> /\ Head(acts[s][g]) = a
      /\ acts' \in [Sides -> [Goroutines -> Seq(Actions)]]
      /\ acts'[s][g] = Tail(acts[s][g])
      /\ \A h \in Goroutines \ {g} : acts'[s][h] = acts[s][h]
      /\ \A t \in Sides \ {s} : acts'[t] = acts[t]
  BY ExecutesEffect
<1>2. \/ Tail(acts[s][g]) = <<>>
      \/ s = "A" /\ g = "tick" /\ Tail(acts[s][g]) = <<"redial">>
  <2>0. \A x \in Actions : Tail(<<x>>) = <<>> BY ShortTails
  <2>1. CASE s = "A" /\ g = "recv"
    <3>1. acts["A"]["recv"] = <<"dial">> BY <2>1, <1>1 DEF LegShape
    <3> QED BY <2>0, <2>1, <3>1 DEF Actions
  <2>2. CASE s = "A" /\ g = "tick"
    <3>1. acts["A"]["tick"] \in {<<"redial">>, <<"dial", "redial">>, <<"close", "redial">>} BY <2>2, <1>1 DEF LegShape
    <3>2. Tail(<<"redial">>) = <<>> BY <2>0 DEF Actions
    <3> QED BY <2>2, <3>1, <3>2, ShortTails
  <2>3. CASE s = "P" /\ g = "recv"
    <3>1. acts["P"]["recv"] \in {<<"allocate">>, <<"release">>} BY <2>3, <1>1 DEF LegShape
    <3>2. Tail(<<"allocate">>) = <<>> /\ Tail(<<"release">>) = <<>> BY <2>0 DEF Actions
    <3> QED BY <2>3, <3>1, <3>2
  <2>4. CASE s = "P" /\ g = "tick"
    <3>1. acts["P"]["tick"] \in {<<"allocate">>, <<"release">>} BY <2>4, <1>1 DEF LegShape
    <3>2. Tail(<<"allocate">>) = <<>> /\ Tail(<<"release">>) = <<>> BY <2>0 DEF Actions
    <3> QED BY <2>4, <3>1, <3>2
  <2> QED BY <2>1, <2>2, <2>3, <2>4 DEF Sides, Goroutines
<1>3. \A t \in toTick : acts'[t]["tick"] = <<>>
  <2>1. ASSUME NEW t \in toTick PROVE acts'[t]["tick"] = <<>>
    <3>1. t \in Sides /\ acts[t]["tick"] = <<>> BY DEF TypeInv, LegTypeOK, LegShape
    <3> QED BY <3>1, <1>1 DEF Goroutines
  <2> QED BY <2>1
<1> QED BY <1>1, <1>2, <1>3 DEF LegShape, Sides, Goroutines

LEMMA PassiveExecutes ==
    ASSUME LegShape, NEW g \in Goroutines, NEW a, Executes("P", g, a)
    PROVE  acts["P"][g] = <<a>> /\ acts'["P"][g] = <<>>
<1>1. acts["P"][g] # <<>> /\ Head(acts["P"][g]) = a /\ acts'["P"][g] = Tail(acts["P"][g])
  BY ExecutesEffect DEF Sides
<1>2. acts["P"][g] \in {<<"allocate">>, <<"release">>} BY <1>1 DEF LegShape, Goroutines
<1>3. PICK x \in Actions : acts["P"][g] = <<x>> BY <1>2 DEF Actions
<1>4. Head(<<x>>) = x /\ Tail(<<x>>) = <<>> BY ShortTails
<1> QED BY <1>1, <1>3, <1>4

LEMMA ActiveExecutes ==
    ASSUME LegShape, NEW g \in Goroutines, NEW a, Executes("A", g, a)
    PROVE  \/ acts["A"][g] = <<a>> /\ acts'["A"][g] = <<>>
           \/ g = "tick" /\ a = "dial" /\ acts["A"][g] = <<"dial", "redial">> /\ acts'["A"][g] = <<"redial">>
           \/ g = "tick" /\ a = "close" /\ acts["A"][g] = <<"close", "redial">> /\ acts'["A"][g] = <<"redial">>
<1>1. acts["A"][g] # <<>> /\ Head(acts["A"][g]) = a /\ acts'["A"][g] = Tail(acts["A"][g])
  BY ExecutesEffect DEF Sides
<1>2. \/ acts["A"][g] \in {<<"dial">>, <<"redial">>}
      \/ g = "tick" /\ acts["A"][g] = <<"dial", "redial">>
      \/ g = "tick" /\ acts["A"][g] = <<"close", "redial">>
  BY <1>1 DEF LegShape, Goroutines
<1>3. CASE acts["A"][g] \in {<<"dial">>, <<"redial">>}
  <2>1. PICK x \in Actions : acts["A"][g] = <<x>> BY <1>3 DEF Actions
  <2>2. Head(<<x>>) = x /\ Tail(<<x>>) = <<>> BY ShortTails
  <2> QED BY <1>1, <2>1, <2>2
<1>4. CASE g = "tick" /\ acts["A"][g] = <<"dial", "redial">> BY <1>1, <1>4, ShortTails
<1>5. CASE g = "tick" /\ acts["A"][g] = <<"close", "redial">> BY <1>1, <1>5, ShortTails
<1> QED BY <1>2, <1>3, <1>4, <1>5

LEMMA PendingTyped ==
    /\ <<>> \in Seq(Actions) /\ <<"dial">> \in Seq(Actions) /\ <<"redial">> \in Seq(Actions)
    /\ <<"dial", "redial">> \in Seq(Actions) /\ <<"close", "redial">> \in Seq(Actions)
<1>1. \A a \in Actions : <<a>> \in Seq(Actions) OBVIOUS
<1>2. \A a, b \in Actions : <<a, b>> \in Seq(Actions) OBVIOUS
<1>3. <<>> \in Seq(Actions) OBVIOUS
<1> QED BY <1>1, <1>2, <1>3 DEF Actions

\* No two of the sequences that may be pending are the same.
LEMMA PendingDiffer ==
    /\ <<"dial">> # <<"redial">> /\ <<"dial">> # <<"close", "redial">> /\ <<"dial">> # <<"dial", "redial">>
    /\ <<"redial">> # <<"dial", "redial">> /\ <<"redial">> # <<"close", "redial">> /\ <<"dial", "redial">> # <<"close", "redial">>
    /\ <<"allocate">> # <<"release">> /\ <<"dial">> # <<>> /\ <<"redial">> # <<>> /\ <<"dial", "redial">> # <<>>
    /\ <<"close", "redial">> # <<>> /\ <<"allocate">> # <<>> /\ <<"release">> # <<>>
    /\ \A a \in {<<>>, <<"dial">>, <<"redial">>, <<"dial", "redial">>, <<"close", "redial">>} : a # <<"close">>
OBVIOUS

-----------------------------------------------------------------------------
(* executeActions. *)

LEMMA AllocateInv ==
    ASSUME LegInv, NEW g \in Goroutines, AllocatePort(g) \/ AllocateFails(g)
    PROVE  LegInv'
<1>0. TypeInv /\ LegShape /\ PassiveInv /\ ActiveInv BY DEF LegInv
<1>1. Executes("P", g, "allocate") /\ toTick' = toTick BY DEF AllocatePort, AllocateFails, timeVars
<1>2. LegShape' BY <1>0, <1>1, ExecutesShape DEF Sides
<1>3. acts["P"][g] = <<"allocate">> /\ acts'["P"][g] = <<>> BY <1>0, <1>1, PassiveExecutes
<1>4. acts'["A"] = acts["A"] /\ \A h \in Goroutines \ {g} : acts'["P"][h] = acts["P"][h]
  BY <1>0, <1>1, ExecutesEffect DEF Sides
<1>5. ActiveInv' BY <1>0, <1>4, ActiveFrame DEF ActiveSame, AllocatePort, AllocateFails, fsmVars, resVars
<1>6. TypeInv'
  <2>1. next' \in 1 .. PortMax /\ ep' \in 0 .. PortMax /\ localPort' \in 0 .. PortMax
    BY <1>0, LegAssumption DEF TypeInv, LegTypeOK, AllocatePort, AllocateFails, fsmVars, resVars
  <2> QED BY <2>1, <1>0 DEF TypeInv, LegTypeOK, AllocatePort, AllocateFails, fsmVars, resVars, netVars, timeVars
<1>7. PassiveInv'
  <2>1. phase["P"] # "backoff" BY <1>0, <1>3 DEF PassiveInv, AllocateTimely, Goroutines
  <2>2. phase' = phase /\ capable' = capable /\ left' = left /\ closed' = closed
    BY DEF AllocatePort, AllocateFails, fsmVars
  <2>3. Releasing' <=> Releasing BY <1>3, <1>4, PendingDiffer DEF Releasing, Goroutines
  <2>4. PassivePhase' BY <1>0, <2>2 DEF PassiveInv, PassivePhase
  <2>5. AllocateTimely' BY <1>0, <1>3, <1>4, <2>2, PendingDiffer DEF PassiveInv, AllocateTimely, Goroutines
  <2>6. \/ ep # 0 /\ ep' = ep /\ localPort' = localPort
        \/ ep = 0 /\ ep' = next /\ localPort' = next
        \/ ep = 0 /\ ep' = 0 /\ localPort' = localPort
    BY DEF AllocatePort, AllocateFails, fsmVars, resVars
  <2>7. next # 0 BY <1>0 DEF TypeInv, LegTypeOK
  <2>8. CASE ep' = ep /\ localPort' = localPort
    BY <1>0, <1>3, <1>4, <2>1, <2>2, <2>3, <2>4, <2>5, <2>8, PendingDiffer DEF PassiveInv, ReleaseTimely, PortKept, Goroutines
  <2>9. CASE ep = 0 /\ ep' = next /\ localPort' = next
    <3>1. CASE "P" \notin closed
      <4>1. ~ Releasing BY <1>0, <2>9, <3>1 DEF PassiveInv, ReleaseTimely
      <4>2. ReleaseTimely'  BY <4>1, <2>3 DEF ReleaseTimely, Releasing
      <4>3. PortKept' BY <2>1, <2>2, <2>7, <2>9, <4>1, <2>3 DEF PortKept
      <4> QED BY <4>2, <4>3, <2>4, <2>5 DEF PassiveInv
    <3>2. CASE "P" \in closed
      <4>1. PortKept' BY <2>1, <2>2, <3>2 DEF PortKept
      <4>2. ReleaseTimely' BY <1>0, <1>3, <1>4, <2>2, <3>2, PendingDiffer DEF PassiveInv, ReleaseTimely, Goroutines
      <4> QED BY <4>1, <4>2, <2>4, <2>5 DEF PassiveInv
    <3> QED BY <3>1, <3>2
  <2> QED BY <2>6, <2>8, <2>9
<1> QED BY <1>2, <1>5, <1>6, <1>7 DEF LegInv

LEMMA UnregisterInv ==
    ASSUME LegInv, NEW g \in Goroutines, UnregisterPort(g)
    PROVE  LegInv'
<1>0. TypeInv /\ LegShape /\ PassiveInv /\ ActiveInv BY DEF LegInv
<1>1. Executes("P", g, "release") /\ toTick' = toTick BY DEF UnregisterPort, timeVars
<1>2. LegShape' BY <1>0, <1>1, ExecutesShape DEF Sides
<1>3. acts["P"][g] = <<"release">> /\ acts'["P"][g] = <<>> BY <1>0, <1>1, PassiveExecutes
<1>4. acts'["A"] = acts["A"] /\ \A h \in Goroutines \ {g} : acts'["P"][h] = acts["P"][h]
  BY <1>0, <1>1, ExecutesEffect DEF Sides
<1>5. ActiveInv' BY <1>0, <1>4, ActiveFrame DEF ActiveSame, UnregisterPort, fsmVars
<1>6. TypeInv'
  <2>1. ep' \in 0 .. PortMax /\ relay' \in 0 .. Gone
    BY <1>0, LegAssumption DEF TypeInv, LegTypeOK, UnregisterPort, ReleasePort, Gone
  <2> QED BY <2>1, <1>0 DEF TypeInv, LegTypeOK, UnregisterPort, fsmVars, netVars, timeVars
<1>7. PassiveInv'
  <2>1. phase' = phase /\ capable' = capable /\ left' = left /\ closed' = closed /\ localPort' = localPort /\ ep' = 0
    BY DEF UnregisterPort, ReleasePort, fsmVars
  <2>2. \A h \in Goroutines \ {g} : acts["P"][h] # <<"release">>
    BY <1>0, <1>3 DEF PassiveInv, ReleaseTimely, Goroutines
  <2>3. ~ Releasing' BY <2>2, <1>3, <1>4, PendingDiffer DEF Releasing, Goroutines
  <2>4. PassivePhase' BY <1>0, <2>1 DEF PassiveInv, PassivePhase
  <2>5. AllocateTimely' BY <1>0, <1>3, <1>4, <2>1, PendingDiffer DEF PassiveInv, AllocateTimely, Goroutines
  <2>6. ReleaseTimely' BY <2>3 DEF ReleaseTimely, Releasing
  <2>7. "P" \notin closed => localPort = 0 BY <1>0, <1>3 DEF PassiveInv, ReleaseTimely, Releasing, Goroutines
  <2>8. PortKept' BY <1>0, <2>1, <2>7 DEF PassiveInv, PortKept
  <2> QED BY <2>4, <2>5, <2>6, <2>8 DEF PassiveInv
<1> QED BY <1>2, <1>5, <1>6, <1>7 DEF LegInv

\* A dial starts only when there is no channel, and then the leg is being advertised.
LEMMA SpawnDialInv ==
    ASSUME LegInv, NEW g \in Goroutines, SpawnDial(g)
    PROVE  LegInv'
<1>0. TypeInv /\ LegShape /\ PassiveInv /\ ActiveInv BY DEF LegInv
<1>1. Executes("A", g, "dial") /\ toTick' = toTick BY DEF SpawnDial
<1>2. LegShape' BY <1>0, <1>1, ExecutesShape DEF Sides
<1>3. \/ acts["A"][g] = <<"dial">> /\ acts'["A"][g] = <<>>
      \/ g = "tick" /\ acts["A"][g] = <<"dial", "redial">> /\ acts'["A"][g] = <<"redial">>
  BY <1>0, <1>1, ActiveExecutes
<1>4. acts'["P"] = acts["P"] /\ \A h \in Goroutines \ {g} : acts'["A"][h] = acts["A"][h]
  BY <1>0, <1>1, ExecutesEffect DEF Sides
<1>5. PassiveInv' BY <1>0, <1>4, PassiveFrame DEF PassiveSame, SpawnDial, fsmVars
<1>6. TypeInv'
  <2>1. dialing' \in BOOLEAN BY <1>0 DEF TypeInv, LegTypeOK, SpawnDial, StartDial
  <2> QED BY <2>1, <1>0 DEF TypeInv, LegTypeOK, SpawnDial, fsmVars, netVars
<1>7. ActiveInv'
  <2>1. phase' = phase /\ left' = left /\ closed' = closed /\ chanReady' = chanReady /\ packetConn' = packetConn
    BY DEF SpawnDial, fsmVars
  <2>2. DialTimely'
    BY <1>0, <1>2, <1>3, <1>4, <2>1, PendingDiffer DEF ActiveInv, DialTimely, Goroutines, LegShape
  <2>3. acts["A"]["recv"] = <<"dial">> \/ acts["A"]["tick"] = <<"dial", "redial">>
    BY <1>0, <1>3, PendingDiffer DEF Goroutines, LegShape
  <2>4. phase["A"] \in WithChannel \cup {"advertising"}
    BY <1>0, <2>3 DEF ActiveInv, DialTimely, TypeInv, LegTypeOK, Sides, Advertised, WithChannel
  <2>5. dialing' = dialing \/ packetConn = "none" BY DEF SpawnDial, StartDial
  <2>6. "A" \notin closed /\ dialing' = TRUE => phase["A"] = "advertising"
    BY <1>0, <2>4, <2>5 DEF ActiveInv, ChannelKept, WithChannel
  <2>7. ChannelKept' BY <1>0, <2>1, <2>4, <2>6 DEF ActiveInv, ChannelKept, WithChannel
  <2> QED BY <2>2, <2>7 DEF ActiveInv
<1> QED BY <1>2, <1>5, <1>6, <1>7 DEF LegInv

LEMMA MaybeRedialInv == ASSUME LegInv, MaybeRedial PROVE LegInv'
<1>0. TypeInv /\ LegShape /\ PassiveInv /\ ActiveInv BY DEF LegInv
<1>1. Executes("A", "tick", "redial") /\ toTick' = toTick BY DEF MaybeRedial
<1>2. LegShape' BY <1>0, <1>1, ExecutesShape DEF Sides, Goroutines
<1>3. acts["A"]["tick"] = <<"redial">> /\ acts'["A"]["tick"] = <<>>
  BY <1>0, <1>1, ActiveExecutes DEF Goroutines
<1>4. acts'["P"] = acts["P"] /\ acts'["A"]["recv"] = acts["A"]["recv"]
  BY <1>0, <1>1, ExecutesEffect DEF Sides, Goroutines
<1>5. PassiveInv' BY <1>0, <1>4, PassiveFrame DEF PassiveSame, MaybeRedial, fsmVars
<1>6. TypeInv'
  <2>1. dialing' \in BOOLEAN BY <1>0 DEF TypeInv, LegTypeOK, MaybeRedial, StartDial
  <2> QED BY <2>1, <1>0 DEF TypeInv, LegTypeOK, MaybeRedial, fsmVars, netVars
<1>7. ActiveInv'
  <2>1. phase' = phase /\ left' = left /\ closed' = closed /\ chanReady' = chanReady /\ packetConn' = packetConn
    BY DEF MaybeRedial, fsmVars
  <2>2. DialTimely' BY <1>0, <1>3, <1>4, <2>1, PendingDiffer DEF ActiveInv, DialTimely
  <2>3. dialing' = dialing \/ phase["A"] = "advertising" BY DEF MaybeRedial, RedialDue
  <2>4. ChannelKept' BY <1>0, <1>3, <2>1, <2>3, PendingDiffer DEF ActiveInv, ChannelKept, WithChannel
  <2> QED BY <2>2, <2>4 DEF ActiveInv
<1> QED BY <1>2, <1>5, <1>6, <1>7 DEF LegInv

LEMMA CloseChannelInv ==
    ASSUME LegInv, NEW g \in Goroutines, CloseChannel(g)
    PROVE  LegInv'
<1>0. TypeInv /\ LegShape /\ PassiveInv /\ ActiveInv BY DEF LegInv
<1>1. Executes("A", g, "close") /\ toTick' = toTick BY DEF CloseChannel, timeVars
<1>2. LegShape' BY <1>0, <1>1, ExecutesShape DEF Sides
<1>3. g = "tick" /\ acts["A"][g] = <<"close", "redial">> /\ acts'["A"][g] = <<"redial">>
  <2>1. acts["A"][g] # <<"close">> BY <1>0, PendingDiffer DEF LegShape, Goroutines
  <2> QED BY <2>1, <1>0, <1>1, ActiveExecutes
<1>4. acts'["P"] = acts["P"] /\ acts'["A"]["recv"] = acts["A"]["recv"]
  BY <1>0, <1>1, <1>3, ExecutesEffect DEF Sides, Goroutines
<1>5. PassiveInv' BY <1>0, <1>4, PassiveFrame DEF PassiveSame, CloseChannel, fsmVars
<1>6. TypeInv'
  <2>1. relay' \in 0 .. Gone /\ packetConn' \in {"none", "open", "broken"} BY LegAssumption DEF CloseChannel, DropChannel, Gone
  <2> QED BY <2>1, <1>0 DEF TypeInv, LegTypeOK, CloseChannel, fsmVars, timeVars
<1>7. ActiveInv'
  <2>1. /\ phase' = phase /\ left' = left /\ closed' = closed /\ chanReady' = chanReady
        /\ packetConn' = "none" /\ dialing' = dialing
    BY DEF CloseChannel, DropChannel, fsmVars
  <2>2. phase["A"] = "backoff" BY <1>0, <1>3 DEF ActiveInv, DialTimely
  <2>3. DialTimely' BY <1>0, <1>3, <1>4, <2>1, PendingDiffer DEF ActiveInv, DialTimely
  <2>4. ChannelKept' BY <1>0, <2>1, <2>2 DEF ActiveInv, ChannelKept, WithChannel
  <2> QED BY <2>3, <2>4 DEF ActiveInv
<1> QED BY <1>2, <1>5, <1>6, <1>7 DEF LegInv

-----------------------------------------------------------------------------
(* Dials, gossip and data. *)

LEMMA DialInv == ASSUME LegInv, LegDialOk \/ LegDialFails PROVE LegInv'
<1>0. TypeInv /\ LegShape /\ PassiveInv /\ ActiveInv BY DEF LegInv
<1>1. LegShape' BY <1>0 DEF LegShape, LegDialOk, LegDialFails, timeVars
<1>2. phase' \in [Sides -> Advertised \cup {"none", "backoff"}] /\ phase'["P"] = phase["P"]
  BY <1>0 DEF TypeInv, LegTypeOK, LegDialOk, LegDialFails, Sides, Advertised, fsmVars
<1>3. PassiveInv' BY <1>0, <1>2, PassiveFrame DEF PassiveSame, LegDialOk, LegDialFails, fsmVars
<1>4. TypeInv'
  <2>1. packetConn' \in {"none", "open", "broken"} /\ chanReady' \in BOOLEAN /\ dialing' \in BOOLEAN
    BY <1>0 DEF TypeInv, LegTypeOK, LegDialOk, LegDialFails, fsmVars
  <2> QED BY <2>1, <1>0, <1>2 DEF TypeInv, LegTypeOK, LegDialOk, LegDialFails, fsmVars, netVars, timeVars
<1>5. ActiveInv'
  <2>1. acts' = acts /\ left' = left /\ closed' = closed /\ dialing = TRUE /\ dialing' = FALSE
    BY <1>0 DEF LegDialOk, LegDialFails, fsmVars, TypeInv, LegTypeOK
  <2>2. \/ phase' = phase /\ chanReady' = chanReady /\ packetConn' = packetConn
        \/ phase["A"] \in {"advertising", "channel"} /\ phase'["A"] \in {"channel", "negotiated"} /\ chanReady' = TRUE /\ packetConn' = "open"
        \/ phase["A"] \notin {"advertising", "channel"} /\ phase' = phase /\ chanReady' = chanReady /\ packetConn' = "open"
    BY <1>0 DEF LegDialOk, LegDialFails, fsmVars, TypeInv, LegTypeOK, Sides
  <2>3. DialTimely' BY <1>0, <2>1, <2>2 DEF ActiveInv, DialTimely
  <2>4. ChannelKept' BY <1>0, <2>1, <2>2 DEF ActiveInv, ChannelKept, WithChannel
  <2> QED BY <2>3, <2>4 DEF ActiveInv
<1> QED BY <1>1, <1>3, <1>4, <1>5 DEF LegInv

LEMMA BuildGossipInv == ASSUME LegInv, NEW s \in Sides, BuildGossip(s) PROVE LegInv'
<1>0. TypeInv /\ LegShape /\ PassiveInv /\ ActiveInv BY DEF LegInv
<1> DEFINE f == [udp |-> ShouldAdvertise(s), port |-> IF s = "P" THEN AdvertisePort ELSE 0]
<1>1. f \in Frame BY <1>0, LegAssumption DEF Frame, ShouldAdvertise, AdvertisePort, TypeInv, LegTypeOK
<1>2. gossip' = [gossip EXCEPT ![Peer(s)] = Append(@, f)] BY DEF BuildGossip
<1>3. gossip' \in [Sides -> Seq(Frame)]
  <2> HIDE DEF f
  <2>1. Peer(s) \in Sides BY DEF Peer, Sides
  <2>2. \A q \in Seq(Frame) : Append(q, f) \in Seq(Frame) BY <1>1
  <2> QED BY <1>0, <1>2, <2>1, <2>2 DEF TypeInv
<1>4. TypeInv' BY <1>0, <1>3 DEF TypeInv, LegTypeOK, BuildGossip, fsmVars, resVars, timeVars
<1>5. LegShape' BY <1>0 DEF LegShape, BuildGossip, timeVars
<1>6. PassiveInv' BY <1>0, PassiveFrame DEF PassiveSame, BuildGossip, fsmVars, resVars
<1>7. ActiveInv' BY <1>0, ActiveFrame DEF ActiveSame, BuildGossip, fsmVars, resVars
<1> QED BY <1>4, <1>5, <1>6, <1>7 DEF LegInv

LEMMA SendDataInv == ASSUME LegInv, NEW s \in Sides, SendData(s) PROVE LegInv'
<1>0. TypeInv /\ LegShape /\ PassiveInv /\ ActiveInv BY DEF LegInv
<1>1. marking' \in BOOLEAN /\ toSend' \subseteq Sides BY <1>0 DEF SendData, TypeInv, LegTypeOK, Sides
<1>2. TypeInv' BY <1>0, <1>1 DEF TypeInv, LegTypeOK, SendData, fsmVars, resVars
<1>3. LegShape' BY <1>0 DEF LegShape, SendData
<1>4. PassiveInv' BY <1>0, PassiveFrame DEF PassiveSame, SendData, fsmVars, resVars
<1>5. ActiveInv' BY <1>0, ActiveFrame DEF ActiveSame, SendData, fsmVars, resVars
<1> QED BY <1>2, <1>3, <1>4, <1>5 DEF LegInv

LEMMA OnDataSentInv == ASSUME LegInv, OnDataSent PROVE LegInv'
<1>0. TypeInv /\ LegShape /\ PassiveInv /\ ActiveInv BY DEF LegInv
<1>1. /\ phase' \in [Sides -> Advertised \cup {"none", "backoff"}] /\ phase'["P"] = phase["P"]
      /\ left' \in [Sides -> Nat] /\ left'["P"] = left["P"] /\ \A s \in Sides : left'[s] <= K \/ left'[s] <= R
  BY <1>0, LegAssumption DEF TypeInv, LegTypeOK, OnDataSent, Sides, Advertised
<1>2. \/ phase' = phase /\ left' = left
      \/ phase["A"] = "negotiated" /\ phase'["A"] = "pending" /\ left'["A"] > 0
  BY <1>0, LegAssumption DEF OnDataSent, TypeInv, LegTypeOK, Sides
<1>3. TypeInv' BY <1>0, <1>1 DEF TypeInv, LegTypeOK, OnDataSent, resVars, netVars, timeVars
<1>4. LegShape' BY <1>0 DEF LegShape, OnDataSent, timeVars
<1>5. PassiveInv' BY <1>0, <1>1, PassiveFrame DEF PassiveSame, OnDataSent, resVars
<1>6. ActiveInv'
  <2>1. acts' = acts /\ closed' = closed /\ chanReady' = chanReady /\ packetConn' = packetConn /\ dialing' = dialing
    BY DEF OnDataSent, resVars
  <2>2. DialTimely' BY <1>0, <1>2, <2>1 DEF ActiveInv, DialTimely
  <2>3. ChannelKept' BY <1>0, <1>2, <2>1 DEF ActiveInv, ChannelKept, WithChannel
  <2> QED BY <2>2, <2>3 DEF ActiveInv
<1> QED BY <1>3, <1>4, <1>5, <1>6 DEF LegInv

\* A datagram that arrives sets the deadline anew.
LEMMA OnUDPInboundEffect ==
    ASSUME TypeInv, NEW s \in Sides, OnUDPInbound(s) \/ UNCHANGED <<phase, heard, left>>
    PROVE  /\ phase' \in [Sides -> Advertised \cup {"none", "backoff"}] /\ heard' \in [Sides -> BOOLEAN]
           /\ left' \in [Sides -> Nat] /\ \A t \in Sides : left'[t] <= K \/ left'[t] <= R
           /\ \A t \in Sides \ {s} : phase'[t] = phase[t] /\ left'[t] = left[t]
           /\ \/ phase'[s] = phase[s] /\ left'[s] = left[s]
              \/ Activates(s) /\ phase'[s] = "active" /\ left'[s] > 0
<1>1. heard' \in [Sides -> BOOLEAN] BY DEF TypeInv, LegTypeOK, OnUDPInbound
<1>2. phase' \in [Sides -> Advertised \cup {"none", "backoff"}] BY DEF TypeInv, LegTypeOK, OnUDPInbound, Advertised
<1>3. CASE UNCHANGED <<phase, heard, left>> BY <1>1, <1>2, <1>3 DEF TypeInv, LegTypeOK
<1>4. CASE /\ Activates(s) /\ phase' = [phase EXCEPT ![s] = "active"]
           /\ left' = [left EXCEPT ![s] = K]
  <2>1. left' \in [Sides -> Nat] /\ (\A t \in Sides : left'[t] <= K \/ left'[t] <= R) /\ left'[s] > 0
    BY <1>4, LegAssumption DEF TypeInv, LegTypeOK
  <2>2. phase'[s] = "active" /\ \A t \in Sides \ {s} : phase'[t] = phase[t] /\ left'[t] = left[t]
    BY <1>4 DEF TypeInv, LegTypeOK
  <2> QED BY <1>1, <1>2, <1>4, <2>1, <2>2
<1> QED BY <1>3, <1>4 DEF OnUDPInbound

LEMMA DeliverToPInv == ASSUME LegInv, NEW p \in 1 .. PortMax, DeliverToP(p) PROVE LegInv'
<1>0. TypeInv /\ LegShape /\ PassiveInv /\ ActiveInv BY DEF LegInv
<1>1. OnUDPInbound("P") \/ UNCHANGED <<phase, heard, left>> BY DEF DeliverToP
<1>2. /\ phase' \in [Sides -> Advertised \cup {"none", "backoff"}] /\ heard' \in [Sides -> BOOLEAN]
      /\ left' \in [Sides -> Nat] /\ \A t \in Sides : left'[t] <= K \/ left'[t] <= R
      /\ phase'["A"] = phase["A"] /\ left'["A"] = left["A"]
      /\ \/ phase'["P"] = phase["P"] /\ left'["P"] = left["P"]
         \/ Activates("P") /\ phase'["P"] = "active" /\ left'["P"] > 0
  BY <1>0, <1>1, OnUDPInboundEffect DEF Sides
<1>3. TypeInv'
  <2>1. relay' \in 0 .. Gone BY <1>0, LegAssumption DEF TypeInv, LegTypeOK, DeliverToP, BindReturnPath, Gone
  <2> QED BY <1>0, <1>2, <2>1 DEF TypeInv, LegTypeOK, DeliverToP, timeVars
<1>4. LegShape' BY <1>0 DEF LegShape, DeliverToP, timeVars
<1>5. ActiveInv' BY <1>0, <1>2, ActiveFrame DEF ActiveSame, DeliverToP
<1>6. PassiveInv'
  <2>1. acts' = acts /\ closed' = closed /\ capable' = capable /\ localPort' = localPort /\ ep' = ep BY DEF DeliverToP
  <2>2. Releasing' <=> Releasing BY <2>1 DEF Releasing
  <2>3. \/ phase'["P"] = phase["P"] /\ left'["P"] = left["P"]
        \/ phase["P"] \in {"advertising", "active"} /\ phase'["P"] = "active" /\ left'["P"] > 0
    BY <1>0, <1>2 DEF Activates, PassiveInv, PassivePhase
  <2>4. PassivePhase' /\ AllocateTimely' BY <1>0, <2>1, <2>3 DEF PassiveInv, PassivePhase, AllocateTimely
  <2>5. ReleaseTimely' /\ PortKept' BY <1>0, <2>1, <2>2, <2>3 DEF PassiveInv, ReleaseTimely, PortKept
  <2> QED BY <2>4, <2>5 DEF PassiveInv
<1> QED BY <1>3, <1>4, <1>5, <1>6 DEF LegInv

LEMMA DeliverToAInv == ASSUME LegInv, NEW p \in 1 .. PortMax, DeliverToA(p) PROVE LegInv'
<1>0. TypeInv /\ LegShape /\ PassiveInv /\ ActiveInv BY DEF LegInv
<1>1. OnUDPInbound("A") \/ UNCHANGED <<phase, heard, left>> BY DEF DeliverToA
<1>2. /\ phase' \in [Sides -> Advertised \cup {"none", "backoff"}] /\ heard' \in [Sides -> BOOLEAN]
      /\ left' \in [Sides -> Nat] /\ \A t \in Sides : left'[t] <= K \/ left'[t] <= R
      /\ phase'["P"] = phase["P"] /\ left'["P"] = left["P"]
      /\ \/ phase'["A"] = phase["A"] /\ left'["A"] = left["A"]
         \/ Activates("A") /\ phase'["A"] = "active" /\ left'["A"] > 0
  BY <1>0, <1>1, OnUDPInboundEffect DEF Sides
<1>3. TypeInv' BY <1>0, <1>2 DEF TypeInv, LegTypeOK, DeliverToA, resVars, timeVars
<1>4. LegShape' BY <1>0 DEF LegShape, DeliverToA, timeVars
<1>5. PassiveInv' BY <1>0, <1>2, PassiveFrame DEF PassiveSame, DeliverToA, resVars
<1>6. ActiveInv'
  <2>1. acts' = acts /\ closed' = closed /\ chanReady' = chanReady /\ packetConn' = packetConn /\ dialing' = dialing
    BY DEF DeliverToA, resVars
  <2>2. \/ phase'["A"] = phase["A"] /\ left'["A"] = left["A"]
        \/ phase["A"] \in {"pending", "active"} /\ phase'["A"] = "active" /\ left'["A"] > 0
    BY <1>2 DEF Activates
  <2>3. DialTimely' BY <1>0, <2>1, <2>2 DEF ActiveInv, DialTimely
  <2>4. ChannelKept' BY <1>0, <2>1, <2>2 DEF ActiveInv, ChannelKept, WithChannel
  <2> QED BY <2>3, <2>4 DEF ActiveInv
<1> QED BY <1>3, <1>4, <1>5, <1>6 DEF LegInv

-----------------------------------------------------------------------------
(* The two decisions of the state machine: on gossip and on a tick. *)

LEMMA EnterAdvertisingP ==
    ASSUME LegInv, NEW g \in Goroutines, acts["P"][g] = <<>>, phase["P"] \in {"none", "backoff"},
           g = "recv" \/ acts["P"]["recv"] # <<"release">>,
           g = "tick" \/ acts["P"]["tick"] # <<"release">>,
           EnterAdvertising("P", g, <<>>), capable'["P"] = TRUE, closed' = closed, ep' = ep, "P" \notin closed
    PROVE  PassiveInv' /\ acts'["A"] = acts["A"] /\ phase'["A"] = phase["A"]
           /\ acts'["P"][g] = <<"allocate">> /\ \A h \in Goroutines \ {g} : acts'["P"][h] = acts["P"][h]
<1>0. TypeInv /\ LegShape /\ PassiveInv BY DEF LegInv
<1>1. Enqueue("P", g, <<"allocate">>) BY ShortConcatenations DEF EnterAdvertising
<1>2. <<"allocate">> \in Seq(Actions) BY DEF Actions
<1>3. /\ acts'["P"][g] = <<"allocate">> /\ acts'["A"] = acts["A"]
      /\ \A h \in Goroutines \ {g} : acts'["P"][h] = acts["P"][h]
  BY <1>0, <1>1, <1>2, EnqueueEffect DEF Sides
<1>4. phase'["P"] = "advertising" /\ phase'["A"] = phase["A"] /\ left' = left /\ localPort' = localPort
  BY <1>0 DEF TypeInv, LegTypeOK, EnterAdvertising, Sides
<1>5. ~ Releasing BY PendingDiffer DEF Releasing, Goroutines
<1>6. ~ Releasing' BY <1>3, <1>5, PendingDiffer DEF Releasing, Goroutines
<1>7. PassivePhase' /\ AllocateTimely' BY <1>4 DEF PassivePhase, AllocateTimely
<1>8. ReleaseTimely' /\ PortKept' BY <1>0, <1>4, <1>5, <1>6 DEF PassiveInv, ReleaseTimely, PortKept, Releasing
<1> QED BY <1>3, <1>4, <1>7, <1>8 DEF PassiveInv

LEMMA OnGossipPassive == ASSUME LegInv, OnGossip("P") PROVE PassiveInv' /\ ActiveInv' /\ LegShape'
<1>0. TypeInv /\ LegShape /\ PassiveInv /\ ActiveInv BY DEF LegInv
<1> DEFINE udp == Head(gossip["P"]).udp
<1>1. udp \in BOOLEAN
  <2>1. gossip["P"] \in Seq(Frame) /\ gossip["P"] # <<>> BY <1>0 DEF TypeInv, OnGossip, Sides
  <2>2. Head(gossip["P"]) \in Frame BY <2>1
  <2> QED BY <2>2 DEF Frame
<1>2. /\ "P" \notin closed /\ closed' = closed /\ ep' = ep /\ acts["P"]["recv"] = <<>> /\ toTick' = toTick
      /\ packetConn' = packetConn /\ dialing' = dialing
      /\ capable' = [capable EXCEPT !["P"] = udp]
  BY DEF OnGossip, resVars, timeVars
<1>3. capable'["P"] = udp BY <1>0, <1>2 DEF TypeInv, LegTypeOK, Sides
<1>4. \/ udp /\ phase["P"] = "none" /\ EnterAdvertising("P", "recv", <<>>)
      \/ (udp \/ phase["P"] \in {"none", "backoff"}) /\ (udp => phase["P"] # "none") /\ Stay("P", "recv", <<>>)
      \/ ~ udp /\ phase["P"] \notin {"none", "backoff"} /\ Withdraw("P", "recv", "none", <<>>)
  BY DEF OnGossip, GossipLost
<1> HIDE DEF udp
<1>5. CASE udp /\ phase["P"] = "none" /\ EnterAdvertising("P", "recv", <<>>)
  <2>1. acts["P"]["tick"] # <<"release">> BY <1>0, <1>5 DEF PassiveInv, ReleaseTimely
  <2>2. capable'["P"] = TRUE BY <1>3, <1>5, <1>1
  <2>3. PassiveInv' /\ acts'["A"] = acts["A"] /\ phase'["A"] = phase["A"] /\ acts'["P"]["recv"] = <<"allocate">>
        /\ acts'["P"]["tick"] = acts["P"]["tick"]
    BY <1>2, <1>5, <2>1, <2>2, EnterAdvertisingP DEF Goroutines
  <2>4. ActiveInv' BY <1>0, <1>2, <1>5, <2>3, ActiveFrame DEF ActiveSame, EnterAdvertising
  <2>5. acts' \in [Sides -> [Goroutines -> Seq(Actions)]]
    <3>1. Enqueue("P", "recv", <<"allocate">>) BY <1>5, ShortConcatenations DEF EnterAdvertising
    <3>2. <<"allocate">> \in Seq(Actions) BY DEF Actions
    <3> QED BY <1>0, <1>2, <3>1, <3>2, EnqueueEffect DEF Sides, Goroutines
  <2>6. LegShape' BY <1>0, <1>2, <2>3, <2>5 DEF LegShape, TypeInv, LegTypeOK, Sides
  <2> QED BY <2>3, <2>4, <2>6
<1>6. CASE (udp \/ phase["P"] \in {"none", "backoff"}) /\ (udp => phase["P"] # "none") /\ Stay("P", "recv", <<>>)
  <2>1. Enqueue("P", "recv", <<>>) /\ <<>> \in Seq(Actions) BY <1>6 DEF Stay
  <2>2. /\ acts' \in [Sides -> [Goroutines -> Seq(Actions)]]
        /\ acts'["P"]["recv"] = <<>> /\ acts'["P"]["tick"] = acts["P"]["tick"] /\ acts'["A"] = acts["A"]
    BY <1>0, <1>2, <2>1, EnqueueEffect DEF Sides, Goroutines
  <2>3. phase' = phase /\ left' = left /\ localPort' = localPort /\ chanReady' = chanReady BY <1>6 DEF Stay
  <2>4. ActiveInv' BY <1>0, <1>2, <2>2, <2>3, ActiveFrame DEF ActiveSame
  <2>5. LegShape' BY <1>0, <1>2, <2>2 DEF LegShape, TypeInv, LegTypeOK, Sides
  <2>6. Releasing' <=> Releasing BY <1>2, <2>2 DEF Releasing
  <2>7. PassivePhase' BY <1>0, <1>3, <1>6, <2>3, <1>1 DEF PassiveInv, PassivePhase
  <2>8. AllocateTimely' /\ ReleaseTimely' /\ PortKept'
    BY <1>0, <1>2, <2>2, <2>3, <2>6, PendingDiffer DEF PassiveInv, AllocateTimely, ReleaseTimely, PortKept
  <2> QED BY <2>4, <2>5, <2>7, <2>8 DEF PassiveInv
<1>7. CASE ~ udp /\ phase["P"] \notin {"none", "backoff"} /\ Withdraw("P", "recv", "none", <<>>)
  <2> DEFINE as == IF localPort # 0 THEN <<"release">> ELSE <<>>
  <2>1. Enqueue("P", "recv", as) BY <1>7, ShortConcatenations DEF Withdraw
  <2>2. as \in Seq(Actions) BY DEF Actions
  <2>3. /\ acts' \in [Sides -> [Goroutines -> Seq(Actions)]]
        /\ acts'["P"]["recv"] = as /\ acts'["P"]["tick"] = acts["P"]["tick"] /\ acts'["A"] = acts["A"]
    <3> HIDE DEF as
    <3> QED BY <1>0, <1>2, <2>1, <2>2, EnqueueEffect DEF Sides, Goroutines
  <2>4. /\ phase'["P"] = "none" /\ phase'["A"] = phase["A"] /\ left'["A"] = left["A"] /\ localPort' = 0 /\ chanReady' = chanReady
    BY <1>0, <1>7 DEF Withdraw, TypeInv, LegTypeOK, Sides
  <2>5. ActiveInv' BY <1>0, <1>2, <2>3, <2>4, ActiveFrame DEF ActiveSame
  <2>6. LegShape' BY <1>0, <1>2, <2>3 DEF LegShape, TypeInv, LegTypeOK, Sides
  <2>7. ~ Releasing BY <1>0, <1>7 DEF PassiveInv, ReleaseTimely, Releasing
  <2>8. IF localPort = 0 THEN ep = 0 ELSE ep = localPort BY <1>0, <1>2, <2>7 DEF PassiveInv, PortKept
  <2>9. Releasing' <=> localPort # 0 BY <2>3, <2>7, PendingDiffer DEF Releasing
  <2>10. acts'["P"]["tick"] # <<"release">> /\ acts'["P"]["recv"] # <<"allocate">> BY <2>3, <2>7, PendingDiffer DEF Releasing
  <2>11. PassivePhase' /\ AllocateTimely' BY <2>4, <2>10 DEF PassivePhase, AllocateTimely
  <2>12. ReleaseTimely' BY <1>1, <1>2, <1>3, <1>7, <2>4, <2>8, <2>9, <2>10 DEF ReleaseTimely
  <2>13. PortKept' BY <1>2, <2>4, <2>8, <2>9 DEF PortKept
  <2> QED BY <2>5, <2>6, <2>11, <2>12, <2>13 DEF PassiveInv
<1> QED BY <1>4, <1>5, <1>6, <1>7

LEMMA OnGossipActive == ASSUME LegInv, OnGossip("A") PROVE PassiveInv' /\ ActiveInv' /\ LegShape'
<1>0. TypeInv /\ LegShape /\ PassiveInv /\ ActiveInv BY DEF LegInv
<1>1. /\ closed' = closed /\ ep' = ep /\ acts["A"]["recv"] = <<>> /\ toTick' = toTick
      /\ packetConn' = packetConn /\ dialing' = dialing /\ capable'["P"] = capable["P"]
  BY <1>0 DEF OnGossip, resVars, timeVars, TypeInv, LegTypeOK, Sides
<1>2. ForgetPort \/ \E p : LearnPort(p) BY DEF OnGossip
<1>3. CASE ForgetPort
  <2>1. phase' = phase /\ left' = left /\ chanReady' = chanReady /\ localPort' = localPort /\ acts' = acts BY <1>3 DEF ForgetPort
  <2> QED BY <1>0, <1>1, <2>1, PassiveFrame, ActiveFrame DEF PassiveSame, ActiveSame, LegShape
<1>4. CASE \E p : LearnPort(p)
  <2> DEFINE as == IF phase["A"] = "none" THEN <<"dial">> ELSE <<>>
  <2>0. as \in Seq(Actions) BY PendingTyped
  <2>1. Enqueue("A", "recv", as) BY <1>4 DEF LearnPort
  <2>2. /\ acts' \in [Sides -> [Goroutines -> Seq(Actions)]]
        /\ acts'["A"]["recv"] = as /\ acts'["A"]["tick"] = acts["A"]["tick"] /\ acts'["P"] = acts["P"]
    <3> HIDE DEF as
    <3> QED BY <1>0, <1>1, <2>0, <2>1, EnqueueEffect DEF Sides, Goroutines
  <2>3. phase'["P"] = phase["P"] /\ left' = left /\ chanReady' = chanReady /\ localPort' = localPort
    BY <1>0, <1>4 DEF LearnPort, TypeInv, LegTypeOK, Sides
  <2>4. \/ phase["A"] = "none" /\ phase'["A"] = "advertising"
        \/ phase["A"] = "channel" /\ phase'["A"] = "negotiated"
        \/ phase["A"] # "none" /\ phase'["A"] = phase["A"]
    BY <1>0, <1>4 DEF LearnPort, TypeInv, LegTypeOK, Sides
  <2>5. PassiveInv' BY <1>0, <1>1, <2>2, <2>3, PassiveFrame DEF PassiveSame
  <2>6. LegShape' BY <1>0, <1>1, <2>2 DEF LegShape, TypeInv, LegTypeOK, Sides
  <2>7. DialTimely' BY <1>0, <2>2, <2>3, <2>4, PendingDiffer DEF ActiveInv, DialTimely
  <2>8. ChannelKept' BY <1>0, <1>1, <2>2, <2>3, <2>4 DEF ActiveInv, ChannelKept, WithChannel
  <2> QED BY <2>5, <2>6, <2>7, <2>8 DEF ActiveInv
<1> QED BY <1>2, <1>3, <1>4

\* The phases and the rest keep their types whatever is decided.
LEMMA DecisionType ==
    ASSUME TypeInv, NEW s \in Sides, NEW g, NEW tail,
           \/ EnterAdvertising(s, g, tail) \/ Stay(s, g, tail) \/ Withdraw(s, g, "none", tail) \/ Withdraw(s, g, "backoff", tail)
           \/ ForgetPort \/ \E p \in 0 .. PortMax : LearnPort(p)
    PROVE  /\ phase' \in [Sides -> Advertised \cup {"none", "backoff"}] /\ heard' \in [Sides -> BOOLEAN]
           /\ left' \in [Sides -> Nat] /\ \A t \in Sides : left'[t] <= K \/ left'[t] <= R
           /\ {peerPort', localPort'} \subseteq 0 .. PortMax
           /\ chanReady' \in BOOLEAN /\ trigger' \subseteq Sides
<1>1. phase' \in [Sides -> Advertised \cup {"none", "backoff"}]
  BY DEF TypeInv, LegTypeOK, EnterAdvertising, Stay, Withdraw, ForgetPort, LearnPort, Advertised
<1>2. heard' \in [Sides -> BOOLEAN] /\ chanReady' \in BOOLEAN
  BY DEF TypeInv, LegTypeOK, EnterAdvertising, Stay, Withdraw, ForgetPort, LearnPort
<1>3. left' \in [Sides -> Nat] /\ \A t \in Sides : left'[t] <= K \/ left'[t] <= R
  <2>1. left' = left \/ left' = [left EXCEPT ![s] = 0] \/ left' = [left EXCEPT ![s] = R]
    BY DEF EnterAdvertising, Stay, Withdraw, ForgetPort, LearnPort
  <2>2. left \in [Sides -> Nat] /\ \A t \in Sides : left[t] <= K \/ left[t] <= R BY DEF TypeInv, LegTypeOK
  <2>3. K \in Nat /\ R \in Nat BY LegAssumption
  <2>4. CASE left' = left BY <2>2, <2>4
  <2>5. CASE left' = [left EXCEPT ![s] = 0] BY <2>2, <2>3, <2>5
  <2>6. CASE left' = [left EXCEPT ![s] = R] BY <2>2, <2>3, <2>6
  <2> QED BY <2>1, <2>4, <2>5, <2>6
<1>4. {peerPort', localPort'} \subseteq 0 .. PortMax
  <2>1. peerPort' \in {0, peerPort} \/ \E p \in 0 .. PortMax : peerPort' = p
    BY DEF EnterAdvertising, Stay, Withdraw, ForgetPort, LearnPort
  <2>2. localPort' \in {0, localPort} BY DEF EnterAdvertising, Stay, Withdraw, ForgetPort, LearnPort
  <2>3. 0 \in 0 .. PortMax /\ {peerPort, localPort} \subseteq 0 .. PortMax BY LegAssumption DEF TypeInv, LegTypeOK
  <2> QED BY <2>1, <2>2, <2>3
<1>5. trigger' \subseteq Sides
  BY DEF TypeInv, LegTypeOK, EnterAdvertising, Stay, Withdraw, ForgetPort, LearnPort, Sides
<1> QED BY <1>1, <1>2, <1>3, <1>4, <1>5

LEMMA OnGossipInv == ASSUME LegInv, NEW s \in Sides, OnGossip(s) PROVE LegInv'
<1>0. TypeInv BY DEF LegInv
<1>1. gossip[s] \in Seq(Frame) /\ gossip[s] # <<>> BY <1>0 DEF TypeInv, OnGossip
<1>2. Head(gossip[s]) \in Frame /\ Tail(gossip[s]) \in Seq(Frame) BY <1>1
<1>3. gossip' \in [Sides -> Seq(Frame)] BY <1>0, <1>2 DEF TypeInv, OnGossip
<1>4. Head(gossip[s]).udp \in BOOLEAN /\ Head(gossip[s]).port \in 0 .. PortMax BY <1>2 DEF Frame
<1>5. capable' \in [Sides -> BOOLEAN] BY <1>0, <1>4 DEF TypeInv, LegTypeOK, OnGossip
<1>6. \/ EnterAdvertising("P", "recv", <<>>) \/ Stay("P", "recv", <<>>) \/ Withdraw("P", "recv", "none", <<>>)
      \/ ForgetPort \/ \E p \in 0 .. PortMax : LearnPort(p)
  BY <1>4 DEF OnGossip, GossipLost, Sides
<1>7. /\ phase' \in [Sides -> Advertised \cup {"none", "backoff"}] /\ heard' \in [Sides -> BOOLEAN]
      /\ left' \in [Sides -> Nat] /\ \A t \in Sides : left'[t] <= K \/ left'[t] <= R
      /\ {peerPort', localPort'} \subseteq 0 .. PortMax
      /\ chanReady' \in BOOLEAN /\ trigger' \subseteq Sides
  BY <1>0, <1>6, DecisionType DEF Sides
<1>8. TypeInv' BY <1>0, <1>3, <1>5, <1>7 DEF TypeInv, LegTypeOK, OnGossip, resVars, timeVars
<1> QED BY <1>8, OnGossipPassive, OnGossipActive DEF LegInv, Sides

LEMMA TickPassive == ASSUME LegInv, Tick("P") PROVE PassiveInv' /\ ActiveInv' /\ LegShape'
<1>0. TypeInv /\ LegShape /\ PassiveInv /\ ActiveInv BY DEF LegInv
<1>1. /\ "P" \notin closed /\ closed' = closed /\ ep' = ep /\ acts["P"]["tick"] = <<>> /\ toTick' = toTick \ {"P"}
      /\ packetConn' = packetConn /\ dialing' = dialing /\ capable' = capable
  BY <1>0 DEF Tick, resVars, LegShape
<1>2. \/ Expired("P") /\ Withdraw("P", "tick", "backoff", <<>>)
      \/ /\ phase["P"] = "backoff" /\ phase' = [phase EXCEPT !["P"] = "none"]
         /\ UNCHANGED <<heard, left, peerPort, chanReady, localPort, acts, trigger>>
      \/ phase["P"] \in {"none", "backoff"} /\ capable["P"] /\ EnterAdvertising("P", "tick", <<>>)
      \/ Stay("P", "tick", <<>>)
  BY DEF Tick
<1>3. CASE Expired("P") /\ Withdraw("P", "tick", "backoff", <<>>)
  <2> DEFINE as == IF localPort # 0 THEN <<"release">> ELSE <<>>
  <2>1. Enqueue("P", "tick", as) BY <1>3, ShortConcatenations DEF Withdraw
  <2>2. as \in Seq(Actions) BY DEF Actions
  <2>3. /\ acts' \in [Sides -> [Goroutines -> Seq(Actions)]]
        /\ acts'["P"]["tick"] = as /\ acts'["P"]["recv"] = acts["P"]["recv"] /\ acts'["A"] = acts["A"]
    <3> HIDE DEF as
    <3> QED BY <1>0, <1>1, <2>1, <2>2, EnqueueEffect DEF Sides, Goroutines
  <2>4. /\ phase'["P"] = "backoff" /\ phase'["A"] = phase["A"] /\ left'["A"] = left["A"] /\ localPort' = 0 /\ chanReady' = chanReady
    BY <1>0, <1>3 DEF Withdraw, TypeInv, LegTypeOK, Sides
  <2>5. ActiveInv' BY <1>0, <1>1, <2>3, <2>4, ActiveFrame DEF ActiveSame
  <2>6. LegShape' BY <1>0, <1>1, <2>3 DEF LegShape, TypeInv, LegTypeOK, Sides
  <2>7. phase["P"] = "active" /\ left["P"] = 0 BY <1>0, <1>3 DEF Expired, PassiveInv, PassivePhase
  <2>8. ~ Releasing BY <1>0, <2>7 DEF PassiveInv, ReleaseTimely, Releasing
  <2>9. IF localPort = 0 THEN ep = 0 ELSE ep = localPort BY <1>0, <1>1, <2>8 DEF PassiveInv, PortKept
  <2>10. Releasing' <=> localPort # 0 BY <2>3, <2>8, PendingDiffer DEF Releasing
  <2>11. acts'["P"]["recv"] # <<"release">> /\ acts'["P"]["tick"] # <<"allocate">> BY <2>3, <2>8, PendingDiffer DEF Releasing
  <2>12. acts'["P"]["recv"] # <<"allocate">> BY <1>0, <2>3, <2>7 DEF PassiveInv, AllocateTimely
  <2>13. PassivePhase' /\ AllocateTimely' BY <2>4, <2>11, <2>12 DEF PassivePhase, AllocateTimely
  <2>14. ReleaseTimely' BY <1>1, <2>4, <2>9, <2>10, <2>11 DEF ReleaseTimely
  <2>15. PortKept' BY <1>1, <2>4, <2>9, <2>10 DEF PortKept
  <2> QED BY <2>5, <2>6, <2>13, <2>14, <2>15 DEF PassiveInv
<1>4. CASE /\ phase["P"] = "backoff" /\ phase' = [phase EXCEPT !["P"] = "none"]
           /\ UNCHANGED <<heard, left, peerPort, chanReady, localPort, acts, trigger>>
  <2>1. phase'["P"] = "none" /\ phase'["A"] = phase["A"] BY <1>0, <1>4 DEF TypeInv, LegTypeOK, Sides
  <2>2. acts' = acts /\ left' = left /\ localPort' = localPort /\ chanReady' = chanReady BY <1>4
  <2>3. ActiveInv' BY <1>0, <1>1, <2>1, <2>2, ActiveFrame DEF ActiveSame
  <2>4. LegShape' BY <1>0, <1>1, <2>2 DEF LegShape
  <2>5. ~ Releasing /\ ~ Releasing' BY <1>0, <1>1, <1>4, <2>2, PendingDiffer DEF PassiveInv, ReleaseTimely, Releasing
  <2>6. acts["P"]["recv"] # <<"allocate">> BY <1>0, <1>4 DEF PassiveInv, AllocateTimely
  <2>7. PassivePhase' /\ AllocateTimely' BY <2>1, <2>2, <2>6 DEF PassivePhase, AllocateTimely
  <2>8. ReleaseTimely' BY <2>5 DEF ReleaseTimely, Releasing
  <2>9. PortKept' BY <1>0, <1>1, <1>4, <2>1, <2>2, <2>5 DEF PassiveInv, PortKept
  <2> QED BY <2>3, <2>4, <2>7, <2>8, <2>9 DEF PassiveInv
<1>5. CASE phase["P"] \in {"none", "backoff"} /\ capable["P"] /\ EnterAdvertising("P", "tick", <<>>)
  <2>1. capable["P"] = TRUE BY <1>0, <1>5 DEF TypeInv, LegTypeOK, Sides
  <2>2. acts["P"]["recv"] # <<"release">> BY <1>0, <2>1 DEF PassiveInv, ReleaseTimely
  <2>3. /\ PassiveInv' /\ acts'["A"] = acts["A"] /\ phase'["A"] = phase["A"]
        /\ acts'["P"]["tick"] = <<"allocate">> /\ acts'["P"]["recv"] = acts["P"]["recv"]
    BY <1>1, <1>5, <2>1, <2>2, EnterAdvertisingP DEF Goroutines
  <2>4. ActiveInv' BY <1>0, <1>1, <1>5, <2>3, ActiveFrame DEF ActiveSame, EnterAdvertising
  <2>5. acts' \in [Sides -> [Goroutines -> Seq(Actions)]]
    <3>1. Enqueue("P", "tick", <<"allocate">>) BY <1>5, ShortConcatenations DEF EnterAdvertising
    <3>2. <<"allocate">> \in Seq(Actions) BY DEF Actions
    <3> QED BY <1>0, <1>1, <3>1, <3>2, EnqueueEffect DEF Sides, Goroutines
  <2>6. LegShape' BY <1>0, <1>1, <2>3, <2>5 DEF LegShape, TypeInv, LegTypeOK, Sides
  <2> QED BY <2>3, <2>4, <2>6
<1>6. CASE Stay("P", "tick", <<>>)
  <2>1. Enqueue("P", "tick", <<>>) /\ <<>> \in Seq(Actions) BY <1>6 DEF Stay
  <2>2. /\ acts' \in [Sides -> [Goroutines -> Seq(Actions)]]
        /\ acts'["P"]["tick"] = <<>> /\ acts'["P"]["recv"] = acts["P"]["recv"] /\ acts'["A"] = acts["A"]
    BY <1>0, <1>1, <2>1, EnqueueEffect DEF Sides, Goroutines
  <2>3. phase' = phase /\ left' = left /\ localPort' = localPort /\ chanReady' = chanReady BY <1>6 DEF Stay
  <2>4. acts'["P"] = acts["P"]
    BY <1>0, <1>1, <2>2 DEF LegShape, Sides, Goroutines
  <2>5. PassiveInv' /\ ActiveInv' BY <1>0, <1>1, <2>2, <2>3, <2>4, PassiveFrame, ActiveFrame DEF PassiveSame, ActiveSame
  <2>6. LegShape' BY <1>0, <1>1, <2>2 DEF LegShape, TypeInv, LegTypeOK, Sides
  <2> QED BY <2>5, <2>6
<1> QED BY <1>2, <1>3, <1>4, <1>5, <1>6

LEMMA TickActive == ASSUME LegInv, Tick("A") PROVE PassiveInv' /\ ActiveInv' /\ LegShape'
<1>0. TypeInv /\ LegShape /\ PassiveInv /\ ActiveInv BY DEF LegInv
<1>1. /\ closed' = closed /\ ep' = ep /\ acts["A"]["tick"] = <<>> /\ toTick' = toTick \ {"A"}
      /\ packetConn' = packetConn /\ dialing' = dialing /\ capable' = capable /\ "A" \notin closed
  BY <1>0 DEF Tick, resVars, LegShape
<1>2. \/ Expired("A") /\ Withdraw("A", "tick", "backoff", <<"redial">>)
      \/ phase["A"] \in {"none", "backoff"} /\ EnterAdvertising("A", "tick", <<"redial">>)
      \/ Stay("A", "tick", <<"redial">>)
  BY DEF Tick
<1>3. ASSUME NEW as \in {<<"redial">>, <<"dial", "redial">>, <<"close", "redial">>}, Enqueue("A", "tick", as)
      PROVE  acts'["A"]["tick"] = as /\ acts'["A"]["recv"] = acts["A"]["recv"] /\ acts'["P"] = acts["P"] /\ LegShape'
  <2>1. as \in Seq(Actions) BY PendingTyped
  <2>2. /\ acts' \in [Sides -> [Goroutines -> Seq(Actions)]]
        /\ acts'["A"]["tick"] = as /\ acts'["A"]["recv"] = acts["A"]["recv"] /\ acts'["P"] = acts["P"]
    BY <1>0, <1>1, <1>3, <2>1, EnqueueEffect DEF Sides, Goroutines
  <2>3. LegShape' BY <1>0, <1>1, <2>2 DEF LegShape, TypeInv, LegTypeOK, Sides
  <2> QED BY <2>2, <2>3
<1>4. CASE Expired("A") /\ Withdraw("A", "tick", "backoff", <<"redial">>)
  <2>1. phase["A"] \in {"pending", "active"} /\ left["A"] = 0 BY <1>4 DEF Expired
  <2>2. chanReady = TRUE BY <1>0, <2>1 DEF ActiveInv, ChannelKept, WithChannel
  <2>3. Enqueue("A", "tick", <<"close", "redial">>) BY <1>4, <2>2, ShortConcatenations DEF Withdraw
  <2>4. /\ acts'["A"]["tick"] = <<"close", "redial">> /\ acts'["A"]["recv"] = acts["A"]["recv"] /\ acts'["P"] = acts["P"] /\ LegShape'
    BY <1>3, <2>3
  <2>5. phase'["A"] = "backoff" /\ phase'["P"] = phase["P"] /\ left'["P"] = left["P"] /\ localPort' = localPort /\ chanReady' = FALSE
    BY <1>0, <1>4 DEF Withdraw, TypeInv, LegTypeOK, Sides
  <2>6. PassiveInv' BY <1>0, <1>1, <2>4, <2>5, PassiveFrame DEF PassiveSame
  <2>7. acts["A"]["recv"] # <<"dial">> BY <1>0, <2>1 DEF ActiveInv, DialTimely
  <2>8. DialTimely' BY <2>4, <2>5, <2>7, PendingDiffer DEF DialTimely
  <2>9. ChannelKept' BY <1>0, <1>1, <2>1, <2>4, <2>5 DEF ActiveInv, ChannelKept, WithChannel
  <2> QED BY <2>4, <2>6, <2>8, <2>9 DEF ActiveInv
<1>5. CASE phase["A"] \in {"none", "backoff"} /\ EnterAdvertising("A", "tick", <<"redial">>)
  <2>1. Enqueue("A", "tick", <<"dial", "redial">>) BY <1>5, ShortConcatenations DEF EnterAdvertising
  <2>2. /\ acts'["A"]["tick"] = <<"dial", "redial">> /\ acts'["A"]["recv"] = acts["A"]["recv"] /\ acts'["P"] = acts["P"] /\ LegShape'
    BY <1>3, <2>1
  <2>3. phase'["A"] = "advertising" /\ phase'["P"] = phase["P"] /\ left' = left /\ localPort' = localPort /\ chanReady' = chanReady
    BY <1>0, <1>5 DEF EnterAdvertising, TypeInv, LegTypeOK, Sides
  <2>4. PassiveInv' BY <1>0, <1>1, <2>2, <2>3, PassiveFrame DEF PassiveSame
  <2>5. packetConn = "none" BY <1>0, <1>1, <1>5, PendingDiffer DEF ActiveInv, ChannelKept
  <2>6. DialTimely' BY <2>2, <2>3, PendingDiffer DEF DialTimely
  <2>7. ChannelKept' BY <1>0, <1>1, <1>5, <2>3, <2>5 DEF ActiveInv, ChannelKept, WithChannel
  <2> QED BY <2>2, <2>4, <2>6, <2>7 DEF ActiveInv
<1>6. CASE Stay("A", "tick", <<"redial">>)
  <2>1. Enqueue("A", "tick", <<"redial">>) BY <1>6 DEF Stay
  <2>2. /\ acts'["A"]["tick"] = <<"redial">> /\ acts'["A"]["recv"] = acts["A"]["recv"] /\ acts'["P"] = acts["P"] /\ LegShape'
    BY <1>3, <2>1
  <2>3. phase' = phase /\ left' = left /\ localPort' = localPort /\ chanReady' = chanReady BY <1>6 DEF Stay
  <2>4. PassiveInv' BY <1>0, <1>1, <2>2, <2>3, PassiveFrame DEF PassiveSame
  <2>5. DialTimely' BY <1>0, <2>2, <2>3, PendingDiffer DEF ActiveInv, DialTimely
  <2>6. ChannelKept' BY <1>0, <1>1, <2>3, PendingDiffer DEF ActiveInv, ChannelKept, WithChannel
  <2> QED BY <2>2, <2>4, <2>5, <2>6 DEF ActiveInv
<1> QED BY <1>2, <1>4, <1>5, <1>6

LEMMA TickInv == ASSUME LegInv, NEW s \in Sides, Tick(s) PROVE LegInv'
<1>0. TypeInv BY DEF LegInv
<1>1. /\ phase' \in [Sides -> Advertised \cup {"none", "backoff"}] /\ heard' \in [Sides -> BOOLEAN]
      /\ left' \in [Sides -> Nat] /\ \A t \in Sides : left'[t] <= K \/ left'[t] <= R
      /\ {peerPort', localPort'} \subseteq 0 .. PortMax
      /\ chanReady' \in BOOLEAN /\ trigger' \subseteq Sides
  <2>1. CASE /\ phase' = [phase EXCEPT ![s] = "none"]
             /\ UNCHANGED <<heard, left, peerPort, chanReady, localPort, acts, trigger>>
    BY <1>0, <2>1 DEF TypeInv, LegTypeOK, Advertised
  <2>2. ASSUME NEW tail, \/ EnterAdvertising(s, "tick", tail) \/ Stay(s, "tick", tail) \/ Withdraw(s, "tick", "backoff", tail)
        PROVE  /\ phase' \in [Sides -> Advertised \cup {"none", "backoff"}] /\ heard' \in [Sides -> BOOLEAN]
               /\ left' \in [Sides -> Nat] /\ \A t \in Sides : left'[t] <= K \/ left'[t] <= R
               /\ {peerPort', localPort'} \subseteq 0 .. PortMax
               /\ chanReady' \in BOOLEAN /\ trigger' \subseteq Sides
    BY <1>0, <2>2, DecisionType
  <2> QED BY <2>1, <2>2 DEF Tick
<1>2. TypeInv' BY <1>0, <1>1 DEF TypeInv, LegTypeOK, Tick, resVars
<1> QED BY <1>2, TickPassive, TickActive DEF LegInv, Sides

-----------------------------------------------------------------------------
(* Time, the environment, the end of the session. *)

\* A unit of time passes only when no goroutine has anything left to execute.
LEMMA ClockInv == ASSUME LegInv, Clock PROVE LegInv'
<1>0. TypeInv /\ LegShape /\ PassiveInv /\ ActiveInv BY DEF LegInv
<1>1. acts' = acts /\ \A s \in Sides, g \in Goroutines : acts[s][g] = <<>> BY DEF Clock
<1>2. /\ acts["A"]["recv"] = <<>> /\ acts["A"]["tick"] = <<>> /\ acts["P"]["recv"] = <<>> /\ acts["P"]["tick"] = <<>>
  BY <1>1 DEF Sides, Goroutines
<1>3. TypeInv'
  <2>1. left' \in [Sides -> Nat] /\ \A s \in Sides : left'[s] <= K \/ left'[s] <= R
    <3>1. ASSUME NEW n \in Nat PROVE Down(n) \in Nat /\ Down(n) <= n BY DEF Down
    <3>2. ASSUME NEW s \in Sides PROVE left'[s] \in Nat /\ (left'[s] <= K \/ left'[s] <= R)
      <4>1. left'[s] = Down(left[s]) /\ left[s] \in Nat /\ (left[s] <= K \/ left[s] <= R)
        BY <1>0 DEF TypeInv, LegTypeOK, Clock
      <4> QED BY <3>1, <4>1, LegAssumption
    <3> QED BY <3>2 DEF Clock
  <2>2. trigger' \subseteq Sides BY <1>0 DEF TypeInv, LegTypeOK, Clock
  <2> QED BY <2>1, <2>2, <1>0 DEF TypeInv, LegTypeOK, Clock, resVars
<1>4. LegShape' BY <1>0, <1>1 DEF LegShape, Clock, Sides, Goroutines
<1>5. PassiveInv'
  <2>1. phase' = phase /\ capable' = capable /\ closed' = closed /\ localPort' = localPort /\ ep' = ep BY DEF Clock, resVars
  <2>2. ~ Releasing /\ ~ Releasing' BY <1>1, <1>2, PendingDiffer DEF Releasing
  <2>3. PassivePhase' /\ AllocateTimely' /\ ReleaseTimely'
    BY <1>0, <1>1, <1>2, <2>1, <2>2, PendingDiffer DEF PassiveInv, PassivePhase, AllocateTimely, ReleaseTimely
  <2>4. PortKept' BY <1>0, <2>1, <2>2 DEF PassiveInv, PortKept
  <2> QED BY <2>3, <2>4 DEF PassiveInv
<1>6. ActiveInv'
  <2>1. phase' = phase /\ closed' = closed /\ chanReady' = chanReady /\ packetConn' = packetConn /\ dialing' = dialing
    BY DEF Clock, resVars
  <2>2. DialTimely' BY <1>1, <1>2, PendingDiffer DEF DialTimely
  <2>3. ChannelKept' BY <1>0, <1>1, <2>1 DEF ActiveInv, ChannelKept
  <2> QED BY <2>2, <2>3 DEF ActiveInv
<1> QED BY <1>3, <1>4, <1>5, <1>6 DEF LegInv

LEMMA EnvironmentInv == ASSUME LegInv, PathChanges \/ ChannelBreaks PROVE LegInv'
<1>0. TypeInv /\ LegShape /\ PassiveInv /\ ActiveInv BY DEF LegInv
<1>1. packetConn' = packetConn \/ (packetConn = "open" /\ packetConn' = "broken")
  BY DEF PathChanges, ChannelBreaks, resVars
<1>2. TypeInv'
  <2>1. up' \in BOOLEAN BY <1>0 DEF TypeInv, LegTypeOK, PathChanges, ChannelBreaks
  <2> QED BY <2>1, <1>0, <1>1 DEF TypeInv, LegTypeOK, PathChanges, ChannelBreaks, fsmVars, resVars, netVars, timeVars
<1>3. LegShape' BY <1>0 DEF LegShape, PathChanges, ChannelBreaks, timeVars
<1>4. PassiveInv' BY <1>0, PassiveFrame DEF PassiveSame, PathChanges, ChannelBreaks, fsmVars, resVars
<1>5. ActiveInv'
  <2>1. phase' = phase /\ left' = left /\ chanReady' = chanReady /\ dialing' = dialing /\ acts' = acts /\ closed' = closed
    BY DEF PathChanges, ChannelBreaks, fsmVars, resVars
  <2> QED BY <1>0, <1>1, <2>1 DEF ActiveInv, DialTimely, ChannelKept
<1> QED BY <1>2, <1>3, <1>4, <1>5 DEF LegInv

LEMMA CloseInv == ASSUME LegInv, NEW s \in Sides, Close(s) PROVE LegInv'
<1>0. TypeInv /\ LegShape /\ PassiveInv /\ ActiveInv BY DEF LegInv
<1>1. closed' = closed \cup {s} /\ phase' = phase /\ left' = left /\ capable' = capable /\ localPort' = localPort /\ chanReady' = chanReady
      /\ acts' = acts /\ dialing' = dialing /\ toTick' = toTick
  BY DEF Close, fsmVars, timeVars
<1>2. LegShape' BY <1>0, <1>1 DEF LegShape
<1>3. CASE s = "A"
  <2>1. packetConn' = "none" /\ relay' = 0 /\ ep' = ep BY <1>3 DEF Close, DropChannel
  <2>2. TypeInv'
    BY <1>0, <1>1, <2>1, LegAssumption DEF TypeInv, LegTypeOK, Close, fsmVars, timeVars, Gone
  <2>3. PassiveInv' BY <1>0, <1>1, <1>3, <2>1, PassiveFrame DEF PassiveSame
  <2>4. ActiveInv' BY <1>0, <1>1, <1>3 DEF ActiveInv, DialTimely, ChannelKept
  <2> QED BY <1>2, <2>2, <2>3, <2>4 DEF LegInv
<1>4. CASE s = "P"
  <2>1. packetConn' = packetConn /\ ep' = 0 BY <1>4 DEF Close, ReleasePort
  <2>2. TypeInv'
    <3>1. relay' \in 0 .. Gone BY <1>0, <1>4, LegAssumption DEF TypeInv, LegTypeOK, Close, ReleasePort, Gone
    <3> QED BY <1>0, <1>1, <2>1, <3>1, LegAssumption DEF TypeInv, LegTypeOK, Close, fsmVars, timeVars
  <2>3. ActiveInv' BY <1>0, <1>1, <1>4, <2>1, ActiveFrame DEF ActiveSame
  <2>4. PassiveInv'
    <3>1. PassivePhase' /\ AllocateTimely' BY <1>0, <1>1 DEF PassiveInv, PassivePhase, AllocateTimely
    <3>2. ReleaseTimely' /\ PortKept' BY <1>0, <1>1, <1>4, <2>1 DEF PassiveInv, ReleaseTimely, PortKept
    <3> QED BY <3>1, <3>2 DEF PassiveInv
  <2> QED BY <1>2, <2>2, <2>3, <2>4 DEF LegInv
<1> QED BY <1>3, <1>4 DEF Sides

-----------------------------------------------------------------------------
(* The theorems. *)

LEMMA LegStep == LegInv /\ [LegNext]_legVars => LegInv'
<1> SUFFICES ASSUME LegInv, [LegNext]_legVars PROVE LegInv' OBVIOUS
<1>1. ASSUME NEW s \in Sides, Step(s) PROVE LegInv'
  BY <1>1, OnGossipInv, TickInv, AllocateInv, UnregisterInv, SpawnDialInv, CloseChannelInv, BuildGossipInv, SendDataInv
  DEF Step, Execute
<1>2. CASE LegNext
  BY <1>1, <1>2, MaybeRedialInv, OnDataSentInv, DeliverToPInv, DeliverToAInv, DialInv, ClockInv, EnvironmentInv, CloseInv
  DEF LegNext, Progress
<1>3. CASE UNCHANGED legVars
  <2>1. TypeInv' /\ LegShape'
    BY <1>3 DEF LegInv, TypeInv, LegTypeOK, LegShape, legVars, fsmVars, resVars, netVars, timeVars
  <2>2. PassiveInv' BY <1>3, PassiveFrame DEF LegInv, PassiveSame, legVars, fsmVars, resVars
  <2>3. ActiveInv' BY <1>3, ActiveFrame DEF LegInv, ActiveSame, legVars, fsmVars, resVars
  <2> QED BY <2>1, <2>2, <2>3 DEF LegInv
<1> QED BY <1>2, <1>3

\* A pending action is the first in line of its goroutine.
LEMMA LegPending ==
    ASSUME LegShape
    PROVE  /\ acts["A"]["tick"] = <<"close", "redial">> => Pending("close")
           /\ Releasing => Pending("release")
<1>1. ASSUME acts["A"]["tick"] = <<"close", "redial">> PROVE Pending("close")
  <2>1. 1 \in DOMAIN acts["A"]["tick"] /\ acts["A"]["tick"][1] = "close" BY <1>1
  <2> QED BY <2>1 DEF Pending, Sides, Goroutines
<1>2. ASSUME NEW g \in Goroutines, acts["P"][g] = <<"release">> PROVE Pending("release")
  <2>1. 1 \in DOMAIN acts["P"][g] /\ acts["P"][g][1] = "release" BY <1>2
  <2> QED BY <2>1 DEF Pending, Sides
<1> QED BY <1>1, <1>2 DEF Releasing, Goroutines

\* In every order of gossip, ticks, dials, datagrams, outages and the two goroutines of
\* each end: the passive end answers on UDP only while the peer advertises the leg, the
\* port it advertises is the one registered, and a leg in backoff holds neither channel
\* nor port once its actions are executed.
THEOREM LegIsSound == LegSpec => []LegSound
<1>1. LegInv => LegSound
  <2> SUFFICES ASSUME LegInv PROVE LegSound OBVIOUS
  <2>0. TypeInv /\ LegShape /\ PassiveInv /\ ActiveInv BY DEF LegInv
  <2>1. LegTypeOK BY <2>0 DEF TypeInv
  <2>2. ReturnPathAdmitted BY <2>0 DEF PassiveInv, PassivePhase, ReturnPathAdmitted, RouteDataViaUDP
  <2>3. AdvertisedPortServed
    <3>1. SUFFICES ASSUME "P" \notin closed, AdvertisePort # 0 PROVE ep = AdvertisePort BY DEF AdvertisedPortServed
    <3>2. AdvertisePort = localPort BY <3>1 DEF AdvertisePort
    <3> QED BY <2>0, <3>1, <3>2 DEF PassiveInv, PortKept
  <2>4. WithdrawnHoldsNothing
    BY <2>0, LegPending DEF PassiveInv, PortKept, ActiveInv, ChannelKept, WithdrawnHoldsNothing
  <2> QED BY <2>1, <2>2, <2>3, <2>4 DEF LegSound
<1> QED BY <1>1, LegInitInv, LegStep, PTL DEF LegSpec

-----------------------------------------------------------------------------
(* The route table's queue: what criticalCh holds of a registration. *)

EventKinds == {"register", "unregister", "gossip", "recompute"}
Events == [k : EventKinds, s : Senders \cup {0}, v : Nat]
Places == {"off", "new", "nic", "say", "recv", "unregister", "delete", "gone"}

\* Entry i of q is the event k of registration s.
Entry(q, i, k, s) == q[i].k = k /\ q[i].s = s

\* Entry i is the first, or the last, that q holds of s.
FirstOf(q, i, s) == \A j \in 1..Len(q) : j < i => q[j].s # s
LastOf(q, i, s) == \A j \in 1..Len(q) : j > i => q[j].s # s

\* What a loop at place a that last heard version v has in the queue q and in the peers P:
\* nothing before it registers; the registration ahead of everything else, and until it is
\* taken no peer; the end behind everything else, and once it is taken no peer; in between
\* the latest gossip behind everything else or in the table.
LineOf(q, P, a, v, s) ==
    /\ a \in {"off", "new"} => s \notin DOMAIN P /\ \A i \in 1..Len(q) : q[i].s # s
    /\ \A i \in 1..Len(q) : Entry(q, i, "register", s) => s \notin DOMAIN P /\ FirstOf(q, i, s)
    /\ \A i \in 1..Len(q) : Entry(q, i, "unregister", s) => a \in {"delete", "gone"} /\ LastOf(q, i, s)
    /\ a \in {"nic", "say", "recv", "unregister"} =>
           s \in DOMAIN P \/ \E i \in 1..Len(q) : Entry(q, i, "register", s)
    /\ a \in {"delete", "gone"} =>
           \/ \E i \in 1..Len(q) : Entry(q, i, "unregister", s)
           \/ s \notin DOMAIN P /\ \A i \in 1..Len(q) : ~ Entry(q, i, "register", s)
    /\ a = "recv" =>
           \/ \E i \in 1..Len(q) : Entry(q, i, "gossip", s) /\ q[i].v = v /\ LastOf(q, i, s)
           \/ P[s] = v /\ \A i \in 1..Len(q) : q[i].s # s

\* Only a recomputation is about nobody.
QueueTyped(q) == q \in Seq(Events) /\ \A i \in 1..Len(q) : (q[i].s = 0) <=> (q[i].k = "recompute")

\* The inductive invariant: every registration has its line.
RouterInv ==
    /\ at \in [Senders -> Places] /\ said \in [Senders -> Nat] /\ QueueTyped(crit)
    /\ \A s \in Senders : LineOf(crit, peerOf, at[s], said[s], s)

-----------------------------------------------------------------------------
LEMMA QueueAppend ==
    ASSUME NEW q, QueueTyped(q), NEW e \in Events, (e.s = 0) <=> (e.k = "recompute")
    PROVE  /\ QueueTyped(Append(q, e)) /\ Len(q) \in Nat /\ Len(Append(q, e)) = Len(q) + 1
           /\ \A i \in 1..Len(q) : Append(q, e)[i] = q[i]
           /\ Append(q, e)[Len(q) + 1] = e
  <1>1. q \in Seq(Events) BY DEF QueueTyped
  <1>2. Append(q, e) \in Seq(Events) /\ Len(q) \in Nat /\ Len(Append(q, e)) = Len(q) + 1 BY <1>1
  <1>3. (\A i \in 1..Len(q) : Append(q, e)[i] = q[i]) /\ Append(q, e)[Len(q) + 1] = e BY <1>1
  <1>4. ASSUME NEW i \in 1..Len(Append(q, e))
        PROVE  (Append(q, e)[i].s = 0) <=> (Append(q, e)[i].k = "recompute")
    <2>1. CASE i \in 1..Len(q) BY <2>1, <1>3 DEF QueueTyped
    <2>2. CASE i = Len(q) + 1 BY <2>2, <1>3
    <2> QED BY <2>1, <2>2, <1>2
  <1> QED BY <1>2, <1>3, <1>4 DEF QueueTyped

LEMMA QueueTail ==
    ASSUME NEW q, QueueTyped(q), q # <<>>
    PROVE  /\ QueueTyped(Tail(q)) /\ Len(q) \in Nat \ {0} /\ Len(Tail(q)) = Len(q) - 1
           /\ \A i \in 1..Len(Tail(q)) : i + 1 \in 1..Len(q) /\ Tail(q)[i] = q[i + 1]
           /\ Head(q) = q[1] /\ q[1] \in Events
  <1>1. q \in Seq(Events) BY DEF QueueTyped
  <1>2. Len(q) \in Nat \ {0} /\ Tail(q) \in Seq(Events) /\ Len(Tail(q)) = Len(q) - 1 BY <1>1
  <1>3. \A i \in 1..Len(Tail(q)) : i + 1 \in 1..Len(q) /\ Tail(q)[i] = q[i + 1] BY <1>1, <1>2
  <1>4. Head(q) = q[1] /\ q[1] \in Events BY <1>1, <1>2
  <1> QED BY <1>2, <1>3, <1>4 DEF QueueTyped

\* An event of another registration, or of nobody, changes no line.
LEMMA LineAppendOther ==
    ASSUME NEW q, QueueTyped(q), NEW e \in Events, (e.s = 0) <=> (e.k = "recompute"),
           NEW P, NEW a, NEW v, NEW s, e.s # s, LineOf(q, P, a, v, s)
    PROVE  LineOf(Append(q, e), P, a, v, s)
  <1> DEFINE r == Append(q, e)
  <1>1. /\ Len(q) \in Nat /\ Len(r) = Len(q) + 1 /\ \A i \in 1..Len(q) : r[i] = q[i]
        /\ r[Len(q) + 1] = e
    BY QueueAppend
  <1> HIDE DEF r
  <1>2. \A i \in 1..Len(r) : r[i].s = s => i \in 1..Len(q) /\ r[i] = q[i] BY <1>1
  <1>3. \A i \in 1..Len(q) : i \in 1..Len(r) /\ r[i] = q[i] BY <1>1
  <1>4. ASSUME NEW i \in 1..Len(q) PROVE (FirstOf(q, i, s) => FirstOf(r, i, s)) /\ (LastOf(q, i, s) => LastOf(r, i, s))
    BY <1>2 DEF FirstOf, LastOf
  <1>5. ASSUME NEW i, NEW k PROVE (i \in 1..Len(r) /\ Entry(r, i, k, s)) <=> (i \in 1..Len(q) /\ Entry(q, i, k, s))
    BY <1>2, <1>3 DEF Entry
  <1>6. (\A i \in 1..Len(q) : q[i].s # s) => (\A i \in 1..Len(r) : r[i].s # s) BY <1>2
  <1>7. \A i \in 1..Len(q) : r[i].v = q[i].v BY <1>3
  <1> HIDE DEF LineOf
  <1> QED BY <1>4, <1>5, <1>6, <1>7 DEF LineOf, r

\* What is asked of a place, and of one that leads on from it without an event.
LEMMA LineGoesOn ==
    ASSUME NEW q, NEW P, NEW a, NEW b, NEW v, NEW w, NEW s, LineOf(q, P, a, v, s),
           \/ a = "off" /\ b = "new"
           \/ a = "nic" /\ b = "say"
           \/ a = "recv" /\ b \in {"say", "unregister"}
           \/ a = "delete" /\ b = "gone"
    PROVE  LineOf(q, P, b, w, s)
  <1>1. CASE a = "off" /\ b = "new" BY <1>1 DEF LineOf
  <1>2. CASE a = "nic" /\ b = "say" BY <1>2 DEF LineOf
  <1>3. CASE a = "recv" /\ b \in {"say", "unregister"} BY <1>3 DEF LineOf
  <1>4. CASE a = "delete" /\ b = "gone" BY <1>4 DEF LineOf
  <1> QED BY <1>1, <1>2, <1>3, <1>4

\* The loop's own events: each is sent from one place and leads to the next.
LEMMA LineAppendOwn ==
    ASSUME NEW q, QueueTyped(q), NEW e \in Events, NEW P, NEW a, NEW b, NEW v,
           NEW s \in Senders, e.s = s, LineOf(q, P, a, v, s),
           \/ a = "new" /\ b = "nic" /\ e.k = "register"
           \/ a = "say" /\ b = "recv" /\ e.k = "gossip" /\ e.v = v
           \/ a = "unregister" /\ b = "delete" /\ e.k = "unregister"
    PROVE  LineOf(Append(q, e), P, b, v, s)
  <1> DEFINE r == Append(q, e)
             n == Len(q) + 1
  <1>0. (e.s = 0) <=> (e.k = "recompute") BY RouterAssumption
  <1>1. /\ Len(q) \in Nat /\ Len(r) = n /\ \A i \in 1..Len(q) : r[i] = q[i]
        /\ r[n] = e
    BY QueueAppend, <1>0
  <1> HIDE DEF r
  <1>2. n \in 1..Len(r) /\ \A i \in 1..Len(r) : i # n => i \in 1..Len(q) /\ r[i] = q[i] BY <1>1
  <1>3. \A i \in 1..Len(q) : i \in 1..Len(r) /\ i # n /\ r[i] = q[i] BY <1>1
  <1>4. LastOf(r, n, s) BY <1>1 DEF LastOf
  <1>5. ASSUME NEW i \in 1..Len(q), FirstOf(q, i, s) PROVE FirstOf(r, i, s)
    BY <1>5, <1>1, <1>2 DEF FirstOf
  <1>6. ASSUME NEW i \in 1..Len(q), NEW k PROVE Entry(r, i, k, s) <=> Entry(q, i, k, s)
    BY <1>3 DEF Entry
  <1>7. ASSUME a = "new" /\ b = "nic" /\ e.k = "register" PROVE LineOf(r, P, b, v, s)
    <2>1. s \notin DOMAIN P /\ \A i \in 1..Len(q) : q[i].s # s BY <1>7 DEF LineOf
    <2>2. \A i \in 1..Len(r) : r[i].s = s => i = n BY <2>1, <1>2
    <2>3. FirstOf(r, n, s) BY <2>2 DEF FirstOf
    <2>4. Entry(r, n, "register", s) /\ ~ Entry(r, n, "unregister", s) BY <1>7, <1>1 DEF Entry
    <2>5. \A i \in 1..Len(r) : \A k : Entry(r, i, k, s) => i = n BY <2>2 DEF Entry
    <2> QED BY <2>1, <2>3, <2>4, <2>5, <1>7, <1>2 DEF LineOf
  <1>8. ASSUME a = "say" /\ b = "recv" /\ e.k = "gossip" /\ e.v = v PROVE LineOf(r, P, b, v, s)
    <2>1. Entry(r, n, "gossip", s) /\ r[n].v = v BY <1>8, <1>1 DEF Entry
    <2>2. ~ Entry(r, n, "unregister", s) /\ ~ Entry(r, n, "register", s) BY <1>8, <1>1 DEF Entry
    <2>3. \A i \in 1..Len(r) : Entry(r, i, "register", s) => s \notin DOMAIN P /\ FirstOf(r, i, s)
      BY <2>2, <1>2, <1>5, <1>6 DEF LineOf
    <2>4. \A i \in 1..Len(r) : ~ Entry(r, i, "unregister", s)
      BY <2>2, <1>2, <1>6, <1>8 DEF LineOf
    <2>5. s \in DOMAIN P \/ \E i \in 1..Len(r) : Entry(r, i, "register", s)
      BY <1>3, <1>6, <1>8 DEF LineOf
    <2> QED BY <2>1, <2>3, <2>4, <2>5, <1>2, <1>4, <1>8 DEF LineOf
  <1>9. ASSUME a = "unregister" /\ b = "delete" /\ e.k = "unregister" PROVE LineOf(r, P, b, v, s)
    <2>1. Entry(r, n, "unregister", s) /\ ~ Entry(r, n, "register", s) BY <1>9, <1>1 DEF Entry
    <2>2. \A i \in 1..Len(r) : Entry(r, i, "register", s) => s \notin DOMAIN P /\ FirstOf(r, i, s)
      BY <2>1, <1>2, <1>5, <1>6 DEF LineOf
    <2>3. \A i \in 1..Len(r) : Entry(r, i, "unregister", s) => i = n
      BY <1>2, <1>6, <1>9 DEF LineOf
    <2> QED BY <2>1, <2>2, <2>3, <1>2, <1>4, <1>9 DEF LineOf
  <1> QED BY <1>7, <1>8, <1>9 DEF r

\* What criticalWorker makes of the peers on an event e.
Applied(P, e, Q) ==
    /\ e.k = "register" => e.s \in DOMAIN Q
    /\ e.k = "unregister" => e.s \notin DOMAIN Q
    /\ e.k \in {"gossip", "recompute"} => DOMAIN Q = DOMAIN P
    /\ e.k = "gossip" /\ e.s \in DOMAIN P => Q[e.s] = e.v
    /\ \A s : s # e.s => (s \in DOMAIN Q <=> s \in DOMAIN P) /\ (s \in DOMAIN P => Q[s] = P[s])

\* Taking an event about somebody else.
LEMMA LineTakeOther ==
    ASSUME NEW q, QueueTyped(q), q # <<>>, NEW P, NEW Q, NEW a, NEW v, NEW s, Head(q).s # s,
           (s \in DOMAIN Q) <=> (s \in DOMAIN P), s \in DOMAIN P => Q[s] = P[s], LineOf(q, P, a, v, s)
    PROVE  LineOf(Tail(q), Q, a, v, s)
  <1> DEFINE r == Tail(q)
  <1>1. /\ Len(q) \in Nat \ {0} /\ Len(r) = Len(q) - 1 /\ Head(q) = q[1]
        /\ \A i \in 1..Len(r) : i + 1 \in 1..Len(q) /\ r[i] = q[i + 1]
    BY QueueTail
  <1> HIDE DEF r
  <1>2. \A j \in 1..Len(q) : q[j].s = s => j - 1 \in 1..Len(r) /\ r[j - 1] = q[j] /\ j = (j - 1) + 1 BY <1>1
  <1>3. ASSUME NEW i \in 1..Len(r), FirstOf(q, i + 1, s) PROVE FirstOf(r, i, s)
    BY <1>1, <1>3 DEF FirstOf
  <1>4. ASSUME NEW i \in 1..Len(r), LastOf(q, i + 1, s) PROVE LastOf(r, i, s)
    BY <1>1, <1>4 DEF LastOf
  <1>5. ASSUME NEW i \in 1..Len(r), NEW k PROVE i + 1 \in 1..Len(q) /\ (Entry(r, i, k, s) <=> Entry(q, i + 1, k, s))
    BY <1>1 DEF Entry
  <1>6. ASSUME NEW j \in 1..Len(q), NEW k, Entry(q, j, k, s)
        PROVE  j - 1 \in 1..Len(r) /\ Entry(r, j - 1, k, s) /\ r[j - 1].v = q[j].v /\ (LastOf(q, j, s) => LastOf(r, j - 1, s))
    BY <1>2, <1>4, <1>6 DEF Entry
  <1>7. (\A i \in 1..Len(q) : q[i].s # s) => (\A i \in 1..Len(r) : r[i].s # s) BY <1>1
  <1>a. a \in {"off", "new"} => s \notin DOMAIN Q /\ \A i \in 1..Len(r) : r[i].s # s BY <1>7 DEF LineOf
  <1>b. \A i \in 1..Len(r) : Entry(r, i, "register", s) => s \notin DOMAIN Q /\ FirstOf(r, i, s)
    BY <1>3, <1>5 DEF LineOf
  <1>c. \A i \in 1..Len(r) : Entry(r, i, "unregister", s) => a \in {"delete", "gone"} /\ LastOf(r, i, s)
    BY <1>4, <1>5 DEF LineOf
  <1>d. ASSUME a \in {"nic", "say", "recv", "unregister"}
        PROVE  s \in DOMAIN Q \/ \E i \in 1..Len(r) : Entry(r, i, "register", s)
    BY <1>6, <1>d DEF LineOf
  <1>e. ASSUME a \in {"delete", "gone"}
        PROVE  \/ \E i \in 1..Len(r) : Entry(r, i, "unregister", s)
               \/ s \notin DOMAIN Q /\ \A i \in 1..Len(r) : ~ Entry(r, i, "register", s)
    BY <1>5, <1>6, <1>e DEF LineOf
  <1>f. ASSUME a = "recv"
        PROVE  \/ \E i \in 1..Len(r) : Entry(r, i, "gossip", s) /\ r[i].v = v /\ LastOf(r, i, s)
               \/ Q[s] = v /\ \A i \in 1..Len(r) : r[i].s # s
    <2>1. CASE \E i \in 1..Len(q) : Entry(q, i, "gossip", s) /\ q[i].v = v /\ LastOf(q, i, s) BY <2>1, <1>6
    <2>2. CASE P[s] = v /\ \A i \in 1..Len(q) : q[i].s # s
      <3>1. s \in DOMAIN P BY <2>2, <1>f DEF LineOf, Entry
      <3> QED BY <3>1, <2>2, <1>7
    <2> QED BY <2>1, <2>2, <1>f DEF LineOf
  <1> QED BY <1>a, <1>b, <1>c, <1>d, <1>e, <1>f DEF LineOf, r

\* Taking an event about the registration itself: a registration makes the peer, with nothing
\* ahead of it; an end removes it, with nothing behind it; gossip finds the peer there.
LEMMA LineTakeOwn ==
    ASSUME NEW q, QueueTyped(q), q # <<>>, NEW P, NEW Q, NEW a, NEW v, NEW s \in Senders, Head(q).s = s,
           Applied(P, Head(q), Q), LineOf(q, P, a, v, s)
    PROVE  LineOf(Tail(q), Q, a, v, s)
  <1> DEFINE r == Tail(q)
  <1>1. /\ Len(q) \in Nat \ {0} /\ Len(r) = Len(q) - 1 /\ Head(q) = q[1]
        /\ \A i \in 1..Len(r) : i + 1 \in 1..Len(q) /\ r[i] = q[i + 1]
        /\ q[1] \in Events /\ 1 \in 1..Len(q)
    BY QueueTail
  <1> HIDE DEF r
  <1>2. q[1].s = s /\ q[1].k \in {"register", "unregister", "gossip"}
    BY <1>1, RouterAssumption DEF QueueTyped, Events, EventKinds
  <1>3. \A i \in 1..Len(r) : ~ Entry(r, i, "register", s)
    BY <1>1, <1>2 DEF LineOf, FirstOf, Entry
  <1>4. ASSUME NEW i \in 1..Len(r), LastOf(q, i + 1, s) PROVE LastOf(r, i, s)
    BY <1>1, <1>4 DEF LastOf
  <1>5. ASSUME NEW i \in 1..Len(r), NEW k PROVE i + 1 \in 1..Len(q) /\ (Entry(r, i, k, s) <=> Entry(q, i + 1, k, s))
    BY <1>1 DEF Entry
  <1>6. ASSUME NEW j \in 1..Len(q), j # 1, NEW k, Entry(q, j, k, s)
        PROVE  j - 1 \in 1..Len(r) /\ Entry(r, j - 1, k, s) /\ r[j - 1].v = q[j].v /\ (LastOf(q, j, s) => LastOf(r, j - 1, s))
    <2>1. j - 1 \in 1..Len(r) /\ (j - 1) + 1 = j /\ r[j - 1] = q[j] BY <1>1, <1>6
    <2> QED BY <2>1, <1>4, <1>6 DEF Entry
  <1>7. a \notin {"off", "new"} BY <1>1, <1>2 DEF LineOf
  <1>8. LastOf(q, 1, s) => \A i \in 1..Len(r) : r[i].s # s BY <1>1 DEF LastOf
  <1>c. \A i \in 1..Len(r) : Entry(r, i, "unregister", s) => a \in {"delete", "gone"} /\ LastOf(r, i, s)
    BY <1>4, <1>5 DEF LineOf
  <1>d. ASSUME a \in {"nic", "say", "recv", "unregister"} PROVE s \in DOMAIN Q
    <2>1. q[1].k # "unregister" BY <1>1, <1>2, <1>d DEF LineOf, Entry
    <2>2. CASE q[1].k = "register" BY <2>2, <1>1, <1>2 DEF Applied
    <2>3. CASE q[1].k = "gossip"
      <3>1. \A i \in 1..Len(q) : ~ Entry(q, i, "register", s)
        BY <2>3, <1>1, <1>2 DEF LineOf, FirstOf, Entry
      <3> QED BY <3>1, <2>3, <1>1, <1>2, <1>d DEF LineOf, Applied
    <2> QED BY <2>1, <2>2, <2>3, <1>2
  <1>e. ASSUME a \in {"delete", "gone"}
        PROVE  (\E i \in 1..Len(r) : Entry(r, i, "unregister", s)) \/ s \notin DOMAIN Q
    <2>1. CASE q[1].k = "unregister" BY <2>1, <1>1, <1>2 DEF Applied
    <2>2. CASE q[1].k # "unregister" /\ \E i \in 1..Len(q) : Entry(q, i, "unregister", s)
      <3>1. PICK i \in 1..Len(q) : Entry(q, i, "unregister", s) BY <2>2
      <3>2. i # 1 BY <3>1, <2>2 DEF Entry
      <3> QED BY <3>1, <3>2, <1>6
    <2>3. CASE q[1].k # "unregister" /\ ~ \E i \in 1..Len(q) : Entry(q, i, "unregister", s)
      <3>1. s \notin DOMAIN P /\ ~ Entry(q, 1, "register", s) BY <2>3, <1>1, <1>e DEF LineOf
      <3>2. q[1].k = "gossip" BY <3>1, <2>3, <1>2 DEF Entry
      <3> QED BY <3>1, <3>2, <1>1 DEF Applied
    <2> QED BY <2>1, <2>2, <2>3
  <1>f. ASSUME a = "recv"
        PROVE  \/ \E i \in 1..Len(r) : Entry(r, i, "gossip", s) /\ r[i].v = v /\ LastOf(r, i, s)
               \/ Q[s] = v /\ \A i \in 1..Len(r) : r[i].s # s
    <2>1. PICK i \in 1..Len(q) : Entry(q, i, "gossip", s) /\ q[i].v = v /\ LastOf(q, i, s)
      BY <1>1, <1>2, <1>f DEF LineOf
    <2>2. CASE i # 1 BY <2>1, <2>2, <1>6
    <2>3. CASE i = 1
      <3>1. \A j \in 1..Len(r) : r[j].s # s BY <2>1, <2>3, <1>8
      <3>2. s \in DOMAIN Q BY <1>d, <1>f
      <3> QED BY <3>1, <3>2, <2>1, <2>3, <1>1 DEF Applied, Entry
    <2> QED BY <2>2, <2>3
  <1> QED BY <1>3, <1>7, <1>c, <1>d, <1>e, <1>f DEF LineOf, r

-----------------------------------------------------------------------------
LEMMA RouterInitInv == RouterInit => RouterInv
  <1> SUFFICES ASSUME RouterInit PROVE RouterInv OBVIOUS
  <1>1. at \in [Senders -> Places] /\ said \in [Senders -> Nat] /\ \A s \in Senders : at[s] = "off"
    BY DEF RouterInit, Places
  <1>2. crit = <<>> /\ crit \in Seq(Events) /\ Len(crit) = 0 /\ \A s : s \notin DOMAIN peerOf BY DEF RouterInit
  <1>3. \A i : i \notin 1..Len(crit) BY <1>2
  <1>4. QueueTyped(crit) BY <1>2, <1>3 DEF QueueTyped
  <1>5. ASSUME NEW s \in Senders PROVE LineOf(crit, peerOf, at[s], said[s], s)
    BY <1>1, <1>2, <1>3 DEF LineOf
  <1> QED BY <1>1, <1>4, <1>5 DEF RouterInv

\* Steps of a loop that send nothing.
LEMMA RouterLoopGoesOn ==
    ASSUME RouterInv, NEW s \in Senders, Establish(s) \/ CreateLinkNIC(s) \/ Hear(s) \/ Breakdown(s) \/ DeleteLinkNIC(s)
    PROVE  RouterInv'
  <1>0. /\ at \in [Senders -> Places] /\ said \in [Senders -> Nat] /\ QueueTyped(crit)
        /\ \A t \in Senders : LineOf(crit, peerOf, at[t], said[t], t)
    BY DEF RouterInv
  <1>1. crit' = crit /\ peerOf' = peerOf
    BY DEF Establish, CreateLinkNIC, Hear, Breakdown, DeleteLinkNIC
  <1>2. \E b \in Places : at' = [at EXCEPT ![s] = b]
                          /\ \/ at[s] = "off" /\ b = "new"
                             \/ at[s] = "nic" /\ b = "say"
                             \/ at[s] = "recv" /\ b \in {"say", "unregister"}
                             \/ at[s] = "delete" /\ b = "gone"
    BY DEF Establish, CreateLinkNIC, Hear, Breakdown, DeleteLinkNIC, Goto, Places
  <1>3. \E w \in Nat : said' = [said EXCEPT ![s] = w]
    <2>1. said[s] \in Nat /\ said = [said EXCEPT ![s] = said[s]] BY <1>0
    <2>2. CASE Establish(s) BY <2>2 DEF Establish
    <2>3. CASE Hear(s)
      <3>1. said' = [said EXCEPT ![s] = said[s] + 1] BY <2>3 DEF Hear
      <3>2. said[s] + 1 \in Nat BY <2>1
      <3> QED BY <3>1, <3>2
    <2>4. CASE CreateLinkNIC(s) \/ Breakdown(s) \/ DeleteLinkNIC(s)
      <3>1. said' = said BY <2>4 DEF CreateLinkNIC, Breakdown, DeleteLinkNIC
      <3> QED BY <3>1, <2>1
    <2> QED BY <2>2, <2>3, <2>4
  <1>4. PICK b \in Places : at' = [at EXCEPT ![s] = b]
                          /\ \/ at[s] = "off" /\ b = "new"
                             \/ at[s] = "nic" /\ b = "say"
                             \/ at[s] = "recv" /\ b \in {"say", "unregister"}
                             \/ at[s] = "delete" /\ b = "gone"
    BY <1>2
  <1>5. PICK w \in Nat : said' = [said EXCEPT ![s] = w] BY <1>3
  <1>6. at' \in [Senders -> Places] /\ said' \in [Senders -> Nat] BY <1>0, <1>4, <1>5
  <1>7. LineOf(crit, peerOf, b, w, s) BY <1>0, <1>4, LineGoesOn
  <1>8. ASSUME NEW t \in Senders PROVE LineOf(crit, peerOf, at'[t], said'[t], t)
    <2>1. CASE t = s BY <2>1, <1>0, <1>4, <1>5, <1>7
    <2>2. CASE t # s
      <3>1. at'[t] = at[t] /\ said'[t] = said[t] BY <2>2, <1>0, <1>4, <1>5
      <3> QED BY <3>1, <1>0
    <2> QED BY <2>1, <2>2
  <1> QED BY <1>0, <1>1, <1>6, <1>8 DEF RouterInv

\* Steps of a loop that send an event.
LEMMA RouterLoopPosts ==
    ASSUME RouterInv, NEW s \in Senders, RegisterPeer(s) \/ HandleTopologyGossip(s) \/ UnregisterPeer(s)
    PROVE  RouterInv'
  <1>0. /\ at \in [Senders -> Places] /\ said \in [Senders -> Nat] /\ QueueTyped(crit)
        /\ \A t \in Senders : LineOf(crit, peerOf, at[t], said[t], t)
    BY DEF RouterInv
  <1>1. said' = said /\ peerOf' = peerOf BY DEF RegisterPeer, HandleTopologyGossip, UnregisterPeer
  <1>2. \E b \in Places, e \in Events :
            /\ at' = [at EXCEPT ![s] = b] /\ crit' = Append(crit, e) /\ e.s = s
            /\ \/ at[s] = "new" /\ b = "nic" /\ e.k = "register"
               \/ at[s] = "say" /\ b = "recv" /\ e.k = "gossip" /\ e.v = said[s]
               \/ at[s] = "unregister" /\ b = "delete" /\ e.k = "unregister"
    <2>0. said[s] \in Nat BY <1>0
    <2>1. CASE RegisterPeer(s)
      <3>1. Event("register", s) \in Events BY DEF Event, Events, EventKinds
      <3> QED BY <2>1, <3>1 DEF RegisterPeer, Post, Goto, Event, Places
    <2>2. CASE HandleTopologyGossip(s)
      <3>1. [Event("gossip", s) EXCEPT !.v = said[s]] = [k |-> "gossip", s |-> s, v |-> said[s]] BY DEF Event
      <3>2. [k |-> "gossip", s |-> s, v |-> said[s]] \in Events BY <2>0 DEF Events, EventKinds
      <3> QED BY <2>2, <3>1, <3>2 DEF HandleTopologyGossip, Post, Goto, Places
    <2>3. CASE UnregisterPeer(s)
      <3>1. Event("unregister", s) \in Events BY DEF Event, Events, EventKinds
      <3> QED BY <2>3, <3>1 DEF UnregisterPeer, Post, Goto, Event, Places
    <2> QED BY <2>1, <2>2, <2>3
  <1>3. PICK b \in Places, e \in Events :
            /\ at' = [at EXCEPT ![s] = b] /\ crit' = Append(crit, e) /\ e.s = s
            /\ \/ at[s] = "new" /\ b = "nic" /\ e.k = "register"
               \/ at[s] = "say" /\ b = "recv" /\ e.k = "gossip" /\ e.v = said[s]
               \/ at[s] = "unregister" /\ b = "delete" /\ e.k = "unregister"
    BY <1>2
  <1>4. (e.s = 0) <=> (e.k = "recompute") BY <1>3, RouterAssumption
  <1>5. QueueTyped(Append(crit, e)) BY <1>0, <1>4, QueueAppend
  <1>6. LineOf(Append(crit, e), peerOf, b, said[s], s)
    <2>1. LineOf(crit, peerOf, at[s], said[s], s) BY <1>0
    <2> QED BY <2>1, <1>0, <1>3, LineAppendOwn
  <1>7. ASSUME NEW t \in Senders PROVE LineOf(Append(crit, e), peerOf, at'[t], said[t], t)
    <2>1. CASE t = s
      <3>1. at'[t] = b BY <2>1, <1>0, <1>3
      <3> QED BY <3>1, <2>1, <1>6
    <2>2. CASE t # s
      <3>1. at'[t] = at[t] /\ LineOf(crit, peerOf, at[t], said[t], t) BY <2>2, <1>0, <1>3
      <3>2. e.s # t BY <2>2, <1>3
      <3> QED BY <3>1, <3>2, <1>0, <1>4, LineAppendOther
    <2> QED BY <2>1, <2>2
  <1>8. at' \in [Senders -> Places] BY <1>0, <1>3
  <1> QED BY <1>0, <1>1, <1>3, <1>5, <1>7, <1>8 DEF RouterInv

LEMMA TakeApplies ==
    ASSUME RouterInv, CriticalTake
    PROVE  Applied(peerOf, Head(crit), peerOf')
  <1> DEFINE e == Head(crit)
  <1>1. e.k \in EventKinds
    <2>1. crit # <<>> /\ QueueTyped(crit) BY DEF RouterInv, CriticalTake
    <2> QED BY <2>1, QueueTail DEF Events
  <1>2. CASE e.k = "register"
    <2>1. peerOf' = [s \in DOMAIN peerOf \cup {e.s} |-> IF s = e.s THEN 0 ELSE peerOf[s]] BY <1>2 DEF CriticalTake
    <2> QED BY <2>1, <1>2 DEF Applied
  <1>3. CASE e.k = "unregister"
    <2>1. peerOf' = [s \in DOMAIN peerOf \ {e.s} |-> peerOf[s]] BY <1>3 DEF CriticalTake
    <2> QED BY <2>1, <1>3 DEF Applied
  <1>4. CASE e.k = "gossip"
    <2>1. peerOf' = IF e.s \in DOMAIN peerOf THEN [peerOf EXCEPT ![e.s] = e.v] ELSE peerOf
      BY <1>4 DEF CriticalTake, Updated
    <2> QED BY <2>1, <1>4 DEF Applied
  <1>5. CASE e.k = "recompute"
    <2>1. peerOf' = peerOf BY <1>5 DEF CriticalTake
    <2> QED BY <2>1, <1>5 DEF Applied
  <1> QED BY <1>1, <1>2, <1>3, <1>4, <1>5 DEF EventKinds

LEMMA RouterTakes == ASSUME RouterInv, CriticalTake PROVE RouterInv'
  <1>0. /\ at \in [Senders -> Places] /\ said \in [Senders -> Nat] /\ QueueTyped(crit)
        /\ \A t \in Senders : LineOf(crit, peerOf, at[t], said[t], t)
    BY DEF RouterInv
  <1>1. at' = at /\ said' = said /\ crit # <<>> /\ crit' = Tail(crit) BY DEF CriticalTake
  <1>2. Applied(peerOf, Head(crit), peerOf') BY TakeApplies
  <1>3. QueueTyped(Tail(crit)) BY <1>0, <1>1, QueueTail
  <1>4. PICK Q : Q = peerOf' OBVIOUS
  <1>5. ASSUME NEW t \in Senders PROVE LineOf(Tail(crit), Q, at[t], said[t], t)
    <2>1. LineOf(crit, peerOf, at[t], said[t], t) /\ Applied(peerOf, Head(crit), Q) BY <1>0, <1>2, <1>4
    <2>2. CASE Head(crit).s = t BY <2>1, <2>2, <1>0, <1>1, LineTakeOwn
    <2>3. CASE Head(crit).s # t
      <3>1. ((t \in DOMAIN Q) <=> (t \in DOMAIN peerOf)) /\ (t \in DOMAIN peerOf => Q[t] = peerOf[t])
        BY <2>1, <2>3 DEF Applied
      <3> QED BY ONLY <2>1, <2>3, <3>1, <1>0, <1>1, LineTakeOther
    <2> QED BY <2>2, <2>3
  <1> QED BY <1>0, <1>1, <1>3, <1>4, <1>5 DEF RouterInv

LEMMA RouterTicks == ASSUME RouterInv, QualityTick PROVE RouterInv'
  <1>0. /\ at \in [Senders -> Places] /\ said \in [Senders -> Nat] /\ QueueTyped(crit)
        /\ \A t \in Senders : LineOf(crit, peerOf, at[t], said[t], t)
    BY DEF RouterInv
  <1>1. at' = at /\ said' = said /\ peerOf' = peerOf /\ crit' = Append(crit, Event("recompute", 0))
    BY DEF QualityTick
  <1>2. PICK e \in Events : e = Event("recompute", 0) BY DEF Event, Events, EventKinds
  <1>3. e.s = 0 /\ e.k = "recompute" BY <1>2 DEF Event
  <1>4. QueueTyped(Append(crit, e)) BY <1>0, <1>3, QueueAppend
  <1>5. ASSUME NEW t \in Senders PROVE LineOf(Append(crit, e), peerOf, at[t], said[t], t)
    <2>1. e.s # t /\ LineOf(crit, peerOf, at[t], said[t], t) BY <1>0, <1>3, RouterAssumption
    <2> QED BY <2>1, <1>0, <1>3, LineAppendOther
  <1> QED BY <1>0, <1>1, <1>2, <1>4, <1>5 DEF RouterInv

\* RouterIsSafe: for any number of registrations, queues of any length and any interleaving of the
\* receive loops with the two workers, no registration, end or gossip of a link is lost or
\* overtaken in criticalCh: when the queue holds nothing of a link any more, a link whose cleanup
\* is over has no peer, and one in use has a peer with the version it last heard.
THEOREM RouterIsSafe == RouterSpec => [](Forgotten /\ Registered)
  <1>1. RouterInit => RouterInv BY RouterInitInv
  <1>2. RouterInv /\ [RouterNext]_routerVars => RouterInv'
    <2> SUFFICES ASSUME RouterInv, [RouterNext]_routerVars PROVE RouterInv' OBVIOUS
    <2>1. CASE UNCHANGED <<at, said, crit, peerOf>> BY <2>1 DEF RouterInv
    <2>2. CASE UNCHANGED routerVars BY <2>2, <2>1 DEF routerVars
    <2>3. ASSUME NEW s \in Senders, LoopStep(s) \/ Establish(s) \/ Hear(s) \/ Breakdown(s) PROVE RouterInv'
      BY <2>3, RouterLoopGoesOn, RouterLoopPosts DEF LoopStep
    <2>4. CASE CriticalStep
      <3>1. CASE CriticalTake BY <3>1, RouterTakes
      <3>2. CASE CriticalReads \/ CriticalStores BY <3>2, <2>1 DEF CriticalReads, CriticalStores
      <3> QED BY <3>1, <3>2, <2>4 DEF CriticalStep
    <2>5. CASE GossipStep \/ GossipTake \/ BroadcastOnce \/ SetConfig
      BY <2>5, <2>1 DEF GossipStep, GossipReads, GossipStores, GossipTake, BroadcastOnce, SetConfig
    <2>6. CASE QualityTick BY <2>6, RouterTicks
    <2> QED BY <2>2, <2>3, <2>4, <2>5, <2>6 DEF RouterNext
  <1>3. RouterInv => Forgotten /\ Registered
    <2> SUFFICES ASSUME RouterInv, NEW s \in Senders, ~ About(s)
                 PROVE  /\ at[s] = "gone" => s \notin DOMAIN peerOf
                        /\ at[s] = "recv" => s \in DOMAIN peerOf /\ peerOf[s] = said[s]
      BY DEF Forgotten, Registered
    <2>1. crit \in Seq(Events) /\ LineOf(crit, peerOf, at[s], said[s], s) BY DEF RouterInv, QueueTyped
    <2>2. \A i \in 1..Len(crit) : crit[i].s # s BY <2>1 DEF About
    <2>3. \A i \in 1..Len(crit) : \A k : ~ Entry(crit, i, k, s) BY <2>2 DEF Entry
    <2> QED BY <2>1, <2>2, <2>3 DEF LineOf
  <1> QED BY <1>1, <1>2, <1>3, PTL DEF RouterSpec
=============================================================================

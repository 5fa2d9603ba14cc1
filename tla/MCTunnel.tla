------------------------------- MODULE MCTunnel -------------------------------
(***************************************************************************)
(* Small instances of the carriers of a session for TLC: a connection       *)
(* tunnelled through HTTP requests, a mesh session tunnelled through HTTP  *)
(* requests, and a session striped over several lanes.  They share no      *)
(* state: a behaviour follows one of them, `part'.                         *)
(***************************************************************************)
EXTENDS HTunnel, HTunnelMesh, Stripe

VARIABLE part

mcVars == <<part, tunnelVars, meshVars, stripeVars>>

\* The channel's kind and the direction of the traffic are chosen where they
\* are followed.
Init ==
    /\ part \in {"tunnel", "mesh", "stripe"}
    /\ TunnelInit /\ MeshInit /\ StripeInit
    /\ part # "tunnel" => kind = CHOOSE k \in Kinds : TRUE
    /\ part # "mesh" => dir = "down"

Next ==
    \/ part = "tunnel" /\ TunnelNext /\ UNCHANGED <<part, meshVars, stripeVars>>
    \/ part = "mesh" /\ MeshNext /\ UNCHANGED <<part, tunnelVars, stripeVars>>
    \/ part = "stripe" /\ StripeNext /\ UNCHANGED <<part, tunnelVars, meshVars>>

Spec == Init /\ [][Next]_mcVars

-----------------------------------------------------------------------------
(* Fairness, of the component that is followed.                            *)

\* The server's goroutines run, its timer fires, answers reach a client that
\* listens.  What the application sends, and when, is its own affair.
TunnelFairness ==
    LET on == part = "tunnel" IN
    /\ \A r \in Slots : WF_tunnelVars(on /\ Serve(r))
    /\ WF_tunnelVars(on /\ ReqTimeout) /\ WF_tunnelVars(on /\ CloseChannel)
    /\ \A t \in Thr : WF_tunnelVars(on /\ (Answer(t) \/ AnswerBad(t)))

\* Handlers, receive loops and the dispatcher run; the session keeps receiving.
MeshFairness ==
    LET on == part = "mesh" IN
    /\ \A g \in Gets : WF_meshVars(on /\ Handle(g))
    /\ \A l \in Loops : WF_meshVars(on /\ Receive(l))
    /\ WF_meshVars(on /\ Dispatch) /\ WF_meshVars(on /\ AddWaiters) /\ WF_meshVars(on /\ (Flush \/ FlushEnds))
    /\ WF_meshVars(on /\ (RecvFrame \/ RecvError)) /\ WF_meshVars(on /\ RecvUp)
    /\ \A p \in Posts : WF_meshVars(on /\ PostFrame(p)) /\ WF_meshVars(on /\ PostEnds(p) /\ post[p].left = <<>>)

\* The write loop runs.  Lane writers may be stuck in a write.
StripeFairness == WF_stripeVars(part = "stripe" /\ Sender)

FairSpec == Spec /\ TunnelFairness /\ MeshFairness /\ StripeFairness
=============================================================================

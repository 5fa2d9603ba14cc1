------------------------------- MODULE MCConfig -------------------------------
(***************************************************************************)
(* Small instances of the configuration for TLC: the rules and what they   *)
(* name, a group and its writers, the reverse configs with their clients,  *)
(* the choice of a proxy in a group, and a member's health record.  They   *)
(* share no state: a behaviour follows one of them, `part'.                *)
(***************************************************************************)
EXTENDS RuleStore, GroupStore, ReverseAdmin, ProxyGroup

VARIABLE part

configVars == <<part, ruleVars, groupVars, reverseVars, selectVars, recordVars>>

\* Groups that nest, share a nested group, form a cycle, or contain themselves.
CONSTANTS p1, p2, g1, g2, g3
MCLeaves == {p1, p2}
MCGroups == {g1, g2, g3}
Shape(a, b, c) == (g1 :> a) @@ (g2 :> b) @@ (g3 :> c)
MCShapes == {Shape(<<g2, p1>>, <<p2, g3>>, <<p1>>), Shape(<<g2, g3>>, <<g3>>, <<p1, p2>>),
             Shape(<<g2, p1>>, <<g1, p2>>, <<g3>>)}

\* What is not followed starts in one state.
Init ==
    /\ part \in {"rules", "group", "reverse", "select", "record"}
    /\ RuleInit /\ GroupInit /\ ReverseInit /\ SelectInit /\ RecordInit
    /\ part # "select" => /\ shape = CHOOSE s \in Shapes : TRUE
                          /\ type = [g \in Groups |-> "best"]

Next ==
    \/ part = "rules" /\ RuleNext /\ UNCHANGED <<part, groupVars, reverseVars, selectVars, recordVars>>
    \/ part = "group" /\ GroupNext /\ UNCHANGED <<part, ruleVars, reverseVars, selectVars, recordVars>>
    \/ part = "reverse" /\ ReverseNext /\ UNCHANGED <<part, ruleVars, groupVars, selectVars, recordVars>>
    \/ part = "select" /\ SelectNext /\ UNCHANGED <<part, ruleVars, groupVars, reverseVars, recordVars>>
    \/ part = "record" /\ RecordNext /\ UNCHANGED <<part, ruleVars, groupVars, reverseVars, selectVars>>

Spec == Init /\ [][Next]_configVars
=============================================================================

----------------------------- MODULE ProxyGroup -----------------------------
(***************************************************************************)
(* How a proxy group picks a proxy: the three strategies, nested groups    *)
(* that may form a cycle, and the health record of a member, which         *)
(* periodic checks change with hysteresis and manual tests at once.        *)
(***************************************************************************)
EXTENDS Naturals, Sequences, SequencesExt, FiniteSets

CONSTANTS Leaves,     \* proxies and subscription nodes
          Groups,     \* names of groups
          Shapes,     \* member lists of the groups to look at
          FailAt,     \* healthFailThreshold
          OkAt        \* healthSuccessThreshold

ASSUME SelectAssumption ==
    /\ FailAt \in Nat \ {0} /\ OkAt \in Nat \ {0} /\ Leaves \cap Groups = {}
    /\ \A s \in Shapes : s \in [Groups -> Seq(Leaves \union Groups)]

Kinds_ == {"select", "load-balance", "best"}
Nil == "nil"

VARIABLES shape,      \* member list of every group
          type,       \* strategy of every group
          verdict,    \* per group and member: "new", "fast", "slow" or "dead"
          turn,       \* per group: the round-robin counter, modulo the longest list
          member,     \* one member's health record
          recent      \* the last result and how often in a row it came

selectVars == <<shape, type, verdict, turn>>
recordVars == <<member, recent>>

\* Lists have one or two members.
Longest == 2
Fresh == [seen |-> FALSE, alive |-> FALSE, fails |-> 0, oks |-> 0]

SelectInit ==
    /\ shape \in Shapes
    /\ type \in [Groups -> Kinds_]
    /\ verdict = [g \in Groups |-> [m \in Range(shape[g]) |-> "new"]]
    /\ turn = [g \in Groups |-> 0]

RecordInit == member = Fresh /\ recent = [ok |-> FALSE, run |-> 0]

-----------------------------------------------------------------------------
(* Picking a member of a list.  The result is the member and the counter.  *)

\* The chosen member is the last one of the list when nothing else is said.
NextSelectMember(g, list) ==
    LET active == Last(shape[g]) IN IF active \in Range(list) THEN active ELSE Head(list)

\* Counts from a position that is not moved past the dead ones.
NextRoundRobinAliveMember_Stuck(g, list, t) ==
    LET n == Len(list) IN
    IF \A m \in Range(list) : verdict[g][m] = "dead" THEN [m |-> Nil, t |-> t + n]
    ELSE [m |-> SelectSeq(list, LAMBDA m : verdict[g][m] # "dead")[1], t |-> t + 1]

NextRoundRobinAliveMember(g, list, t) ==
    LET n == Len(list)
        at_(k) == list[((t + k) % n) + 1]
        live == {k \in 0..(n - 1) : verdict[g][at_(k)] # "dead"}
        k == CHOOSE j \in live : \A i \in live : j <= i
    IN IF live = {} THEN [m |-> Nil, t |-> t + n] ELSE [m |-> at_(k), t |-> t + k + 1]

NextByHealthMember(g, list) ==
    LET first(S) == SelectSeq(list, LAMBDA m : verdict[g][m] \in S)
    IN IF first({"fast"}) # <<>> THEN first({"fast"})[1]
       ELSE IF first({"slow"}) # <<>> THEN first({"slow"})[1]
       ELSE IF first({"new"}) # <<>> THEN first({"new"})[1] ELSE Nil

PickMember(g, list, t) ==
    CASE type[g] = "select" -> [m |-> NextSelectMember(g, list), t |-> t]
      [] type[g] = "load-balance" -> NextRoundRobinAliveMember(g, list, t)
      [] type[g] = "best" -> [m |-> NextByHealthMember(g, list), t |-> t]

-----------------------------------------------------------------------------
(* Picking a proxy.  `v' is the set of groups visited, shared by the whole  *)
(* search, `ts' the counters.                                              *)

Failing(r) == r.proxy = Nil

RECURSIVE NextWithVisited(_, _, _), TryMembers(_, _, _, _)

TryMembers(g, list, v, ts) ==
    IF list = <<>> THEN [proxy |-> Nil, v |-> v, ts |-> ts]
    ELSE LET pick == PickMember(g, list, ts[g])
             ts2 == [ts EXCEPT ![g] = pick.t]
             inner == NextWithVisited(pick.m, v, ts2)
         IN IF pick.m = Nil THEN [proxy |-> Nil, v |-> v, ts |-> ts2]
            ELSE IF pick.m \in Leaves THEN [proxy |-> pick.m, v |-> v, ts |-> ts2]
            ELSE IF ~Failing(inner) THEN inner
            ELSE TryMembers(g, RemoveAt(list, CHOOSE k \in DOMAIN list : list[k] = pick.m), inner.v, inner.ts)

NextWithVisited(g, v, ts) ==
    IF g \in v THEN [proxy |-> Nil, v |-> v, ts |-> ts]
    ELSE TryMembers(g, shape[g], v \union {g}, ts)

-----------------------------------------------------------------------------
(* Health records.                                                         *)

\* A periodic check: the first result counts at once, later ones after a run.
SetHealth(ok) ==
    LET oks == IF ok THEN member.oks + 1 ELSE 0
        fails == IF ok THEN 0 ELSE member.fails + 1
        flips == ~member.seen \/ (ok /\ ~member.alive /\ oks >= OkAt) \/ (~ok /\ member.alive /\ fails >= FailAt)
    IN member' = [seen |-> TRUE, alive |-> IF flips THEN ok ELSE member.alive, fails |-> fails, oks |-> oks]

SetHealthImmediate(ok) ==
    member' = [seen |-> TRUE, alive |-> ok, fails |-> IF ok THEN 0 ELSE member.fails + 1,
               oks |-> IF ok THEN member.oks + 1 ELSE 0]

Noted(ok) == recent' = [ok |-> ok, run |-> IF recent.run > 0 /\ recent.ok = ok THEN recent.run + 1 ELSE 1]

\* Bound: results of a run.
InBound == recent.run <= FailAt + 1

Check(ok) == InBound /\ SetHealth(ok) /\ Noted(ok)
Test(ok) == InBound /\ SetHealthImmediate(ok) /\ Noted(ok)

RecordNext == \E ok \in BOOLEAN : Check(ok) \/ Test(ok)

-----------------------------------------------------------------------------
(* A routed connection asks a group; checks change the verdicts.           *)

Ask(g) ==
    /\ turn' = [h \in Groups |-> NextWithVisited(g, {}, turn).ts[h] % Longest]
    /\ UNCHANGED <<shape, type, verdict>>

Learn(g, m, x) ==
    /\ m \in DOMAIN verdict[g]
    /\ verdict' = [verdict EXCEPT ![g][m] = x]
    /\ UNCHANGED <<shape, type, turn>>

SelectNext ==
    \/ \E g \in Groups : Ask(g)
    \/ \E g \in Groups, m \in Leaves \union Groups, x \in {"fast", "slow", "dead"} : Learn(g, m, x)

-----------------------------------------------------------------------------
(* Properties.                                                             *)

\* What a group may answer: the proxies that are reached through members that
\* are not known to be dead (a select group ignores health).
Open(g) == {m \in Range(shape[g]) : type[g] = "select" \/ verdict[g][m] # "dead"}

RECURSIVE Within(_, _)
Within(S, n) == IF n = 0 THEN S ELSE Within(S \union UNION {Open(g) : g \in S \intersect Groups}, n - 1)

Answers(g) == Within({g}, Cardinality(Groups)) \intersect Leaves

\* With nested groups, shared ones and cycles, a group answers with a proxy
\* that it may answer with, and answers nothing only when there is none: the
\* search ends on a cycle and a nested group without a live member makes it
\* look further.
SelectionExact ==
    \A g \in Groups : LET p == NextWithVisited(g, {}, turn).proxy
                      IN IF p = Nil THEN Answers(g) = {} ELSE p \in Answers(g)

\* A load-balance group of proxies uses each live one in turn: two
\* consecutive picks differ when two of its members are alive.
Rotates ==
    \A g \in Groups :
        type[g] = "load-balance" /\ Range(shape[g]) \subseteq Leaves /\ Cardinality(Open(g)) > 1
            => NextWithVisited(g, {}, turn).proxy
                 # NextWithVisited(g, {}, NextWithVisited(g, {}, turn).ts).proxy

\* Periodic checks change a known verdict only at the end of a run of the
\* opposite result as long as the threshold, and do change it then.
Hysteresis ==
    /\ [][\A ok \in BOOLEAN : Check(ok) /\ member.seen /\ member'.alive # member.alive
              => recent'.run >= IF ok THEN OkAt ELSE FailAt]_recordVars
    /\ [](member.seen /\ recent.run >= (IF recent.ok THEN OkAt ELSE FailAt) => member.alive = recent.ok)

\* SelectionRight: the member taken is the one its mode says, turns go round, and health
\* changes only after as many equal results as it takes.
SelectionRight == [](SelectionExact /\ Rotates) /\ Hysteresis
=============================================================================

------------------------------ MODULE RuleStore ------------------------------
(***************************************************************************)
(* The routing rules and what they name: the rules in the database (an     *)
(* identifier counter, an order, one record per rule), the proxies and the *)
(* other records that name a proxy, and the rules of the running matcher,  *)
(* which the database's change notifications keep up to date and in front  *)
(* of which control sessions put rules of their own.  An admin request     *)
(* holds the server's lock from its first read to the end of the           *)
(* synchronous notification: it is one step.                               *)
(***************************************************************************)
EXTENDS Naturals, Sequences, SequencesExt, FiniteSets, SeqFilter

CONSTANTS Names,      \* names of proxies
          Holders,    \* groups, mappings and reverse configs that may name a proxy
          Sessions,   \* control sessions that add a rule to the matcher
          MaxRules    \* bound: rules ever inserted

ASSUME RuleAssumption == MaxRules \in Nat /\ Names # {} /\ Names \cap Holders = {}

NoName == "-"
Ids == 1..MaxRules

VARIABLES nextId,     \* the next identifier to give
          order,      \* identifiers, in the order the rules are tried
          rules,      \* identifier -> [target, on]; "//" in front of a rule turns it off
          stored,     \* name -> [via, on] of the proxies in the database
          holds,      \* holder -> the proxy it names
          matching,   \* the matcher's compiled rules
          known,      \* the proxies the matcher knows
          toggled     \* rules that were ever turned off

ruleVars == <<nextId, order, rules, stored, holds, matching, known, toggled>>

RuleInit ==
    /\ nextId = 1 /\ order = <<>> /\ rules = <<>> /\ toggled = {}
    /\ stored = [n \in {} |-> 0] /\ known = {}
    /\ holds = [h \in Holders |-> NoName]
    /\ matching = <<>>

-----------------------------------------------------------------------------
(* What the matcher compiles: a rule that is turned off has no matcher.    *)

Targets(ids, table) ==
    LET live == Only(ids, {i \in DOMAIN table : table[i].on})
    IN [k \in DOMAIN live |-> [from |-> "rule", what |-> table[live[k]].target]]

\* The notification of a change of the rules reads all of them again; what
\* control sessions added is not among them.
Reload(ids, table) == matching' = Targets(ids, table)

-----------------------------------------------------------------------------
(* Rules.                                                                  *)

Insert(id, after) ==
    IF after = 0 THEN <<id>> \o order
    ELSE LET p == CHOOSE k \in DOMAIN order : order[k] = after IN InsertAt(order, p + 1, id)

\* A position that does not exist fails the transaction: nothing is written.
PostRule(t, after) ==
    /\ nextId <= MaxRules
    /\ after = 0 \/ after \in Range(order)
    /\ rules' = [i \in DOMAIN rules \union {nextId} |-> IF i = nextId THEN [target |-> t, on |-> TRUE] ELSE rules[i]]
    /\ order' = Insert(nextId, after)
    /\ nextId' = nextId + 1
    /\ Reload(order', rules')
    /\ UNCHANGED <<stored, holds, known, toggled>>

AppendRule(t) ==
    /\ nextId <= MaxRules
    /\ rules' = [i \in DOMAIN rules \union {nextId} |-> IF i = nextId THEN [target |-> t, on |-> TRUE] ELSE rules[i]]
    /\ order' = Append(order, nextId)
    /\ nextId' = nextId + 1
    /\ Reload(order', rules')
    /\ UNCHANGED <<stored, holds, known, toggled>>

PutRule(i, t) ==
    /\ i \in DOMAIN rules
    /\ rules' = [rules EXCEPT ![i] = [target |-> t, on |-> TRUE]]
    /\ Reload(order, rules')
    /\ UNCHANGED <<nextId, order, stored, holds, known, toggled>>

DeleteRule(i) ==
    /\ i \in DOMAIN rules
    /\ rules' = [j \in DOMAIN rules \ {i} |-> rules[j]]
    /\ order' = Only(order, Range(order) \ {i})
    /\ Reload(order', rules')
    /\ UNCHANGED <<nextId, stored, holds, known, toggled>>

ToggleRule(i) ==
    /\ i \in DOMAIN rules
    /\ rules' = [rules EXCEPT ![i].on = ~@]
    /\ toggled' = toggled \union {i}
    /\ Reload(order, rules')
    /\ UNCHANGED <<nextId, order, stored, holds, known>>

-----------------------------------------------------------------------------
(* Proxies and the records that name them.                                 *)

References_NoVia(n) == {i \in DOMAIN rules : rules[i].on /\ rules[i].target = n} \union {h \in Holders : holds[h] = n}

\* A rule that is turned off starts with "//" and is not counted.
References(n) ==
    {i \in DOMAIN rules : rules[i].on /\ rules[i].target = n}
        \union {h \in Holders : holds[h] = n} \union {p \in DOMAIN stored : stored[p].via = n}

\* The notification of a change of a proxy.
ProxySeen(n) == known' = known \union {n}
ProxyGone(n) == known' = known \ {n}

PostProxy(n, v) ==
    /\ v \in (DOMAIN stored \ {n}) \union {NoName}
    /\ stored' = [p \in DOMAIN stored \union {n} |-> IF p = n THEN [via |-> v, on |-> TRUE] ELSE stored[p]]
    /\ ProxySeen(n)
    /\ UNCHANGED <<nextId, order, rules, holds, matching, toggled>>

DeleteProxy(n) ==
    /\ n \in DOMAIN stored
    /\ References(n) = {}
    /\ stored' = [p \in DOMAIN stored \ {n} |-> stored[p]]
    /\ ProxyGone(n)
    /\ UNCHANGED <<nextId, order, rules, holds, matching, toggled>>

ToggleProxy(n) ==
    /\ n \in DOMAIN stored
    /\ stored[n].on => References(n) = {}
    /\ stored' = [stored EXCEPT ![n].on = ~@]
    /\ ProxySeen(n)
    /\ UNCHANGED <<nextId, order, rules, holds, matching, toggled>>

\* A group, a mapping or a reverse config is saved with a proxy that exists,
\* or removed.
Hold(h, n) ==
    /\ n \in DOMAIN stored \union {NoName}
    /\ holds[h] # n
    /\ holds' = [holds EXCEPT ![h] = n]
    /\ UNCHANGED <<nextId, order, rules, stored, matching, known, toggled>>

-----------------------------------------------------------------------------
(* Control sessions change the matcher only.                               *)

AddRule(s) ==
    /\ \A k \in DOMAIN matching : matching[k].from # "session" \/ matching[k].what # s
    /\ matching' = <<[from |-> "session", what |-> s]>> \o matching
    /\ UNCHANGED <<nextId, order, rules, stored, holds, known, toggled>>

RemoveRule(s) ==
    /\ \E k \in DOMAIN matching : matching[k].from = "session" /\ matching[k].what = s
    /\ matching' = Only(matching, {r \in Range(matching) : r.from # "session" \/ r.what # s})
    /\ UNCHANGED <<nextId, order, rules, stored, holds, known, toggled>>

RuleNext ==
    \/ \E t \in DOMAIN stored :
          \/ \E a \in {0} \union Ids : PostRule(t, a)
          \/ AppendRule(t)
          \/ \E i \in Ids : PutRule(i, t)
    \/ \E i \in Ids : DeleteRule(i) \/ ToggleRule(i)
    \/ \E n \in Names : \/ \E v \in Names \union {NoName} : PostProxy(n, v)
                        \/ DeleteProxy(n) \/ ToggleProxy(n)
    \/ \E h \in Holders, n \in Names \union {NoName} : Hold(h, n)
    \/ \E s \in Sessions : AddRule(s) \/ RemoveRule(s)

RuleSpec == RuleInit /\ [][RuleNext]_ruleVars

-----------------------------------------------------------------------------
(* Properties.                                                             *)

\* The order lists every stored rule once, and no other, after any sequence of
\* insertions at positions that exist or do not, edits and deletions:
\* ListRulesWithIDs skips a missing rule and nothing would show a rule that the
\* order lost.
RuleIndex ==
    /\ Range(order) = DOMAIN rules /\ IsInjective(order)
    /\ \A i \in DOMAIN rules : i < nextId

\* The rules are tried in an order only the administrator changes: whatever is
\* inserted, edited or deleted, the rules that stay keep their places
\* relative to one another, and no identifier is given twice.
OrderKept ==
    [][/\ \A i, j \in DOMAIN rules \intersect DOMAIN rules' :
             (\E a, b \in DOMAIN order : a < b /\ order[a] = i /\ order[b] = j)
                => \E a, b \in DOMAIN order' : a < b /\ order'[a] = i /\ order'[b] = j
       /\ \A i \in DOMAIN rules' \ DOMAIN rules : i >= nextId /\ i < nextId']_ruleVars

\* The matcher routes by what is stored: without the rules of the control
\* sessions, its list is the stored rules that are on, in the stored order.
MatcherFollows == Only(matching, {r \in Range(matching) : r.from = "rule"}) = Targets(order, rules)

\* A proxy that something still names is never gone: not one a rule names
\* (unless the rule has been turned off, which hides it from the search), nor
\* one of a group, a mapping, a reverse config or another proxy's chain.
NoDangling ==
    /\ \A i \in DOMAIN rules \ toggled : rules[i].target \in known
    /\ \A h \in Holders : holds[h] \in DOMAIN stored \union {NoName}
    /\ \A p \in DOMAIN stored : stored[p].via \in known \union {NoName}
    /\ known = DOMAIN stored

\* Any rule, one that has been off included, that is on names a proxy that
\* exists.
RulesResolve == \A i \in DOMAIN rules : rules[i].on => rules[i].target \in DOMAIN stored

\* A rule a control session added stays until that session removes it.
SessionRulesStay ==
    [][\A s \in Sessions : (\E k \in DOMAIN matching : matching[k] = [from |-> "session", what |-> s])
            => RemoveRule(s) \/ \E k \in DOMAIN matching' : matching'[k] = [from |-> "session", what |-> s]]_ruleVars

\* RulesRight: positions and index agree, the matcher has the stored rules, no stored
\* object refers to one that is gone, and an edit keeps the order of all other rules.
RulesRight == [](RuleIndex /\ MatcherFollows /\ NoDangling) /\ OrderKept
=============================================================================

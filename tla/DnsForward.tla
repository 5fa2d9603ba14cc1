----------------------------- MODULE DnsForward -----------------------------
(***************************************************************************)
(* The DNS hijacker of a node (mesh/dns.go): queries are read into a       *)
(* bounded queue; workers answer from the cache or the local pool, or hand *)
(* a name that another node serves to that node and register the client as *)
(* a waiter; a listener takes the answers, caches them and answers all who *)
(* wait for the name, and sweeps those who have waited too long; Stop      *)
(* answers the rest.                                                       *)
(*                                                                         *)
(* A name another node serves has one address; names served locally are    *)
(* looked up in the pool of FakeIpPool.  What is asked of the other node   *)
(* may be lost, answered late or answered twice.                           *)
(***************************************************************************)
EXTENDS SeqFilter, Naturals, Sequences, FiniteSets, SequencesExt

CONSTANTS
    Queries,    \* clients' queries
    NameOf,     \* query -> name
    RemoteNames, \* names another node serves
    EmptyAnswer, \* queries of type AAAA
    DnsWorkers,
    QueueCap,   \* length of dnsQueryCh
    MaxOdd,     \* answers that come twice and cache entries that expire
    MayStopDns

ASSUME DnsAssumption == IsFiniteSet(Queries)

VARIABLES
    where,    \* where each query is: new, queue, worker, waits, gone
    queue,    \* dnsQueryCh
    doing,    \* worker -> [q, t], t the step it is at
    pending,  \* pendingQueries: the waiters in the order of registration
    cached,   \* names in the cache
    asked, answers, \* on the way to the other node and back: names
    listener, \* [t, name, todo]: what forwarderListener is doing
    answered, \* query -> answers sent: sequence of "ip", "empty", "fail"
    failed,   \* queries whose write to the other node failed
    sock,     \* forwarderSocket: "open", "closed"
    stop,     \* where Stop is: no, drain, answer, done
    rest,     \* waiters Stop has taken
    odd       \* how often that has happened

dnsVars == <<where, queue, doing, pending, cached, asked, answers, listener, answered, failed, sock, stop, rest, odd>>

Free_ == [q |-> 0, t |-> "free"]
Reading_ == [t |-> "read", name |-> 0, todo |-> <<>>]
Open_ == stop # "done"

\* A write to the client: lost once udpEP is closed.
Tell(c, a) == answered' = IF Open_ THEN [answered EXCEPT ![c] = Append(@, a)] ELSE answered
Next_(w, t) == doing' = [doing EXCEPT ![w].t = t]
Release(w) == doing' = [doing EXCEPT ![w] = Free_]

-----------------------------------------------------------------------------
(* serveLoop and the workers. *)

\* A query arrives; a full queue drops it.
Serve(c) ==
    /\ where[c] = "new" /\ Open_
    /\ \/ Len(queue) < QueueCap /\ queue' = Append(queue, c) /\ where' = [where EXCEPT ![c] = "queue"]
       \/ Len(queue) = QueueCap /\ where' = [where EXCEPT ![c] = "gone"] /\ UNCHANGED queue
    /\ UNCHANGED <<doing, pending, cached, asked, answers, listener, answered, failed, sock, stop, rest, odd>>

\* dnsWorkerLoop; at closeCh the workers end, here with the next query at the latest.
Take(w) ==
    /\ doing[w] = Free_ /\ queue # <<>> /\ Open_
    /\ queue' = Tail(queue) /\ doing' = [doing EXCEPT ![w] = [q |-> Head(queue), t |-> "process"]]
    /\ where' = [where EXCEPT ![Head(queue)] = "worker"]
    /\ UNCHANGED <<pending, cached, asked, answers, listener, answered, failed, sock, stop, rest, odd>>

\* processQuery: AAAA, cache, another node, or the local pool.
ProcessQuery(w) ==
    LET c == doing[w].q IN
    /\ doing[w].t = "process"
    /\ \/ /\ c \in EmptyAnswer /\ Tell(c, "empty") /\ Release(w) /\ where' = [where EXCEPT ![c] = "gone"]
       \/ /\ c \notin EmptyAnswer /\ (NameOf[c] \in cached \/ NameOf[c] \notin RemoteNames)
          /\ Tell(c, "ip") /\ Release(w) /\ where' = [where EXCEPT ![c] = "gone"]
       \/ /\ c \notin EmptyAnswer /\ NameOf[c] \notin cached /\ NameOf[c] \in RemoteNames
          /\ Next_(w, "forward") /\ UNCHANGED <<answered, where>>
    /\ UNCHANGED <<queue, pending, cached, asked, answers, listener, failed, sock, stop, rest, odd>>

\* forwardToRemoteAsync: the cache once more, then the socket.
Forward(w) ==
    LET c == doing[w].q IN
    /\ doing[w].t = "forward"
    /\ \/ NameOf[c] \in cached /\ Tell(c, "ip") /\ Release(w) /\ where' = [where EXCEPT ![c] = "gone"]
       \/ NameOf[c] \notin cached /\ sock = "closed" /\ Tell(c, "fail") /\ Release(w) /\ where' = [where EXCEPT ![c] = "gone"]
       \/ NameOf[c] \notin cached /\ sock = "open" /\ Next_(w, "register") /\ UNCHANGED <<answered, where>>
    /\ UNCHANGED <<queue, pending, cached, asked, answers, listener, failed, sock, stop, rest, odd>>

\* The client becomes a waiter.
RegisterWaiter(w) ==
    LET c == doing[w].q IN
    /\ doing[w].t = "register" /\ pending' = Append(pending, c) /\ where' = [where EXCEPT ![c] = "waits"]
    /\ Next_(w, "write")
    /\ UNCHANGED <<queue, cached, asked, answers, listener, answered, failed, sock, stop, rest, odd>>

\* The query goes out on the socket the worker read before, which may be closed by
\* now; or the write fails.
WriteQuery(w) ==
    LET c == doing[w].q IN
    /\ doing[w].t = "write"
    /\ \/ sock = "open" /\ asked' = asked \cup {NameOf[c]} /\ Release(w) /\ UNCHANGED failed
       \/ failed' = failed \cup {c} /\ Next_(w, "remove") /\ UNCHANGED asked
    /\ UNCHANGED <<where, queue, pending, cached, answers, listener, answered, sock, stop, rest, odd>>

\* Only the own entry goes, if it is still there.
Others(c) == Only(pending, Queries \ {c})

\* The write failed: the waiter is removed and the client told.
RemoveWaiter(w) ==
    LET c == doing[w].q IN
    /\ doing[w].t = "remove" /\ pending' = Others(c)
    /\ where' = [where EXCEPT ![c] = "gone"] /\ Tell(c, "fail") /\ Release(w)
    /\ UNCHANGED <<queue, cached, asked, answers, listener, failed, sock, stop, rest, odd>>

-----------------------------------------------------------------------------
(* The other node. *)

RemoteAnswer(n) ==
    /\ n \in asked /\ asked' = asked \ {n} /\ answers' = answers \cup {n}
    /\ UNCHANGED <<where, queue, doing, pending, cached, listener, answered, failed, sock, stop, rest, odd>>

LoseQuery(n) ==
    /\ n \in asked /\ asked' = asked \ {n}
    /\ UNCHANGED <<where, queue, doing, pending, cached, answers, listener, answered, failed, sock, stop, rest, odd>>

\* The answer comes again.
Repeat(n) ==
    /\ n \in cached \ answers /\ odd < MaxOdd /\ odd' = odd + 1 /\ answers' = answers \cup {n}
    /\ UNCHANGED <<where, queue, doing, pending, cached, asked, listener, answered, failed, sock, stop, rest>>

\* The entry's time to live is over.
Expire(n) ==
    /\ n \in cached /\ odd < MaxOdd /\ odd' = odd + 1 /\ cached' = cached \ {n}
    /\ UNCHANGED <<where, queue, doing, pending, asked, answers, listener, answered, failed, sock, stop, rest>>

-----------------------------------------------------------------------------
(* forwarderListener and sweepPending, one goroutine. *)

\* An answer is read and cached.
ReadAnswer(n) ==
    /\ listener.t = "read" /\ sock = "open" /\ n \in answers /\ answers' = answers \ {n}
    /\ cached' = cached \cup {n} /\ listener' = [t |-> "take", name |-> n, todo |-> <<>>]
    /\ UNCHANGED <<where, queue, doing, pending, asked, answered, failed, sock, stop, rest, odd>>

WaitersOf(n) == Only(pending, {c \in Queries : NameOf[c] = n})

\* Mutant: they are left in the map.
TakeWaiters_Keeps ==
    /\ listener.t = "take"
    /\ listener' = [t |-> "ip", name |-> listener.name, todo |-> WaitersOf(listener.name)]
    /\ UNCHANGED <<where, queue, doing, pending, cached, asked, answers, answered, failed, sock, stop, rest, odd>>

\* All who wait for the name are taken from the map.
TakeWaiters ==
    /\ listener.t = "take"
    /\ listener' = [t |-> "ip", name |-> listener.name, todo |-> WaitersOf(listener.name)]
    /\ pending' = Only(pending, {c \in Queries : NameOf[c] # listener.name})
    /\ UNCHANGED <<where, queue, doing, cached, asked, answers, answered, failed, sock, stop, rest, odd>>

\* The waiters of more than five seconds: the first k.
Expired(k) == SubSeq(pending, 1, k)

\* sweepPending.
SweepPending(k) ==
    /\ listener.t = "read" /\ sock = "open" /\ k <= Len(pending)
    /\ listener' = [t |-> "fail", name |-> 0, todo |-> Expired(k)]
    /\ pending' = SubSeq(pending, k + 1, Len(pending))
    /\ UNCHANGED <<where, queue, doing, cached, asked, answers, answered, failed, sock, stop, rest, odd>>

\* The listener answers one of those it has taken, and then goes on reading.
TellWaiter ==
    /\ listener.t \in {"ip", "fail"}
    /\ \/ /\ listener.todo # <<>>
          /\ Tell(Head(listener.todo), listener.t)
          /\ where' = [where EXCEPT ![Head(listener.todo)] = "gone"]
          /\ listener' = [listener EXCEPT !.todo = Tail(@)]
       \/ listener.todo = <<>> /\ listener' = Reading_ /\ UNCHANGED <<answered, where>>
    /\ UNCHANGED <<queue, doing, pending, cached, asked, answers, failed, sock, stop, rest, odd>>

-----------------------------------------------------------------------------
(* Stop. *)

StopForwarder ==
    /\ MayStopDns /\ stop = "no" /\ stop' = "drain" /\ sock' = "closed"
    /\ UNCHANGED <<where, queue, doing, pending, cached, asked, answers, listener, answered, failed, rest, odd>>

Drained == pending

DrainPending ==
    /\ stop = "drain" /\ stop' = "answer" /\ rest' = Drained
    /\ pending' = Only(pending, Queries \ ToSet(Drained))
    /\ UNCHANGED <<where, queue, doing, cached, asked, answers, listener, answered, failed, sock, odd>>

TellRest ==
    /\ stop = "answer"
    /\ \/ /\ rest # <<>> /\ Tell(Head(rest), "fail") /\ rest' = Tail(rest)
          /\ where' = [where EXCEPT ![Head(rest)] = "gone"] /\ UNCHANGED stop
       \/ rest = <<>> /\ stop' = "done" /\ UNCHANGED <<answered, rest, where>>
    /\ UNCHANGED <<queue, doing, pending, cached, asked, answers, listener, failed, sock, odd>>

DnsInit ==
    /\ where = [c \in Queries |-> "new"] /\ queue = <<>> /\ doing = [w \in DnsWorkers |-> Free_]
    /\ pending = <<>> /\ cached = {} /\ asked = {} /\ answers = {} /\ listener = Reading_
    /\ answered = [c \in Queries |-> <<>>] /\ failed = {} /\ sock = "open" /\ stop = "no" /\ rest = <<>>
    /\ odd = 0

WorkerStep(w) == ProcessQuery(w) \/ Forward(w) \/ RegisterWaiter(w) \/ WriteQuery(w) \/ RemoveWaiter(w)
ListenerStep == TakeWaiters \/ TellWaiter
StopStep == DrainPending \/ TellRest
DnsNext ==
    \/ \E c \in Queries : Serve(c)
    \/ \E w \in DnsWorkers : Take(w) \/ WorkerStep(w)
    \/ \E n \in RemoteNames : RemoteAnswer(n) \/ LoseQuery(n) \/ Repeat(n) \/ Expire(n) \/ ReadAnswer(n)
    \/ \E k \in 1..Cardinality(Queries) : SweepPending(k)
    \/ ListenerStep \/ StopForwarder \/ StopStep

\* Safety part of the specification.
DnsSpec == DnsInit /\ [][DnsNext]_dnsVars

-----------------------------------------------------------------------------
(* Properties. *)

\* AnsweredOnce: a query is answered once, whichever of worker, listener, sweep and
\* Stop gets to it; only if its write to the other node fails while the listener
\* or Stop has already taken it is a second answer sent, and one is SERVFAIL.
AnsweredOnce ==
    \A c \in Queries : Len(answered[c]) <= IF c \in failed /\ "fail" \in Range(answered[c]) THEN 2 ELSE 1

\* NobodyForgotten: a query that has been read and is over was answered, unless it
\* was dropped at a full queue or the client's socket was closed under it.
Held(c) ==
    \/ \E w \in DnsWorkers : doing[w].q = c
    \/ c \in {queue[i] : i \in DOMAIN queue} \cup {pending[i] : i \in DOMAIN pending}
             \cup {rest[i] : i \in DOMAIN rest} \cup {listener.todo[i] : i \in DOMAIN listener.todo}
NobodyForgotten ==
    \A c \in Queries : where[c] \in {"worker", "waits"} /\ Open_ /\ answered[c] = <<>> => Held(c)

\* ShutdownDrains: when Stop is over and the workers have ended, nobody waits in the
\* map any more, where nobody would sweep it.
ShutdownDrains == stop = "done" /\ (\A w \in DnsWorkers : doing[w] = Free_) => pending = <<>>

\* WaitersServed: a client does not wait for ever, whether or not its question or
\* the answer is lost.
WaitersServed == \A c \in Queries : []<>(where[c] # "waits")

\* DnsRight: a query is answered once, none is forgotten, Stop leaves no waiter, and
\* nobody waits for ever.
DnsRight == [](AnsweredOnce /\ NobodyForgotten /\ ShutdownDrains) /\ WaitersServed
=============================================================================

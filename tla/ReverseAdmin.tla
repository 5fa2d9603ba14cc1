---------------------------- MODULE ReverseAdmin ----------------------------
(***************************************************************************)
(* Reverse configs and mappings: the records in the database, the admin    *)
(* requests that change them, the callbacks that bring the runtime in line *)
(* (after the server's lock has been released, on tables nothing guards),  *)
(* and the reverse clients, which keep a session with a registry until     *)
(* their stop channel is closed and write its state into the record.       *)
(***************************************************************************)
EXTENDS Naturals, FiniteSets

CONSTANTS Confs,        \* names of reverse configs
          Maps,         \* names of mappings
          Requests,     \* admin requests that may run at the same time
          MaxChanges,   \* bound: admin requests
          MaxSessions,  \* bound: sessions the clients start, over all of them
          RenameOnto    \* a config may be given the name of another one

ASSUME ReverseAssumption ==
    /\ MaxChanges \in Nat /\ MaxSessions \in Nat /\ RenameOnto \in BOOLEAN
    /\ "-" \notin Confs \cup Maps     \* no record has an empty name

None_ == [ver |-> 0, on |-> FALSE]
ClientIds == 1..MaxChanges
NoReq == [pc |-> "idle", old |-> "-", new |-> "-", rec |-> None_]

VARIABLES confs,      \* name -> stored config (None_: not stored)
          maps,       \* name -> stored mapping
          stops,      \* name -> the client whose stop channel the runtime keeps (0: none)
          listening,  \* mapping -> the version of the listener the runtime keeps (0: none)
          client,     \* the clients ever started
          req,        \* per request: where it is
          changes, sessions,
          wanted      \* name -> the last finished request wants a client

reverseVars == <<confs, maps, stops, listening, client, req, changes, sessions, wanted>>

Stored(table) == {n \in DOMAIN table : table[n] # None_}

Unborn == [name |-> "-", pc |-> "none", stopped |-> FALSE, copy |-> None_, then |-> "-"]

ReverseInit ==
    /\ confs = [n \in Confs |-> None_] /\ maps = [n \in Maps |-> None_]
    /\ stops = [n \in Confs |-> 0] /\ listening = [n \in Maps |-> 0]
    /\ client = [i \in ClientIds |-> Unborn]
    /\ req = [r \in Requests |-> NoReq]
    /\ changes = 0 /\ sessions = 0
    /\ wanted = [n \in Confs |-> FALSE]

-----------------------------------------------------------------------------
(* Requests on reverse configs.                                            *)

\* A new config gets a name that the list, read before the lock, does not have.
FreeName(n) == confs[n] = None_

PostReverse(r, n, on) ==
    /\ req[r].pc = "idle" /\ changes < MaxChanges
    /\ FreeName(n)
    /\ changes' = changes + 1
    /\ req' = [req EXCEPT ![r] = [pc |-> "post", old |-> "-", new |-> n, rec |-> [ver |-> changes + 1, on |-> on]]]
    /\ UNCHANGED <<confs, maps, stops, listening, client, sessions, wanted>>

PutReverse(r) ==
    /\ req[r].pc = "post"
    /\ confs' = [confs EXCEPT ![req[r].new] = req[r].rec]
    /\ wanted' = [wanted EXCEPT ![req[r].new] = req[r].rec.on]
    /\ req' = [req EXCEPT ![r].pc = "start"]
    /\ UNCHANGED <<maps, stops, listening, client, changes, sessions>>

\* The record of the old name stays where the name changes.
EditReverse(r, n, new, on) ==
    /\ req[r].pc = "idle" /\ changes < MaxChanges
    /\ confs[n] # None_
    /\ new # n => RenameOnto \/ (confs[new] = None_ /\ stops[new] = 0)
    /\ changes' = changes + 1
    /\ confs' = [confs EXCEPT ![new] = [ver |-> changes + 1, on |-> on]]
    /\ wanted' = [m \in Confs |-> IF m = new THEN on ELSE IF m = n THEN FALSE ELSE wanted[m]]
    /\ req' = [req EXCEPT ![r] = [pc |-> "stop", old |-> n, new |-> new, rec |-> confs'[new]]]
    /\ UNCHANGED <<maps, stops, listening, client, sessions>>

ToggleReverse(r, n, on) ==
    /\ req[r].pc = "idle" /\ changes < MaxChanges
    /\ confs[n] # None_
    /\ changes' = changes + 1
    /\ confs' = [confs EXCEPT ![n].on = on]
    /\ wanted' = [wanted EXCEPT ![n] = on]
    /\ req' = [req EXCEPT ![r] = [pc |-> "stop", old |-> n, new |-> n, rec |-> confs'[n]]]
    /\ UNCHANGED <<maps, stops, listening, client, sessions>>

DeleteReverse(r, n) ==
    /\ req[r].pc = "idle" /\ changes < MaxChanges
    /\ confs[n] # None_
    /\ changes' = changes + 1
    /\ confs' = [confs EXCEPT ![n] = None_]
    /\ wanted' = [wanted EXCEPT ![n] = FALSE]
    /\ req' = [req EXCEPT ![r] = [pc |-> "stop", old |-> n, new |-> "-", rec |-> None_]]
    /\ UNCHANGED <<maps, stops, listening, client, sessions>>

-----------------------------------------------------------------------------
(* OnReverseConfigUpdate: close the old name's stop channel, then start a  *)
(* client for the new config if it is enabled.                             *)

StopOld(r) ==
    LET n == req[r].old IN
    /\ req[r].pc = "stop"
    /\ client' = [i \in ClientIds |-> IF i = stops[n] THEN [client[i] EXCEPT !.stopped = TRUE] ELSE client[i]]
    /\ stops' = [stops EXCEPT ![n] = 0]
    /\ req' = [req EXCEPT ![r] = IF req[r].new = "-" THEN NoReq ELSE [req[r] EXCEPT !.pc = "start"]]
    /\ UNCHANGED <<confs, maps, listening, changes, sessions, wanted>>

StartNew(r) ==
    LET n == req[r].new
        c == CHOOSE i \in ClientIds : client[i].pc = "none"
    IN
    /\ req[r].pc = "start"
    /\ IF req[r].rec.on
       THEN /\ stops' = [stops EXCEPT ![n] = c]
            /\ client' = [client EXCEPT ![c] = [Unborn EXCEPT !.name = n, !.pc = "loop"]]
       ELSE UNCHANGED <<stops, client>>
    /\ req' = [req EXCEPT ![r] = NoReq]
    /\ UNCHANGED <<confs, maps, listening, changes, sessions, wanted>>

-----------------------------------------------------------------------------
(* A reverse client: startReverseClient and runReverseSession.             *)

ClientTo(i, pc) == client' = [client EXCEPT ![i].pc = pc]

\* Does not look at the stop channel before it starts.
RunSession_Blind(i, then) ==
    /\ client[i].pc = "loop" /\ sessions < MaxSessions
    /\ sessions' = sessions + 1
    /\ client' = [client EXCEPT ![i].pc = "get", ![i].then = then]
    /\ UNCHANGED <<confs, maps, stops, listening, req, changes, wanted>>

\* A session registers or fails; both are recorded in the database.
RunSession(i, then) ==
    /\ client[i].pc = "loop" /\ ~client[i].stopped /\ sessions < MaxSessions
    /\ sessions' = sessions + 1
    /\ client' = [client EXCEPT ![i].pc = "get", ![i].then = then]
    /\ UNCHANGED <<confs, maps, stops, listening, req, changes, wanted>>

\* The control connection is lost, or closed because the client is to stop.
SessionEnds(i) ==
    /\ client[i].pc = "up"
    /\ client' = [client EXCEPT ![i].pc = "get", ![i].then = "wait"]
    /\ UNCHANGED <<confs, maps, stops, listening, req, changes, sessions, wanted>>

\* PutReverseRuntime: the whole record is read, two fields are changed, and
\* the whole record is stored.
GetRuntime(i) ==
    LET c == client[i] IN
    /\ c.pc = "get"
    /\ client' = [client EXCEPT ![i] = IF confs[c.name] = None_ THEN [c EXCEPT !.pc = c.then, !.then = "-"]
                                       ELSE [c EXCEPT !.pc = "put", !.copy = confs[c.name]]]
    /\ UNCHANGED <<confs, maps, stops, listening, req, changes, sessions, wanted>>

PutRuntime(i) ==
    LET c == client[i] IN
    /\ c.pc = "put"
    /\ confs' = [confs EXCEPT ![c.name] = c.copy]
    /\ client' = [client EXCEPT ![i] = [c EXCEPT !.pc = c.then, !.copy = None_, !.then = "-"]]
    /\ UNCHANGED <<maps, stops, listening, req, changes, sessions, wanted>>

Reconnect(i) ==
    /\ client[i].pc = "wait" /\ ~client[i].stopped
    /\ ClientTo(i, "loop")
    /\ UNCHANGED <<confs, maps, stops, listening, req, changes, sessions, wanted>>

ClientGone(i) ==
    /\ client[i].pc \in {"loop", "wait"} /\ client[i].stopped
    /\ ClientTo(i, "gone")
    /\ UNCHANGED <<confs, maps, stops, listening, req, changes, sessions, wanted>>

-----------------------------------------------------------------------------
(* Requests on mappings and OnMappingUpdate; a bind may fail.              *)

PostMapping(r, m, on) ==
    /\ req[r].pc = "idle" /\ changes < MaxChanges
    /\ changes' = changes + 1
    /\ maps' = [maps EXCEPT ![m] = [ver |-> changes + 1, on |-> on]]
    /\ req' = [req EXCEPT ![r] = [pc |-> IF maps[m] = None_ THEN "listen" ELSE "unlisten", old |-> m, new |-> m, rec |-> maps'[m]]]
    /\ UNCHANGED <<confs, stops, listening, client, sessions, wanted>>

DeleteMapping(r, m) ==
    /\ req[r].pc = "idle" /\ changes < MaxChanges
    /\ maps[m] # None_
    /\ changes' = changes + 1
    /\ maps' = [maps EXCEPT ![m] = None_]
    /\ req' = [req EXCEPT ![r] = [pc |-> "unlisten", old |-> m, new |-> "-", rec |-> None_]]
    /\ UNCHANGED <<confs, stops, listening, client, sessions, wanted>>

\* The switch changes the record and nothing else.
ToggleMapping(r, m) ==
    /\ req[r].pc = "idle" /\ changes < MaxChanges
    /\ maps[m] # None_
    /\ changes' = changes + 1
    /\ maps' = [maps EXCEPT ![m].on = ~@]
    /\ UNCHANGED <<confs, stops, listening, client, req, sessions, wanted>>

Unlisten(r) ==
    /\ req[r].pc = "unlisten"
    /\ listening' = [listening EXCEPT ![req[r].old] = 0]
    /\ req' = [req EXCEPT ![r] = IF req[r].new = "-" THEN NoReq ELSE [req[r] EXCEPT !.pc = "listen"]]
    /\ UNCHANGED <<confs, maps, stops, client, changes, sessions, wanted>>

Listen(r) ==
    /\ req[r].pc = "listen"
    /\ \/ req[r].rec.on /\ listening' = [listening EXCEPT ![req[r].new] = req[r].rec.ver]
       \/ UNCHANGED listening
    /\ req' = [req EXCEPT ![r] = NoReq]
    /\ UNCHANGED <<confs, maps, stops, client, changes, sessions, wanted>>

ReverseNext ==
    \/ \E r \in Requests :
          \/ \E n \in Confs, on \in BOOLEAN : PostReverse(r, n, on) \/ ToggleReverse(r, n, on) \/ \E m \in Confs : EditReverse(r, n, m, on)
          \/ \E n \in Confs : DeleteReverse(r, n)
          \/ PutReverse(r) \/ StopOld(r) \/ StartNew(r)
          \/ \E m \in Maps : (\E on \in BOOLEAN : PostMapping(r, m, on)) \/ DeleteMapping(r, m) \/ ToggleMapping(r, m)
          \/ Unlisten(r) \/ Listen(r)
    \/ \E i \in ClientIds :
          \/ \E then \in {"up", "wait"} : RunSession(i, then)
          \/ SessionEnds(i) \/ GetRuntime(i) \/ PutRuntime(i) \/ Reconnect(i) \/ ClientGone(i)

ReverseSpec == ReverseInit /\ [][ReverseNext]_reverseVars

-----------------------------------------------------------------------------
(* Properties.                                                             *)

Settled == \A r \in Requests : req[r] = NoReq

Running(n) == {i \in ClientIds : client[i].name = n /\ client[i].pc \notin {"none", "gone"} /\ ~client[i].stopped}

\* With one request at a time, once its callback is done exactly the configs
\* that were last enabled have a client, one each, and the runtime holds the
\* stop channel of that one: no client runs that nothing can stop, whatever
\* the clients' own writes did to the records in between.
ClientsWanted ==
    Settled => \A n \in Confs : /\ Running(n) = IF wanted[n] THEN {stops[n]} ELSE {}
                                /\ ~wanted[n] => stops[n] = 0

\* A deleted mapping has no listener left, and a listener is one of the
\* version that was stored last or of an earlier one that was never replaced.
NoStrayListener == Settled => \A m \in Maps : listening[m] # 0 => maps[m] # None_ /\ listening[m] = maps[m].ver

\* A client whose stop channel is closed starts no further session and ends.
ToggledOffStays ==
    [][\A i \in ClientIds : client[i].stopped => /\ client'[i].stopped
                                                 /\ client'[i].pc = "get" => client[i].pc \in {"up", "get"}]_reverseVars

\* A client's write of its session's state changes only that: not whether the
\* config exists, is enabled, or what it says.
RuntimeFieldsOnly == [][\A i \in ClientIds : PutRuntime(i) => confs' = confs]_reverseVars

\* A mapping that is switched off has no listener.
ListenersFollow == Settled => \A m \in Maps : listening[m] # 0 => maps[m].on

\* ClientsRight: exactly the wanted reverse clients run, no listener is left over, and a
\* client switched off is not started by what was under way.
ClientsRight == [](ClientsWanted /\ NoStrayListener) /\ ToggledOffStays
=============================================================================

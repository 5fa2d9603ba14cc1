---------------------------- MODULE PackageSync ----------------------------
(***************************************************************************)
(* Distribution of signed packages through the mesh (admin/package.go).  A *)
(* package that is uploaded or received is stored and passed on to every   *)
(* connected peer; nodes also compare lists with their peers, fetch what   *)
(* they miss and delete what is beyond the retention; a node that stores a *)
(* newer version than it runs exits, and its watchdog starts the newest    *)
(* file.                                                                   *)
(*                                                                         *)
(* A copy is a file and a metadata record under one local id, random and   *)
(* so far unused.  One platform and architecture is followed, the groups   *)
(* being independent.  A package is known by its version and valid:        *)
(* verification rejects others before anything changes.                    *)
(***************************************************************************)
EXTENDS Naturals, FiniteSets, FiniteSetsExt

CONSTANTS
    Nodes,       \* mesh nodes
    Peers,       \* the connected pairs of nodes
    Upgrading,   \* nodes of the packages' platform and architecture
    Rank,        \* a version's place in the order of CompareVersions
    Retention,   \* packageRetention
    Starting,        \* the published versions each node starts with
    Uploadable, Removable, \* what administrators upload and remove, and where: pairs of a node and a version
    MaxUploads, MaxPublishes, MaxCopies,
    MaxMishaps   \* removals by an administrator, lost posts, failed saves and crashes, together

VARIABLES
    pkgFiles,   \* the .pkg files of each node: id, ver
    meta,    \* BucketPackages of each node: id, ver, pub
    jobs,    \* copies being stored: kind, from, ver, at, id
    posts,   \* packages on their way: from, to, ver
    sync,    \* syncFromPeer on each node
    retaining, \* nodes with an applyRetention to run
    exiting, \* nodes with the timer of checkForNewerVersion running
    upNode,  \* nodes whose worker runs
    runs_,   \* the rank of the version each node runs
    removals, \* nodes on which an administrator has removed a package
    uploads, publishes, mishaps

pkgVars == <<pkgFiles, meta, jobs, posts, sync, retaining, exiting, upNode, runs_, removals, uploads, publishes, mishaps>>
counts == <<uploads, publishes, mishaps, removals>>

Versions == DOMAIN Rank
Mishap == mishaps < MaxMishaps /\ mishaps' = mishaps + 1
\* CompareVersions orders versions by tag, then by commits after it; different strings may
\* be equal in it.
Newer(a, b) == Rank[a] > Rank[b]
PeersOf(n) == {p \in Nodes : {n, p} \in Peers}
Idle == [at |-> "idle", peer |-> 0, todo |-> {}, doomed |-> {}, ok |-> TRUE]

PkgTypeOK ==
    /\ pkgFiles \in [Nodes -> SUBSET [id : 1..MaxCopies, ver : Versions]]
    /\ meta \in [Nodes -> SUBSET [id : 1..MaxCopies, ver : Versions, pub : BOOLEAN]]
    /\ posts \subseteq [from : Nodes, to : Nodes, ver : Versions]
    /\ \A n \in Nodes : n \notin upNode => jobs[n] = {} /\ sync[n] = Idle /\ n \notin exiting \cup retaining

-----------------------------------------------------------------------------
(* What a node has. *)

\* listPackages forgets the records whose file is gone.
ListPackages(n) == {m \in meta[n] : \E f \in pkgFiles[n] : f.id = m.id}
VersionsOf(S) == {m.ver : m \in S}
Best(S) == Max({0} \cup {Rank[m.ver] : m \in S})

\* The first packageRetention entries of a list sorted by version, newest first;
\* sort.Slice leaves the order of equal ones open.
Retained(S) ==
    {K \in SUBSET S : Cardinality(K) = Min({Retention, Cardinality(S)})
                      /\ \A k \in K, d \in S \ K : ~ Newer(d.ver, k.ver)}

\* findLatestPkgAndExtract looks at files alone; selectWorkerBinary takes the latest
\* if it is newer than the watchdog, of rank 0.
SelectWorker(n) == IF n \in Upgrading THEN Best(pkgFiles[n]) ELSE runs_[n]

-----------------------------------------------------------------------------
(* Storing a copy: the file, then the record, then what follows from it. *)

\* Ids of n that something still refers to, and the one a new copy gets.
Ids(S) == {m.id : m \in S}
UsedIds(n) == Ids(pkgFiles[n]) \cup Ids(meta[n]) \cup sync[n].doomed \cup UNION {Ids(sync[p].todo) : p \in {q \in Nodes : sync[q].peer = n}}
NewId(n) == Min(1..MaxCopies \ UsedIds(n))
IdLeft(n) == 1..MaxCopies \ UsedIds(n) # {}

\* The file is there, its record is not.
Written(n, kind, from, v) ==
    /\ IdLeft(n) /\ pkgFiles' = [pkgFiles EXCEPT ![n] = @ \cup {[id |-> NewId(n), ver |-> v]}]
    /\ jobs' = [jobs EXCEPT ![n] = (@ \ {[kind |-> kind, from |-> from, ver |-> v, id |-> 0]}) \cup {[kind |-> kind, from |-> from, ver |-> v, id |-> NewId(n)]}]

\* saveExternalPackage for a package that was received and not found in the list.
WriteFile(n) ==
    /\ \E j \in jobs[n] : j.id = 0 /\ Written(n, j.kind, j.from, j.ver)
    /\ UNCHANGED <<meta, posts, sync, retaining, exiting, upNode, runs_, counts>>

\* DistributePackage posts to every peer at once.
Distribute(n, v) == {[from |-> n, to |-> p, ver |-> v] : p \in PeersOf(n)}

\* checkForNewerVersion starts a timer of a second.
CheckForNewer(n, v) == exiting' = IF n \in Upgrading /\ Rank[v] > runs_[n] THEN exiting \cup {n} ELSE exiting

\* Received packages are published at once, uploaded ones are not.
PutPackage(n) ==
    \E j \in jobs[n] :
        /\ j.id # 0
        /\ meta' = [meta EXCEPT ![n] = @ \cup {[id |-> j.id, ver |-> j.ver, pub |-> j.kind # "upload"]}]
        /\ jobs' = [jobs EXCEPT ![n] = @ \ {j}]
        /\ CheckForNewer(n, j.ver)
        /\ posts' = IF j.kind = "sync" THEN posts ELSE posts \cup Distribute(n, j.ver)
        /\ sync' = IF j.kind = "sync" THEN [sync EXCEPT ![n].at = "get"] ELSE sync
        /\ UNCHANGED <<pkgFiles, retaining, upNode, runs_, counts>>

\* The record is not written: the file is removed again.
PutFails(n) ==
    \E j \in jobs[n] :
        /\ j.id # 0 /\ Mishap
        /\ pkgFiles' = [pkgFiles EXCEPT ![n] = {f \in @ : f.id # j.id}]
        /\ jobs' = [jobs EXCEPT ![n] = @ \ {j}]
        /\ sync' = IF j.kind = "sync" THEN [sync EXCEPT ![n].at = "get", ![n].ok = FALSE] ELSE sync
        /\ UNCHANGED <<meta, posts, retaining, exiting, upNode, runs_, uploads, publishes, removals>>

-----------------------------------------------------------------------------
(* The administrator. *)

\* The upload is verified under another name and renamed.
Upload(n, v) ==
    /\ n \in upNode /\ uploads < MaxUploads /\ uploads' = uploads + 1 /\ Written(n, "upload", 0, v)
    /\ UNCHANGED <<meta, posts, sync, retaining, exiting, upNode, runs_, removals, publishes, mishaps>>

\* apiPackagePublish: only a version above every published one; the file is passed on.
Publish(n) ==
    LET listed == ListPackages(n) IN
    \E m \in listed :
        /\ n \in upNode /\ publishes < MaxPublishes /\ publishes' = publishes + 1
        /\ \A o \in listed : o.pub => Newer(m.ver, o.ver)
        /\ meta' = [meta EXCEPT ![n] = (listed \ {m}) \cup {[m EXCEPT !.pub = TRUE]}]
        /\ posts' = posts \cup Distribute(n, m.ver) /\ retaining' = retaining \cup {n}
        /\ UNCHANGED <<pkgFiles, jobs, sync, exiting, upNode, runs_, removals, uploads, mishaps>>

\* applyRetention: only files are removed, by what a list of all copies says.
ApplyRetention(n) ==
    /\ n \in retaining /\ retaining' = retaining \ {n}
    /\ meta' = [meta EXCEPT ![n] = ListPackages(n)]
    /\ \E kept \in Retained(ListPackages(n)) :
           pkgFiles' = [pkgFiles EXCEPT ![n] = {f \in @ : \A m \in ListPackages(n) \ kept : f.id # m.id}]
    /\ UNCHANGED <<jobs, posts, sync, exiting, upNode, runs_, counts>>

DeletePackage(n) ==
    \E m \in meta[n] :
        /\ n \in upNode /\ <<n, m.ver>> \in Removable /\ Mishap /\ removals' = removals \cup {n}
        /\ pkgFiles' = [pkgFiles EXCEPT ![n] = {f \in @ : f.id # m.id}]
        /\ meta' = [meta EXCEPT ![n] = @ \ {m}]
        /\ UNCHANGED <<jobs, posts, sync, retaining, exiting, upNode, runs_, uploads, publishes>>

-----------------------------------------------------------------------------
(* A package from a peer: apiPackageReceive. *)

ReceivePackage(p) ==
    /\ p \in posts /\ p.to \in upNode /\ posts' = posts \ {p}
    /\ meta' = [meta EXCEPT ![p.to] = ListPackages(p.to)]
    /\ jobs' = IF p.ver \in VersionsOf(ListPackages(p.to)) THEN jobs
               ELSE [jobs EXCEPT ![p.to] = @ \cup {[kind |-> "receive", from |-> p.from, ver |-> p.ver, id |-> 0]}]
    /\ UNCHANGED <<pkgFiles, sync, retaining, exiting, upNode, runs_, counts>>

\* A post that fails is only logged.
PostFails(p) ==
    /\ p \in posts /\ posts' = posts \ {p}
    /\ \/ p.to \notin upNode /\ UNCHANGED mishaps
       \/ Mishap
    /\ UNCHANGED <<pkgFiles, meta, jobs, sync, retaining, exiting, upNode, runs_, removals, uploads, publishes>>

-----------------------------------------------------------------------------
(* Comparing lists with a peer: syncFromPeer. *)

\* Both lists are merged, a version on both sides counting twice; an empty list must
\* not wipe what others gave.
Merged(theirs, mine) ==
    {[side |-> "theirs", id |-> m.id, ver |-> m.ver] : m \in {t \in theirs : t.pub}}
        \cup {[side |-> "mine", id |-> m.id, ver |-> m.ver] : m \in mine}

\* One copy of each wanted version stays, the first in the list.
Doomed_Every(mine, target) == {Ids({m \in mine : m.ver \notin target \/ \E o \in mine : o.ver = m.ver /\ o.id # m.id})}   \* Mutant: no copy of a version held twice stays
Doomed(mine, target) == {Ids(mine \ K) : K \in {K \in SUBSET {m \in mine : m.ver \in target} :
                                                   \A v \in target : Cardinality({m \in K : m.ver = v}) = Min({1, Cardinality({m \in mine : m.ver = v})})}}

\* The peer's list, then the node's own; the first entries of both together are the
\* target, which says what to fetch and what to delete.
SyncPlan(n, p) ==
    LET theirs == ListPackages(p)  mine == ListPackages(n) IN
    /\ n \in upNode /\ p \in upNode \cap PeersOf(n) /\ sync[n].at = "idle"
    /\ meta' = [meta EXCEPT ![p] = theirs, ![n] = mine]
    /\ \E kept \in Retained(Merged(theirs, mine)) :
       LET target == VersionsOf(kept) IN
       \E d \in Doomed(mine, target) :
           sync' = [sync EXCEPT ![n] = [at |-> "get", peer |-> p, ok |-> TRUE, doomed |-> d,
                                          todo |-> {t \in theirs : t.ver \in target \ VersionsOf(mine)}]]
    /\ UNCHANGED <<pkgFiles, jobs, posts, retaining, exiting, upNode, runs_, counts>>

\* Each missing package is fetched by the peer's id for it; one that is gone there, or
\* a peer that is gone, fails.
SyncDownload(n) ==
    LET s == sync[n] IN
    /\ s.at = "get"
    /\ \E t \in s.todo :
           LET there == s.peer \in upNode /\ \E m \in ListPackages(s.peer) : m.id = t.id IN
           \/ /\ there /\ Written(n, "sync", s.peer, t.ver)
              /\ sync' = [sync EXCEPT ![n].at = "saving", ![n].todo = {o \in @ : o.ver # t.ver}]
           \/ /\ ~ there /\ sync' = [sync EXCEPT ![n].todo = @ \ {t}, ![n].ok = FALSE]
              /\ UNCHANGED <<pkgFiles, jobs>>
    /\ UNCHANGED <<meta, posts, retaining, exiting, upNode, runs_, counts>>

\* One failed download and nothing is deleted.
SyncDelete(n) ==
    LET s == sync[n] IN
    /\ s.at = "get" /\ s.todo = {}
    /\ pkgFiles' = IF s.ok THEN [pkgFiles EXCEPT ![n] = {f \in @ : f.id \notin s.doomed}] ELSE pkgFiles
    /\ sync' = [sync EXCEPT ![n] = Idle]
    /\ UNCHANGED <<meta, jobs, posts, retaining, exiting, upNode, runs_, counts>>

-----------------------------------------------------------------------------
(* The process. *)

\* os.Exit, or a crash, cuts everything the worker was doing.
Ends(n) ==
    /\ upNode' = upNode \ {n} /\ exiting' = exiting \ {n} /\ retaining' = retaining \ {n}
    /\ jobs' = [jobs EXCEPT ![n] = {}] /\ sync' = [sync EXCEPT ![n] = Idle]
    /\ posts' = {p \in posts : p.from # n}
    /\ UNCHANGED <<pkgFiles, meta, runs_, removals, uploads, publishes>>

ExitForUpgrade(n) == n \in exiting /\ Ends(n) /\ UNCHANGED mishaps
CrashNode(n) == n \in upNode /\ Mishap /\ Ends(n)

\* The watchdog starts the newest file.
RestartNode(n) ==
    /\ n \notin upNode /\ upNode' = upNode \cup {n}
    /\ runs_' = [runs_ EXCEPT ![n] = SelectWorker(n)]
    /\ UNCHANGED <<pkgFiles, meta, jobs, posts, sync, retaining, exiting, counts>>

-----------------------------------------------------------------------------
\* Each node holds published packages and runs the newest of them.
PkgInit ==
    /\ pkgFiles = [n \in Nodes |-> {[id |-> v, ver |-> v] : v \in Starting[n]}]
    /\ meta = [n \in Nodes |-> {[id |-> v, ver |-> v, pub |-> TRUE] : v \in Starting[n]}]
    /\ jobs = [n \in Nodes |-> {}] /\ posts = {} /\ sync = [n \in Nodes |-> Idle]
    /\ retaining = {} /\ exiting = {} /\ upNode = Nodes
    /\ runs_ = [n \in Nodes |-> IF n \in Upgrading THEN Max({0} \cup {Rank[v] : v \in Starting[n]}) ELSE 0]
    /\ removals = {} /\ uploads = 0 /\ publishes = 0 /\ mishaps = 0

Saves(n) == WriteFile(n) \/ PutPackage(n)
SyncSteps(n) == SyncDownload(n) \/ SyncDelete(n)

PkgNext ==
    \/ \E n \in Nodes : Saves(n) \/ PutFails(n) \/ Publish(n) \/ ApplyRetention(n) \/ DeletePackage(n)
    \/ \E n \in Nodes : SyncSteps(n) \/ ExitForUpgrade(n) \/ CrashNode(n) \/ RestartNode(n)
    \/ \E u \in Uploadable : Upload(u[1], u[2])
    \/ \E n, p \in Nodes : SyncPlan(n, p)
    \/ \E p \in posts : ReceivePackage(p) \/ PostFails(p)

-----------------------------------------------------------------------------
(* Properties. *)

\* The files of n whose store has ended.
Stored(n) == {f \in pkgFiles[n] : \A j \in jobs[n] : j.id # f.id}

\* A node on which no administrator removed a package never loses its newest version,
\* whatever retention, sync, duplicate copies, failed saves and restarts do, and so a
\* restart never runs an older version than before.  (With more than Retention copies of one
\* version a retention and a sync that have each listed them may keep different ones.)
NewestKept ==
    [][\A n \in Nodes \ removals' :
           /\ Best(Stored(n))' >= Best(Stored(n))
           /\ runs_'[n] >= runs_[n]]_pkgVars

Published == UNION {{m \in ListPackages(n) : m.pub} : n \in Nodes}

\* Once administrators leave it alone, every node has the newest version published
\* anywhere, and runs at least it where the platform fits: a flood that was cut
\* off by the sender's own upgrade, lost or failed is made good by sync.  Floods and
\* upgrades come to an end: nobody keeps passing packages round or exiting.
Spread ==
    <>[](/\ \A n \in Nodes : Best(ListPackages(n)) >= Best(Published)
                              /\ (n \in Upgrading => runs_[n] >= Best(Published))
         /\ posts = {} /\ exiting = {})

PackagesRight == []PkgTypeOK /\ NewestKept /\ Spread
=============================================================================

------------------------------ MODULE Watchdog ------------------------------
(***************************************************************************)
(* The watchdog process (main.go, runWatchdogMode) and the worker it keeps *)
(* alive.  The worker says on its standard output that it is ready and     *)
(* then that it lives; the watchdog starts it again when it ends or is     *)
(* silent, with a newer package when there is one and with the binary that *)
(* last became ready when the newer one does not.  A file, the stopped     *)
(* marker, tells a wanted end from a crash.                                *)
(*                                                                         *)
(* Timeouts are events: a worker is late when it is stuck, and also when   *)
(* the machine slept, since the watchdog compares wall clocks.             *)
(***************************************************************************)
EXTENDS Naturals, FiniteSets

CONSTANTS
    PkgWorks,     \* the distributed package: "good", or it ends or hangs before it is ready
    MaxTries,     \* maxRetries
    MaxCrash,     \* crashes and hangs of workers that were ready
    MaxSpawnFail, \* spawns that fail
    MaxSignal,    \* signals to the watchdog
    MaxDoze       \* times the machine sleeps

VARIABLES
    wd,        \* [at, ready, exe, try]: where the watchdog is
    restarting, \* isRestarting
    child,     \* [bin, st]: starting, booting, ready, stuck, closing, dead
    cpReady,   \* childProcess.ready
    late,      \* the last heartbeat is too old
    marker,    \* data/state/stopped exists
    lastGood, current, \* binaries: "none", "self", "pkg"
    pkg,       \* a newer package has been distributed
    handler,   \* the signal goroutine: "idle", "kill" (marker written or not, signal to be sent)
    proven,    \* binaries that have been ready
    stopAsked,     \* a stop was stopAsked for and must be honoured
    signals, crashes_, spawnFails, dozes

wdVars == <<wd, restarting, child, cpReady, late, marker, lastGood, current, pkg, handler, proven, stopAsked, signals, crashes_, spawnFails, dozes>>
files == <<marker, lastGood, pkg>>

Monitoring == [at |-> "monitor", ready |-> FALSE, exe |-> "none", try |-> 0]
Alive_ == child.st # "dead"
Works(b) == b = "self" \/ PkgWorks = "good"

WdInit ==
    /\ wd = [Monitoring EXCEPT !.at = "first"] /\ restarting = FALSE /\ child = [bin |-> "self", st |-> "dead"]
    /\ cpReady = FALSE /\ late = FALSE /\ marker = FALSE /\ lastGood = "none" /\ current = "none" /\ pkg = FALSE
    /\ handler = "idle" /\ proven = {} /\ stopAsked = FALSE /\ signals = 0 /\ crashes_ = 0 /\ spawnFails = 0 /\ dozes = 0

-----------------------------------------------------------------------------
(* The worker. *)

\* startEngine removes the marker of an earlier run.
Boots ==
    /\ child.st = "starting" /\ child' = [child EXCEPT !.st = "booting"] /\ marker' = FALSE
    /\ UNCHANGED <<wd, restarting, cpReady, late, lastGood, current, pkg, handler, proven, stopAsked, signals, crashes_, spawnFails, dozes>>

\* Ready is told, heartbeats begin, signals are handled.
BecomesReady ==
    /\ child.st = "booting" /\ Works(child.bin)
    /\ child' = [child EXCEPT !.st = "ready"] /\ cpReady' = TRUE /\ late' = FALSE /\ proven' = proven \cup {child.bin}
    /\ UNCHANGED <<wd, restarting, marker, lastGood, current, pkg, handler, stopAsked, signals, crashes_, spawnFails, dozes>>

\* A package that does not work ends, before or after the marker is removed, or
\* hangs until the watchdog's patience is over.
FailsToStart ==
    /\ child.st \in {"starting", "booting"} /\ ~ Works(child.bin)
    /\ \/ child' = [child EXCEPT !.st = "dead"] /\ UNCHANGED late
       \/ child' = [child EXCEPT !.st = "stuck"] /\ late' = TRUE
    /\ UNCHANGED <<wd, restarting, cpReady, files, current, handler, proven, stopAsked, signals, crashes_, spawnFails, dozes>>

\* A worker that was ready crashes, or hangs and is silent from then on.
Breaks ==
    /\ child.st = "ready" /\ crashes_ < MaxCrash /\ crashes_' = crashes_ + 1 /\ ~ stopAsked
    /\ \/ child' = [child EXCEPT !.st = "dead"] /\ UNCHANGED late
       \/ child' = [child EXCEPT !.st = "stuck"] /\ late' = TRUE
    /\ UNCHANGED <<wd, restarting, cpReady, files, current, handler, proven, stopAsked, signals, spawnFails, dozes>>

\* The machine sleeps; a heartbeat is late although nothing is wrong.
Dozes ==
    /\ child.st = "ready" /\ ~ late /\ ~ stopAsked /\ dozes < MaxDoze /\ dozes' = dozes + 1 /\ late' = TRUE
    /\ UNCHANGED <<wd, restarting, child, cpReady, files, current, handler, proven, stopAsked, signals, crashes_, spawnFails>>

\* A package is installed and the worker ends to make way (OnRestart); no marker.
HotSwap ==
    /\ child.st = "ready" /\ ~ pkg /\ ~ stopAsked /\ pkg' = TRUE /\ child' = [child EXCEPT !.st = "dead"]
    /\ UNCHANGED <<wd, restarting, cpReady, late, marker, lastGood, current, handler, proven, stopAsked, signals, crashes_, spawnFails, dozes>>

\* What a SIGTERM does: before the handler is installed it ends the process, a
\* stuck worker does not react.
Terminated(c) ==
    CASE c.st \in {"starting", "booting"} -> [c EXCEPT !.st = "dead"]
      [] c.st = "ready" -> [c EXCEPT !.st = "closing"]
      [] OTHER -> c

\* watchAndRun writes the marker, closeAll, the process ends.
Closes ==
    /\ child.st = "closing" /\ child' = [child EXCEPT !.st = "dead"] /\ marker' = TRUE
    /\ UNCHANGED <<wd, restarting, cpReady, late, lastGood, current, pkg, handler, proven, stopAsked, signals, crashes_, spawnFails, dozes>>

-----------------------------------------------------------------------------
(* Signals to the watchdog. *)

\* The goroutine writes the marker unless a restart is under way ...
Signal ==
    /\ handler = "idle" /\ wd.at \notin {"first", "exited"} /\ signals < MaxSignal /\ signals' = signals + 1
    /\ marker' = (marker \/ ~ restarting) /\ handler' = "kill"
    /\ stopAsked' = (stopAsked \/ (wd.at = "monitor" /\ child.st = "ready" /\ ~ late))
    /\ UNCHANGED <<wd, restarting, child, cpReady, late, lastGood, current, pkg, proven, crashes_, spawnFails, dozes>>

\* ... and passes the signal on, to the child of before while a restart is under way.
PassOn ==
    /\ handler = "kill" /\ handler' = "idle"
    /\ child' = Terminated(child)
    /\ UNCHANGED <<wd, restarting, cpReady, late, files, current, proven, stopAsked, signals, crashes_, spawnFails, dozes>>

-----------------------------------------------------------------------------
(* The monitor loop. *)

\* The first worker; if it cannot be started the watchdog ends.
FirstSpawn ==
    /\ wd.at = "first"
    /\ \/ wd' = Monitoring /\ child' = [bin |-> "self", st |-> "starting"] /\ current' = "self"
       \/ wd' = [wd EXCEPT !.at = "exited"] /\ UNCHANGED <<child, current>>
    /\ UNCHANGED <<restarting, cpReady, late, files, handler, proven, stopAsked, signals, crashes_, spawnFails, dozes>>

Proves == lastGood' = IF cpReady THEN current ELSE lastGood

\* The ticker: a child that has become ready is remembered.
Tick_ ==
    /\ wd.at = "monitor" /\ cpReady /\ lastGood # current /\ Proves
    /\ UNCHANGED <<wd, restarting, child, cpReady, late, marker, current, pkg, handler, proven, stopAsked, signals, crashes_, spawnFails, dozes>>

\* The child is gone: wanted, or to be started again.
ExitSeen ==
    /\ wd.at = "monitor" /\ ~ Alive_ /\ Proves
    /\ \/ marker /\ marker' = FALSE /\ wd' = [wd EXCEPT !.at = "exited"]
       \/ ~ marker /\ UNCHANGED marker /\ wd' = [wd EXCEPT !.at = "restart", !.ready = cpReady]
    /\ UNCHANGED <<restarting, child, cpReady, late, current, pkg, handler, proven, stopAsked, signals, crashes_, spawnFails, dozes>>

\* restartChild begins.
Begin ==
    /\ wd.at = "restart" /\ restarting' = TRUE /\ wd' = [wd EXCEPT !.at = "choose"]
    /\ UNCHANGED <<child, cpReady, late, files, current, handler, proven, stopAsked, signals, crashes_, spawnFails, dozes>>

\* Not ready in time, or silent: SIGTERM first.
TimedOut ==
    /\ wd.at = "monitor" /\ Alive_ /\ late /\ Proves
    /\ restarting' = TRUE /\ wd' = [wd EXCEPT !.at = "term", !.ready = cpReady] /\ child' = Terminated(child)
    /\ UNCHANGED <<cpReady, late, marker, current, pkg, handler, proven, stopAsked, signals, crashes_, spawnFails, dozes>>

\* After 10 s SIGKILL.
TermKill ==
    /\ wd.at = "term" /\ child.st \in {"stuck", "closing"} /\ child' = [child EXCEPT !.st = "dead"]
    /\ UNCHANGED <<wd, restarting, cpReady, late, files, current, handler, proven, stopAsked, signals, crashes_, spawnFails, dozes>>
TermDone ==
    /\ wd.at = "term" /\ ~ Alive_ /\ wd' = [wd EXCEPT !.at = "choose"]
    /\ UNCHANGED <<restarting, child, cpReady, late, files, current, handler, proven, stopAsked, signals, crashes_, spawnFails, dozes>>

-----------------------------------------------------------------------------
(* restartChild: which binary, and five attempts to start it. *)

SelectWorkerBinary == IF pkg THEN "pkg" ELSE "self"

\* Mutant: there is no falling back.
NewExe_Latest(ready) == SelectWorkerBinary

NewExe(ready) == IF ~ ready /\ lastGood # "none" /\ current # lastGood THEN lastGood ELSE SelectWorkerBinary

Choose_ ==
    /\ wd.at = "choose" /\ wd' = [wd EXCEPT !.at = "spawn", !.exe = NewExe(wd.ready), !.try = 1]
    /\ UNCHANGED <<restarting, child, cpReady, late, files, current, handler, proven, stopAsked, signals, crashes_, spawnFails, dozes>>

Spawn ==
    /\ wd.at = "spawn" /\ child' = [bin |-> wd.exe, st |-> "starting"] /\ current' = wd.exe
    /\ cpReady' = FALSE /\ late' = FALSE /\ restarting' = FALSE /\ wd' = Monitoring
    /\ UNCHANGED <<files, handler, proven, stopAsked, signals, crashes_, spawnFails, dozes>>

\* It fails: after the fallback the binary of before is tried at once, then what
\* is selected now; in the end the old child stays the current one, and the
\* monitor loop finds it gone again.
SpawnFails_ ==
    /\ wd.at = "spawn" /\ spawnFails < MaxSpawnFail /\ spawnFails' = spawnFails + 1
    /\ \/ /\ wd.exe = lastGood /\ lastGood # current
          /\ wd' = [wd EXCEPT !.exe = current] /\ UNCHANGED restarting
       \/ /\ ~ (wd.exe = lastGood /\ lastGood # current) /\ wd.try < MaxTries
          /\ wd' = [wd EXCEPT !.exe = SelectWorkerBinary, !.try = @ + 1] /\ UNCHANGED restarting
       \/ /\ ~ (wd.exe = lastGood /\ lastGood # current) /\ wd.try = MaxTries
          /\ wd' = Monitoring /\ restarting' = FALSE
    /\ UNCHANGED <<child, cpReady, late, files, current, handler, proven, stopAsked, signals, crashes_, dozes>>

WdStep == FirstSpawn \/ Tick_ \/ ExitSeen \/ Begin \/ TimedOut \/ TermKill \/ TermDone \/ Choose_
ChildStep == Boots \/ BecomesReady \/ FailsToStart \/ Closes
WdNext ==
    \/ WdStep \/ Spawn \/ SpawnFails_ \/ ChildStep \/ Breaks \/ Dozes \/ HotSwap \/ Signal \/ PassOn

\* Safety part of the specification.
WdSpec == WdInit /\ [][WdNext]_wdVars

-----------------------------------------------------------------------------
(* Properties. *)

\* GoodOnly: the binary to fall back to is one that has been ready ("Track the last
\* binary that successfully started"), whatever was tried and failed since.
GoodOnly == lastGood # "none" => lastGood \in proven

\* QuitsIfAsked: the watchdog ends only after a signal ("Never exit watchdog"), and
\* leaves no worker behind, once the first worker is started.  The one other way: a worker that is well but late
\* writes the marker when it is ended, and its successor cannot be started or ends
\* before it has removed the marker.
QuitsIfAsked ==
    wd.at = "exited" => ~ Alive_ /\ (current = "none" \/ signals > 0 \/ (dozes > 0 /\ (spawnFails > 0 \/ ~ Works(current))))

\* KeepsServing: again and again a worker is ready, whatever crashed, hung or could
\* not be started, and although the package that was distributed does not work;
\* once the first is started, unless the watchdog was told to stop or has ended.
KeepsServing == []<>(child.st = "ready" \/ current = "none" \/ signals > 0 \/ wd.at = "exited")

\* StopWorks: a signal that finds the worker ready and nothing under way ends both.
StopWorks == []<>(stopAsked => wd.at = "exited")

\* WatchdogRight: the watchdog serves until it is told to stop, and then stops.
WatchdogRight == [](GoodOnly /\ QuitsIfAsked) /\ KeepsServing /\ StopWorks
=============================================================================

----------------------------- MODULE TunDevice ------------------------------
(***************************************************************************)
(* Switching the TUN device on and off (tun/manager.go, main_engine.go,    *)
(* the administrator's page) and what it changes on a Linux machine:       *)
(* /etc/resolv.conf and its backup, ip_forward and rp_filter and the file  *)
(* that remembers them, firewall rules and routes.  The process may die at *)
(* any step and is started again; what it then finds must be enough to     *)
(* put the machine back.                                                   *)
(*                                                                         *)
(* A step of StartTUN or StopTUN that touches one thing is one action;     *)
(* `job' says which step each caller is at.                                *)
(***************************************************************************)
EXTENDS Naturals, FiniteSets

CONSTANTS
    Togglers,    \* requests of the administrator's page in progress at most
    Bypass,      \* bypass-gateway mode
    DnsMethod,   \* "resolvconf", "resolved" or "nm"
    OrigForward, OrigRpFilter, \* the kernel's parameters before the first start
    MaxDeaths, MaxToggles

ASSUME TunAssumption ==
    /\ 0 \notin Togglers
    /\ OrigForward \in Nat /\ OrigRpFilter \in Nat
    /\ MaxDeaths \in Nat /\ MaxToggles \in Nat

VARIABLES
    os,       \* resolv, bak, link: resolv.conf, its backup, the interface's DNS
              \* forward, rp: the parameters; file: the state file
              \* rules: FORWARD rules; split: the /1 routes; dev: tun0 exists
    alive,    \* the process
    mgr,      \* running, dev, bind; forward, rp, applied: the route manager
    reader,   \* readLoop: "off", "read" (in Read)
    job,      \* toggler (0: startEngine) -> [op, at]
    enabled,  \* the setting in the database
    mishap,   \* what no later start can mend, see Restored
    deaths, toggles

tunVars == <<os, alive, mgr, reader, job, enabled, mishap, deaths, toggles>>

Callers == {0} \cup Togglers
Resting == [op |-> "none", at |-> "rest"]
Stopped == [running |-> FALSE, dev |-> FALSE, bind |-> FALSE, forward |-> 0, rp |-> 0, applied |-> FALSE]
NoFile == [forward |-> 0, rp |-> 0, present |-> FALSE]

\* e.mu is held from StartTUN's check to its last step that may fail.
Locked == \E c \in Callers : job[c].op = "start" /\ job[c].at \in {"unlink", "params", "device", "relax", "save", "routes", "rules", "run"}
\* dnsMu is held by setSystemDNS and restoreSystemDNS.
DnsLocked == \E c \in Callers : job[c].at \in {"redirect", "forget"}
At(c, op, at) == alive /\ job[c] = [op |-> op, at |-> at]
Goto(c, at) == job' = [job EXCEPT ![c].at = at]
Done(c) == job' = [job EXCEPT ![c] = Resting]

TunInit ==
    /\ os = [resolv |-> "orig", bak |-> "none", link |-> "orig", forward |-> OrigForward, rp |-> OrigRpFilter,
             file |-> NoFile, rules |-> FALSE, split |-> FALSE, dev |-> FALSE]
    /\ alive = TRUE /\ mgr = Stopped /\ reader = "off" /\ job = [c \in Callers |-> Resting]
    /\ enabled = FALSE /\ mishap = {} /\ deaths = 0 /\ toggles = 0

-----------------------------------------------------------------------------
(* apiTUN and toggleTUN. *)

Toggle(c, op) ==
    /\ alive /\ job[0] = Resting /\ job[c] = Resting /\ toggles < MaxToggles /\ toggles' = toggles + 1
    /\ job' = [job EXCEPT ![c] = [op |-> op, at |-> "begin"]]
    /\ UNCHANGED <<os, alive, mgr, reader, enabled, mishap, deaths>>

\* Nothing to do: IsTUNRunning, or not; or StartTUN finds it running.
Already(c) ==
    /\ \/ At(c, "start", "begin") /\ mgr.running
       \/ At(c, "stop", "begin") /\ ~ mgr.running
    /\ ~ Locked /\ Goto(c, "record")
    /\ UNCHANGED <<os, alive, mgr, reader, enabled, mishap, deaths, toggles>>

\* The setting is saved after the switch.
Record(c) ==
    /\ alive /\ job[c].at = "record" /\ enabled' = (job[c].op = "start") /\ Done(c)
    /\ UNCHANGED <<os, alive, mgr, reader, mishap, deaths, toggles>>

-----------------------------------------------------------------------------
(* StartTUN: CleanupResidual. *)

\* Mutant: resolv.conf is left as it is.
Reverted_Not(o) == o

\* The backup's content goes back.
Reverted(o) == IF o.bak # "none" THEN [o EXCEPT !.resolv = o.bak] ELSE o

CleanDns(c) ==
    /\ At(c, "start", "begin") /\ ~ mgr.running /\ ~ Locked
    /\ os' = Reverted(os) /\ Goto(c, "unlink")
    /\ UNCHANGED <<alive, mgr, reader, enabled, mishap, deaths, toggles>>
CleanBackup(c) ==
    /\ At(c, "start", "unlink") /\ os' = [os EXCEPT !.bak = "none"] /\ Goto(c, "params")
    /\ UNCHANGED <<alive, mgr, reader, enabled, mishap, deaths, toggles>>

\* The kernel's parameters and the rules, from the state file, which is removed last.
CleanParams(c) ==
    /\ At(c, "start", "params") /\ Goto(c, "device")
    /\ os' = IF os.file.present
             THEN [os EXCEPT !.forward = os.file.forward, !.rp = os.file.rp, !.rules = FALSE, !.file = NoFile]
             ELSE os
    /\ UNCHANGED <<alive, mgr, reader, enabled, mishap, deaths, toggles>>

(* The device and the routes. *)

\* tun0 cannot be had twice; the call may also fail for other reasons.
CreateDevice(c) ==
    /\ At(c, "start", "device") /\ ~ os.dev
    /\ os' = [os EXCEPT !.dev = TRUE] /\ mgr' = [Stopped EXCEPT !.dev = TRUE, !.bind = mgr.bind] /\ Goto(c, "relax")
    /\ UNCHANGED <<alive, reader, enabled, mishap, deaths, toggles>>
CreateFails(c) ==
    /\ At(c, "start", "device") /\ Done(c)
    /\ UNCHANGED <<os, alive, mgr, reader, enabled, mishap, deaths, toggles>>

\* platformSetup: as a gateway, the parameters are read and changed, and only then
\* written to the state file.
Relax(c) ==
    /\ At(c, "start", "relax")
    /\ mgr' = IF Bypass THEN [mgr EXCEPT !.forward = os.forward, !.rp = os.rp] ELSE mgr
    /\ os' = IF Bypass THEN [os EXCEPT !.forward = 1, !.rp = 2] ELSE os
    /\ Goto(c, "save")
    /\ UNCHANGED <<alive, reader, enabled, mishap, deaths, toggles>>

RememberedParams == [forward |-> mgr.forward, rp |-> mgr.rp, present |-> TRUE]

SaveState(c) ==
    /\ At(c, "start", "save") /\ Goto(c, "routes")
    /\ os' = IF Bypass THEN [os EXCEPT !.file = RememberedParams] ELSE os
    /\ UNCHANGED <<alive, mgr, reader, enabled, mishap, deaths, toggles>>

AddRoutes(c) ==
    /\ At(c, "start", "routes") /\ os' = [os EXCEPT !.split = TRUE] /\ Goto(c, "rules")
    /\ UNCHANGED <<alive, mgr, reader, enabled, mishap, deaths, toggles>>

\* A route cannot be added: the device is closed, the parameters stay changed.
SetupFails(c) ==
    /\ At(c, "start", "routes") /\ Done(c)
    /\ os' = [os EXCEPT !.dev = FALSE, !.split = FALSE] /\ mgr' = [mgr EXCEPT !.dev = FALSE]
    /\ UNCHANGED <<alive, reader, enabled, mishap, deaths, toggles>>

AddRules(c) ==
    /\ At(c, "start", "rules") /\ os' = [os EXCEPT !.rules = Bypass] /\ mgr' = [mgr EXCEPT !.applied = TRUE] /\ Goto(c, "run")
    /\ UNCHANGED <<alive, reader, enabled, mishap, deaths, toggles>>

\* The bind context is set, the loops start, the lock is released.
Run(c) ==
    /\ At(c, "start", "run") /\ mgr' = [mgr EXCEPT !.running = TRUE, !.bind = TRUE] /\ reader' = "read" /\ Goto(c, "backup")
    /\ UNCHANGED <<os, alive, enabled, mishap, deaths, toggles>>

(* setSystemDNS. *)

\* A backup that is there goes back first, then the current content is saved.
Backup(c) ==
    /\ At(c, "start", "backup") /\ ~ DnsLocked /\ Goto(c, "redirect")
    /\ os' = IF DnsMethod = "resolvconf"
             THEN LET o == Reverted(os) IN [o EXCEPT !.bak = o.resolv] ELSE os
    /\ UNCHANGED <<alive, mgr, reader, enabled, mishap, deaths, toggles>>
Redirect(c) ==
    /\ At(c, "start", "redirect")
    /\ os' = IF DnsMethod = "resolvconf" THEN [os EXCEPT !.resolv = "tun"] ELSE [os EXCEPT !.link = "tun"]
    /\ IF c = 0 THEN Done(c) ELSE Goto(c, "record")
    /\ UNCHANGED <<alive, mgr, reader, enabled, mishap, deaths, toggles>>

-----------------------------------------------------------------------------
(* StopTUN. *)

StopFlag(c) ==
    /\ At(c, "stop", "begin") /\ mgr.running /\ ~ Locked
    /\ mgr' = [mgr EXCEPT !.running = FALSE, !.bind = FALSE] /\ Goto(c, "restore")
    /\ UNCHANGED <<os, alive, reader, enabled, mishap, deaths, toggles>>

\* restoreSystemDNS; with resolvectl or nmcli it names the TUN's interface, where
\* nothing was set.
RestoreDns(c) ==
    /\ At(c, "stop", "restore") /\ ~ DnsLocked /\ os' = Reverted(os) /\ Goto(c, "forget")
    /\ UNCHANGED <<alive, mgr, reader, enabled, mishap, deaths, toggles>>
ForgetBackup(c) ==
    /\ At(c, "stop", "forget") /\ os' = [os EXCEPT !.bak = "none"] /\ Goto(c, "teardown")
    /\ UNCHANGED <<alive, mgr, reader, enabled, mishap, deaths, toggles>>

\* platformTeardown: the remembered parameters go back, or 0 when none were read;
\* the state file stays.
Teardown(c) ==
    /\ At(c, "stop", "teardown") /\ Goto(c, "close")
    /\ os' = IF mgr.applied THEN [os EXCEPT !.rules = FALSE, !.rp = mgr.rp, !.forward = mgr.forward, !.split = FALSE] ELSE os
    /\ mgr' = [mgr EXCEPT !.applied = FALSE, !.forward = 0, !.rp = 0]
    /\ UNCHANGED <<alive, reader, enabled, mishap, deaths, toggles>>

\* The device lasts as long as a Read is blocked in it.
CloseDevice(c) ==
    /\ At(c, "stop", "close") /\ Goto(c, "wait")
    /\ mgr' = [mgr EXCEPT !.dev = FALSE] /\ os' = [os EXCEPT !.dev = (reader = "read")]
    /\ UNCHANGED <<alive, reader, enabled, mishap, deaths, toggles>>

\* The next packet wakes the reader, which sees tunCloseCh.
ReaderEnds ==
    /\ alive /\ reader = "read" /\ ~ mgr.running /\ ~ Locked
    /\ reader' = "off" /\ os' = [os EXCEPT !.dev = mgr.dev]
    /\ UNCHANGED <<alive, mgr, job, enabled, mishap, deaths, toggles>>
Wait(c) ==
    /\ At(c, "stop", "wait") /\ reader = "off" /\ Goto(c, "record")
    /\ UNCHANGED <<os, alive, mgr, reader, enabled, mishap, deaths, toggles>>

-----------------------------------------------------------------------------
(* The process dies; the kernel removes the device and its routes. *)

Mishaps ==
    (IF \E c \in Callers : job[c] = [op |-> "start", at |-> "save"] THEN {"not saved"} ELSE {})
    \cup (IF ~ enabled /\ (os.resolv # "orig" \/ os.rules) THEN {"not recorded"} ELSE {})
Die_ ==
    /\ alive /\ deaths < MaxDeaths /\ deaths' = deaths + 1 /\ alive' = FALSE
    /\ os' = [os EXCEPT !.dev = FALSE, !.split = FALSE]
    /\ mgr' = Stopped /\ reader' = "off" /\ job' = [c \in Callers |-> Resting]
    /\ mishap' = mishap \cup Mishaps
    /\ UNCHANGED <<enabled, toggles>>

\* startEngine: only with TUN enabled is anything cleaned up and started.
Boot ==
    /\ ~ alive /\ alive' = TRUE
    /\ job' = IF enabled THEN [job EXCEPT ![0] = [op |-> "start", at |-> "begin"]] ELSE job
    /\ UNCHANGED <<os, mgr, reader, enabled, mishap, deaths, toggles>>

TunNext ==
    \/ \E c \in Togglers, op \in {"start", "stop"} : Toggle(c, op)
    \/ \E c \in Callers :
         \/ Already(c) \/ Record(c) \/ CleanDns(c) \/ CleanBackup(c) \/ CleanParams(c) \/ CreateDevice(c) \/ CreateFails(c)
         \/ Relax(c) \/ SaveState(c) \/ AddRoutes(c) \/ SetupFails(c) \/ AddRules(c) \/ Run(c) \/ Backup(c) \/ Redirect(c)
         \/ StopFlag(c) \/ RestoreDns(c) \/ ForgetBackup(c) \/ Teardown(c) \/ CloseDevice(c) \/ Wait(c)
    \/ ReaderEnds \/ Die_ \/ Boot

TunSpec == TunInit /\ [][TunNext]_tunVars

-----------------------------------------------------------------------------
(* Properties. *)

Quiet_ == alive /\ \A c \in Callers : job[c] = Resting

\* DnsKept: wherever the process dies, the machine's own resolv.conf is in place
\* or in the backup, never overwritten by the redirected one ("Restore it first so
\* we don't capture TUN-contaminated DNS or overwrite a good backup").
DnsKept == os.resolv = "orig" \/ os.bak = "orig"

\* Restored: with the device off and nothing under way the machine is as it was: its
\* resolver, its parameters, its firewall.  A start that failed halfway leaves the
\* parameters to the next one, in the state file.  Two deaths cannot be mended:
\* before the state file is written, and before the setting is saved that makes
\* the next process clean up.
Restored ==
    Quiet_ /\ ~ mgr.running /\ mishap = {} =>
        /\ os.resolv = "orig" /\ os.link = "orig" /\ ~ os.rules /\ ~ os.split /\ ~ os.dev
        /\ \/ os.forward = OrigForward /\ os.rp = OrigRpFilter
           \/ os.file = [forward |-> OrigForward, rp |-> OrigRpFilter, present |-> TRUE]

\* SwitchFollows: with nothing under way a running device is the saved setting, its
\* reader runs, and outgoing connections are bound around it exactly while it runs.
SwitchFollows ==
    Quiet_ => /\ mgr.running => enabled /\ reader = "read" /\ os.dev /\ os.split
              /\ mgr.bind = mgr.running

\* TunSound: the machine can be put back, is put back, and the switch is honoured.
TunSound == DnsKept /\ Restored /\ SwitchFollows
=============================================================================

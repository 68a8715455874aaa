--------------------------------- MODULE Ctl ---------------------------------
(***************************************************************************)
(* ncserverctl (bin/ncserverctl) and the service it controls.  The operator  *)
(* gives one command after the other: reload, which talks with the boss      *)
(* through the file .status that both of them write, stop and forcekill,     *)
(* start, and chloglvl, which changes the level of the log (NcLog) in every  *)
(* process of the service.                                                  *)
(***************************************************************************)
EXTENDS BossReload

CONSTANT Timeouts   \* may reload and stop give up before what they wait for?

ASSUME CtlAssumption == Timeouts \in BOOLEAN

VARIABLES
    cpc,      \* where ncserverctl is
    file,     \* what .status says
    force,    \* is the signal of the last stop SIGKILL?
    asked,    \* the version of the configuration the last reload was for
    result,   \* what the last command has told the operator
    level,    \* m_logLevel of the boss and of each manager
    wlevel,   \* m_logLevel of the workers of each manager
    wanted,   \* the level that was last asked for
    signals   \* what killall has still to signal with it

ctlVars == <<cpc, file, force, asked, result>>
logVars == <<level, wlevel, wanted, signals>>
allVars == <<vars, ctlVars, logVars>>

Levels == {"error", "debug"}
Kinds  == {"self", "workers"}     \* a process, or the workers forked by it

CtlTypeOK ==
    /\ cpc \in {"idle", "mark", "poll", "stopping", "level"}
    /\ file \in {"none", "reloading", "succ", "failed"}
    /\ asked \in 0 .. MaxReloads /\ force \in BOOLEAN
    /\ result \in {"none", "succ", "failed", "timeout", "stopped", "started", "already",
                   "error", "exception"}
    /\ level \in [Procs -> Levels] /\ wlevel \in [Pids -> Levels]
    /\ wanted \in Levels /\ signals \subseteq Kinds \X Procs

\* start_process has spawned the boss and created an empty .status.
CtlInit ==
    /\ Init
    /\ cpc = "idle" /\ file = "none" /\ force = FALSE /\ asked = 0 /\ result = "none"
    /\ level = [p \in Procs |-> "error"] /\ wlevel = [m \in Pids |-> "error"]
    /\ wanted = "error" /\ signals = {}

-----------------------------------------------------------------------------
(* The commands.                                                           *)

\* reload_process: the signal goes out first ...
CtlReload ==
    /\ cpc = "idle" /\ ReloadRequest
    /\ cpc' = "mark" /\ asked' = config' /\ result' = "none"
    /\ UNCHANGED <<file, force>>

\* The report of the reload before is left in the file.
CtlMarkNot ==
    /\ cpc = "mark" /\ cpc' = "poll"
    /\ UNCHANGED <<vars, file, force, asked, result>>

\* ... and then the file is overwritten, whatever the boss has written by now.
CtlMark ==
    /\ cpc = "mark" /\ cpc' = "poll" /\ file' = "reloading"
    /\ UNCHANGED <<vars, force, asked, result>>

\* One look at the file, and what it says is the result.
CtlReadOnce ==
    /\ cpc = "poll" /\ cpc' = "idle" /\ result' = file
    /\ UNCHANGED <<vars, file, force, asked>>

CtlRead ==
    /\ cpc = "poll" /\ file # "reloading" /\ cpc' = "idle"
    /\ result' = IF file = "succ" THEN "succ" ELSE "failed"
    /\ UNCHANGED <<vars, file, force, asked>>

\* stop_process, for stop or forcekill: killall, then it waits for the last process
\* to end, or for its timeout.
CtlStop ==
    /\ cpc = "idle" /\ ~NotRunning /\ Stop
    /\ cpc' = "stopping" /\ result' = "none" /\ force' \in BOOLEAN
    /\ UNCHANGED <<file, asked>>

\* SIGKILL reaches a process of the snapshot, and the workers of a manager with it,
\* but for one that a manager which was not told to end has forked since, in place of
\* a worker that was killed.
DeliverKill(p) ==
    /\ p \in targets /\ targets' = targets \ {p}
    /\ \/ p = Boss /\ bpc' = "gone" /\ UNCHANGED <<mpc, pool>>
       \/ /\ p \in Pids /\ UNCHANGED bpc
          /\ \E left \in {FALSE, Alive(p) /\ ~exit[p]} :
                pool' = [pool EXCEPT ![p] = @ /\ left]
          /\ mpc' = [mpc EXCEPT ![p] = IF Alive(p) THEN "zombie" ELSE @]
    /\ UNCHANGED <<reload, manager, newManager, status, finished, exit, mconf,
                   config, stopped>>

DeliverSignal(p) == (~force /\ DeliverTerm(p)) \/ (force /\ DeliverKill(p))

CtlStopped ==
    /\ cpc = "stopping" /\ NotRunning
    /\ cpc' = "idle" /\ file' = "none" /\ result' = "stopped"
    /\ UNCHANGED <<vars, force, asked>>

\* stop_process gives up; its files are left where they are.
CtlStopTimeout ==
    /\ Timeouts /\ cpc = "stopping" /\ targets = {}
    /\ cpc' = "idle" /\ result' = "timeout"
    /\ UNCHANGED <<vars, file, force, asked>>

\* start_process, when nothing runs: a new boss, for whatever configuration there is
\* by now; the command does not wait for more than the boss, and keeps a .status that
\* was not removed.
CtlStart ==
    /\ cpc = "idle" /\ NotRunning
    /\ bpc' = "start" /\ reload' = FALSE /\ manager' = NoPid /\ newManager' = NoPid
    /\ finished' = FALSE /\ status' = "none"
    /\ mpc' = [p \in Pids |-> "unborn"] /\ exit' = [p \in Procs |-> FALSE]
    /\ pool' = [p \in Pids |-> FALSE] /\ mconf' = [p \in Pids |-> 0]
    /\ stopped' = FALSE /\ targets' = {} /\ UNCHANGED config
    /\ result' = "started" /\ UNCHANGED <<cpc, file, force, asked>>
    /\ level' = [p \in Procs |-> "error"] /\ wlevel' = [m \in Pids |-> "error"]
    /\ wanted' = "error" /\ UNCHANGED signals

\* A command that tells its result and has changed nothing.
CtlNothing(r) ==
    /\ cpc = "idle" /\ result' = r
    /\ UNCHANGED <<vars, cpc, file, force, asked>>

\* start, while something runs, and stop, while nothing does, have nothing to do.
CtlAlready == CtlNothing("already")

\* killall fails, and stop_process does not wait; or spawn-fcgi fails, or what it has
\* spawned ends before it is seen.
CtlFails == CtlNothing("error")

\* reload_process, when the service does not run, calls start_process without its
\* second argument; when only the boss of .pid is gone, psutil's exception has no
\* returncode to print.
CtlReloadGone == bpc = "gone" /\ CtlNothing("exception")

CtlTimeout ==
    /\ Timeouts /\ cpc = "poll"
    /\ cpc' = "idle" /\ result' = "timeout"
    /\ UNCHANGED <<vars, file, force, asked>>

-----------------------------------------------------------------------------
(* The level of the log.                                                   *)

\* killall with SIGRTMIN + n, given while no reload is in progress: no system call
\* of the boss but sleep can be interrupted.
ChLogLevel(l) ==
    /\ cpc = "idle" /\ Quiet /\ Settled /\ ~stopped /\ l # wanted
    /\ cpc' = "level" /\ wanted' = l /\ result' = "none"
    /\ signals' = ({"self"} \X {p \in Procs : p = Boss \/ Alive(p)})
                    \cup ({"workers"} \X {m \in Pids : pool[m]})
    /\ UNCHANGED <<vars, file, force, asked, level, wlevel>>

\* _updateLogLevel: the handler of the process sets the level.
UpdateLogLevel(kind, p) ==
    /\ <<kind, p>> \in signals /\ signals' = signals \ {<<kind, p>>}
    /\ IF kind = "self"
       THEN level' = [level EXCEPT ![p] = wanted] /\ UNCHANGED wlevel
       ELSE wlevel' = [wlevel EXCEPT ![p] = wanted] /\ UNCHANGED level
    /\ UNCHANGED <<vars, ctlVars, wanted>>

ChLogLevelEnds ==
    /\ cpc = "level" /\ signals = {} /\ cpc' = "idle"
    /\ UNCHANGED <<vars, file, force, asked, result, logVars>>

\* A process that is forked starts with the level it is compiled with.
InheritedNot ==
    /\ level' = [p \in Procs |->
                    IF p \in Pids /\ mpc[p] = "unborn" THEN "error" ELSE level[p]]
    /\ wlevel' = [m \in Pids |-> IF pool[m] THEN wlevel[m] ELSE level[m]]
    /\ UNCHANGED <<wanted, signals>>

\* fork(): a manager starts with the level of the boss, a worker with that of
\* its manager.
Inherited ==
    /\ level' = [p \in Procs |->
                    IF p \in Pids /\ mpc[p] = "unborn" THEN level[Boss] ELSE level[p]]
    /\ wlevel' = [m \in Pids |-> IF pool[m] THEN wlevel[m] ELSE level[m]]
    /\ UNCHANGED <<wanted, signals>>

\* What the boss writes to .status is there for ncserverctl to read.
Reported ==
    /\ file' = IF status' = status THEN file ELSE status'
    /\ UNCHANGED <<cpc, force, asked, result>>

-----------------------------------------------------------------------------
Service == BossStep \/ \E m \in Pids : ManagerStep(m) \/ Crash(m)
CtlStep == CtlMark \/ CtlRead \/ CtlStopped
Command ==
    \/ CtlReload \/ CtlStop \/ CtlStep \/ CtlTimeout \/ CtlStopTimeout
    \/ CtlAlready \/ CtlFails \/ CtlReloadGone

CtlNext ==
    \/ (Service \/ \E p \in Procs : DeliverSignal(p)) /\ Reported /\ Inherited
    \/ Command /\ UNCHANGED logVars
    \/ CtlStart
    \/ \E l \in Levels : ChLogLevel(l)
    \/ \E kind \in Kinds, p \in Procs : UpdateLogLevel(kind, p)
    \/ ChLogLevelEnds

\* As in BossReload; ncserverctl goes on with a command it was given, and its
\* signals are delivered.  Whether it ever gives up is left open.
CtlFairness ==
    /\ WF_allVars(BossStep /\ Reported /\ Inherited)
    /\ \A m \in Pids : WF_allVars(GoesOn(m) /\ Reported /\ Inherited)
    /\ \A p \in Procs : WF_allVars(DeliverSignal(p) /\ Reported /\ Inherited)
    /\ WF_allVars((CtlStep /\ UNCHANGED logVars) \/ ChLogLevelEnds)
    /\ WF_allVars(\E kind \in Kinds, p \in Procs : UpdateLogLevel(kind, p))

CtlSpec == CtlInit /\ [][CtlNext]_allVars /\ CtlFairness

-----------------------------------------------------------------------------
(* Properties.                                                             *)

\* "Succeeded in Reloading" is true: workers serve with the configuration the
\* command was given for, not with that of a reload before it.
\* The boss may have been busy with another reload when the signal came.
SuccessIsTrue ==
    [][result' = "succ" /\ result # "succ" => stopped \/ Deployed(asked)]_allVars

\* "Failed to reload" is true as well: no worker serves, or will ever serve,
\* with the configuration that was refused.  The report is not that of an earlier
\* reload, and the manager that tried is dead.
FailureIsTrue ==
    result = "failed" /\ ~stopped =>
        \A m \in Pids : mconf[m] = asked => ~Alive(m) /\ ~pool[m]

\* A process that a stop or forcekill cannot end: one that was not told, or a worker
\* without a manager.
Missed == \E m \in Pids : (Alive(m) /\ ~exit[m]) \/ (pool[m] /\ ~Alive(m))

\* When the signals of a stop or forcekill are out and have missed no process, the boss,
\* every manager and every worker end, also in the middle of a reload: none of them
\* waits for another, unless a manager waits for ever for a worker that does not end.
StopEnds ==
    stopped /\ targets = {} /\ ~Missed ~>
        NotRunning \/ [](\E m \in Pids : mpc[m] = "stopping")

\* A service that was started serves with the configuration that is on disk, unless its
\* manager cannot load it, whatever was left by the service before it.
StartServes ==
    \A c \in 0 .. MaxReloads : result = "started" /\ config = c ~>
        Deployed(c) \/ (manager \in Pids /\ ~Alive(manager)) \/ stopped

\* Between two commands every process of the service logs at the level that was
\* last asked for with chloglvl, also the managers and workers forked since.
LevelIsEverywhere ==
    cpc # "level" =>
        /\ \A p \in Procs : p = Boss \/ Alive(p) => level[p] = wanted
        /\ \A m \in Pids : pool[m] => wlevel[m] = wanted
=============================================================================

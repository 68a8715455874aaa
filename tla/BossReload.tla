----------------------------- MODULE BossReload -----------------------------
(***************************************************************************)
(* The boss process of ncserver and the manager processes it forks          *)
(* (NcServer::runAndFork, src/ncserver.cpp): start, graceful reload on      *)
(* SIGUSR1, and shutdown on SIGTERM.                                        *)
(*                                                                         *)
(* The boss and its managers share one mmap'ed boolean,                     *)
(* managerFinishedForking ("finished" here).  A manager sets it once it has *)
(* forked its workers; the boss clears it before it forks a new manager and *)
(* polls it to learn that the new manager is ready.  The workers of a       *)
(* manager are one boolean here (pool); module WorkerPool has their detail. *)
(***************************************************************************)
EXTENDS Integers

CONSTANTS
    MaxReloads,   \* bound on the SIGUSR1 signals the boss is sent
    Faults        \* what the environment may do in this instance

(***************************************************************************)
(*   earlyReload    SIGUSR1 before the first manager has announced itself   *)
(*   overlap        SIGUSR1 while an earlier reload is still in progress    *)
(*   badConfig      .ncserver.yaml cannot be parsed                         *)
(*   noWorkers      its workerCount is 0 or less                            *)
(*   loadFail       prepareProcess or initUnforkableResources returns false *)
(*   crash          a manager is killed by something other than ncserver    *)
(*   memory         mmap or the boss's fork fails                           *)
(*   hole           a manager is stopped with a slot whose fork had failed  *)
(*   noStatus       the file .status does not exist                         *)
(*   stop           ncserverctl stop, first given with no reload in progress *)
(*   stopMidReload  ncserverctl stop at any moment                          *)
(*   stuck          a worker that is told to end does not, as Worker_spin     *)
(*                  shows, and keeps its manager waiting                      *)
(***************************************************************************)
KnownFaults == {"earlyReload", "overlap", "badConfig", "noWorkers", "loadFail", "crash",
                "memory", "hole", "noStatus", "stop", "stopMidReload", "stuck"}

ASSUME BossAssumption == MaxReloads \in Nat /\ Faults \subseteq KnownFaults

Boss  == 0
Pids  == 1 .. (MaxReloads + 1)     \* managers, numbered in the order of fork
Procs == {Boss} \cup Pids
NoPid == -1                        \* what fork returns when it fails

VARIABLES
    bpc,         \* where the boss is in runAndFork
    reload,      \* g_ncServerReload of the boss
    manager,     \* the boss's local variable: the serving manager
    newManager,  \* the boss's local variable: the manager being started
    finished,    \* managerFinishedForking, in memory shared by all of them
    status,      \* what the boss last wrote to .status
    mpc,         \* where each manager is
    exit,        \* g_ncServerExit of each process
    pool,        \* does a worker forked by this manager still serve?
    mconf,       \* the version of .ncserver.yaml each manager has loaded
    config,      \* the version of .ncserver.yaml on disk
    stopped,     \* has ncserverctl stop been run?
    targets      \* processes it found and has still to signal

bossVars == <<bpc, reload, manager, newManager, status>>
mgrVars  == <<mpc, pool, mconf>>
envVars  == <<config, stopped, targets>>
vars     == <<bossVars, finished, mgrVars, exit, envVars>>

BossPCs == {"start", "install", "poll", "sleep", "begin", "fork", "await",
            "probe", "decide", "retire", "succeed", "fail", "clear", "gone"}
MgrPCs  == {"unborn", "config", "loading", "forking", "announcing",
            "monitoring", "stopping", "zombie", "reaped"}

TypeOK ==
    /\ bpc \in BossPCs /\ reload \in BOOLEAN
    /\ manager \in Pids \cup {NoPid} /\ newManager \in Pids \cup {NoPid}
    /\ finished \in BOOLEAN
    /\ status \in {"none", "reloading", "succ", "failed"}
    /\ mpc \in [Pids -> MgrPCs]
    /\ exit \in [Procs -> BOOLEAN]
    /\ pool \in [Pids -> BOOLEAN]
    /\ mconf \in [Pids -> 0 .. MaxReloads]
    /\ config \in 0 .. MaxReloads
    /\ stopped \in BOOLEAN /\ targets \subseteq Procs

Init ==
    /\ bpc = "start" /\ reload = FALSE
    /\ manager = NoPid /\ newManager = NoPid
    /\ finished = FALSE /\ status = "none"
    /\ mpc = [p \in Pids |-> "unborn"]
    /\ exit = [p \in Procs |-> FALSE]
    /\ pool = [p \in Pids |-> FALSE]
    /\ mconf = [p \in Pids |-> 0]
    /\ config = 0 /\ stopped = FALSE /\ targets = {}

-----------------------------------------------------------------------------
(* The system calls of the boss.                                           *)

Alive(p)  == mpc[p] \notin {"unborn", "zombie", "reaped"}
InFlight  == bpc \in {"await", "probe", "decide", "retire", "succeed"}

\* A parent that keeps the 0 meant for the child.
ForkKeepsZero(r) ==
    \/ /\ r \in Pids /\ mpc[r] = "unborn"
       /\ \A q \in Pids : q < r => mpc[q] # "unborn"
       /\ mpc' = [mpc EXCEPT ![r] = "config"]
       /\ exit' = [exit EXCEPT ![r] = exit[Boss]]
    \/ "memory" \in Faults /\ r = Boss /\ UNCHANGED <<mpc, exit>>

\* fork(): the child inherits the parent's g_ncServerExit.
Fork(r) ==
    \/ /\ r \in Pids /\ mpc[r] = "unborn"
       /\ \A q \in Pids : q < r => mpc[q] # "unborn"
       /\ mpc' = [mpc EXCEPT ![r] = "config"]
       /\ exit' = [exit EXCEPT ![r] = exit[Boss]]
    \/ "memory" \in Faults /\ r = NoPid /\ UNCHANGED <<mpc, exit>>

\* kill(pid, SIGTERM) sets g_ncServerExit; pid -1 is every process but the caller.
Kill(caller, pid) ==
    exit' = [p \in Procs |->
                exit[p] \/ p = pid \/ (pid = NoPid /\ p # caller)]

\* waitpid(pid, ...): pid -1 is any child.  Returns says whether it has
\* something to return: a zombie, or the error that there is no such child.
Children(pid) == {p \in Pids : /\ mpc[p] \notin {"unborn", "reaped"}
                               /\ pid \in {p, NoPid}}
Zombies(pid)  == {p \in Children(pid) : mpc[p] = "zombie"}
Returns(pid)  == Children(pid) = {} \/ Zombies(pid) # {}
Reap(pid) ==
    \/ \E z \in Zombies(pid) : mpc' = [mpc EXCEPT ![z] = "reaped"]
    \/ Children(pid) = {} /\ UNCHANGED mpc

\* A signal that reaches the boss makes a blocked waitpid return with EINTR:
\* the handlers are installed without SA_RESTART.
Interrupt == bpc' = bpc \/ (bpc = "retire" /\ bpc' = "succeed")

\* recordStatus: without the file, fclose(NULL) is the end of the process.
RecordStatus(s, next) ==
    \/ bpc' = next /\ status' = s
    \/ "noStatus" \in Faults /\ bpc' = "gone" /\ UNCHANGED status

-----------------------------------------------------------------------------
(* The boss.                                                               *)

\* A step of the boss that changes nothing but its place.
BossMove(from, to) ==
    /\ bpc = from /\ bpc' = to
    /\ UNCHANGED <<reload, manager, newManager, finished, status, mgrVars, exit,
                   envVars>>

Start ==
    /\ bpc = "start"
    /\ \/ /\ Fork(manager') /\ bpc' = "install"
       \/ /\ "memory" \in Faults /\ bpc' = "gone"        \* mmap fails
          /\ UNCHANGED <<manager, mpc, exit>>
    /\ UNCHANGED <<reload, newManager, finished, status, pool, mconf, envVars>>

InstallHandler == BossMove("install", "poll")

\* The loop of the boss does not look at g_ncServerExit.
PollForever == BossMove("poll", "sleep")

Poll == BossMove("poll", IF exit[Boss] THEN "gone" ELSE "sleep")

Wake == BossMove("sleep", IF reload THEN "begin" ELSE "poll")

\* The shared flag is not cleared before the fork.
BeginReloadNoReset ==
    /\ bpc = "begin"
    /\ RecordStatus("reloading", "fork")
    /\ UNCHANGED <<finished, reload, manager, newManager, mgrVars, exit, envVars>>

BeginReload ==
    /\ bpc = "begin"
    /\ finished' = FALSE
    /\ RecordStatus("reloading", "fork")
    /\ UNCHANGED <<reload, manager, newManager, mgrVars, exit, envVars>>

ForkManager ==
    /\ bpc = "fork" /\ bpc' = "await"
    /\ Fork(newManager')
    /\ UNCHANGED <<reload, manager, finished, status, pool, mconf, envVars>>

Await == BossMove("await", IF finished THEN "decide" ELSE "probe")

\* The death of the new manager is not looked for.
ProbeBlind == BossMove("probe", "await")

Probe ==
    /\ bpc = "probe"
    /\ \/ ~Returns(newManager) /\ bpc' = "await" /\ UNCHANGED mpc
       \/ Reap(newManager) /\ bpc' = "decide"
    /\ UNCHANGED <<reload, manager, newManager, finished, status, pool, mconf,
                   exit, envVars>>

\* The end of the wait is taken for success: the flag is not read again.
DecideUnread ==
    /\ bpc = "decide" /\ bpc' = "retire" /\ Kill(Boss, manager)
    /\ UNCHANGED <<reload, manager, newManager, finished, status, mgrVars,
                   envVars>>

\* The old manager is not told to stop.
DecideNoKill == BossMove("decide", IF finished THEN "succeed" ELSE "fail")

Decide ==
    /\ bpc = "decide"
    /\ \/ finished /\ bpc' = "retire" /\ Kill(Boss, manager)
       \/ ~finished /\ bpc' = "fail" /\ UNCHANGED exit
    /\ UNCHANGED <<reload, manager, newManager, finished, status, mgrVars,
                   envVars>>

Retire ==
    /\ bpc = "retire" /\ bpc' = "succeed"
    /\ Reap(manager)
    /\ UNCHANGED <<reload, manager, newManager, finished, status, pool, mconf,
                   exit, envVars>>

Succeed ==
    /\ bpc = "succeed"
    /\ manager' = newManager
    /\ RecordStatus("succ", "clear")
    /\ UNCHANGED <<reload, newManager, finished, mgrVars, exit, envVars>>

Fail ==
    /\ bpc = "fail"
    /\ RecordStatus("failed", "clear")
    /\ UNCHANGED <<reload, manager, newManager, finished, mgrVars, exit, envVars>>

Clear ==
    /\ bpc = "clear" /\ bpc' = "poll"
    /\ reload' = FALSE
    /\ UNCHANGED <<manager, newManager, finished, status, mgrVars, exit, envVars>>

BossStep ==
    \/ Start \/ InstallHandler \/ Poll \/ Wake \/ BeginReload \/ ForkManager
    \/ Await \/ Probe \/ Decide \/ Retire \/ Succeed \/ Fail \/ Clear

-----------------------------------------------------------------------------
(* A manager.                                                              *)

Advance(m, from, to) == mpc[m] = from /\ mpc' = [mpc EXCEPT ![m] = to]

\* The manager goes on with what it inherited from the boss.
LoadConfigInherited(m) ==
    /\ Advance(m, "config", "loading")
    /\ UNCHANGED <<bossVars, finished, pool, mconf, exit, envVars>>

\* A file that cannot be parsed is ignored: the manager keeps what it was forked
\* with, which is the configuration compiled in, not that of the manager before it.
LoadConfig(m) ==
    /\ Advance(m, "config", "loading")
    /\ \/ mconf' = [mconf EXCEPT ![m] = config]
       \/ "badConfig" \in Faults /\ UNCHANGED mconf
    /\ UNCHANGED <<bossVars, finished, pool, exit, envVars>>

Prepare(m) ==
    /\ \/ Advance(m, "loading", "forking")
       \/ "loadFail" \in Faults /\ Advance(m, "loading", "zombie")
    /\ UNCHANGED <<bossVars, finished, pool, mconf, exit, envVars>>

\* A worker inherits g_ncServerExit, and with it set serves no request.  A manager
\* without workers goes on like any other.
ForkChildren(m) ==
    /\ Advance(m, "forking", "announcing")
    /\ \/ pool' = [pool EXCEPT ![m] = ~exit[m]]
       \/ "noWorkers" \in Faults /\ UNCHANGED pool
    /\ UNCHANGED <<bossVars, finished, mconf, exit, envVars>>

Announce(m) ==
    /\ Advance(m, "announcing", "monitoring")
    /\ finished' = TRUE
    /\ UNCHANGED <<bossVars, pool, mconf, exit, envVars>>

Monitor(m) ==
    /\ exit[m]
    /\ Advance(m, "monitoring", "stopping")
    /\ UNCHANGED <<bossVars, finished, pool, mconf, exit, envVars>>

\* kill and waitpid for every slot; a slot that holds -1 signals everyone.
StopPool(m) ==
    /\ Advance(m, "stopping", "zombie")
    /\ pool' = [pool EXCEPT ![m] = FALSE]
    /\ \/ UNCHANGED <<bpc, exit>>
       \/ "hole" \in Faults /\ Kill(m, NoPid) /\ Interrupt
    /\ UNCHANGED <<reload, manager, newManager, status, finished, mconf, envVars>>

ManagerStep(m) ==
    \/ LoadConfig(m) \/ Prepare(m) \/ ForkChildren(m) \/ Announce(m)
    \/ Monitor(m) \/ StopPool(m)

\* A manager dies; its workers are orphans and go on serving.
Crash(m) ==
    /\ "crash" \in Faults /\ Alive(m)
    /\ mpc' = [mpc EXCEPT ![m] = "zombie"]
    /\ UNCHANGED <<bossVars, finished, pool, mconf, exit, envVars>>

-----------------------------------------------------------------------------
(* The operator, through ncserverctl.                                      *)

Quiet   == bpc \in {"poll", "sleep"} /\ ~reload
Settled == manager # NoPid /\ mpc[manager] \notin
                {"config", "loading", "forking", "announcing"}

\* The configuration is edited, then SIGUSR1 is sent to the boss.  Before the
\* boss has installed its handler, SIGUSR1 terminates it.
ReloadRequest ==
    /\ bpc \notin {"start", "gone"} /\ ~stopped /\ config < MaxReloads
    /\ "earlyReload" \in Faults \/ Settled
    /\ "overlap" \in Faults \/ Quiet \/ bpc = "install"
    /\ config' = config + 1
    /\ IF bpc = "install"
       THEN bpc' = "gone" /\ UNCHANGED reload
       ELSE Interrupt /\ reload' = TRUE
    /\ UNCHANGED <<manager, newManager, status, finished, mgrVars, exit, stopped,
                   targets>>

NotRunning == bpc = "gone" /\ \A m \in Pids : ~Alive(m) /\ ~pool[m]

\* Only the process of .pid is signalled, as reload does.
StopPidOnly ==
    /\ targets = {}
    /\ \/ "stop" \in Faults /\ (stopped \/ (Quiet /\ Settled))
       \/ "stopMidReload" \in Faults /\ bpc # "start"
    /\ stopped' = TRUE
    /\ targets' = IF bpc = "gone" THEN {} ELSE {Boss}
    /\ UNCHANGED <<bossVars, finished, mgrVars, exit, config>>

\* find_procs_by_name takes a snapshot; a worker counts with its manager.  A stop
\* may be given again when the signals of the one before are out.
Stop ==
    /\ targets = {}
    /\ \/ "stop" \in Faults /\ (stopped \/ (Quiet /\ Settled))
       \/ "stopMidReload" \in Faults /\ bpc # "start"
    /\ stopped' = TRUE
    /\ targets' = {p \in Pids : Alive(p) \/ pool[p]}
                    \cup (IF bpc = "gone" THEN {} ELSE {Boss})
    /\ UNCHANGED <<bossVars, finished, mgrVars, exit, config>>

\* SIGTERM reaches a process of the snapshot, and workers left by a dead one.
DeliverTerm(p) ==
    /\ p \in targets /\ targets' = targets \ {p}
    /\ Kill(Boss, p)
    /\ \/ p = Boss /\ Interrupt /\ UNCHANGED pool
       \/ /\ p \in Pids /\ UNCHANGED bpc
          /\ \E stay \in {Alive(p), Alive(p) \/ "stuck" \in Faults} :
                pool' = [pool EXCEPT ![p] = @ /\ stay]
    /\ UNCHANGED <<reload, manager, newManager, status, finished, mpc, mconf,
                   config, stopped>>

-----------------------------------------------------------------------------
Next ==
    \/ BossStep
    \/ \E m \in Pids : ManagerStep(m) \/ Crash(m)
    \/ ReloadRequest \/ Stop \/ \E p \in Procs : DeliverTerm(p)

\* A manager goes on, but for the wait for a worker that does not end.
GoesOn(m) == ManagerStep(m) /\ ("stuck" \in Faults => mpc[m] # "stopping")

\* The processes are scheduled and a signal that was sent is delivered;
\* prepareProcess terminates, and so does the shutdown of the workers unless the
\* instance says "stuck".
Fairness ==
    /\ WF_vars(BossStep)
    /\ \A m \in Pids : WF_vars(GoesOn(m))
    /\ \A p \in Procs : WF_vars(DeliverTerm(p))

Spec == Init /\ [][Next]_vars /\ Fairness

-----------------------------------------------------------------------------
(* Properties.                                                             *)

Serving == \E m \in Pids : pool[m]

\* No-down-time reload: until the operator stops the service, no step of
\* anyone takes the last serving pool of workers away.  It relies on the order
\* in runAndFork: the old manager is told to stop only after the flag was seen.
NoDowntime == [][Serving /\ ~stopped => Serving']_vars

\* When the boss reports success, the manager it now relies on has forked its
\* workers and has not been told to stop.
SuccessMeansServing ==
    status = "succ" /\ ~stopped => pool[manager] /\ ~exit[manager]

\* The boss never loses track of a manager: one that runs and was not told to
\* stop is the current one, or the one a reload under way has just forked.
NoStrayManager ==
    \A m \in Pids : Alive(m) /\ ~exit[m] /\ bpc # "gone" =>
        m = manager \/ (m = newManager /\ InFlight)

\* When the signals of a stop are out, the boss has been told to end, and so has every
\* manager that runs but the one a reload has forked since killall looked, which goes
\* on without a boss: a process that killall did not see and that its parent forked
\* after it was told inherits the order.
StopMissesOnlyNew ==
    stopped /\ targets = {} =>
        /\ bpc = "gone" \/ exit[Boss]
        /\ \A m \in Pids : Alive(m) /\ ~exit[m] => m = newManager

\* A reload that the boss has begun ends in a report of success or of failure,
\* unless the boss itself ends.
ReloadCompletes == status = "reloading" ~> status # "reloading" \/ bpc = "gone"

\* The configuration that is on disk when the boss forks the new manager comes
\* into force, or the operator is told of the failure.
Deployed(c)  == \E m \in Pids : pool[m] /\ mconf[m] >= c
Told         == status = "failed" \/ stopped \/ bpc = "gone"
ReloadTakesEffect ==
    \A c \in 1 .. MaxReloads : bpc = "fork" /\ config = c ~> Deployed(c) \/ Told

\* The manager the boss relies on, from the moment the others are told to stop.
Current == IF bpc \in {"retire", "succeed"} THEN newManager ELSE manager
Pools == {m \in Pids : pool[m]}
Phase == CASE bpc = "start" -> "down"
           [] bpc \in {"fork", "await", "probe", "decide", "fail"} -> "reloading"
           [] bpc \in {"retire", "succeed"} -> "switched"
           [] bpc = "gone" -> "ended"
           [] OTHER -> "up"

\* runAndFork does what Handover promises: the pool relied on stays until the new
\* one serves, the boss reports each reload once and truly, and a reload that
\* fails changes nothing.
Promise == INSTANCE Handover
    WITH Managers <- Pids, None <- NoPid, serving <- Pools,
         current <- Current, phase <- Phase, report <- status
ReloadsAsPromised == Promise!Spec

\* After a successful reload the workers of the former managers go away, also when a
\* signal has ended the boss's wait for the old manager before it was gone.  Only the
\* death of such a manager by another hand leaves its workers behind.
OldPoolRetires ==
    \A m \in Pids : status = "succ" /\ pool[m] /\ Alive(m) /\ m # manager ~>
                        ~pool[m] \/ ~Alive(m)
=============================================================================

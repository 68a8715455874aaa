-------------------------- MODULE BossReload_proof --------------------------
(***************************************************************************)
(* What holds of the boss and its managers for every number of reloads.     *)
(***************************************************************************)
EXTENDS BossReload, TLAPS

-----------------------------------------------------------------------------
(* Type correctness.                                                       *)

\* fork yields a process number or NoPid, and touches two tables of processes.
LEMMA ForkType ==
    ASSUME TypeOK, NEW r, Fork(r)
    PROVE  /\ r \in Pids \cup {NoPid}
           /\ mpc' \in [Pids -> MgrPCs]
           /\ exit' \in [Procs -> BOOLEAN]
BY DEF TypeOK, Fork, MgrPCs, Procs

LEMMA KillType ==
    ASSUME TypeOK, NEW c, NEW p, Kill(c, p)
    PROVE  exit' \in [Procs -> BOOLEAN]
BY DEF TypeOK, Kill

LEMMA ReapType ==
    ASSUME TypeOK, NEW p, Reap(p)
    PROVE  mpc' \in [Pids -> MgrPCs]
BY DEF TypeOK, Reap, Zombies, Children, MgrPCs

\* waitpid turns at most a zombie into a reaped process, and leaves nothing of
\* the process it was asked for.
LEMMA ReapEffect ==
    ASSUME TypeOK, NEW p, Reap(p)
    PROVE  /\ \A m \in Pids : \/ mpc'[m] = mpc[m]
                              \/ mpc[m] = "zombie" /\ mpc'[m] = "reaped"
           /\ p \in Pids => mpc'[p] \in {"unborn", "reaped"}
<1>1. NoPid \notin Pids
    BY DEF NoPid, Pids
<1>2. CASE \E z \in Zombies(p) : mpc' = [mpc EXCEPT ![z] = "reaped"]
    <2>1. PICK z \in Zombies(p) : mpc' = [mpc EXCEPT ![z] = "reaped"]
        BY <1>2
    <2>2. z \in Pids /\ mpc[z] = "zombie" /\ (p \in Pids => p = z)
        BY <1>1 DEF Zombies, Children
    <2> QED BY <2>1, <2>2 DEF TypeOK
<1>3. CASE Children(p) = {} /\ UNCHANGED mpc
    <2>1. ASSUME p \in Pids PROVE mpc[p] \in {"unborn", "reaped"}
        BY <1>3, <2>1 DEF Children
    <2> QED BY <1>3, <2>1
<1> QED BY <1>2, <1>3 DEF Reap

LEMMA AdvanceType ==
    ASSUME TypeOK, NEW m \in Pids, NEW f, NEW t \in MgrPCs, Advance(m, f, t)
    PROVE  mpc' \in [Pids -> MgrPCs]
BY DEF TypeOK, Advance

\* SIGTERM takes at most the orphans of a dead manager away.
LEMMA TermEffect ==
    ASSUME TypeOK, NEW p \in Procs, DeliverTerm(p)
    PROVE  /\ pool' \in [Pids -> BOOLEAN]
           /\ \A m \in Pids : /\ pool'[m] => pool[m]
                              /\ Alive(m) \/ m # p => pool'[m] = pool[m]
<1>1. CASE UNCHANGED pool
    BY <1>1 DEF TypeOK
<1>2. CASE p \in Pids /\ \E stay \in {Alive(p), Alive(p) \/ "stuck" \in Faults} :
                                pool' = [pool EXCEPT ![p] = @ /\ stay]
    <2>1. PICK stay \in {Alive(p), Alive(p) \/ "stuck" \in Faults} :
                 pool' = [pool EXCEPT ![p] = @ /\ stay]
        BY <1>2
    <2>2. Alive(p) => stay
        BY <2>1
    <2>3. \A m \in Pids : pool'[m] = IF m = p THEN pool[m] /\ stay ELSE pool[m]
        BY <2>1 DEF TypeOK
    <2>4. pool' = [m \in Pids |-> IF m = p THEN pool[m] /\ stay ELSE pool[m]]
        BY <2>1 DEF TypeOK
    <2>5. pool' \in [Pids -> BOOLEAN]
        BY <2>4 DEF TypeOK
    <2>6. \A m \in Pids : pool[m] \in BOOLEAN
        BY DEF TypeOK
    <2> QED BY <2>2, <2>3, <2>5, <2>6
<1> QED BY <1>1, <1>2 DEF DeliverTerm

LEMMA TypeStep == TypeOK /\ [Next]_vars => TypeOK'
<1> SUFFICES ASSUME TypeOK, [Next]_vars PROVE TypeOK'
    OBVIOUS
<1> USE BossAssumption DEF envVars, mgrVars, bossVars
<1>1. CASE Start
    <2>1. CASE Fork(manager')
        BY <1>1, <2>1, ForkType DEF Start, TypeOK, BossPCs
    <2>2. CASE UNCHANGED <<manager, mpc, exit>>
        BY <1>1, <2>2 DEF Start, TypeOK, BossPCs
    <2> QED BY <1>1, <2>1, <2>2 DEF Start
<1>2. CASE InstallHandler
    BY <1>2 DEF InstallHandler, BossMove, TypeOK, BossPCs
<1>3. CASE Poll
    BY <1>3 DEF Poll, BossMove, TypeOK, BossPCs
<1>4. CASE Wake
    BY <1>4 DEF Wake, BossMove, TypeOK, BossPCs
<1>5. CASE BeginReload
    BY <1>5 DEF BeginReload, RecordStatus, TypeOK, BossPCs
<1>6. CASE ForkManager
    BY <1>6, ForkType DEF ForkManager, TypeOK, BossPCs
<1>7. CASE Await
    BY <1>7 DEF Await, BossMove, TypeOK, BossPCs
<1>8. CASE Probe
    BY <1>8, ReapType DEF Probe, TypeOK, BossPCs
<1>9. CASE Decide
    BY <1>9, KillType DEF Decide, TypeOK, BossPCs
<1>10. CASE Retire
    BY <1>10, ReapType DEF Retire, TypeOK, BossPCs
<1>11. CASE Succeed
    BY <1>11 DEF Succeed, RecordStatus, TypeOK, BossPCs
<1>12. CASE Fail
    BY <1>12 DEF Fail, RecordStatus, TypeOK, BossPCs
<1>13. CASE Clear
    BY <1>13 DEF Clear, TypeOK, BossPCs
<1>14. ASSUME NEW m \in Pids, ManagerStep(m) PROVE TypeOK'
    <2> USE DEF MgrPCs
    <2>1. CASE LoadConfig(m)
        BY <2>1, AdvanceType DEF LoadConfig, TypeOK
    <2>2. CASE Prepare(m)
        BY <2>2, AdvanceType DEF Prepare, TypeOK
    <2>3. CASE ForkChildren(m)
        BY <2>3, AdvanceType DEF ForkChildren, TypeOK, Procs
    <2>4. CASE Announce(m)
        BY <2>4, AdvanceType DEF Announce, TypeOK
    <2>5. CASE Monitor(m)
        BY <2>5, AdvanceType DEF Monitor, TypeOK
    <2>6. CASE StopPool(m)
        BY <2>6, AdvanceType, KillType DEF StopPool, Interrupt, TypeOK, BossPCs
    <2> QED BY <1>14, <2>1, <2>2, <2>3, <2>4, <2>5, <2>6 DEF ManagerStep
<1>15. ASSUME NEW m \in Pids, Crash(m) PROVE TypeOK'
    BY <1>15 DEF Crash, TypeOK, MgrPCs
<1>16. CASE ReloadRequest
    <2>1. config' \in 0 .. MaxReloads
        BY <1>16 DEF ReloadRequest, TypeOK
    <2>2. bpc' \in BossPCs /\ reload' \in BOOLEAN
        BY <1>16 DEF ReloadRequest, Interrupt, TypeOK, BossPCs
    <2> QED BY <1>16, <2>1, <2>2 DEF ReloadRequest, TypeOK
<1>17. CASE Stop
    BY <1>17 DEF Stop, TypeOK, Procs
<1>18. ASSUME NEW p \in Procs, DeliverTerm(p) PROVE TypeOK'
    BY <1>18, KillType, TermEffect DEF DeliverTerm, Interrupt, TypeOK, BossPCs
<1>19. CASE UNCHANGED vars
    BY <1>19 DEF vars, TypeOK
<1>20. BossStep => TypeOK'
    BY <1>1, <1>2, <1>3, <1>4, <1>5, <1>6, <1>7, <1>8, <1>9, <1>10, <1>11,
       <1>12, <1>13 DEF BossStep
<1> QED
    BY <1>14, <1>15, <1>16, <1>17, <1>18, <1>19, <1>20 DEF Next

LEMMA TypeInit == Init => TypeOK
<1>1. 0 \in 0 .. MaxReloads
    BY BossAssumption
<1> QED BY <1>1 DEF Init, TypeOK, BossPCs, MgrPCs

\* Every variable keeps its type, whatever the environment does.
THEOREM TypeCorrect == Spec => []TypeOK
    BY TypeInit, TypeStep, PTL DEF Spec

-----------------------------------------------------------------------------
(* No manager is lost.                                                     *)

\* No manager exists before the boss's first fork; a reload that is about to
\* be given up has no live manager of its own; and a manager that is being
\* retired has been told to stop.
Tracked ==
    /\ bpc = "start" => \A m \in Pids : mpc[m] = "unborn"
    /\ bpc = "decide" /\ ~finished => ~(newManager \in Pids /\ Alive(newManager))
    /\ bpc \in {"retire", "succeed"} /\ manager \in Pids => exit[manager]
    /\ NoStrayManager

LEMMA TrackedStep == TypeOK /\ Tracked /\ [Next]_vars => Tracked'
<1> SUFFICES ASSUME TypeOK, Tracked, [Next]_vars PROVE Tracked'
    OBVIOUS
<1> USE DEF envVars, mgrVars, bossVars, Tracked, NoStrayManager, Alive, InFlight
<1>1. CASE Start
    BY <1>1 DEF Start, Fork, TypeOK
<1>2. CASE InstallHandler
    BY <1>2 DEF InstallHandler, BossMove, TypeOK
<1>3. CASE Poll
    BY <1>3 DEF Poll, BossMove, TypeOK
<1>4. CASE Wake
    BY <1>4 DEF Wake, BossMove, TypeOK
<1>5. CASE BeginReload
    BY <1>5 DEF BeginReload, RecordStatus, TypeOK
<1>6. CASE ForkManager
    <2>1. ASSUME NEW m \in Pids, m # newManager'
          PROVE  mpc'[m] = mpc[m] /\ exit'[m] = exit[m]
        BY <1>6, <2>1 DEF ForkManager, Fork, TypeOK, Procs
    <2> QED BY <1>6, <2>1 DEF ForkManager
<1>7. CASE Await
    BY <1>7 DEF Await, BossMove, TypeOK
<1>8. CASE Probe
    <2>1. CASE ~Returns(newManager) /\ bpc' = "await" /\ UNCHANGED mpc
        BY <1>8, <2>1 DEF Probe, TypeOK
    <2>2. CASE Reap(newManager) /\ bpc' = "decide"
        BY <1>8, <2>2, ReapEffect DEF Probe, TypeOK
    <2> QED BY <1>8, <2>1, <2>2 DEF Probe
<1>9. CASE Decide
    BY <1>9 DEF Decide, Kill, TypeOK, Procs
<1>10. CASE Retire
    BY <1>10, ReapEffect DEF Retire, TypeOK
<1>11. CASE Succeed
    BY <1>11 DEF Succeed, RecordStatus, TypeOK
<1>12. CASE Fail
    BY <1>12 DEF Fail, RecordStatus, TypeOK
<1>13. CASE Clear
    BY <1>13 DEF Clear, TypeOK
<1>14. ASSUME NEW k \in Pids, ManagerStep(k) PROVE Tracked'
    <2> USE DEF Advance
    <2>1. CASE LoadConfig(k)
        BY <2>1 DEF LoadConfig, TypeOK
    <2>2. CASE Prepare(k)
        BY <2>2 DEF Prepare, TypeOK
    <2>3. CASE ForkChildren(k)
        BY <2>3 DEF ForkChildren, TypeOK
    <2>4. CASE Announce(k)
        BY <2>4 DEF Announce, TypeOK
    <2>5. CASE Monitor(k)
        BY <2>5 DEF Monitor, TypeOK
    <2>6. CASE StopPool(k)
        BY <2>6 DEF StopPool, Kill, Interrupt, TypeOK, Procs
    <2> QED BY <1>14, <2>1, <2>2, <2>3, <2>4, <2>5, <2>6 DEF ManagerStep
<1>15. ASSUME NEW k \in Pids, Crash(k) PROVE Tracked'
    BY <1>15 DEF Crash, TypeOK
<1>16. CASE ReloadRequest
    BY <1>16 DEF ReloadRequest, Interrupt, TypeOK
<1>17. CASE Stop
    BY <1>17 DEF Stop, TypeOK
<1>18. ASSUME NEW p \in Procs, DeliverTerm(p) PROVE Tracked'
    BY <1>18 DEF DeliverTerm, Kill, Interrupt, TypeOK, Procs
<1>19. CASE UNCHANGED vars
    BY <1>19 DEF vars
<1>20. BossStep => Tracked'
    BY <1>1, <1>2, <1>3, <1>4, <1>5, <1>6, <1>7, <1>8, <1>9, <1>10, <1>11,
       <1>12, <1>13 DEF BossStep
<1> QED
    BY <1>14, <1>15, <1>16, <1>17, <1>18, <1>19, <1>20 DEF Next

\* Whatever fails, is overlapped or is stopped: the boss knows every manager
\* that runs and has not been told to stop (manager and newManager in
\* runAndFork are enough to find them all).
THEOREM NoManagerIsLost == Spec => []NoStrayManager
<1>1. Init => TypeOK /\ Tracked
    BY TypeInit DEF Init, Tracked, NoStrayManager, Alive
<1>2. TypeOK /\ Tracked /\ [Next]_vars => (TypeOK /\ Tracked)'
    BY TypeStep, TrackedStep
<1>3. Tracked => NoStrayManager
    BY DEF Tracked
<1> QED BY <1>1, <1>2, <1>3, PTL DEF Spec

-----------------------------------------------------------------------------
(* A stop misses no more than one manager.                                  *)

\* A stop finds the boss started.  The boss was told, or its signal is on the way; so
\* was every manager that runs, but for one, and with that one the boss has come so far
\* in its reload that it forks no other without having been told.
Stoppable == bpc = "start" => ~stopped
StopInv ==
    /\ Stoppable
    /\ stopped =>
         /\ bpc = "gone" \/ exit[Boss] \/ Boss \in targets
         /\ \A m \in Pids : Alive(m) /\ ~exit[m] /\ m \notin targets =>
               /\ m = newManager /\ bpc \notin {"start", "install", "begin", "fork"}
               /\ bpc \in {"poll", "sleep"} => ~reload

LEMMA StopInvStep == TypeOK /\ StopInv /\ [Next]_vars => StopInv'
<1> SUFFICES ASSUME TypeOK, StopInv, [Next]_vars PROVE StopInv'
    OBVIOUS
<1> USE DEF envVars, mgrVars, bossVars, Stoppable, StopInv, Alive
<1>0. Boss \in Procs /\ Pids \subseteq Procs /\ Boss \notin Pids
    BY DEF Procs, Boss, Pids
<1>1. CASE Start
    BY <1>1 DEF Start
<1>2. CASE InstallHandler
    BY <1>2 DEF InstallHandler, BossMove, TypeOK
<1>3. CASE Poll
    BY <1>3 DEF Poll, BossMove, TypeOK
<1>4. CASE Wake
    BY <1>4 DEF Wake, BossMove, TypeOK
<1>5. CASE BeginReload
    BY <1>5 DEF BeginReload, RecordStatus, TypeOK
<1>6. CASE ForkManager
    <2>1. ASSUME NEW m \in Pids, m # newManager'
          PROVE  mpc'[m] = mpc[m] /\ exit'[m] = exit[m]
        BY <1>0, <1>6, <2>1 DEF ForkManager, Fork, TypeOK
    <2>2. exit'[Boss] = exit[Boss]
        BY <1>0, <1>6 DEF ForkManager, Fork, TypeOK
    <2> QED BY <1>6, <2>1, <2>2 DEF ForkManager
<1>7. CASE Await
    BY <1>7 DEF Await, BossMove, TypeOK
<1>8. CASE Probe
    <2>1. \A m \in Pids : mpc'[m] = mpc[m] \/ mpc'[m] = "reaped"
        BY <1>8, ReapEffect DEF Probe
    <2> QED BY <1>8, <2>1 DEF Probe
<1>9. CASE Decide
    BY <1>0, <1>9 DEF Decide, Kill, TypeOK
<1>10. CASE Retire
    <2>1. \A m \in Pids : mpc'[m] = mpc[m] \/ mpc'[m] = "reaped"
        BY <1>10, ReapEffect DEF Retire
    <2> QED BY <1>10, <2>1 DEF Retire
<1>11. CASE Succeed
    BY <1>11 DEF Succeed, RecordStatus, TypeOK
<1>12. CASE Fail
    BY <1>12 DEF Fail, RecordStatus, TypeOK
<1>13. CASE Clear
    BY <1>13 DEF Clear, TypeOK
<1>14. ASSUME NEW k \in Pids, ManagerStep(k) PROVE StopInv'
    <2> USE DEF Advance
    <2>1. CASE LoadConfig(k)
        BY <2>1 DEF LoadConfig, TypeOK
    <2>2. CASE Prepare(k)
        BY <2>2 DEF Prepare, TypeOK
    <2>3. CASE ForkChildren(k)
        BY <2>3 DEF ForkChildren, TypeOK
    <2>4. CASE Announce(k)
        BY <2>4 DEF Announce, TypeOK
    <2>5. CASE Monitor(k)
        BY <2>5 DEF Monitor, TypeOK
    <2>6. CASE StopPool(k)
        BY <1>0, <2>6 DEF StopPool, Kill, Interrupt, TypeOK
    <2> QED BY <1>14, <2>1, <2>2, <2>3, <2>4, <2>5, <2>6 DEF ManagerStep
<1>15. ASSUME NEW k \in Pids, Crash(k) PROVE StopInv'
    BY <1>15 DEF Crash, TypeOK
<1>16. CASE ReloadRequest
    BY <1>16 DEF ReloadRequest, Interrupt, TypeOK
<1>17. CASE Stop
    BY <1>17 DEF Stop, Quiet, TypeOK
<1>18. ASSUME NEW p \in Procs, DeliverTerm(p) PROVE StopInv'
    <2>1. \A q \in Procs : exit'[q] = (exit[q] \/ q = p \/ (p = NoPid /\ q # Boss))
        BY <1>18 DEF DeliverTerm, Kill
    <2>2. /\ targets' = targets \ {p} /\ mpc' = mpc
          /\ UNCHANGED <<stopped, newManager, reload>>
          /\ bpc' = bpc \/ (bpc = "retire" /\ bpc' = "succeed")
        BY <1>18 DEF DeliverTerm, Interrupt
    <2> QED BY <1>0, <2>1, <2>2 DEF TypeOK
<1>19. CASE UNCHANGED vars
    BY <1>19 DEF vars
<1>20. BossStep => StopInv'
    BY <1>1, <1>2, <1>3, <1>4, <1>5, <1>6, <1>7, <1>8, <1>9, <1>10, <1>11,
       <1>12, <1>13 DEF BossStep
<1> QED
    BY <1>14, <1>15, <1>16, <1>17, <1>18, <1>19, <1>20 DEF Next

LEMMA StopInvEnds == StopInv => StopMissesOnlyNew
BY DEF StopInv, StopMissesOnlyNew

\* Whatever fails or is overlapped, and whenever the stop is given: once its signals are
\* out, the boss and every manager but the one just forked have been told to end.
THEOREM StopFindsAll == Spec => []StopMissesOnlyNew
<1>1. Init => TypeOK /\ StopInv
    BY TypeInit DEF Init, StopInv, Stoppable
<1>2. TypeOK /\ StopInv /\ [Next]_vars => (TypeOK /\ StopInv)'
    BY TypeStep, StopInvStep
<1> QED BY <1>1, <1>2, StopInvEnds, PTL DEF Spec

-----------------------------------------------------------------------------
(* A reload hands over without a gap.  It needs what the code does not       *)
(* check: no reload before the first manager is ready, no failing fork, a    *)
(* workerCount that is not 0.                                              *)

NoGapFault == {"earlyReload", "noWorkers", "memory", "hole"} \cap Faults = {}

Starting  == {"config", "loading", "forking", "announcing"}
Reloading == {"fork", "await", "probe", "decide", "retire", "succeed", "fail"}
Waiting   == {"await", "probe", "decide"}

\* The boss has forked a manager, and is in a reload only while it says so.
BossInv ==
    /\ bpc = "start" => /\ ~reload /\ status = "none"
                       /\ \A m \in Pids : mpc[m] = "unborn"
    /\ bpc = "install" => ~reload
    /\ bpc # "start" => manager \in Pids /\ mpc[manager] # "unborn"
    /\ InFlight => newManager \in Pids /\ mpc[newManager] # "unborn"
    /\ bpc \in Reloading => status = "reloading"

\* At most one manager is starting, and a set flag is its own announcement.
FlagInv ==
    /\ \A m \in Pids : mpc[m] \in Starting /\ bpc # "gone" =>
          \/ m = manager /\ bpc \in {"install", "poll", "sleep"} /\ ~reload
          \/ m = newManager /\ bpc \in {"await", "probe"}
    /\ bpc = "fork" => ~finished
    /\ bpc \in Waiting => /\ newManager \in Pids /\ newManager # manager
                          /\ finished => mpc[newManager] \notin Starting

\* Until the operator stops the service, whoever was told to stop was told by
\* Decide, and then the current manager serves and was not told.
ServeInv ==
    /\ \A m \in Pids : mpc[m] = "stopping" => exit[m]
    /\ ~stopped =>
         /\ targets = {} /\ ~exit[Boss]
         /\ \A m \in Pids : mpc[m] \in Starting \cup {"unborn"} => ~exit[m]
         /\ \A m \in Pids : mpc[m] = "announcing" => pool[m]
         /\ bpc \in Waiting => ~exit[newManager] /\ (finished => pool[newManager])
         /\ bpc \in {"retire", "succeed"} \/ (\E m \in Pids : exit[m]) =>
               Current \in Pids /\ pool[Current] /\ ~exit[Current]
         /\ status = "succ" => pool[manager] /\ ~exit[manager]

HandoverInv == BossInv /\ FlagInv /\ ServeInv

\* When fork does not fail, it makes the next process, without an order to stop
\* unless the boss has one.
LEMMA ForkEffect ==
    ASSUME NoGapFault, TypeOK, NEW r, Fork(r)
    PROVE  /\ r \in Pids /\ mpc[r] = "unborn"
           /\ mpc'[r] = "config" /\ exit'[r] = exit[Boss]
           /\ \A m \in Pids \ {r} : mpc'[m] = mpc[m]
           /\ \A p \in Procs \ {r} : exit'[p] = exit[p]
BY DEF NoGapFault, Fork, TypeOK, Procs

LEMMA Numbers == Boss \notin Pids /\ NoPid \notin Pids /\ NoPid # Boss
BY DEF Boss, NoPid, Pids

LEMMA BossInvStep ==
    ASSUME NoGapFault, TypeOK, HandoverInv, [Next]_vars
    PROVE  BossInv'
<1> USE NoGapFault
    DEF NoGapFault, envVars, mgrVars, bossVars, HandoverInv, BossInv, InFlight, Reloading, FlagInv
<1>1. CASE Start
    BY <1>1, ForkEffect DEF Start, TypeOK
<1>2. CASE InstallHandler
    BY <1>2 DEF InstallHandler, BossMove, TypeOK
<1>3. CASE Poll
    BY <1>3 DEF Poll, BossMove, TypeOK
<1>4. CASE Wake
    BY <1>4 DEF Wake, BossMove, TypeOK
<1>5. CASE BeginReload
    BY <1>5 DEF BeginReload, RecordStatus, TypeOK
<1>6. CASE ForkManager
    BY <1>6, ForkEffect DEF ForkManager, TypeOK
<1>7. CASE Await
    BY <1>7 DEF Await, BossMove, TypeOK
<1>8. CASE Probe
    BY <1>8, ReapEffect DEF Probe, TypeOK
<1>9. CASE Decide
    BY <1>9 DEF Decide, Kill, TypeOK
<1>10. CASE Retire
    BY <1>10, ReapEffect DEF Retire, TypeOK
<1>11. CASE Succeed
    BY <1>11 DEF Succeed, RecordStatus, TypeOK
<1>12. CASE Fail
    BY <1>12 DEF Fail, RecordStatus, TypeOK
<1>13. CASE Clear
    BY <1>13 DEF Clear, TypeOK
<1>14. ASSUME NEW k \in Pids, ManagerStep(k) PROVE BossInv'
    <2> USE DEF Advance
    <2>1. CASE LoadConfig(k)
        BY <2>1 DEF LoadConfig, TypeOK
    <2>2. CASE Prepare(k)
        BY <2>2 DEF Prepare, TypeOK
    <2>3. CASE ForkChildren(k)
        BY <2>3 DEF ForkChildren, TypeOK
    <2>4. CASE Announce(k)
        BY <2>4 DEF Announce, TypeOK
    <2>5. CASE Monitor(k)
        BY <2>5 DEF Monitor, TypeOK
    <2>6. CASE StopPool(k)
        BY <2>6 DEF StopPool, Interrupt, TypeOK
    <2> QED BY <1>14, <2>1, <2>2, <2>3, <2>4, <2>5, <2>6 DEF ManagerStep
<1>15. ASSUME NEW k \in Pids, Crash(k) PROVE BossInv'
    BY <1>15 DEF Crash, Alive, TypeOK
<1>16. CASE ReloadRequest
    BY <1>16 DEF ReloadRequest, Settled, Interrupt, TypeOK
<1>17. CASE Stop
    BY <1>17 DEF Stop, TypeOK
<1>18. ASSUME NEW p \in Procs, DeliverTerm(p) PROVE BossInv'
    BY <1>18 DEF DeliverTerm, Kill, Interrupt, TypeOK, Procs
<1>19. CASE UNCHANGED vars
    BY <1>19 DEF vars
<1>20. BossStep => BossInv'
    BY <1>1, <1>2, <1>3, <1>4, <1>5, <1>6, <1>7, <1>8, <1>9, <1>10, <1>11,
       <1>12, <1>13 DEF BossStep
<1> QED
    BY <1>14, <1>15, <1>16, <1>17, <1>18, <1>19, <1>20 DEF Next

LEMMA FlagInvStep ==
    ASSUME NoGapFault, TypeOK, HandoverInv, [Next]_vars
    PROVE  FlagInv'
<1> USE NoGapFault
    DEF NoGapFault, envVars, mgrVars, bossVars, HandoverInv, BossInv, InFlight, Waiting, Starting, FlagInv
<1>1. CASE Start
    BY <1>1, ForkEffect DEF Start, TypeOK
<1>2. CASE InstallHandler
    BY <1>2 DEF InstallHandler, BossMove, TypeOK
<1>3. CASE Poll
    BY <1>3 DEF Poll, BossMove, TypeOK
<1>4. CASE Wake
    BY <1>4 DEF Wake, BossMove, TypeOK
<1>5. CASE BeginReload
    BY <1>5 DEF BeginReload, RecordStatus, TypeOK
<1>6. CASE ForkManager
    BY <1>6, ForkEffect DEF ForkManager, TypeOK
<1>7. CASE Await
    BY <1>7 DEF Await, BossMove, TypeOK
<1>8. CASE Probe
    BY <1>8, ReapEffect DEF Probe, TypeOK
<1>9. CASE Decide
    BY <1>9 DEF Decide, Kill, TypeOK
<1>10. CASE Retire
    BY <1>10, ReapEffect DEF Retire, TypeOK
<1>11. CASE Succeed
    BY <1>11 DEF Succeed, RecordStatus, TypeOK
<1>12. CASE Fail
    BY <1>12 DEF Fail, RecordStatus, TypeOK
<1>13. CASE Clear
    BY <1>13 DEF Clear, TypeOK
<1>14. ASSUME NEW k \in Pids, ManagerStep(k) PROVE FlagInv'
    <2> USE DEF Advance
    <2>1. CASE LoadConfig(k)
        BY <2>1 DEF LoadConfig, TypeOK
    <2>2. CASE Prepare(k)
        BY <2>2 DEF Prepare, TypeOK
    <2>3. CASE ForkChildren(k)
        BY <2>3 DEF ForkChildren, TypeOK
    <2>4. CASE Announce(k)
        BY <2>4 DEF Announce, TypeOK
    <2>5. CASE Monitor(k)
        BY <2>5 DEF Monitor, TypeOK
    <2>6. CASE StopPool(k)
        BY <2>6 DEF StopPool, Interrupt, TypeOK
    <2> QED BY <1>14, <2>1, <2>2, <2>3, <2>4, <2>5, <2>6 DEF ManagerStep
<1>15. ASSUME NEW k \in Pids, Crash(k) PROVE FlagInv'
    BY <1>15 DEF Crash, Alive, TypeOK
<1>16. CASE ReloadRequest
    BY <1>16 DEF ReloadRequest, Settled, Interrupt, TypeOK
<1>17. CASE Stop
    BY <1>17 DEF Stop, TypeOK
<1>18. ASSUME NEW p \in Procs, DeliverTerm(p) PROVE FlagInv'
    BY <1>18 DEF DeliverTerm, Kill, Interrupt, TypeOK, Procs
<1>19. CASE UNCHANGED vars
    BY <1>19 DEF vars
<1>20. BossStep => FlagInv'
    BY <1>1, <1>2, <1>3, <1>4, <1>5, <1>6, <1>7, <1>8, <1>9, <1>10, <1>11,
       <1>12, <1>13 DEF BossStep
<1> QED
    BY <1>14, <1>15, <1>16, <1>17, <1>18, <1>19, <1>20 DEF Next

LEMMA ServeInvStep ==
    ASSUME NoGapFault, TypeOK, HandoverInv, [Next]_vars
    PROVE  ServeInv'
<1> USE NoGapFault
    DEF NoGapFault, envVars, mgrVars, bossVars, HandoverInv, BossInv, InFlight, Waiting, Starting, Reloading, FlagInv, ServeInv, Current
<1>1. CASE Start
    <2>1. PICK r \in Pids : Fork(r) /\ manager' = r
        BY <1>1, ForkEffect DEF Start
    <2>2. bpc = "start" /\ bpc' = "install" /\ UNCHANGED <<status, pool, envVars>>
        BY <1>1, <2>1, Numbers DEF Start
    <2>3. mpc'[r] = "config" /\ exit'[r] = exit[Boss]
        BY <2>1, ForkEffect
    <2>4. \A m \in Pids \ {r} : mpc'[m] = "unborn" /\ exit'[m] = exit[m]
        BY <2>1, <2>2, ForkEffect DEF Procs
    <2>5. exit'[Boss] = exit[Boss]
        BY <2>1, ForkEffect, Numbers DEF Procs
    <2> QED BY <2>1, <2>2, <2>3, <2>4, <2>5 DEF TypeOK
<1>2. CASE InstallHandler
    BY <1>2 DEF InstallHandler, BossMove, TypeOK
<1>3. CASE Poll
    BY <1>3 DEF Poll, BossMove, TypeOK
<1>4. CASE Wake
    BY <1>4 DEF Wake, BossMove, TypeOK
<1>5. CASE BeginReload
    BY <1>5 DEF BeginReload, RecordStatus, TypeOK
<1>6. CASE ForkManager
    BY <1>6, ForkEffect, Numbers DEF ForkManager, TypeOK, Procs
<1>7. CASE Await
    BY <1>7 DEF Await, BossMove, TypeOK
<1>8. CASE Probe
    BY <1>8, ReapEffect DEF Probe, TypeOK
<1>9. CASE Decide
    BY <1>9, Numbers DEF Decide, Kill, TypeOK, Procs
<1>10. CASE Retire
    BY <1>10, ReapEffect DEF Retire, TypeOK
<1>11. CASE Succeed
    BY <1>11 DEF Succeed, RecordStatus, TypeOK
<1>12. CASE Fail
    BY <1>12 DEF Fail, RecordStatus, TypeOK
<1>13. CASE Clear
    BY <1>13 DEF Clear, TypeOK
<1>14. ASSUME NEW k \in Pids, ManagerStep(k) PROVE ServeInv'
    <2> USE DEF Advance
    <2>1. CASE LoadConfig(k)
        BY <2>1 DEF LoadConfig, TypeOK
    <2>2. CASE Prepare(k)
        BY <2>2 DEF Prepare, TypeOK
    <2>3. CASE ForkChildren(k)
        BY <2>3 DEF ForkChildren, TypeOK
    <2>4. CASE Announce(k)
        BY <2>4 DEF Announce, TypeOK
    <2>5. CASE Monitor(k)
        BY <2>5 DEF Monitor, TypeOK
    <2>6. CASE StopPool(k)
        BY <2>6 DEF StopPool, Interrupt, TypeOK
    <2> QED BY <1>14, <2>1, <2>2, <2>3, <2>4, <2>5, <2>6 DEF ManagerStep
<1>15. ASSUME NEW k \in Pids, Crash(k) PROVE ServeInv'
    BY <1>15 DEF Crash, Alive, TypeOK
<1>16. CASE ReloadRequest
    BY <1>16 DEF ReloadRequest, Settled, Interrupt, TypeOK
<1>17. CASE Stop
    BY <1>17 DEF Stop, TypeOK
<1>18. ASSUME NEW p \in Procs, DeliverTerm(p) PROVE ServeInv'
    BY <1>18, Numbers DEF DeliverTerm, Kill, Interrupt, TypeOK, Procs
<1>19. CASE UNCHANGED vars
    BY <1>19 DEF vars
<1>20. BossStep => ServeInv'
    BY <1>1, <1>2, <1>3, <1>4, <1>5, <1>6, <1>7, <1>8, <1>9, <1>10, <1>11,
       <1>12, <1>13 DEF BossStep
<1> QED
    BY <1>14, <1>15, <1>16, <1>17, <1>18, <1>19, <1>20 DEF Next

LEMMA HandoverInit == Init => HandoverInv
BY Numbers DEF Init, HandoverInv, BossInv, FlagInv, ServeInv, InFlight, Reloading,
    Waiting, Starting, Procs

\* What a step does to the pools: the only one that takes workers away from a
\* manager before the operator stops the service is StopPool, and it follows
\* an order to stop.
LEMMA PoolStep ==
    ASSUME NoGapFault, TypeOK, HandoverInv, [Next]_vars, ~stopped,
           NEW m \in Pids, pool[m], ~pool'[m]
    PROVE  exit[m]
<1> USE NoGapFault DEF envVars, mgrVars, bossVars
<1>1. CASE BossStep
    BY <1>1 DEF BossStep, Start, InstallHandler, Poll, Wake, BeginReload, ForkManager,
        Await, BossMove, Probe, Decide, Retire, Succeed, Fail, Clear
<1>2. ASSUME NEW k \in Pids, ManagerStep(k) \/ Crash(k) PROVE exit[m]
    <2>1. CASE ForkChildren(k)
        BY <2>1 DEF ForkChildren, Advance, TypeOK, HandoverInv, ServeInv, Starting
    <2>2. CASE StopPool(k)
        BY <2>2 DEF StopPool, Advance, TypeOK, HandoverInv, ServeInv
    <2>3. CASE LoadConfig(k) \/ Prepare(k) \/ Announce(k) \/ Monitor(k) \/ Crash(k)
        BY <2>3 DEF LoadConfig, Prepare, Announce, Monitor, Crash
    <2> QED BY <1>2, <2>1, <2>2, <2>3 DEF ManagerStep
<1>3. CASE ReloadRequest \/ Stop \/ UNCHANGED vars
    BY <1>3 DEF ReloadRequest, Stop, vars
<1>4. ASSUME NEW p \in Procs, DeliverTerm(p) PROVE exit[m]
    BY <1>4 DEF DeliverTerm, HandoverInv, ServeInv
<1> QED BY <1>1, <1>2, <1>3, <1>4 DEF Next

LEMMA NoDowntimeStep ==
    ASSUME NoGapFault, TypeOK, HandoverInv, [Next]_vars, Serving, ~stopped
    PROVE  Serving'
<1>1. PICK m \in Pids : pool[m]
    BY DEF Serving
<1>2. CASE pool'[m]
    BY <1>2 DEF Serving
<1>3. CASE ~pool'[m]
    <2>1. exit[m]
        BY <1>1, <1>3, PoolStep
    <2>2. Current \in Pids /\ pool[Current] /\ ~exit[Current]
        BY <2>1 DEF HandoverInv, ServeInv
    <2>3. pool'[Current]
        BY <2>2, PoolStep
    <2> QED BY <2>2, <2>3 DEF Serving
<1> QED BY <1>2, <1>3

\* Without a failing fork and a reload before the first manager is ready, no
\* step leaves the service without workers, for any number of reloads, however
\* they overlap, whichever manager fails to load or crashes.
THEOREM ReloadHasNoDowntime ==
    ASSUME NoGapFault
    PROVE  Spec => NoDowntime
<1>1. Init => TypeOK /\ HandoverInv
    BY TypeInit, HandoverInit
<1>2. TypeOK /\ HandoverInv /\ [Next]_vars => (TypeOK /\ HandoverInv)'
    BY TypeStep, BossInvStep, FlagInvStep, ServeInvStep DEF HandoverInv
<1>3. TypeOK /\ HandoverInv /\ [Next]_vars => [Serving /\ ~stopped => Serving']_vars
    BY NoDowntimeStep
<1> QED BY <1>1, <1>2, <1>3, PTL DEF Spec, NoDowntime

\* Under the same assumption a reported success is one: the manager the boss
\* then relies on has its workers and has not been told to stop.
THEOREM ReportedSuccessServes ==
    ASSUME NoGapFault
    PROVE  Spec => []SuccessMeansServing
<1>1. Init => TypeOK /\ HandoverInv
    BY TypeInit, HandoverInit
<1>2. TypeOK /\ HandoverInv /\ [Next]_vars => (TypeOK /\ HandoverInv)'
    BY TypeStep, BossInvStep, FlagInvStep, ServeInvStep DEF HandoverInv
<1>3. HandoverInv => SuccessMeansServing
    BY DEF HandoverInv, ServeInv, SuccessMeansServing
<1> QED BY <1>1, <1>2, <1>3, PTL DEF Spec

-----------------------------------------------------------------------------
(* runAndFork implements Handover.                                         *)

\* A step that leaves the boss where it is on the map, and the pools alone.
LEMMA Stutter ==
    ASSUME Pools' = Pools, Current' = Current, Phase' = Phase,
           UNCHANGED <<status, stopped>>
    PROVE  UNCHANGED Promise!vars
BY DEF Promise!vars

LEMMA PromiseInit == Init => Promise!Init
BY DEF Init, Promise!Init, Pools, Current, Phase

\* What a step of a manager, or a signal, does to the pools is Join or Leave.
LEMMA PromisePool ==
    ASSUME NoGapFault, TypeOK, HandoverInv, [Next]_vars, NEW k \in Pids,
           \A m \in Pids \ {k} : pool'[m] = pool[m],
           Current' = Current, Phase' = Phase, UNCHANGED <<status, stopped>>
    PROVE  Promise!Next \/ UNCHANGED Promise!vars
<1>1. CASE pool'[k] = pool[k]
    <2>1. Pools' = Pools
        BY <1>1 DEF Pools
    <2> QED BY <2>1, Stutter
<1>2. CASE ~pool[k] /\ pool'[k]
    <2>1. k \notin Pools /\ Pools' = Pools \cup {k}
        BY <1>2 DEF Pools
    <2>2. Promise!Join(k)
        BY <2>1 DEF Promise!Join
    <2> QED BY <2>2 DEF Promise!Next
<1>3. CASE pool[k] /\ ~pool'[k]
    <2>1. k \in Pools /\ Pools' = Pools \ {k}
        BY <1>3 DEF Pools
    <2>2. k # Current \/ stopped
        <3> SUFFICES ASSUME ~stopped, k = Current PROVE FALSE
            OBVIOUS
        <3>1. exit[k]
            BY <1>3, PoolStep
        <3> QED BY <3>1 DEF HandoverInv, ServeInv
    <2>3. Promise!Leave(k)
        BY <2>1, <2>2 DEF Promise!Leave
    <2> QED BY <2>3 DEF Promise!Next
<1> QED
    <2>1. pool[k] \in BOOLEAN /\ pool'[k] \in BOOLEAN
        BY TypeStep DEF TypeOK
    <2> QED BY <1>1, <1>2, <1>3, <2>1

LEMMA PromiseStep ==
    ASSUME NoGapFault, TypeOK, HandoverInv, [Next]_vars
    PROVE  Promise!Next \/ UNCHANGED Promise!vars
<1> USE DEF envVars, mgrVars, bossVars
<1>1. CASE Start
    <2>1. manager' \in Pids /\ bpc' = "install"
        BY <1>1, ForkEffect DEF Start, NoGapFault
    <2>2. Promise!Start
        BY <1>1, <2>1 DEF Start, Promise!Start, Pools, Current, Phase
    <2> QED BY <2>2 DEF Promise!Next
<1>2. CASE InstallHandler \/ Wake \/ Await \/ Clear \/ UNCHANGED vars
    BY <1>2, Stutter DEF InstallHandler, Wake, Await, Clear, BossMove, vars, Pools,
        Current, Phase
<1>3. CASE ForkManager \/ Probe \/ Retire
    BY <1>3, Stutter DEF ForkManager, Probe, Retire, Pools, Current, Phase
<1>4. CASE Poll
    <2>1. CASE exit[Boss]
        <3>1. Promise!End
            BY <1>4, <2>1 DEF Poll, BossMove, Promise!End, Pools, Current, Phase
        <3> QED BY <3>1 DEF Promise!Next
    <2>2. CASE ~exit[Boss]
        BY <1>4, <2>2, Stutter DEF Poll, BossMove, Pools, Current, Phase
    <2> QED BY <2>1, <2>2
<1>5. CASE BeginReload
    <2>1. Promise!Begin \/ Promise!End
        BY <1>5 DEF BeginReload, RecordStatus, Promise!Begin, Promise!End, Pools, Current,
            Phase
    <2> QED BY <2>1 DEF Promise!Next
<1>6. CASE Decide
    <2>1. CASE finished
        <3>1. newManager \in Pids /\ newManager # manager
            BY <1>6 DEF Decide, HandoverInv, FlagInv, Waiting
        <3>2. pool[newManager] \/ stopped
            BY <1>6, <2>1 DEF Decide, HandoverInv, ServeInv, Waiting
        <3>3. Promise!Switch(newManager)
            BY <1>6, <2>1, <3>1, <3>2 DEF Decide, Promise!Switch, Pools, Current, Phase
        <3> QED BY <3>1, <3>3 DEF Promise!Next
    <2>2. CASE ~finished
        BY <1>6, <2>2, Stutter DEF Decide, Pools, Current, Phase
    <2> QED BY <2>1, <2>2
<1>7. CASE Succeed
    <2>1. Promise!Succeed \/ Promise!End
        BY <1>7 DEF Succeed, RecordStatus, Promise!Succeed, Promise!End, Pools, Current,
            Phase
    <2> QED BY <2>1 DEF Promise!Next
<1>8. CASE Fail
    <2>1. Promise!Fail \/ Promise!End
        BY <1>8 DEF Fail, RecordStatus, Promise!Fail, Promise!End, Pools, Current, Phase
    <2> QED BY <2>1 DEF Promise!Next
<1>9. ASSUME NEW k \in Pids, ManagerStep(k) \/ Crash(k)
      PROVE  Promise!Next \/ UNCHANGED Promise!vars
    <2>1. \A m \in Pids \ {k} : pool'[m] = pool[m]
        BY <1>9 DEF ManagerStep, LoadConfig, Prepare, ForkChildren, Announce, Monitor,
            StopPool, Crash, TypeOK
    <2>2. UNCHANGED <<bossVars, envVars>>
        BY <1>9 DEF ManagerStep, LoadConfig, Prepare, ForkChildren, Announce, Monitor,
            StopPool, Crash, NoGapFault
    <2> QED BY <2>1, <2>2, PromisePool DEF Current, Phase
<1>10. CASE ReloadRequest
    <2>1. UNCHANGED <<pool, manager, newManager, status, stopped>>
        BY <1>10 DEF ReloadRequest
    <2>2. CASE bpc = "install"
        <3>1. Promise!End
            BY <1>10, <2>1, <2>2 DEF ReloadRequest, Promise!End, Pools, Current, Phase
        <3> QED BY <3>1 DEF Promise!Next
    <2>3. CASE bpc # "install"
        BY <1>10, <2>1, <2>3, Stutter DEF ReloadRequest, Interrupt, Pools, Current, Phase
    <2> QED BY <2>2, <2>3
<1>11. CASE Stop
    <2>1. UNCHANGED <<Pools, Current, Phase, status>>
        BY <1>11 DEF Stop, Pools, Current, Phase
    <2>2. CASE stopped
        BY <1>11, <2>1, <2>2, Stutter DEF Stop
    <2>3. CASE ~stopped
        BY <1>11, <2>1, <2>3 DEF Stop, Promise!Stop, Promise!Next
    <2> QED BY <2>2, <2>3
<1>12. ASSUME NEW p \in Procs, DeliverTerm(p)
       PROVE  Promise!Next \/ UNCHANGED Promise!vars
    <2>1. UNCHANGED <<manager, newManager, status, stopped>>
        BY <1>12 DEF DeliverTerm
    <2>2. Current' = Current /\ Phase' = Phase
        BY <1>12, <2>1 DEF DeliverTerm, Interrupt, Current, Phase
    <2>3. CASE p = Boss
        <3>1. pool' = pool
            BY <1>12, <2>3, Numbers DEF DeliverTerm
        <3> QED BY <2>1, <2>2, <3>1, Stutter DEF Pools
    <2>4. CASE p \in Pids
        <3>1. \A m \in Pids \ {p} : pool'[m] = pool[m]
            BY <1>12, TermEffect
        <3> QED BY <2>1, <2>2, <2>4, <3>1, PromisePool
    <2> QED BY <2>3, <2>4 DEF Procs
<1> QED
    BY <1>1, <1>2, <1>3, <1>4, <1>5, <1>6, <1>7, <1>8, <1>9, <1>10, <1>11, <1>12
    DEF Next, BossStep

\* For any number of reloads, runAndFork implements Handover under the same
\* assumption.
THEOREM ReloadIsHandover ==
    ASSUME NoGapFault
    PROVE  Spec => ReloadsAsPromised
<1>1. Init => TypeOK /\ HandoverInv
    BY TypeInit, HandoverInit
<1>2. TypeOK /\ HandoverInv /\ [Next]_vars => (TypeOK /\ HandoverInv)'
    BY TypeStep, BossInvStep, FlagInvStep, ServeInvStep DEF HandoverInv
<1>3. TypeOK /\ HandoverInv /\ [Next]_vars => [Promise!Next]_(Promise!vars)
    BY PromiseStep
<1> QED BY <1>1, <1>2, <1>3, PromiseInit, PTL DEF Spec, ReloadsAsPromised, Promise!Spec
=============================================================================

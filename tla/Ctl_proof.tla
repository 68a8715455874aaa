------------------------------ MODULE Ctl_proof ------------------------------
(***************************************************************************)
(* What ncserverctl tells the operator is true, and the level of the log is  *)
(* the same everywhere, for every number of reloads, timeouts, stops and    *)
(* starts.  The invariants of the handover (BossReload_proof) are the base: *)
(* a step of the service is a step of BossReload.                           *)
(***************************************************************************)
EXTENDS Ctl, BossReload_proof

-----------------------------------------------------------------------------
(* The service under ncserverctl.                                          *)

\* Of all that ncserverctl does, only SIGKILL and a new start are no steps of
\* BossReload.
LEMMA CtlServiceStep ==
    ASSUME [CtlNext]_allVars
    PROVE  [Next]_vars \/ (\E p \in Procs : DeliverKill(p)) \/ CtlStart
<1>1. CASE Service \/ (\E p \in Procs : DeliverSignal(p))
    BY <1>1 DEF Service, DeliverSignal, Next
<1>2. CASE Command
    BY <1>2
    DEF Command, CtlStep, CtlReload, CtlAlready, CtlFails, CtlReloadGone, CtlNothing, CtlStopTimeout, CtlStop, CtlMark, CtlRead,
        CtlStopped, CtlTimeout, Next
<1>3. CASE \E l \in Levels : ChLogLevel(l)
    BY <1>3 DEF ChLogLevel
<1>4. CASE \E kind \in Kinds, p \in Procs : UpdateLogLevel(kind, p)
    BY <1>4 DEF UpdateLogLevel
<1>5. CASE ChLogLevelEnds
    BY <1>5 DEF ChLogLevelEnds
<1>6. CASE UNCHANGED allVars
    BY <1>6 DEF allVars
<1> QED BY <1>1, <1>2, <1>3, <1>4, <1>5, <1>6 DEF CtlNext

LEMMA KillEffect ==
    ASSUME TypeOK, NEW p \in Procs, DeliverKill(p)
    PROVE  /\ \A m \in Pids : /\ mpc'[m] = mpc[m] \/ (Alive(m) /\ mpc'[m] = "zombie")
                              /\ pool'[m] => pool[m]
           /\ bpc' \in {bpc, "gone"} /\ targets # {} /\ targets' \subseteq targets
           /\ UNCHANGED <<reload, manager, newManager, status, finished, exit, mconf,
                          config, stopped>>
           /\ mpc' \in [Pids -> MgrPCs] /\ pool' \in [Pids -> BOOLEAN]
<1>1. CASE p = Boss /\ bpc' = "gone" /\ UNCHANGED <<mpc, pool>>
    BY <1>1 DEF TypeOK, DeliverKill
<1>2. CASE /\ p \in Pids /\ UNCHANGED bpc
           /\ \E left \in {FALSE, Alive(p) /\ ~exit[p]} :
                 pool' = [pool EXCEPT ![p] = @ /\ left]
           /\ mpc' = [mpc EXCEPT ![p] = IF Alive(p) THEN "zombie" ELSE @]
    <2>1. /\ targets # {} /\ targets' \subseteq targets
          /\ UNCHANGED <<reload, manager, newManager, status, finished, exit, mconf,
                         config, stopped>>
        BY DEF DeliverKill
    <2>2. PICK left \in {FALSE, Alive(p) /\ ~exit[p]} :
                 pool' = [pool EXCEPT ![p] = @ /\ left]
        BY <1>2
    <2>3. pool' = [m \in Pids |-> IF m = p THEN pool[m] /\ left ELSE pool[m]]
        BY <2>2 DEF TypeOK
    <2>4. pool' \in [Pids -> BOOLEAN] /\ \A m \in Pids : pool'[m] => pool[m]
        BY <2>3 DEF TypeOK
    <2>5. mpc' \in [Pids -> MgrPCs]
        BY <1>2 DEF TypeOK, MgrPCs
    <2>6. \A m \in Pids : mpc'[m] = mpc[m] \/ (Alive(m) /\ mpc'[m] = "zombie")
        BY <1>2 DEF TypeOK, Alive
    <2> QED BY <1>2, <2>1, <2>4, <2>5, <2>6
<1> QED BY <1>1, <1>2 DEF DeliverKill

\* Whom SIGKILL was sent to is dead.
LEMMA KillStopInv ==
    ASSUME TypeOK, StopInv, NEW p \in Procs, DeliverKill(p)
    PROVE  StopInv'
<1>1. Boss \notin Pids
    BY Numbers
<1>2. targets' = targets \ {p} /\ UNCHANGED <<reload, newManager, exit, stopped>>
    BY DEF DeliverKill
<1>3. CASE p = Boss /\ bpc' = "gone" /\ UNCHANGED mpc
    BY <1>1, <1>2, <1>3 DEF StopInv, Stoppable, Alive
<1>4. CASE /\ p \in Pids /\ UNCHANGED bpc
           /\ mpc' = [mpc EXCEPT ![p] = IF Alive(p) THEN "zombie" ELSE @]
    <2>1. ~Alive(p)' /\ \A m \in Pids \ {p} : Alive(m)' = Alive(m)
        BY <1>4 DEF TypeOK, Alive
    <2> QED BY <1>1, <1>2, <1>4, <2>1 DEF StopInv, Stoppable
<1> QED BY <1>3, <1>4 DEF DeliverKill

\* What holds of the service whatever is asked of it.
ServiceInv == TypeOK /\ Tracked /\ HandoverInv /\ StopInv

\* A started service is a new one, but for the configuration on disk.
LEMMA StartEffect ==
    ASSUME TypeOK, CtlStart
    PROVE  TypeOK' /\ Tracked' /\ HandoverInv' /\ StopInv'
<1>1. TypeOK'
    <2>1. /\ mpc' \in [Pids -> MgrPCs] /\ mconf' \in [Pids -> 0 .. MaxReloads]
          /\ exit' \in [Procs -> BOOLEAN] /\ pool' \in [Pids -> BOOLEAN]
        BY BossAssumption DEF CtlStart, MgrPCs
    <2>2. reload' \in BOOLEAN /\ finished' \in BOOLEAN /\ stopped' \in BOOLEAN
        BY DEF CtlStart
    <2> QED BY <2>1, <2>2 DEF CtlStart, TypeOK, BossPCs
<1>2. \A m \in Pids : mpc'[m] = "unborn" /\ ~exit'[m] /\ ~pool'[m]
    BY DEF CtlStart, Procs
<1>3. /\ bpc' = "start" /\ ~reload' /\ status' = "none" /\ ~stopped' /\ targets' = {}
      /\ ~exit'[Boss]
    BY DEF CtlStart, Procs
<1>4. Tracked'
    BY <1>2, <1>3 DEF Tracked, NoStrayManager, Alive
<1>5. HandoverInv'
    BY <1>2, <1>3
    DEF HandoverInv, BossInv, FlagInv, ServeInv, InFlight, Reloading, Waiting, Starting
<1> QED BY <1>1, <1>3, <1>4, <1>5 DEF StopInv, Stoppable

LEMMA ServiceStep ==
    ASSUME NoGapFault, ServiceInv, [CtlNext]_allVars
    PROVE  ServiceInv'
<1>1. CASE [Next]_vars
    BY <1>1, TypeStep, TrackedStep, BossInvStep, FlagInvStep, ServeInvStep,
       StopInvStep
    DEF ServiceInv, HandoverInv
<1>2. ASSUME NEW p \in Procs, DeliverKill(p) PROVE ServiceInv'
    <2>1. /\ \A m \in Pids : /\ mpc'[m] = mpc[m] \/ (Alive(m) /\ mpc'[m] = "zombie")
                             /\ pool'[m] => pool[m]
          /\ bpc' \in {bpc, "gone"} /\ targets # {} /\ targets' \subseteq targets
          /\ UNCHANGED <<reload, manager, newManager, status, finished, exit, mconf,
                         config, stopped>>
          /\ mpc' \in [Pids -> MgrPCs] /\ pool' \in [Pids -> BOOLEAN]
        BY <1>2, KillEffect DEF ServiceInv
    <2>2. stopped' /\ bpc # "start" /\ bpc' # "start"
        BY <2>1 DEF ServiceInv, HandoverInv, ServeInv, StopInv, Stoppable
    <2>3. TypeOK'
        BY <2>1 DEF ServiceInv, TypeOK, BossPCs
    <2>4. Tracked'
        BY <2>1 DEF ServiceInv, Tracked, NoStrayManager, Alive, InFlight
    <2>5. BossInv'
        BY <2>1, <2>2 DEF ServiceInv, HandoverInv, BossInv, InFlight, Reloading, Alive
    <2>6. FlagInv'
        BY <2>1 DEF ServiceInv, HandoverInv, FlagInv, Starting, Waiting
    <2>7. ServeInv'
        BY <2>1, <2>2 DEF ServiceInv, HandoverInv, ServeInv
    <2>8. StopInv'
        BY <1>2, KillStopInv DEF ServiceInv
    <2> QED BY <2>3, <2>4, <2>5, <2>6, <2>7, <2>8 DEF ServiceInv, HandoverInv
<1>3. CASE CtlStart
    BY <1>3, StartEffect DEF ServiceInv
<1> QED BY <1>1, <1>2, <1>3, CtlServiceStep

LEMMA ServiceInit == CtlInit => ServiceInv
<1> SUFFICES ASSUME CtlInit PROVE ServiceInv
    OBVIOUS
<1>1. Tracked
    BY DEF CtlInit, Init, Tracked, NoStrayManager, Alive
<1> QED BY <1>1, TypeInit, HandoverInit DEF CtlInit, Init, ServiceInv, StopInv, Stoppable

-----------------------------------------------------------------------------
(* A stop.                                                                 *)

\* The same for a service under ncserverctl, where the stop may also be a forcekill or
\* be given again after its timeout, and the service be started again.
THEOREM StopReachesAll == CtlSpec => []StopMissesOnlyNew
<1>1. CtlInit => TypeOK /\ StopInv
    BY TypeInit DEF CtlInit, Init, StopInv, Stoppable
<1>2. TypeOK /\ StopInv /\ [CtlNext]_allVars => (TypeOK /\ StopInv)'
    <2> SUFFICES ASSUME TypeOK, StopInv, [CtlNext]_allVars PROVE TypeOK' /\ StopInv'
        OBVIOUS
    <2>1. CASE [Next]_vars
        BY <2>1, TypeStep, StopInvStep
    <2>2. ASSUME NEW p \in Procs, DeliverKill(p) PROVE TypeOK' /\ StopInv'
        BY <2>2, KillEffect, KillStopInv DEF TypeOK, BossPCs
    <2>3. CASE CtlStart
        BY <2>3, StartEffect
    <2> QED BY <2>1, <2>2, <2>3, CtlServiceStep
<1> QED BY <1>1, <1>2, StopInvEnds, PTL DEF CtlSpec

-----------------------------------------------------------------------------
(* Type correctness.                                                       *)

LEMMA InheritedType ==
    ASSUME TypeOK, CtlTypeOK, Inherited
    PROVE  level' \in [Procs -> Levels] /\ wlevel' \in [Pids -> Levels]
<1>1. Pids \subseteq Procs /\ Boss \in Procs
    BY DEF Procs
<1> QED BY <1>1 DEF TypeOK, CtlTypeOK, Inherited

LEMMA CtlTypeStep ==
    ASSUME TypeOK, TypeOK', CtlTypeOK, [CtlNext]_allVars
    PROVE  CtlTypeOK'
<1>1. CASE Reported /\ Inherited
    <2>1. file' \in {"none", "reloading", "succ", "failed"}
        BY <1>1 DEF Reported, TypeOK, CtlTypeOK
    <2> QED BY <1>1, <2>1, InheritedType DEF Reported, Inherited, CtlTypeOK
<1>2. CASE Command /\ UNCHANGED logVars
    <2>1. UNCHANGED <<level, wlevel, wanted, signals>>
        BY <1>2 DEF logVars
    <2>2. CASE CtlReload
        BY <2>1, <2>2 DEF CtlReload, TypeOK, CtlTypeOK
    <2>3. CASE CtlAlready \/ CtlFails \/ CtlReloadGone \/ CtlStopTimeout \/ CtlTimeout
        BY <2>1, <2>3 DEF CtlAlready, CtlFails, CtlReloadGone, CtlNothing, CtlStopTimeout, CtlTimeout, CtlTypeOK
    <2>4. CASE CtlStop
        BY <2>1, <2>4 DEF CtlStop, CtlTypeOK
    <2>5. CASE CtlStep
        BY <2>1, <2>5 DEF CtlStep, CtlMark, CtlRead, CtlStopped, CtlTypeOK
    <2> QED BY <1>2, <2>2, <2>3, <2>4, <2>5 DEF Command
<1>3. CASE CtlStart
    <2>1. level' \in [Procs -> Levels] /\ wlevel' \in [Pids -> Levels]
        BY <1>3 DEF CtlStart, Levels
    <2> QED BY <1>3, <2>1 DEF CtlStart, CtlTypeOK, Levels
<1>4. ASSUME NEW l \in Levels, ChLogLevel(l) PROVE CtlTypeOK'
    <2>1. signals' \subseteq Kinds \X Procs
        BY <1>4 DEF ChLogLevel, Kinds, Procs
    <2> QED BY <1>4, <2>1 DEF ChLogLevel, CtlTypeOK
<1>5. ASSUME NEW kind \in Kinds, NEW p \in Procs, UpdateLogLevel(kind, p)
      PROVE  CtlTypeOK'
    BY <1>5 DEF UpdateLogLevel, CtlTypeOK, ctlVars
<1>6. CASE ChLogLevelEnds
    BY <1>6 DEF ChLogLevelEnds, logVars, CtlTypeOK
<1>7. CASE UNCHANGED allVars
    BY <1>7 DEF allVars, ctlVars, logVars, CtlTypeOK
<1> QED BY <1>1, <1>2, <1>3, <1>4, <1>5, <1>6, <1>7 DEF CtlNext

LEMMA CtlTypeInit == CtlInit => CtlTypeOK
<1> SUFFICES ASSUME CtlInit PROVE CtlTypeOK
    OBVIOUS
<1>1. level \in [Procs -> Levels] /\ wlevel \in [Pids -> Levels]
    BY DEF CtlInit, Levels
<1>2. force \in BOOLEAN
    BY DEF CtlInit
<1> QED BY <1>1, <1>2, BossAssumption DEF CtlInit, CtlTypeOK, Levels

\* With every fault but those that break the handover, as everything below.
THEOREM CtlTypeCorrect ==
    ASSUME NoGapFault
    PROVE  CtlSpec => []CtlTypeOK
<1>1. CtlInit => ServiceInv /\ CtlTypeOK
    BY ServiceInit, CtlTypeInit
<1>2. ServiceInv /\ CtlTypeOK /\ [CtlNext]_allVars => ServiceInv' /\ CtlTypeOK'
    BY ServiceStep, CtlTypeStep DEF ServiceInv
<1> QED BY <1>1, <1>2, PTL DEF CtlSpec

-----------------------------------------------------------------------------
(* The level of the log.                                                   *)

\* A process has the level wanted, or its signal is on the way; and while signals
\* are on their way nothing is forked.
SelfSettled(p) == level[p] = wanted \/ (cpc = "level" /\ <<"self", p>> \in signals)
PoolSettled(m) == wlevel[m] = wanted \/ (cpc = "level" /\ <<"workers", m>> \in signals)
Calm ==
    /\ bpc \in {"poll", "sleep", "gone"} /\ ~reload
    /\ \A m \in Pids : mpc[m] \notin Starting
LevelInv ==
    /\ \A p \in Procs : p = Boss \/ Alive(p) => SelfSettled(p)
    /\ \A m \in Pids : pool[m] => PoolSettled(m)
    /\ cpc = "level" => Calm

\* What a step of the service may do to who runs.
LEMMA WhoRuns ==
    ASSUME NoGapFault, TypeOK, [Next]_vars, NEW m \in Pids
    PROVE  /\ Alive(m)' => Alive(m) \/ (mpc[m] = "unborn" /\ bpc \in {"start", "fork"})
           /\ pool'[m] => pool[m] \/ (mpc[m] = "forking" /\ Alive(m)')
<1>1. CASE BossStep
    <2>1. pool' = pool
        BY <1>1
        DEF BossStep, Start, InstallHandler, Poll, Wake, BeginReload, ForkManager, Await,
            BossMove, Probe, Decide, Retire, Succeed, Fail, Clear, mgrVars
    <2>2. CASE mpc' = mpc
        BY <2>1, <2>2 DEF Alive
    <2>3. CASE Start \/ ForkManager
        <3>1. PICK r : Fork(r) /\ bpc \in {"start", "fork"}
            BY <2>3 DEF Start, ForkManager, NoGapFault
        <3> QED BY <2>1, <3>1, ForkEffect DEF Alive
    <2>4. CASE Probe \/ Retire
        <3>1. mpc' = mpc \/ Reap(manager) \/ Reap(newManager)
            BY <2>4 DEF Probe, Retire
        <3> QED BY <2>1, <2>2, <3>1, ReapEffect DEF Alive
    <2> QED
        BY <1>1, <2>2, <2>3, <2>4
        DEF BossStep, InstallHandler, Poll, Wake, BeginReload, Await, BossMove, Decide,
            Succeed, Fail, Clear, mgrVars
<1>2. ASSUME NEW k \in Pids, ManagerStep(k) \/ Crash(k)
      PROVE  /\ Alive(m)' => Alive(m)
             /\ pool'[m] => pool[m] \/ (mpc[m] = "forking" /\ Alive(m)')
    BY <1>2
    DEF ManagerStep, LoadConfig, Prepare, ForkChildren, Announce, Monitor, StopPool, Crash,
        Advance, Alive, TypeOK
<1>3. CASE ReloadRequest \/ Stop
    BY <1>3 DEF ReloadRequest, Stop, mgrVars, Alive
<1>4. ASSUME NEW p \in Procs, DeliverTerm(p)
      PROVE  mpc' = mpc /\ (pool'[m] => pool[m])
    BY <1>4 DEF DeliverTerm, TypeOK
<1>5. CASE UNCHANGED vars
    BY <1>5 DEF vars, mgrVars, Alive
<1> QED BY <1>1, <1>2, <1>3, <1>4, <1>5 DEF Next, Alive

\* Without a reload the boss forks nothing, and no manager starts.
LEMMA CalmStep ==
    ASSUME NoGapFault, TypeOK, Calm,
           Service \/ (\E p \in Procs : DeliverTerm(p)) \/ (\E p \in Procs : DeliverKill(p))
    PROVE  Calm'
<1>1. CASE BossStep
    BY <1>1
    DEF BossStep, Start, InstallHandler, Poll, Wake, BeginReload, ForkManager, Await,
        BossMove, Probe, Decide, Retire, Succeed, Fail, Clear, mgrVars, Calm
<1>2. ASSUME NEW k \in Pids, ManagerStep(k) \/ Crash(k) PROVE Calm'
    BY <1>2
    DEF ManagerStep, LoadConfig, Prepare, ForkChildren, Announce, Monitor, StopPool, Crash,
        Advance, bossVars, Calm, TypeOK, Starting, NoGapFault
<1>3. ASSUME NEW p \in Procs, DeliverTerm(p) PROVE Calm'
    BY <1>3 DEF DeliverTerm, Interrupt, Calm
<1>4. ASSUME NEW p \in Procs, DeliverKill(p) PROVE Calm'
    BY <1>4, KillEffect DEF Calm, Starting
<1> QED BY <1>1, <1>2, <1>3, <1>4 DEF Service

LEMMA LevelServiceStep ==
    ASSUME NoGapFault, ServiceInv, CtlTypeOK, LevelInv, Reported, Inherited,
           Service \/ \E p \in Procs : DeliverSignal(p)
    PROVE  LevelInv'
<1>1. UNCHANGED <<cpc, wanted, signals>>
    BY DEF Reported, Inherited
<1>2. cpc' = "level" => Calm'
    BY <1>1, CalmStep DEF LevelInv, ServiceInv, DeliverSignal
<1>3. \A m \in Pids :
          /\ Alive(m)' => Alive(m) \/ (mpc[m] = "unborn" /\ bpc \in {"start", "fork"})
          /\ pool'[m] => pool[m] \/ (mpc[m] = "forking" /\ Alive(m)')
    <2>1. CASE \E p \in Procs : DeliverKill(p)
        BY <2>1, KillEffect DEF ServiceInv, Alive
    <2>2. CASE [Next]_vars
        BY <2>2, WhoRuns DEF ServiceInv
    <2> QED BY <2>1, <2>2 DEF Service, DeliverSignal, Next
<1>4. /\ Boss \notin Pids /\ Pids \subseteq Procs /\ Boss \in Procs
      /\ \A p \in Procs : p = Boss \/ p \in Pids
    BY Numbers DEF Procs
<1>5. level'[Boss] = level[Boss]
    BY <1>4 DEF Inherited
<1>6. \A m \in Pids : /\ mpc[m] # "unborn" => level'[m] = level[m]
                      /\ mpc[m] = "unborn" => level'[m] = level[Boss]
                      /\ pool[m] => wlevel'[m] = wlevel[m]
                      /\ ~pool[m] => wlevel'[m] = level[m]
    BY <1>4 DEF Inherited
<1>7. ASSUME NEW m \in Pids, Alive(m)' PROVE SelfSettled(m)'
    <2>1. CASE Alive(m)
        BY <1>1, <1>4, <1>6, <2>1 DEF LevelInv, SelfSettled, Alive
    <2>2. CASE mpc[m] = "unborn" /\ bpc \in {"start", "fork"}
        <3>1. cpc # "level"
            BY <2>2 DEF LevelInv, Calm
        <3> QED BY <1>1, <1>4, <1>6, <2>2, <3>1 DEF LevelInv, SelfSettled
    <2> QED BY <1>3, <1>7, <2>1, <2>2
<1>8. ASSUME NEW m \in Pids, pool'[m] PROVE PoolSettled(m)'
    <2>1. CASE pool[m]
        BY <1>1, <1>6, <2>1 DEF LevelInv, PoolSettled
    <2>2. CASE ~pool[m]
        <3>1. mpc[m] = "forking"
            BY <1>3, <1>8, <2>2
        <3>2. cpc # "level" /\ Alive(m)
            BY <3>1 DEF LevelInv, Calm, Starting, Alive
        <3> QED BY <1>1, <1>4, <1>6, <2>2, <3>2 DEF LevelInv, SelfSettled, PoolSettled
    <2> QED BY <2>1, <2>2
<1>9. SelfSettled(Boss)'
    BY <1>1, <1>4, <1>5 DEF LevelInv, SelfSettled
<1>10. \A p \in Procs : (p = Boss \/ Alive(p))' => SelfSettled(p)'
    BY <1>4, <1>7, <1>9
<1> QED BY <1>2, <1>8, <1>10 DEF LevelInv

LEMMA LevelStep ==
    ASSUME NoGapFault, ServiceInv, CtlTypeOK, LevelInv, [CtlNext]_allVars
    PROVE  LevelInv'
<1>1. CASE (Service \/ \E p \in Procs : DeliverSignal(p)) /\ Reported /\ Inherited
    BY <1>1, LevelServiceStep
<1>2. CASE Command /\ UNCHANGED logVars
    <2>1. UNCHANGED <<level, wlevel, wanted, signals, mpc, pool>>
        BY <1>2
        DEF logVars, Command, CtlStep, CtlReload, CtlAlready, CtlFails, CtlReloadGone, CtlNothing, CtlStopTimeout, CtlStop, CtlMark,
            CtlRead, CtlStopped, CtlTimeout, ReloadRequest, Stop, vars, mgrVars
    <2>2. cpc # "level" /\ cpc' # "level"
        BY <1>2
        DEF Command, CtlStep, CtlReload, CtlAlready, CtlFails, CtlReloadGone, CtlNothing, CtlStopTimeout, CtlStop, CtlMark,
            CtlRead, CtlStopped, CtlTimeout
    <2> QED BY <2>1, <2>2 DEF LevelInv, SelfSettled, PoolSettled, Alive
<1>3. CASE CtlStart
    <2>1. \A m \in Pids : ~Alive(m)' /\ ~pool'[m]
        BY <1>3 DEF CtlStart, Alive
    <2>2. level'[Boss] = wanted' /\ cpc' # "level"
        BY <1>3 DEF CtlStart, Procs
    <2> QED BY <2>1, <2>2 DEF LevelInv, SelfSettled, Procs
<1>4. ASSUME NEW l \in Levels, ChLogLevel(l) PROVE LevelInv'
    <2>1. Calm'
        BY <1>4
        DEF ChLogLevel, Quiet, Settled, Calm, ServiceInv, HandoverInv, FlagInv, Starting,
            vars, bossVars, mgrVars
    <2>2. /\ cpc' = "level" /\ mpc' = mpc /\ pool' = pool
          /\ signals' = ({"self"} \X {p \in Procs : p = Boss \/ Alive(p)})
                            \cup ({"workers"} \X {m \in Pids : pool[m]})
        BY <1>4 DEF ChLogLevel, vars, mgrVars
    <2>3. \A p \in Procs : p = Boss \/ Alive(p) => <<"self", p>> \in signals'
        BY <2>2
    <2>4. \A m \in Pids : pool[m] => <<"workers", m>> \in signals'
        BY <2>2
    <2> QED BY <2>1, <2>2, <2>3, <2>4 DEF LevelInv, SelfSettled, PoolSettled, Alive
<1>5. ASSUME NEW kind \in Kinds, NEW p \in Procs, UpdateLogLevel(kind, p) PROVE LevelInv'
    <2>1. /\ cpc' = cpc /\ wanted' = wanted /\ UNCHANGED vars
          /\ signals' = signals \ {<<kind, p>>}
        BY <1>5 DEF UpdateLogLevel, ctlVars
    <2>2. Calm => Calm'
        BY <2>1 DEF vars, bossVars, mgrVars, Calm
    <2>3. ASSUME kind = "self" PROVE LevelInv'
        <3>1. level' = [level EXCEPT ![p] = wanted] /\ wlevel' = wlevel
            BY <1>5, <2>3 DEF UpdateLogLevel
        <3>2. level'[p] = wanted /\ \A q \in Procs : q # p => level'[q] = level[q]
            BY <3>1 DEF CtlTypeOK
        <3>3. \A q \in Procs : SelfSettled(q) => SelfSettled(q)'
            BY <2>1, <2>3, <3>2 DEF SelfSettled
        <3>4. \A m \in Pids : PoolSettled(m) => PoolSettled(m)'
            BY <2>1, <2>3, <3>1 DEF PoolSettled
        <3> QED BY <2>1, <2>2, <3>3, <3>4 DEF LevelInv, vars, mgrVars, Alive
    <2>4. ASSUME kind # "self" PROVE LevelInv'
        <3>1. /\ wlevel' = [wlevel EXCEPT ![p] = wanted] /\ level' = level
              /\ kind = "workers"
            BY <1>5, <2>4 DEF UpdateLogLevel, Kinds
        <3>2. \A m \in Pids : wlevel'[m] = IF m = p THEN wanted ELSE wlevel[m]
            BY <3>1 DEF CtlTypeOK
        <3>3. \A q \in Procs : SelfSettled(q) => SelfSettled(q)'
            BY <2>1, <3>1 DEF SelfSettled
        <3>4. \A m \in Pids : PoolSettled(m) => PoolSettled(m)'
            BY <2>1, <3>1, <3>2 DEF PoolSettled
        <3> QED BY <2>1, <2>2, <3>3, <3>4 DEF LevelInv, vars, mgrVars, Alive
    <2> QED BY <2>3, <2>4
<1>6. CASE ChLogLevelEnds
    <2>1. /\ signals = {} /\ cpc' # "level"
          /\ UNCHANGED <<level, wlevel, wanted, mpc, pool>>
        BY <1>6 DEF ChLogLevelEnds, logVars, vars, mgrVars
    <2> QED BY <2>1 DEF LevelInv, SelfSettled, PoolSettled, Alive
<1>7. CASE UNCHANGED allVars
    BY <1>7
    DEF allVars, vars, bossVars, mgrVars, ctlVars, logVars, LevelInv, SelfSettled,
        PoolSettled, Alive, Calm
<1> QED BY <1>1, <1>2, <1>3, <1>4, <1>5, <1>6, <1>7 DEF CtlNext

LEMMA LevelInit == CtlInit => LevelInv
<1> SUFFICES ASSUME CtlInit PROVE LevelInv
    OBVIOUS
<1>1. \A m \in Pids : ~Alive(m) /\ ~pool[m]
    BY DEF CtlInit, Init, Alive
<1>2. level[Boss] = wanted /\ cpc # "level"
    BY DEF CtlInit, Procs
<1> QED BY <1>1, <1>2 DEF LevelInv, SelfSettled, Procs

\* Between two commands all processes log at the level last asked for, also those
\* forked since, and those of a service that was started again.
THEOREM LevelReachesAll ==
    ASSUME NoGapFault
    PROVE  CtlSpec => []LevelIsEverywhere
<1>1. CtlInit => ServiceInv /\ CtlTypeOK /\ LevelInv
    BY ServiceInit, CtlTypeInit, LevelInit
<1>2. ServiceInv /\ CtlTypeOK /\ LevelInv /\ [CtlNext]_allVars
      => ServiceInv' /\ CtlTypeOK' /\ LevelInv'
    BY ServiceStep, CtlTypeStep, LevelStep DEF ServiceInv
<1>3. LevelInv => LevelIsEverywhere
    BY DEF LevelInv, LevelIsEverywhere, SelfSettled, PoolSettled
<1> QED BY <1>1, <1>2, <1>3, PTL DEF CtlSpec

-----------------------------------------------------------------------------
(* A reported success is true.                                             *)

\* No report is meant for another reload, and no file is ignored.
NoTruthFault == NoGapFault /\ {"overlap", "badConfig"} \cap Faults = {}

\* A reload has been asked for, is being tried, or is over.
Done   == bpc \in {"clear", "gone"} \/ (bpc \in {"poll", "sleep"} /\ ~reload)
Asking ==
    /\ (reload /\ bpc \in {"poll", "sleep", "begin"}) \/ bpc = "fork"
    /\ \A m \in Pids : mconf[m] < asked
Trying ==
    /\ bpc \in {"await", "probe", "decide", "retire", "succeed", "fail"}
    /\ newManager \in Pids /\ \A m \in Pids \ {newManager} : mconf[m] < asked
    /\ \/ finished \/ bpc \in {"retire", "succeed"}
       \/ mpc[newManager] \in {"loading", "forking", "announcing"}
       => mconf[newManager] = asked

\* While ncserverctl waits, the reload it asked for is the one the boss is at, and a
\* report that the file has is a report of that one.
Older   == \A m \in Pids : mconf[m] <= config
Pending ==
    cpc \in {"mark", "poll"} => ~stopped /\ asked = config /\ (Asking \/ Trying \/ Done)
Report  ==
    cpc = "poll" => /\ file # "none"
                    /\ file # "reloading" => Done /\ status = file
                    /\ file = "succ" => mconf[manager] = asked
AskInv  == Older /\ Pending /\ Report

\* What the boss does in each phase.
LEMMA DoneStep ==
    ASSUME NoGapFault, Done, Service
    PROVE  Done' /\ UNCHANGED <<manager, status>>
<1>1. CASE BossStep
    BY <1>1
    DEF BossStep, Start, InstallHandler, Poll, Wake, BeginReload, ForkManager, Await,
        BossMove, Probe, Decide, Retire, Succeed, Fail, Clear, Done
<1>2. ASSUME NEW k \in Pids, ManagerStep(k) \/ Crash(k)
      PROVE  UNCHANGED <<bpc, reload, manager, status>>
    BY <1>2
    DEF ManagerStep, LoadConfig, Prepare, ForkChildren, Announce, Monitor, StopPool, Crash,
        bossVars, NoGapFault
<1> QED BY <1>1, <1>2 DEF Service, Done

LEMMA AskingStep ==
    ASSUME NoTruthFault, ServiceInv, Asking, Service, asked' = asked
    PROVE  Asking' \/ Trying' \/ Done'
<1> USE DEF NoTruthFault
<1>1. CASE BossStep
    <2>1. CASE Poll \/ Wake \/ BeginReload
        BY <2>1
        DEF Poll, Wake, BeginReload, BossMove, RecordStatus, mgrVars, Asking, Done
    <2>2. CASE ForkManager
        <3>1. /\ bpc = "fork" /\ bpc' = "await" /\ Fork(newManager')
              /\ mconf' = mconf /\ finished' = finished
            BY <2>2 DEF ForkManager
        <3>2. newManager' \in Pids /\ mpc'[newManager'] = "config"
            BY <3>1, ForkEffect DEF ServiceInv
        <3>3. ~finished'
            BY <3>1 DEF ServiceInv, HandoverInv, FlagInv
        <3> QED BY <3>1, <3>2, <3>3 DEF Asking, Trying
    <2> QED
        BY <1>1, <2>1, <2>2
        DEF BossStep, Start, InstallHandler, Await, BossMove, Probe, Decide, Retire,
            Succeed, Fail, Clear, Asking
<1>2. ASSUME NEW k \in Pids, ManagerStep(k) \/ Crash(k) PROVE Asking'
    <2>1. mpc[k] \notin Starting
        BY DEF Asking, ServiceInv, HandoverInv, FlagInv
    <2>2. UNCHANGED <<bpc, reload, mconf>>
        BY <1>2, <2>1
        DEF ManagerStep, LoadConfig, Prepare, ForkChildren, Announce, Monitor, StopPool,
            Crash, Advance, bossVars, NoGapFault, Starting
    <2> QED BY <2>2 DEF Asking
<1> QED BY <1>1, <1>2 DEF Service

LEMMA TryingStep ==
    ASSUME NoTruthFault, ServiceInv, Trying, Service, asked' = asked, asked = config
    PROVE  Trying' \/ Done'
<1> USE DEF NoTruthFault
<1>1. CASE BossStep
    <2>1. CASE Await \/ Decide
        BY <2>1 DEF Await, BossMove, Decide, mgrVars, Trying
    <2>2. CASE Probe \/ Retire
        <3>1. /\ UNCHANGED <<newManager, mconf, finished>>
              /\ bpc' \in {"await", "decide", "succeed"}
              /\ bpc' = "succeed" => bpc = "retire"
              /\ mpc' = mpc \/ Reap(manager) \/ Reap(newManager)
            BY <2>2 DEF Probe, Retire
        <3>2. mpc'[newManager] \in {"loading", "forking", "announcing"}
              => mpc'[newManager] = mpc[newManager]
            BY <3>1, ReapEffect DEF ServiceInv, Trying
        <3> QED BY <3>1, <3>2 DEF Trying
    <2>3. CASE Succeed \/ Fail
        BY <2>3 DEF Succeed, Fail, RecordStatus, Done
    <2> QED
        BY <1>1, <2>1, <2>2, <2>3
        DEF BossStep, Start, InstallHandler, Poll, Wake, BeginReload, ForkManager, BossMove,
            Clear, Trying
<1>2. ASSUME NEW k \in Pids, ManagerStep(k) \/ Crash(k) PROVE Trying'
    <2>1. mpc[k] \in Starting => k = newManager /\ bpc \in {"await", "probe"}
        BY DEF Trying, ServiceInv, HandoverInv, FlagInv
    <2>2. UNCHANGED <<bpc, newManager>>
        BY <1>2
        DEF ManagerStep, LoadConfig, Prepare, ForkChildren, Announce, Monitor, StopPool,
            Crash, bossVars, NoGapFault
    <2>3. CASE LoadConfig(k)
        <3>1. /\ k = newManager /\ mconf' = [mconf EXCEPT ![k] = config]
              /\ finished' = finished
            BY <2>1, <2>3 DEF LoadConfig, Advance, Starting
        <3>2. \A m \in Pids : mconf'[m] = IF m = newManager THEN asked ELSE mconf[m]
            BY <3>1 DEF ServiceInv, TypeOK
        <3> QED BY <2>2, <3>2 DEF Trying
    <2>4. CASE Prepare(k) \/ ForkChildren(k) \/ Announce(k)
        <3>1. /\ k = newManager /\ mpc[k] \in {"loading", "forking", "announcing"}
              /\ mconf' = mconf
            BY <2>1, <2>4 DEF Prepare, ForkChildren, Announce, Advance, Starting
        <3> QED BY <2>2, <3>1 DEF Trying
    <2>5. CASE Monitor(k) \/ StopPool(k) \/ Crash(k)
        <3>1. /\ mconf' = mconf /\ finished' = finished
              /\ \A m \in Pids : mpc'[m] = mpc[m] \/ mpc'[m] \in {"stopping", "zombie"}
            BY <2>5 DEF Monitor, StopPool, Crash, Advance, ServiceInv, TypeOK
        <3> QED BY <2>2, <3>1 DEF Trying
    <2> QED BY <1>2, <2>3, <2>4, <2>5 DEF ManagerStep
<1> QED BY <1>1, <1>2 DEF Service

LEMMA OlderStep ==
    ASSUME TypeOK, TypeOK', Older, [CtlNext]_allVars
    PROVE  Older'
<1>1. CASE CtlStart
    BY <1>1 DEF CtlStart, Older, TypeOK
<1>2. ASSUME NEW p \in Procs, DeliverKill(p) PROVE Older'
    BY <1>2 DEF DeliverKill, Older
<1>3. CASE [Next]_vars
    <2>1. \A m \in Pids : mconf'[m] \in {mconf[m], config}
        <3>1. CASE mconf' = mconf
            BY <3>1
        <3>2. CASE \E m \in Pids : LoadConfig(m)
            BY <3>2 DEF LoadConfig, TypeOK
        <3> QED
            BY <1>3, <3>1, <3>2
            DEF Next, vars, mgrVars, BossStep, Start, InstallHandler, Poll, Wake,
                BeginReload, ForkManager, Await, BossMove, Probe, Decide, Retire, Succeed,
                Fail, Clear, ManagerStep, Prepare, ForkChildren, Announce, Monitor,
                StopPool, Crash, ReloadRequest, Stop, DeliverTerm
    <2>2. config' \in {config, config + 1}
        BY <1>3
        DEF Next, vars, envVars, BossStep, Start, InstallHandler, Poll, Wake,
            BeginReload, ForkManager, Await, BossMove, Probe, Decide, Retire, Succeed,
            Fail, Clear, ManagerStep, LoadConfig, Prepare, ForkChildren, Announce, Monitor,
            StopPool, Crash, ReloadRequest, Stop, DeliverTerm
    <2>3. config \in Nat /\ \A m \in Pids : mconf[m] \in Nat
        BY BossAssumption DEF TypeOK
    <2> QED BY <2>1, <2>2, <2>3 DEF Older
<1> QED BY <1>1, <1>2, <1>3, CtlServiceStep

\* A process of the service does not touch what it was asked.
LEMMA ServiceKeeps ==
    ASSUME Service
    PROVE  UNCHANGED <<config, stopped>>
BY DEF Service, envVars, BossStep, Start, InstallHandler, Poll, Wake, BeginReload,
       ForkManager, Await, BossMove, Probe, Decide, Retire, Succeed, Fail, Clear,
       ManagerStep, LoadConfig, Prepare, ForkChildren, Announce, Monitor, StopPool, Crash

\* What the boss writes to .status, it writes in a reload.
LEMMA StatusStep ==
    ASSUME Service
    PROVE  \/ status' = status
           \/ BeginReload /\ status' = "reloading"
           \/ Succeed /\ status' = "succ" /\ bpc' = "clear"
           \/ Fail /\ status' = "failed" /\ bpc' = "clear"
BY DEF Service, bossVars, BossStep, Start, InstallHandler, Poll, Wake, BeginReload,
       ForkManager, Await, BossMove, Probe, Decide, Retire, Succeed, Fail, Clear,
       RecordStatus, ManagerStep, LoadConfig, Prepare, ForkChildren, Announce, Monitor,
       StopPool, Crash

LEMMA ReportStep ==
    ASSUME NoTruthFault, ServiceInv, AskInv, Service, Reported, cpc = "poll"
    PROVE  Report'
<1> USE DEF NoTruthFault
<1>0. /\ cpc' = "poll" /\ asked' = asked /\ config' = config /\ asked = config
      /\ file' = IF status' = status THEN file ELSE status'
      /\ file # "none" /\ (file # "reloading" => Done /\ status = file)
      /\ file = "succ" => mconf[manager] = asked
      /\ Asking \/ Trying \/ Done
    BY ServiceKeeps DEF Reported, AskInv, Pending, Report
<1>1. CASE file # "reloading"
    <2>1. Done' /\ UNCHANGED <<manager, status>>
        BY <1>0, <1>1, DoneStep
    <2>2. file = "succ" => mconf'[manager] = asked
        <3>1. CASE mconf' = mconf
            BY <1>0, <3>1
        <3>2. CASE \E m \in Pids : mconf' = [mconf EXCEPT ![m] = config]
            <4> SUFFICES ASSUME file = "succ" PROVE mconf'[manager] = asked
                OBVIOUS
            <4>1. manager \in Pids
                BY <1>0, <1>1 DEF Done, ServiceInv, HandoverInv, BossInv
            <4> QED BY <1>0, <3>2, <4>1 DEF ServiceInv, TypeOK
        <3> QED
            BY <3>1, <3>2
            DEF Service, mgrVars, BossStep, Start, InstallHandler, Poll, Wake, BeginReload,
                ForkManager, Await, BossMove, Probe, Decide, Retire, Succeed, Fail, Clear,
                ManagerStep, LoadConfig, Prepare, ForkChildren, Announce, Monitor,
                StopPool, Crash
    <2> QED BY <1>0, <1>1, <2>1, <2>2 DEF Report
<1>2. CASE file = "reloading"
    <2>1. CASE status' = status \/ status' = "reloading"
        <3>1. file' = "reloading"
            BY <1>0, <1>2, <2>1
        <3> QED BY <3>1 DEF Report
    <2>2. CASE Succeed /\ status' = "succ" /\ bpc' = "clear"
        <3>1. Trying /\ mconf[newManager] = asked
            BY <1>0, <2>2 DEF Succeed, Trying, Asking, Done
        <3>2. mconf' = mconf /\ manager' = newManager
            BY <2>2 DEF Succeed, mgrVars
        <3> QED BY <1>0, <1>2, <2>2, <3>1, <3>2 DEF Report, Done
    <2>3. CASE Fail /\ status' = "failed" /\ bpc' = "clear"
        BY <1>0, <1>2, <2>3 DEF Report, Done
    <2> QED BY <2>1, <2>2, <2>3, StatusStep
<1> QED BY <1>1, <1>2

LEMMA AskServiceStep ==
    ASSUME NoTruthFault, ServiceInv, AskInv, Reported,
           Service \/ \E p \in Procs : DeliverSignal(p)
    PROVE  Pending' /\ Report'
<1> USE DEF NoTruthFault
<1>1. cpc' = cpc /\ asked' = asked
    BY DEF Reported
<1>2. CASE cpc \notin {"mark", "poll"}
    BY <1>1, <1>2 DEF Pending, Report
<1>3. CASE cpc \in {"mark", "poll"}
    <2>1. ~stopped /\ targets = {}
        BY <1>3 DEF AskInv, Pending, ServiceInv, HandoverInv, ServeInv
    <2>2. Service
        BY <2>1 DEF DeliverSignal, DeliverTerm, DeliverKill
    <2>3. config' = config /\ stopped' = stopped
        BY <2>2, ServiceKeeps
    <2>4. Asking' \/ Trying' \/ Done'
        BY <1>1, <1>3, <2>2, AskingStep, TryingStep, DoneStep DEF AskInv, Pending
    <2>5. Pending'
        BY <1>1, <1>3, <2>3, <2>4 DEF AskInv, Pending
    <2>6. Report'
        BY <1>1, <2>2, ReportStep DEF Report
    <2> QED BY <2>5, <2>6
<1> QED BY <1>2, <1>3

LEMMA AskStep ==
    ASSUME NoTruthFault, ServiceInv, ServiceInv', CtlTypeOK, AskInv, [CtlNext]_allVars
    PROVE  AskInv'
<1>0. Older'
    BY OlderStep DEF ServiceInv, AskInv
<1>1. CASE (Service \/ \E p \in Procs : DeliverSignal(p)) /\ Reported /\ Inherited
    BY <1>1, AskServiceStep, <1>0 DEF AskInv
<1>2. CASE CtlReload
    <2>1. /\ cpc' = "mark" /\ asked' = config' /\ config' = config + 1 /\ ~stopped'
          /\ mconf' = mconf
        BY <1>2 DEF CtlReload, ReloadRequest, mgrVars
    <2>2. \A m \in Pids : mconf'[m] < asked'
        BY <2>1, BossAssumption DEF AskInv, Older, ServiceInv, TypeOK
    <2>3. CASE bpc = "install"
        <3>1. bpc' = "gone"
            BY <1>2, <2>3 DEF CtlReload, ReloadRequest
        <3> QED BY <1>0, <2>1, <3>1 DEF AskInv, Pending, Report, Done
    <2>4. CASE bpc # "install"
        <3>1. bpc \in {"poll", "sleep"} /\ bpc' = bpc /\ reload'
            BY <1>2, <2>4 DEF CtlReload, ReloadRequest, Quiet, Interrupt, NoTruthFault
        <3> QED BY <1>0, <2>1, <2>2, <3>1 DEF AskInv, Pending, Report, Asking
    <2> QED BY <2>3, <2>4
<1>3. CASE CtlMark
    <2>1. /\ cpc = "mark" /\ cpc' = "poll" /\ file' = "reloading" /\ asked' = asked
          /\ UNCHANGED <<config, stopped>>
        BY <1>3 DEF CtlMark, vars, envVars
    <2>2. Asking \/ Trying \/ Done => Asking' \/ Trying' \/ Done'
        BY <1>3, <2>1 DEF CtlMark, vars, bossVars, mgrVars, Asking, Trying, Done
    <2> QED BY <1>0, <2>1, <2>2 DEF AskInv, Pending, Report
<1>4. CASE CtlAlready \/ CtlFails \/ CtlReloadGone \/ CtlStopTimeout \/ CtlStop \/ CtlRead \/ CtlStopped \/ CtlTimeout \/ CtlStart
               \/ ChLogLevelEnds \/ \E l \in Levels : ChLogLevel(l)
    <2>1. cpc' \notin {"mark", "poll"}
        BY <1>4
        DEF CtlAlready, CtlFails, CtlReloadGone, CtlNothing, CtlStopTimeout, CtlStop, CtlRead, CtlStopped, CtlTimeout, CtlStart,
            ChLogLevelEnds, ChLogLevel
    <2> QED BY <1>0, <2>1 DEF AskInv, Pending, Report
<1>5. CASE UNCHANGED <<vars, ctlVars>>
    BY <1>0, <1>5
    DEF vars, bossVars, mgrVars, envVars, ctlVars, AskInv, Pending, Report, Asking, Trying,
        Done
<1>6. ASSUME NEW kind \in Kinds, NEW p \in Procs, UpdateLogLevel(kind, p)
      PROVE  UNCHANGED <<vars, ctlVars>>
    BY <1>6 DEF UpdateLogLevel
<1>7. CASE UNCHANGED allVars
    BY <1>5, <1>7 DEF allVars
<1> QED
    BY <1>1, <1>2, <1>3, <1>4, <1>5, <1>6, <1>7 DEF CtlNext, Command, CtlStep

LEMMA AskInit == CtlInit => AskInv
BY DEF CtlInit, Init, AskInv, Older, Pending, Report

LEMMA SuccessStep ==
    ASSUME NoTruthFault, ServiceInv, CtlTypeOK, AskInv, [CtlNext]_allVars,
           result' = "succ", result # "succ"
    PROVE  stopped \/ Deployed(asked)
<1>1. CtlRead
    BY DEF CtlNext, Reported, Command, CtlStep, CtlReload, CtlAlready, CtlFails, CtlReloadGone, CtlNothing, CtlStopTimeout, CtlStop,
           CtlMark, CtlStopped, CtlTimeout, CtlStart, ChLogLevel, UpdateLogLevel,
           ChLogLevelEnds, allVars, ctlVars
<1>2. file = "succ" /\ status = "succ" /\ Done /\ mconf[manager] = asked /\ ~stopped
    BY <1>1 DEF CtlRead, AskInv, Pending, Report
<1>3. manager \in Pids /\ pool[manager]
    BY <1>2 DEF Done, ServiceInv, HandoverInv, BossInv, ServeInv
<1>4. asked \in Nat
    BY BossAssumption DEF CtlTypeOK
<1> QED BY <1>2, <1>3, <1>4 DEF Deployed

\* "Succeeded in Reloading" means that the configuration asked for is in force, also
\* when a reload before timed out or its report was overwritten.
THEOREM ReportedToOperator ==
    ASSUME NoTruthFault
    PROVE  CtlSpec => SuccessIsTrue
<1>1. CtlInit => ServiceInv /\ CtlTypeOK /\ AskInv
    BY ServiceInit, CtlTypeInit, AskInit
<1>2. ServiceInv /\ CtlTypeOK /\ AskInv /\ [CtlNext]_allVars
      => ServiceInv' /\ CtlTypeOK' /\ AskInv'
    BY ServiceStep, CtlTypeStep, AskStep DEF ServiceInv, NoTruthFault
<1>3. ServiceInv /\ CtlTypeOK /\ AskInv /\ [CtlNext]_allVars
      => [result' = "succ" /\ result # "succ" => stopped \/ Deployed(asked)]_allVars
    BY SuccessStep
<1> QED BY <1>1, <1>2, <1>3, PTL DEF CtlSpec, SuccessIsTrue

-----------------------------------------------------------------------------
(* A reported failure is true.                                             *)

\* The reload is over, nothing starts any more, and what was refused is dead.
Refused ==
    /\ Done
    /\ \A m \in Pids : mpc[m] \notin Starting /\ (mconf[m] = asked => ~Alive(m))

\* Without crashes a pool has its manager, until a stop, and one that failed has no pool.
PoolInv   ==
    ~stopped =>
        \A m \in Pids : pool[m] => mpc[m] \in {"announcing", "monitoring", "stopping"}
FailedInv == bpc = "fail" => newManager \in Pids /\ ~Alive(newManager)
TellInv   ==
    /\ cpc = "poll" /\ file = "failed" => Refused
    /\ result = "failed" /\ ~stopped => cpc = "idle" /\ Refused
FailInv   == PoolInv /\ FailedInv /\ TellInv

LEMMA PoolInvStep ==
    ASSUME "crash" \notin Faults, ServiceInv, ServiceInv', PoolInv, [CtlNext]_allVars
    PROVE  PoolInv'
<1>1. CASE CtlStart
    BY <1>1 DEF CtlStart, PoolInv
<1>2. ASSUME NEW p \in Procs, DeliverKill(p) PROVE PoolInv'
    <2>1. stopped'
        BY <1>2, KillEffect DEF ServiceInv, HandoverInv, ServeInv
    <2> QED BY <2>1 DEF PoolInv
<1>3. CASE [Next]_vars
    <2>1. CASE BossStep
        <3>1. pool' = pool
            BY <2>1
            DEF BossStep, Start, InstallHandler, Poll, Wake, BeginReload, ForkManager,
                Await, BossMove, Probe, Decide, Retire, Succeed, Fail, Clear, mgrVars
        <3>2. mpc' = mpc \/ (\E r : Fork(r)) \/ Reap(manager) \/ Reap(newManager)
            BY <2>1
            DEF BossStep, Start, InstallHandler, Poll, Wake, BeginReload, ForkManager,
                Await, BossMove, Probe, Decide, Retire, Succeed, Fail, Clear, mgrVars
        <3>3. ASSUME NEW r, Fork(r)
              PROVE  \A m \in Pids : mpc'[m] = mpc[m] \/ mpc[m] = "unborn"
            BY <3>3 DEF Fork, ServiceInv, TypeOK
        <3>4. \A m \in Pids : mpc'[m] = mpc[m] \/ mpc[m] \in {"unborn", "zombie"}
            BY <3>2, <3>3, ReapEffect DEF ServiceInv
        <3>5. stopped' = stopped
            BY <2>1, ServiceKeeps DEF Service
        <3> QED BY <3>1, <3>4, <3>5 DEF PoolInv
    <2>2. ASSUME NEW k \in Pids, ManagerStep(k) PROVE PoolInv'
        BY <2>2
        DEF ManagerStep, LoadConfig, Prepare, ForkChildren, Announce, Monitor, StopPool,
            Advance, PoolInv, ServiceInv, TypeOK, envVars
    <2>3. CASE ReloadRequest \/ Stop \/ UNCHANGED vars
        BY <2>3 DEF ReloadRequest, Stop, vars, mgrVars, envVars, PoolInv
    <2>4. ASSUME NEW p \in Procs, DeliverTerm(p) PROVE PoolInv'
        BY <2>4 DEF DeliverTerm, PoolInv, ServiceInv, TypeOK
    <2> QED BY <1>3, <2>1, <2>2, <2>3, <2>4 DEF Next, Crash
<1> QED BY <1>1, <1>2, <1>3, CtlServiceStep

LEMMA FailedInvStep ==
    ASSUME NoGapFault, ServiceInv, ServiceInv', FailedInv, [CtlNext]_allVars
    PROVE  FailedInv'
<1>1. CASE CtlStart
    BY <1>1 DEF CtlStart, FailedInv
<1>2. ASSUME NEW p \in Procs, DeliverKill(p) PROVE FailedInv'
    BY <1>2, KillEffect DEF FailedInv, ServiceInv, Alive
<1>3. CASE [Next]_vars
    <2> SUFFICES ASSUME bpc' = "fail"
                 PROVE  newManager' \in Pids /\ ~Alive(newManager)'
        BY DEF FailedInv
    <2>1. CASE bpc = "fail"
        <3>1. newManager' = newManager /\ newManager \in Pids /\ ~Alive(newManager)
            BY <1>3, <2>1
            DEF Next, vars, bossVars, BossStep, Start, InstallHandler, Poll, Wake,
                BeginReload, ForkManager, Await, BossMove, Probe, Decide, Retire, Succeed,
                Fail, Clear, ManagerStep, LoadConfig, Prepare, ForkChildren, Announce,
                Monitor, StopPool, Crash, ReloadRequest, Stop, DeliverTerm, FailedInv
        <3>2. ~Alive(newManager)'
            BY <1>3, <2>1, <3>1, WhoRuns DEF ServiceInv
        <3> QED BY <3>1, <3>2 DEF Alive
    <2>2. CASE bpc # "fail"
        <3>1. Decide /\ ~finished
            BY <1>3, <2>2
            DEF Next, vars, bossVars, BossStep, Start, InstallHandler, Poll, Wake,
                BeginReload, ForkManager, Await, BossMove, Probe, Decide, Retire, Succeed,
                Fail, Clear, ManagerStep, LoadConfig, Prepare, ForkChildren, Announce,
                Monitor, StopPool, Crash, ReloadRequest, Stop, DeliverTerm, Interrupt,
                RecordStatus
        <3>2. newManager' = newManager /\ mpc' = mpc /\ newManager \in Pids
            BY <3>1 DEF Decide, mgrVars, ServiceInv, HandoverInv, FlagInv, Waiting
        <3>3. ~Alive(newManager)
            BY <3>1, <3>2 DEF Decide, ServiceInv, Tracked
        <3> QED BY <3>2, <3>3 DEF Alive
    <2> QED BY <2>1, <2>2
<1> QED BY <1>1, <1>2, <1>3, CtlServiceStep

\* What is refused stays so until the next command.
LEMMA RefusedStep ==
    ASSUME NoGapFault, "crash" \notin Faults, ServiceInv, Refused, Service, asked' = asked
    PROVE  Refused'
<1>1. Done'
    BY DoneStep DEF Refused
<1>2. bpc \notin {"start", "fork"} /\ [Next]_vars
    BY DEF Refused, Done, Service, Next
<1>3. ASSUME NEW m \in Pids PROVE Alive(m)' => Alive(m)
    BY <1>2, WhoRuns DEF ServiceInv
<1>4. mconf' = mconf /\ \A m \in Pids : mpc'[m] \notin Starting
    <2>1. CASE BossStep
        <3>1. mconf' = mconf /\ (mpc' = mpc \/ Reap(manager) \/ Reap(newManager))
            BY <2>1, <1>2
            DEF BossStep, Start, InstallHandler, Poll, Wake, BeginReload, ForkManager,
                Await, BossMove, Probe, Decide, Retire, Succeed, Fail, Clear, mgrVars
        <3> QED BY <3>1, ReapEffect DEF ServiceInv, Refused, Starting
    <2>2. ASSUME NEW k \in Pids, ManagerStep(k)
          PROVE  mconf' = mconf /\ \A m \in Pids : mpc'[m] \notin Starting
        BY <2>2
        DEF ManagerStep, LoadConfig, Prepare, ForkChildren, Announce, Monitor, StopPool,
            Advance, Refused, Starting, ServiceInv, TypeOK
    <2> QED BY <2>1, <2>2 DEF Service, Crash
<1> QED BY <1>1, <1>3, <1>4 DEF Refused

LEMMA FailReport ==
    ASSUME NoTruthFault, ServiceInv, AskInv, FailInv, Fail, bpc' = "clear",
           cpc = "poll", asked' = asked
    PROVE  Refused'
<1>1. Trying /\ bpc = "fail" /\ mpc' = mpc /\ mconf' = mconf
    BY DEF Fail, mgrVars, AskInv, Pending, Asking, Trying, Done
<1>2. \A m \in Pids : mpc[m] \notin Starting
    BY <1>1 DEF ServiceInv, HandoverInv, FlagInv
<1>3. ~Alive(newManager)
    BY <1>1 DEF FailInv, FailedInv
<1>4. ASSUME NEW m \in Pids, mconf[m] = asked PROVE ~Alive(m)
    <2>1. CASE m = newManager
        BY <1>3, <2>1
    <2>2. CASE m # newManager
        <3>1. mconf[m] < asked /\ mconf[m] \in Nat
            BY <1>1, <2>2, BossAssumption DEF Trying, ServiceInv, TypeOK
        <3> QED BY <1>4, <3>1
    <2> QED BY <2>1, <2>2
<1> QED BY <1>1, <1>2, <1>4 DEF Refused, Done, Alive

LEMMA TellServiceStep ==
    ASSUME NoTruthFault, "crash" \notin Faults, ServiceInv, AskInv, FailInv, Reported,
           Service \/ (\E p \in Procs : DeliverSignal(p)), result' = result
    PROVE  TellInv'
<1>1. /\ cpc' = cpc /\ asked' = asked
      /\ file' = IF status' = status THEN file ELSE status'
    BY DEF Reported
<1>2. ASSUME cpc = "poll", file' = "failed" PROVE Refused'
    <2>1. Service
        BY <1>2
        DEF AskInv, Pending, ServiceInv, HandoverInv, ServeInv, DeliverSignal, DeliverTerm,
            DeliverKill
    <2>2. CASE file = "failed"
        BY <1>1, <1>2, <2>1, <2>2, RefusedStep DEF NoTruthFault, FailInv, TellInv
    <2>3. CASE file # "failed"
        <3>1. Fail /\ bpc' = "clear"
            BY <1>1, <1>2, <2>1, <2>3, StatusStep
        <3> QED BY <1>1, <1>2, <3>1, FailReport
    <2> QED BY <2>2, <2>3
<1>3. ASSUME result' = "failed", ~stopped' PROVE cpc' = "idle" /\ Refused'
    <2>1. ~stopped
        BY <1>3, ServiceKeeps DEF DeliverSignal, DeliverTerm, DeliverKill
    <2>2. Service
        BY <2>1 DEF ServiceInv, HandoverInv, ServeInv, DeliverSignal, DeliverTerm, DeliverKill
    <2>3. cpc = "idle" /\ Refused
        BY <1>3, <2>1 DEF FailInv, TellInv
    <2> QED BY <1>1, <2>2, <2>3, RefusedStep DEF NoTruthFault
<1> QED BY <1>1, <1>2, <1>3 DEF TellInv

LEMMA TellStep ==
    ASSUME NoTruthFault, "crash" \notin Faults, ServiceInv, CtlTypeOK, AskInv, FailInv,
           [CtlNext]_allVars
    PROVE  TellInv'
<1>1. CASE (Service \/ \E p \in Procs : DeliverSignal(p)) /\ Reported /\ Inherited
    BY <1>1, TellServiceStep DEF Reported
<1>2. CASE CtlReload \/ CtlStop \/ CtlStopped \/ CtlTimeout \/ CtlAlready \/ CtlFails \/ CtlReloadGone \/ CtlStopTimeout \/ CtlStart
                \/ \E l \in Levels : ChLogLevel(l)
    <2>1. cpc' # "poll" /\ result' # "failed"
        BY <1>2
        DEF CtlReload, CtlStop, CtlStopped, CtlTimeout, CtlAlready, CtlFails, CtlReloadGone, CtlNothing, CtlStopTimeout, CtlStart, ChLogLevel
    <2> QED BY <2>1 DEF TellInv
<1>3. ASSUME UNCHANGED <<vars, asked>> PROVE Refused => Refused'
    BY <1>3 DEF vars, bossVars, mgrVars, Refused, Done, Alive
<1>4. CASE CtlMark
    <2>1. /\ cpc = "mark" /\ file' = "reloading" /\ result' = result
          /\ UNCHANGED stopped
        BY <1>4 DEF CtlMark, vars, envVars
    <2>2. result # "failed" \/ stopped
        BY <2>1 DEF FailInv, TellInv
    <2> QED BY <2>1, <2>2 DEF TellInv
<1>5. CASE CtlRead
    <2>1. /\ cpc = "poll" /\ cpc' = "idle" /\ file # "reloading" /\ UNCHANGED <<vars, asked>>
          /\ result' = IF file = "succ" THEN "succ" ELSE "failed"
        BY <1>5 DEF CtlRead
    <2>2. file = "succ" \/ file = "failed"
        BY <2>1 DEF CtlTypeOK, AskInv, Report
    <2>3. result' = "failed" => Refused'
        BY <1>3, <2>1, <2>2 DEF FailInv, TellInv
    <2> QED BY <2>1, <2>3 DEF TellInv
<1>6. CASE ChLogLevelEnds
    <2>1. cpc = "level" /\ cpc' = "idle" /\ result' = result /\ stopped' = stopped
        BY <1>6 DEF ChLogLevelEnds, vars, envVars
    <2> QED BY <2>1 DEF FailInv, TellInv
<1>7. CASE UNCHANGED <<vars, ctlVars>>
    <2>1. UNCHANGED <<vars, asked, cpc, file, result, stopped>>
        BY <1>7 DEF ctlVars, vars, envVars
    <2> QED BY <1>3, <2>1 DEF FailInv, TellInv
<1>8. ASSUME NEW kind \in Kinds, NEW p \in Procs, UpdateLogLevel(kind, p)
      PROVE  UNCHANGED <<vars, ctlVars>>
    BY <1>8 DEF UpdateLogLevel
<1>9. CASE UNCHANGED allVars
    BY <1>7, <1>9 DEF allVars
<1> QED
    BY <1>1, <1>2, <1>4, <1>5, <1>6, <1>7, <1>8, <1>9 DEF CtlNext, Command, CtlStep

LEMMA FailInit == CtlInit => FailInv
<1> SUFFICES ASSUME CtlInit PROVE FailInv
    OBVIOUS
<1>1. \A m \in Pids : ~pool[m]
    BY DEF CtlInit, Init
<1> QED BY <1>1 DEF CtlInit, Init, FailInv, PoolInv, FailedInv, TellInv

\* "Failed to reload" means that the manager that tried is dead and has no workers,
\* unless a manager is killed by something other than ncserver.
THEOREM RefusedToOperator ==
    ASSUME NoTruthFault, "crash" \notin Faults
    PROVE  CtlSpec => []FailureIsTrue
<1>1. CtlInit => ServiceInv /\ CtlTypeOK /\ AskInv /\ FailInv
    BY ServiceInit, CtlTypeInit, AskInit, FailInit
<1>2. ServiceInv /\ CtlTypeOK /\ AskInv /\ FailInv /\ [CtlNext]_allVars
      => ServiceInv' /\ CtlTypeOK' /\ AskInv' /\ FailInv'
    BY ServiceStep, CtlTypeStep, AskStep, PoolInvStep, FailedInvStep, TellStep
    DEF ServiceInv, NoTruthFault, FailInv
<1>3. FailInv => FailureIsTrue
    BY DEF FailInv, PoolInv, TellInv, Refused, FailureIsTrue, Alive
<1> QED BY <1>1, <1>2, <1>3, PTL DEF CtlSpec
=============================================================================

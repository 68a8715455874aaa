-------------------------- MODULE WorkerPool_proof --------------------------
(***************************************************************************)
(* What holds of a manager and its workers for every number of workers,      *)
(* process numbers, crashes, failed forks and calls of reforkAllChildren.   *)
(***************************************************************************)
EXTENDS WorkerPool, TLAPS

LEMMA CountIsNat ==
    /\ WorkerCount \in Nat /\ MaxReforks \in Nat /\ MaxCrashes \in Nat
    /\ NoPid \notin Pids
    BY PoolAssumption

-----------------------------------------------------------------------------
(* Type correctness.                                                       *)

Processes == Worker \cup {Free, Zombie}

LEMMA States ==
    /\ Free \in Processes /\ Zombie \in Processes /\ Worker \subseteq Processes
    /\ Free.st = "free" /\ Zombie.st = "zombie"
    /\ \A x \in Processes : \/ x = Free \/ x = Zombie
                            \/ x \in Worker /\ x.st = "running" /\ x.told \in BOOLEAN
    /\ \A x \in Processes : x.st = "free" => x = Free
BY DEF Processes, Free, Zombie, Worker

\* A worker that is told stays the worker it is.
LEMMA ToldWorker ==
    ASSUME NEW x \in Worker
    PROVE  /\ [x EXCEPT !.told = TRUE] \in Worker
           /\ [x EXCEPT !.told = TRUE].st = "running"
           /\ [x EXCEPT !.told = TRUE].told
BY DEF Worker

LEMMA ToldEffect ==
    ASSUME proc \in [Pids -> Processes], NEW ps
    PROVE  /\ ToldSet(ps) \in [Pids -> Processes]
           /\ \A p \in Pids : ToldSet(ps)[p].st = proc[p].st
           /\ \A p \in Pids : ToldSet(ps)[p] = proc[p] \/ ToldSet(ps)[p].told
           /\ \A p \in ps : Running(p) => ToldSet(ps)[p].told
<1>1. \A p \in Pids : Running(p) => proc[p] \in Worker
    BY States DEF Running, Free, Zombie
<1> USE DEF ToldSet
<1>2. ASSUME NEW p \in Pids
      PROVE  /\ ToldSet(ps)[p] \in Processes
             /\ ToldSet(ps)[p].st = proc[p].st
             /\ ToldSet(ps)[p] = proc[p] \/ ToldSet(ps)[p].told
             /\ p \in ps /\ Running(p) => ToldSet(ps)[p].told
    <2>1. CASE p \in ps /\ Running(p)
        <3>1. ToldSet(ps)[p] = [proc[p] EXCEPT !.told = TRUE]
            BY <2>1
        <3> HIDE DEF ToldSet
        <3>2. proc[p] \in Worker /\ proc[p].st = "running"
            BY <1>1, <2>1 DEF Running
        <3> QED BY <3>1, <3>2, ToldWorker, States
    <2>2. CASE ~(p \in ps /\ Running(p))
        BY <2>2
    <2> QED BY <2>1, <2>2
<1>3. ToldSet(ps) \in [Pids -> Processes]
    BY <1>2
<1> HIDE DEF ToldSet
<1> QED BY <1>2, <1>3 DEF Running

LEMMA KillType ==
    ASSUME TypeOK, NEW pid, Kill(pid)
    PROVE  proc' \in [Pids -> Processes]
BY ToldEffect DEF Kill, TypeOK, Processes

LEMMA ReapType ==
    ASSUME TypeOK, NEW pid, Reap(pid)
    PROVE  proc' \in [Pids -> Processes]
BY DEF TypeOK, Reap, Named, Processes

\* Where the loop variable is a slot.
Placed ==
    /\ mpc \in {"fork", "record", "signal", "stopwait"} => slot \in Slots
    /\ mpc = "idle" => slot = 1

LEMMA BadType ==
    ASSUME TypeOK, MoreBad
    PROVE  /\ [bad EXCEPT !.forks = @ + 1] \in [ended : 0 .. MaxCrashes, forks : 0 .. MaxCrashes]
           /\ [bad EXCEPT !.ended = @ + 1] \in [ended : 0 .. MaxCrashes, forks : 0 .. MaxCrashes]
<1>1. bad \in [ended : 0 .. MaxCrashes, forks : 0 .. MaxCrashes]
    BY DEF TypeOK
<1>2. bad.ended + 1 \in 0 .. MaxCrashes /\ bad.forks + 1 \in 0 .. MaxCrashes
    BY <1>1, CountIsNat DEF MoreBad
<1> QED BY <1>1, <1>2

LEMMA TypeStep == TypeOK /\ Placed /\ [Next]_vars => TypeOK' /\ Placed'
<1> SUFFICES ASSUME TypeOK, Placed, [Next]_vars PROVE TypeOK' /\ Placed'
    OBVIOUS
<1> USE CountIsNat DEF Slots, TypeOK, Placed, Processes
<1>1. CASE ForkOne
    <2>1. CASE \E p \in Pids :
                  /\ proc[p].st = "free" /\ forked' = p
                  /\ proc' = [proc EXCEPT ![p] =
                                 [st |-> "running", data |-> data, told |-> exit]]
                  /\ UNCHANGED bad
        BY <1>1, <2>1 DEF ForkOne, slotVars, Worker
    <2>2. CASE /\ MoreBad /\ bad' = [bad EXCEPT !.forks = @ + 1]
               /\ forked' = NoPid /\ UNCHANGED proc
        <3>1. bad' \in [ended : 0 .. MaxCrashes, forks : 0 .. MaxCrashes]
            BY <2>2, BadType
        <3> QED BY <1>1, <2>2, <3>1 DEF ForkOne, slotVars
    <2> QED BY <1>1, <2>1, <2>2 DEF ForkOne
<1>2. CASE Record
    BY <1>2 DEF Record, NextSlot
<1>3. CASE Wake \/ ScanEnd \/ StopEnd
    BY <1>3 DEF Wake, ScanEnd, StopEnd, Move, slotVars
<1>4. CASE ScanReplace
    BY <1>4 DEF ScanReplace, Scanning, slotVars
<1>5. CASE ScanLiving
    BY <1>5, ReapType DEF ScanLiving, Scanning, NextSlot, slotVars
<1>6. CASE ScanInvalid
    BY <1>6 DEF ScanInvalid, Scanning, slotVars
<1>7. CASE SignalOld
    BY <1>7, KillType DEF SignalOld, NextSlot, slotVars
<1>8. CASE Detach
    BY <1>8 DEF Detach, slotVars
<1>9. CASE StopKill
    BY <1>9, KillType DEF StopKill, slotVars
<1>10. CASE StopWait
    BY <1>10, ReapType DEF StopWait, slotVars
<1>11. ASSUME NEW p \in Pids \cup {NoPid}, FinishOff(p) PROVE TypeOK' /\ Placed'
    <2>1. proc' \in [Pids -> Processes]
        BY <1>11, ReapType DEF FinishOff
    <2> QED BY <1>11, <2>1 DEF FinishOff, mainVars, slotVars
<1>12. CASE ReforkCall
    BY <1>12 DEF ReforkCall, mainVars, slotVars
<1>13. CASE Mark
    BY <1>13 DEF Mark, mainVars
<1>14. CASE ExitRequest
    BY <1>14 DEF ExitRequest, mainVars, slotVars
<1>15. ASSUME NEW p \in Pids, WorkerEnds(p) PROVE TypeOK' /\ Placed'
    BY <1>15 DEF WorkerEnds, mainVars, slotVars
<1>16. ASSUME NEW p \in Pids, WorkerCrashes(p) PROVE TypeOK' /\ Placed'
    <2>1. bad' \in [ended : 0 .. MaxCrashes, forks : 0 .. MaxCrashes]
        BY <1>16, BadType DEF WorkerCrashes
    <2> QED BY <1>16, <2>1 DEF WorkerCrashes, mainVars, slotVars
<1>17. CASE UNCHANGED vars
    BY <1>17 DEF vars, mainVars, slotVars
<1> QED
    BY <1>1, <1>2, <1>3, <1>4, <1>5, <1>6, <1>7, <1>8, <1>9, <1>10, <1>11, <1>12, <1>13,
       <1>14, <1>15, <1>16, <1>17 DEF Next, MainStep

LEMMA TypeInit == Init => TypeOK /\ Placed
<1> SUFFICES ASSUME Init PROVE TypeOK /\ Placed
    OBVIOUS
<1>1. [ended |-> 0, forks |-> 0] \in [ended : 0 .. MaxCrashes, forks : 0 .. MaxCrashes]
    BY CountIsNat
<1>2. 1 \in 1 .. (WorkerCount + 1) /\ 0 \in 0 .. WorkerCount /\ 0 \in 0 .. MaxReforks
    BY CountIsNat
<1>3. mpc = "fork" => slot \in Slots
    BY CountIsNat DEF Init, Slots
<1> QED BY <1>1, <1>2, <1>3 DEF Init, TypeOK, Placed

\* Every variable keeps its type.
THEOREM PoolTypeCorrect == Spec => []TypeOK
    BY TypeInit, TypeStep, PTL DEF Spec

-----------------------------------------------------------------------------
(* No worker is lost.                                                      *)

Untold(p) == Running(p) /\ ~proc[p].told
Kept(p)   == InSlot(p) \/ (mpc = "record" /\ p = forked) \/ (mpc = "signal" /\ p = victim)

\* What the state of a slot says about its worker.
SlotInv == \A s \in Slots : /\ state[s] = "LIVING" => child[s] \in Pids
                            /\ state[s] = "INVALID" => child[s] = NoPid

\* What forkOne is about to overwrite: nothing, a worker that is dead, or the one that
\* is kept in pidToKill.
ForkInv ==
    /\ mpc \in {"fork", "record"} /\ why = "initial" =>
          \A s \in Slots : s >= slot => child[s] = NoPid
    /\ mpc \in {"fork", "record"} /\ why = "dead" =>
          ~Running(child[slot]) \/ (mpc = "record" /\ child[slot] = forked)
    /\ mpc \in {"fork", "record"} /\ why = "replace" => victim = child[slot]

\* Who has been told so far.
StopInv ==
    /\ mpc \in {"stopkill", "stopwait", "done"} =>
          \A s \in Slots : s < slot \/ (mpc = "stopwait" /\ s = slot) => ~Untold(child[s])
    /\ mpc = "done" => slot > WorkerCount

LostInv == SlotInv /\ ForkInv /\ StopInv /\ NoLostWorker

\* Only fork makes a worker that was not told, and nothing else makes one run.
LEMMA OnlyForkMakes ==
    ASSUME TypeOK, [Next]_vars, ~ForkOne, NEW p \in Pids
    PROVE  /\ Running(p)' => Running(p)
           /\ Untold(p)' => Untold(p)
<1> DEFINE Less == (Running(p)' => Running(p)) /\ (Untold(p)' => Untold(p))
<1> SUFFICES Less
    BY DEF Running, Untold
<1> USE DEF Running, Untold
<1>1. ASSUME proc' = proc PROVE Less
    BY <1>1
<1>2. ASSUME NEW pid, Kill(pid) PROVE Less
    <2>1. /\ proc'[p].st = proc[p].st
          /\ proc'[p] = proc[p] \/ proc'[p].told
        BY <1>2, ToldEffect DEF Kill, TypeOK, Processes
    <2> QED BY <2>1
<1>3. ASSUME NEW pid, Reap(pid) PROVE Less
    <2>1. proc'[p] = proc[p] \/ proc'[p] = Free
        BY <1>3 DEF Reap, Named, TypeOK
    <2> QED BY <2>1 DEF Free
<1>4. ASSUME NEW pid \in Pids \cup {NoPid}, FinishOff(pid) PROVE Less
    <2>1. proc'[p] \in {proc[p], Free, Zombie} \/ Reap(pid)
        BY <1>4 DEF FinishOff
    <2> QED BY <1>3, <2>1 DEF Free, Zombie
<1>5. ASSUME NEW q \in Pids, WorkerEnds(q) \/ WorkerCrashes(q) PROVE Less
    <2>1. proc'[p] \in {proc[p], Zombie}
        BY <1>5 DEF WorkerEnds, WorkerCrashes, TypeOK
    <2> QED BY <2>1 DEF Zombie
<1> HIDE DEF Less
<1>6. CASE Record \/ Wake \/ ScanEnd \/ StopEnd \/ ScanReplace \/ ScanInvalid \/ Detach
    <2>1. proc' = proc
        BY <1>6 DEF Record, Wake, ScanEnd, StopEnd, Move, ScanReplace, ScanInvalid, Detach
    <2> QED BY <1>1, <2>1
<1>7. CASE ScanLiving \/ StopWait
    <2>1. proc' = proc \/ Reap(child[slot])
        BY <1>7 DEF ScanLiving, StopWait
    <2> QED BY <1>1, <1>3, <2>1
<1>8. CASE SignalOld \/ StopKill
    <2>1. Kill(victim) \/ Kill(child[slot])
        BY <1>8 DEF SignalOld, StopKill
    <2> QED BY <1>2, <2>1
<1>9. CASE ReforkCall \/ Mark \/ ExitRequest \/ UNCHANGED vars
    <2>1. proc' = proc
        BY <1>9 DEF ReforkCall, Mark, ExitRequest, vars
    <2> QED BY <1>1, <2>1
<1> QED BY <1>4, <1>5, <1>6, <1>7, <1>8, <1>9 DEF Next, MainStep

LEMMA LostStep == TypeOK /\ Placed /\ LostInv /\ [Next]_vars => LostInv'
<1> SUFFICES ASSUME TypeOK, Placed, LostInv, [Next]_vars PROVE LostInv'
    OBVIOUS
<1> USE CountIsNat DEF Slots, LostInv
<1>a. NoLostWorker => \A p \in Pids : Untold(p) => Kept(p)
    BY DEF NoLostWorker, Untold, Kept
<1>b. (\A p \in Pids : Untold(p)' => Kept(p)') => NoLostWorker'
    BY DEF NoLostWorker, Untold, Kept
<1>1. CASE ForkOne
    <2>1. \A p \in Pids : p = forked' \/ proc'[p] = proc[p]
        BY <1>1 DEF ForkOne, TypeOK
    <2>2. mpc = "fork" /\ mpc' = "record" /\ UNCHANGED <<slot, why, victim, child, state>>
        BY <1>1 DEF ForkOne, slotVars
    <2>3. SlotInv'
        BY <2>2 DEF SlotInv
    <2>4. ForkInv'
        BY <2>1, <2>2 DEF ForkInv, Running
    <2>5. StopInv'
        BY <2>2 DEF StopInv
    <2>6. NoLostWorker'
        BY <1>a, <1>b, <2>1, <2>2 DEF Untold, Running, Kept, InSlot
    <2> QED BY <2>3, <2>4, <2>5, <2>6
<1>2. CASE Record
    <2> USE <1>2 DEF Record
    <2>1. slot \in Slots /\ mpc = "record" /\ proc' = proc
        BY DEF Placed
    <2>2. /\ child' = [child EXCEPT ![slot] = forked]
          /\ state' = [state EXCEPT ![slot] = IF forked = NoPid THEN "INVALID" ELSE "LIVING"]
        OBVIOUS
    <2>3. SlotInv'
        BY <2>1, <2>2 DEF SlotInv, TypeOK
    <2>4. ForkInv'
        BY <2>1, <2>2 DEF ForkInv, TypeOK, NextSlot
    <2>5. StopInv'
        BY DEF StopInv, NextSlot
    <2>6. ASSUME NEW p \in Pids, Untold(p)'
          PROVE  Kept(p)'
        <3>1. Untold(p)
            BY <2>1, <2>6 DEF Untold, Running
        <3>2. CASE p = forked
            BY <2>1, <2>2, <3>2 DEF Kept, InSlot, TypeOK
        <3>3. CASE p # forked
            <4>1. PICK s \in Slots : child[s] = p
                BY <1>a, <2>1, <3>1, <3>3 DEF Kept, InSlot
            <4>2. CASE s # slot
                BY <2>1, <2>2, <4>1, <4>2 DEF Kept, InSlot, TypeOK
            <4>3. CASE s = slot
                <5>1. why = "replace" /\ victim = p
                    BY <2>1, <3>1, <3>3, <4>1, <4>3 DEF ForkInv, Untold, TypeOK
                <5> QED BY <5>1 DEF Kept
            <4> QED BY <4>2, <4>3
        <3> QED BY <3>2, <3>3
    <2> QED BY <1>b, <2>3, <2>4, <2>5, <2>6
\* In the other steps no process runs anew, and no slot is rewritten.
<1>3. ASSUME ~ForkOne, UNCHANGED child, SlotInv', ForkInv', StopInv',
             \A p \in Pids : Untold(p)' => ~(mpc = "signal" /\ p = victim) \/ mpc' = "signal",
             mpc = "record" => mpc' = "record", UNCHANGED <<forked, victim>> \/ mpc \notin {"record", "signal"}
      PROVE  LostInv'
    BY <1>a, <1>b, <1>3, OnlyForkMakes DEF Kept, InSlot
<1>4. ASSUME ~ForkOne, UNCHANGED <<mainVars, slotVars>> PROVE LostInv'
    <2>1. \A p : Running(p)' => Running(p)
        BY <1>4, OnlyForkMakes DEF Running
    <2>2. \A p : Untold(p)' => Untold(p)
        BY <1>4, OnlyForkMakes DEF Untold, Running
    <2>3. SlotInv' /\ ForkInv' /\ StopInv'
        BY <1>4, <2>1, <2>2 DEF mainVars, slotVars, SlotInv, ForkInv, StopInv
    <2> QED BY <1>3, <1>4, <2>3 DEF mainVars, slotVars
<1>5. CASE Mark
    <2>1. UNCHANGED <<mainVars, child, proc>> /\ mark \in Slots
          /\ state' = [state EXCEPT ![mark] = "WAIT_FOR_RELOAD"]
        BY <1>5 DEF Mark, TypeOK
    <2>2. SlotInv' /\ ForkInv' /\ StopInv'
        BY <2>1 DEF mainVars, SlotInv, ForkInv, StopInv, TypeOK, Running, Untold
    <2> QED BY <1>3, <1>5, <2>1, <2>2 DEF mainVars, Mark, ForkOne
<1>6. CASE Wake \/ ScanEnd \/ Detach
    <2>1. /\ UNCHANGED <<child, state, proc>> /\ mpc \in {"idle", "scan", "detach"}
          /\ mpc' \in {"stopkill", "scan", "detach", "idle"}
          /\ mpc' = "stopkill" => slot' = 1
        BY <1>6 DEF Wake, ScanEnd, Detach, Move, slotVars, Placed
    <2>2. SlotInv' /\ ForkInv' /\ StopInv'
        BY <2>1 DEF SlotInv, ForkInv, StopInv
    <2>3. ~ForkOne
        BY <2>1 DEF ForkOne
    <2> QED BY <1>3, <2>1, <2>2, <2>3
<1>7. CASE ScanReplace \/ ScanInvalid
    <2>1. /\ UNCHANGED <<slot, child, state, proc>> /\ mpc = "scan" /\ mpc' = "fork"
          /\ slot \in Slots
        BY <1>7 DEF ScanReplace, ScanInvalid, slotVars, Scanning, TypeOK
    <2>2. \/ why' = "replace" /\ victim' = child[slot]
          \/ why' = "dead" /\ child[slot] = NoPid
        BY <1>7, <2>1 DEF ScanReplace, ScanInvalid, Scanning, SlotInv
    <2>3. SlotInv' /\ ForkInv' /\ StopInv'
        BY <2>1, <2>2 DEF SlotInv, ForkInv, StopInv, Running
    <2>4. ~ForkOne
        BY <2>1 DEF ForkOne
    <2> QED BY <1>3, <2>1, <2>3, <2>4
<1>8. CASE ScanLiving
    <2>1. UNCHANGED <<child, state>> /\ mpc = "scan" /\ slot \in Slots
        BY <1>8 DEF ScanLiving, slotVars, Scanning, TypeOK
    <2>2. \/ mpc' = "scan"
          \/ mpc' = "fork" /\ why' = "dead" /\ slot' = slot /\ Reap(child[slot])
        BY <1>8 DEF ScanLiving, NextSlot
    <2>3. mpc' = "fork" => ~Running(child[slot])'
        BY <2>1, <2>2 DEF Reap, Named, Running, TypeOK, Free, Zombie, Worker
    <2>4. SlotInv' /\ ForkInv' /\ StopInv'
        BY <2>1, <2>2, <2>3 DEF SlotInv, ForkInv, StopInv, Running
    <2>5. ~ForkOne
        BY <2>1 DEF ForkOne
    <2> QED BY <1>3, <2>1, <2>4, <2>5
<1>9. CASE SignalOld
    <2>1. UNCHANGED <<child, state>> /\ mpc = "signal" /\ mpc' = "scan" /\ Kill(victim)
        BY <1>9 DEF SignalOld, slotVars, NextSlot
    <2>2. SlotInv' /\ ForkInv' /\ StopInv'
        BY <2>1 DEF SlotInv, ForkInv, StopInv
    <2>4. ASSUME NEW p \in Pids, Untold(p)' PROVE Kept(p)'
        <3>1. Untold(p)
            BY <2>1, <2>4, OnlyForkMakes DEF ForkOne
        <3>2. p # victim
            BY <2>1, <2>4, ToldEffect DEF Kill, Untold, Running, TypeOK, Processes,
               Named
        <3> QED BY <1>a, <2>1, <3>1, <3>2 DEF Kept, InSlot
    <2> QED BY <1>b, <2>2, <2>4
<1>10. CASE StopKill
    <2>1. /\ UNCHANGED <<child, state, slot>> /\ mpc = "stopkill" /\ mpc' = "stopwait"
          /\ Kill(child[slot])
        BY <1>10 DEF StopKill, slotVars
    <2>2. ~ForkOne
        BY <2>1 DEF ForkOne
    <2>3. \A p : Untold(p)' => Untold(p)
        BY <2>2, OnlyForkMakes DEF Untold, Running
    <2>4. ASSUME NEW p \in Pids, p = child[slot] PROVE ~Untold(p)'
        BY <2>1, <2>4, ToldEffect DEF Kill, Untold, Running, TypeOK, Processes, Named
    <2>5. SlotInv' /\ ForkInv'
        BY <2>1 DEF SlotInv, ForkInv
    <2>6. StopInv'
        BY <2>1, <2>3, <2>4 DEF StopInv, TypeOK, Untold, Running
    <2> QED BY <1>3, <2>1, <2>2, <2>5, <2>6
<1>11. CASE StopWait
    <2>1. /\ UNCHANGED <<child, state>> /\ mpc = "stopwait" /\ mpc' = "stopkill"
          /\ slot' = slot + 1
        BY <1>11 DEF StopWait, slotVars
    <2>2. ~ForkOne
        BY <2>1 DEF ForkOne
    <2>3. \A p : Untold(p)' => Untold(p)
        BY <2>2, OnlyForkMakes DEF Untold, Running
    <2>4. SlotInv' /\ ForkInv' /\ StopInv'
        BY <2>1, <2>3 DEF SlotInv, ForkInv, StopInv, TypeOK
    <2> QED BY <1>3, <2>1, <2>2, <2>4
<1>12. CASE StopEnd
    <2>1. /\ UNCHANGED <<child, state, proc, slot>> /\ mpc = "stopkill" /\ mpc' = "done"
          /\ slot > WorkerCount
        BY <1>12 DEF StopEnd, Move, slotVars
    <2>2. SlotInv' /\ ForkInv' /\ StopInv'
        BY <2>1 DEF SlotInv, ForkInv, StopInv, Untold, Running
    <2>3. ~ForkOne
        BY <2>1 DEF ForkOne
    <2> QED BY <1>3, <2>1, <2>2, <2>3
<1>13. CASE \/ \E p \in Pids \cup {NoPid} : FinishOff(p)
            \/ \E p \in Pids : WorkerEnds(p) \/ WorkerCrashes(p)
            \/ ReforkCall \/ ExitRequest \/ UNCHANGED vars
    <2>1. UNCHANGED <<mainVars, slotVars>>
        BY <1>13 DEF FinishOff, WorkerEnds, WorkerCrashes, ReforkCall, ExitRequest, vars
    <2>2. ~ForkOne
        BY <2>1 DEF ForkOne, mainVars
    <2> QED BY <1>4, <2>1, <2>2
<1> QED
    BY <1>1, <1>2, <1>5, <1>6, <1>7, <1>8, <1>9, <1>10, <1>11, <1>12, <1>13
       DEF Next, MainStep

PoolInv == TypeOK /\ Placed /\ LostInv

LEMMA LostInit == Init => LostInv
    BY CountIsNat DEF Init, LostInv, SlotInv, ForkInv, StopInv, NoLostWorker, Running, Slots, Free

LEMMA PoolInvariant == Spec => []PoolInv
    BY TypeInit, TypeStep, LostInit, LostStep, PTL DEF Spec, PoolInv

\* A worker that runs and was not told to stop is known to the manager, whatever fails.
THEOREM NoWorkerIsLost == Spec => []NoLostWorker
<1>1. PoolInv => NoLostWorker
    BY DEF PoolInv, LostInv
<1> QED BY <1>1, PoolInvariant, PTL

\* When the manager is done it has told every worker.
THEOREM DoneHasTold == Spec => []DoneMeansTold
<1>1. PoolInv => DoneMeansTold
    BY CountIsNat DEF PoolInv, LostInv, StopInv, NoLostWorker, DoneMeansTold, InSlot, Untold,
       TypeOK, Slots
<1> QED BY <1>1, PoolInvariant, PTL

-----------------------------------------------------------------------------
(* The manager signals its own children only, as long as fork succeeds.    *)

Taken(p) == proc[p].st # "free"

\* The number in the slot is one whose process has been reaped.
Vacant(s) ==
    \/ mpc \in {"fork", "record"} /\ why = "dead" /\ s = slot
    \/ mpc \in {"stopkill", "stopwait", "done"} /\ s < slot

\* Slots that were filled hold different children, which are only reaped when the
\* slot is about to be filled anew, or was shut down.
SlotsInv ==
    /\ \A s \in Slots : child[s] = NoPid =>
          mpc \in {"fork", "record"} /\ why = "initial" /\ s >= slot
    /\ \A s \in Slots : child[s] \in Pids => Taken(child[s]) \/ Vacant(s)
    /\ \A s, t \in Slots : s # t /\ child[s] \in Pids => child[s] # child[t]

\* A worker that was replaced stays unreaped until its thread has finished it off,
\* so that no other process gets its number meanwhile.
Apart(p) == p \in Pids /\ Taken(p) /\ \A s \in Slots : child[s] # p
DoomedInv ==
    /\ \A p \in doomed \cup toKill : Apart(p)
    /\ doomed \cap toKill = {}
    /\ mpc = "signal" => Apart(victim) /\ victim \notin doomed \cup toKill

\* A worker that was just forked is in no slot but its own.
NewInv ==
    mpc = "record" =>
        /\ forked \in Pids /\ Taken(forked) /\ forked \notin doomed \cup toKill
        /\ \A s \in Slots : child[s] = forked => s = slot /\ why = "dead"

OwnInv == bad.forks = 0 => SlotsInv /\ DoomedInv /\ NewInv

LEMMA ReapOne ==
    ASSUME TypeOK, NEW p \in Pids, Reap(p)
    PROVE  \A q \in Pids : q # p => proc'[q] = proc[q]
BY CountIsNat DEF TypeOK, Reap, Named

LEMMA ForksGrow == TypeOK /\ [Next]_vars /\ bad'.forks = 0 => bad.forks = 0
<1> SUFFICES ASSUME TypeOK, [Next]_vars, bad'.forks = 0 PROVE bad.forks = 0
    OBVIOUS
<1>1. bad \in [ended : 0 .. MaxCrashes, forks : 0 .. MaxCrashes]
    BY DEF TypeOK
<1>2. \/ bad' = bad \/ bad' = [bad EXCEPT !.forks = @ + 1]
      \/ bad' = [bad EXCEPT !.ended = @ + 1]
    BY DEF Next, MainStep, ForkOne, Record, Wake, ScanEnd, ScanReplace, ScanLiving, ScanInvalid,
       SignalOld, Detach, StopKill, StopWait, StopEnd, Move, FinishOff, ReforkCall, Mark,
       ExitRequest, WorkerEnds, WorkerCrashes, vars
<1> QED BY <1>1, <1>2, CountIsNat

LEMMA OwnStep == PoolInv /\ OwnInv /\ [Next]_vars => OwnInv'
<1> SUFFICES ASSUME PoolInv, OwnInv, [Next]_vars, bad'.forks = 0
             PROVE  SlotsInv' /\ DoomedInv' /\ NewInv'
    BY DEF OwnInv
<1>0. TypeOK /\ Placed /\ SlotInv /\ ForkInv /\ SlotsInv /\ DoomedInv /\ NewInv
    BY ForksGrow DEF OwnInv, PoolInv, LostInv
<1> USE CountIsNat, <1>0 DEF Slots
<1>1. CASE ForkOne
    <2>1. PICK p \in Pids : /\ proc[p].st = "free" /\ forked' = p
                            /\ proc' = [proc EXCEPT ![p] =
                                  [st |-> "running", data |-> data, told |-> exit]]
        <3>1. bad' # [bad EXCEPT !.forks = @ + 1]
            BY DEF TypeOK
        <3> QED BY <1>1, <3>1 DEF ForkOne
    <2>2. /\ mpc = "fork" /\ mpc' = "record"
          /\ UNCHANGED <<slot, why, victim, toKill, child, state, doomed>>
        BY <1>1 DEF ForkOne, slotVars
    <2>3. /\ Taken(p)' /\ \A q \in Pids : q # p => proc'[q] = proc[q]
          /\ ~Taken(p)
        BY <2>1 DEF Taken, TypeOK
    <2>4. SlotsInv'
        BY <2>2, <2>3 DEF SlotsInv, Vacant, Taken
    <2>5. DoomedInv'
        BY <2>2, <2>3 DEF DoomedInv, Apart, Taken
    <2>6. NewInv'
        BY <2>1, <2>2, <2>3 DEF NewInv, SlotsInv, DoomedInv, Apart, Vacant
    <2> QED BY <2>4, <2>5, <2>6
<1>2. CASE Record
    <2>1. /\ slot \in Slots /\ mpc = "record" /\ UNCHANGED <<proc, toKill, doomed, why>>
          /\ child' = [child EXCEPT ![slot] = forked]
          /\ forked \in Pids
        BY <1>2 DEF Record, Placed, NewInv
    <2>2. mpc' = "signal" => why = "replace" /\ UNCHANGED victim
        BY <1>2 DEF Record, NextSlot
    <2>3. /\ mpc' \in {"signal", "scan", "idle", "fork"}
          /\ why = "initial" => \/ slot' = slot + 1 /\ mpc' = "fork"
                               \/ slot = WorkerCount
          /\ mpc' = "fork" => why = "initial"
        BY <1>2 DEF Record, NextSlot, TypeOK
    <2>4. \A s \in Slots : child'[s] = IF s = slot THEN forked ELSE child[s]
        BY <2>1 DEF TypeOK
    <2>5. SlotsInv'
        BY <2>1, <2>3, <2>4 DEF SlotsInv, NewInv, Vacant, Taken, TypeOK
    <2>6. \A p : Apart(p) /\ p # forked => Apart(p)'
        BY <2>1, <2>4 DEF Apart, Taken
    <2>7. mpc' = "signal" => Apart(victim)' /\ victim' = victim /\ victim \notin doomed \cup toKill
        BY <2>1, <2>2, <2>4 DEF ForkInv, SlotsInv, NewInv, DoomedInv, Apart, Taken, Vacant, TypeOK
    <2>8. DoomedInv'
        BY <2>1, <2>6, <2>7 DEF DoomedInv, NewInv
    <2>9. NewInv'
        BY <2>3 DEF NewInv
    <2> QED BY <2>5, <2>8, <2>9
\* Steps that reap nobody and rewrite no slot.
<1>3. ASSUME UNCHANGED child, \A q \in Pids : Taken(q) => Taken(q)',
             UNCHANGED <<mainVars, doomed>> PROVE SlotsInv' /\ DoomedInv' /\ NewInv'
    BY <1>3 DEF mainVars, SlotsInv, DoomedInv, NewInv, Apart, Vacant
<1>4. CASE \/ \E q \in Pids : WorkerEnds(q) \/ WorkerCrashes(q)
           \/ ReforkCall \/ Mark \/ ExitRequest \/ UNCHANGED vars
    <2>1. UNCHANGED <<child, mainVars, doomed>>
        BY <1>4 DEF WorkerEnds, WorkerCrashes, ReforkCall, Mark, ExitRequest, vars, slotVars
    <2>2. \/ proc' = proc \/ \E q \in Pids : proc' = [proc EXCEPT ![q] = Zombie]
        BY <1>4 DEF WorkerEnds, WorkerCrashes, ReforkCall, Mark, ExitRequest, vars
    <2>3. \A q \in Pids : Taken(q) => Taken(q)'
        BY <2>2 DEF Taken, Zombie, TypeOK
    <2> QED BY <1>3, <2>1, <2>3
<1>5. ASSUME NEW p \in Pids \cup {NoPid}, FinishOff(p)
      PROVE  SlotsInv' /\ DoomedInv' /\ NewInv'
    <2>1. p \in doomed /\ doomed' = doomed \ {p} /\ UNCHANGED <<mainVars, child>>
        BY <1>5 DEF FinishOff, slotVars
    <2>2. p \in Pids /\ Apart(p)
        BY <2>1 DEF DoomedInv, Apart
    <2>3. Named(p) \subseteq {p}
        BY <2>2 DEF Named
    <2>4. \A q \in Pids : q # p => proc'[q] = proc[q]
        BY <1>5, <2>2, <2>3, ReapOne DEF FinishOff
    <2>5. SlotsInv'
        BY <2>1, <2>2, <2>4 DEF SlotsInv, Apart, Vacant, Taken, mainVars
    <2>6. DoomedInv'
        BY <2>1, <2>2, <2>4 DEF DoomedInv, Apart, Taken, mainVars
    <2>7. NewInv'
        BY <2>1, <2>2, <2>4 DEF NewInv, Taken, mainVars
    <2> QED BY <2>5, <2>6, <2>7
<1>6. CASE Wake \/ ScanEnd \/ StopEnd
    <2>1. UNCHANGED <<child, proc, doomed, toKill, why, slot>>
        BY <1>6 DEF Wake, ScanEnd, StopEnd, Move, slotVars
    <2>2. \/ mpc = "idle" /\ mpc' \in {"stopkill", "scan"} /\ slot = 1
          \/ mpc = "scan" /\ mpc' = "detach"
          \/ mpc = "stopkill" /\ mpc' = "done"
        BY <1>6 DEF Wake, ScanEnd, StopEnd, Move, Placed
    <2>3. SlotsInv' /\ DoomedInv' /\ NewInv'
        BY <2>1, <2>2 DEF SlotsInv, DoomedInv, NewInv, Apart, Vacant, Taken
    <2> QED BY <2>3
<1>7. CASE Detach
    <2>1. UNCHANGED <<child, proc>> /\ mpc = "detach" /\ mpc' = "idle"
          /\ doomed' = doomed \cup toKill /\ toKill' = {}
        BY <1>7 DEF Detach, slotVars
    <2> QED BY <2>1 DEF SlotsInv, DoomedInv, NewInv, Apart, Vacant, Taken
<1>8. CASE ScanReplace \/ ScanInvalid
    <2>1. UNCHANGED <<child, proc, doomed, toKill, slot>> /\ mpc = "scan" /\ mpc' = "fork"
        BY <1>8 DEF ScanReplace, ScanInvalid, slotVars, Scanning
    <2> QED BY <2>1 DEF SlotsInv, DoomedInv, NewInv, Apart, Vacant, Taken
<1>9. CASE ScanLiving
    <2>1. UNCHANGED <<child, doomed, toKill>> /\ mpc = "scan" /\ slot \in Slots
        BY <1>9 DEF ScanLiving, slotVars, Scanning, TypeOK
    <2>2. CASE proc' = proc /\ mpc' = "scan"
        BY <2>1, <2>2 DEF SlotsInv, DoomedInv, NewInv, Apart, Vacant, Taken
    <2>3. CASE Reap(child[slot]) /\ mpc' = "fork" /\ why' = "dead" /\ slot' = slot
        <3>1. child[slot] \in Pids
            BY <2>1 DEF SlotsInv, TypeOK
        <3>2. \A q \in Pids : q # child[slot] => proc'[q] = proc[q]
            BY <2>3, <3>1, ReapOne
        <3>3. SlotsInv'
            BY <2>1, <2>3, <3>1, <3>2 DEF SlotsInv, Vacant, Taken
        <3>4. DoomedInv' /\ NewInv'
            BY <2>1, <2>3, <3>1, <3>2 DEF DoomedInv, NewInv, Apart, Taken
        <3> QED BY <3>3, <3>4
    <2> QED BY <1>9, <2>2, <2>3 DEF ScanLiving, NextSlot
<1>10. CASE SignalOld
    <2>1. UNCHANGED <<child, doomed>> /\ mpc = "signal" /\ mpc' = "scan"
          /\ toKill' = toKill \cup {victim} /\ Kill(victim)
        BY <1>10 DEF SignalOld, slotVars, NextSlot
    <2>2. \A q \in Pids : Taken(q)' = Taken(q)
        BY <2>1, ToldEffect DEF Kill, Taken, TypeOK, Processes
    <2> QED BY <2>1, <2>2 DEF SlotsInv, DoomedInv, NewInv, Apart, Vacant
<1>11. CASE StopKill
    <2>1. UNCHANGED <<child, doomed, toKill, slot>> /\ mpc = "stopkill" /\ mpc' = "stopwait"
          /\ Kill(child[slot])
        BY <1>11 DEF StopKill, slotVars
    <2>2. \A q \in Pids : Taken(q)' = Taken(q)
        BY <2>1, ToldEffect DEF Kill, Taken, TypeOK, Processes
    <2> QED BY <2>1, <2>2 DEF SlotsInv, DoomedInv, NewInv, Apart, Vacant
<1>12. CASE StopWait
    <2>1. UNCHANGED <<child, doomed, toKill>> /\ mpc = "stopwait" /\ mpc' = "stopkill"
          /\ slot' = slot + 1 /\ slot \in Slots /\ (Reap(child[slot]) \/ proc' = proc)
        BY <1>12 DEF StopWait, slotVars, Placed
    <2>2. child[slot] \in Pids
        BY <2>1 DEF SlotsInv, TypeOK
    <2>3. \A q \in Pids : q # child[slot] => proc'[q] = proc[q]
        BY <2>1, <2>2, ReapOne
    <2>4. SlotsInv'
        BY <2>1, <2>2, <2>3 DEF SlotsInv, Vacant, Taken
    <2>5. DoomedInv' /\ NewInv'
        BY <2>1, <2>2, <2>3 DEF DoomedInv, NewInv, Apart, Taken
    <2> QED BY <2>4, <2>5
<1> QED
    BY <1>1, <1>2, <1>4, <1>5, <1>6, <1>7, <1>8, <1>9, <1>10, <1>11, <1>12 DEF Next, MainStep

LEMMA OwnInit == Init => OwnInv
    BY CountIsNat DEF Init, OwnInv, SlotsInv, DoomedInv, NewInv, Slots

LEMMA OwnInvariant == Spec => []OwnInv
    BY PoolInvariant, OwnInit, OwnStep, PTL DEF Spec

\* As long as fork has not failed, kill is called with children that were not reaped.
THEOREM KillsItsOwn == Spec => []OwnChildrenOnly
<1>1. PoolInv /\ OwnInv => OwnChildrenOnly
    BY CountIsNat DEF PoolInv, TypeOK, OwnInv, SlotsInv, DoomedInv, Apart, Vacant, Taken,
       OwnChildrenOnly, OwnChild, Slots
<1> QED BY <1>1, PoolInvariant, OwnInvariant, PTL

\* And no two slots share a worker.
THEOREM SlotsAreDistinct == Spec => []OneSlotEach
<1>1. OwnInv => OneSlotEach
    BY DEF OwnInv, SlotsInv, OneSlotEach, Running
<1> QED BY <1>1, OwnInvariant, PTL
===========================================================================

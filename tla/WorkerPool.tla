----------------------------- MODULE WorkerPool -----------------------------
(***************************************************************************)
(* One manager process of ncserver and its workers: forkChildren, the       *)
(* monitoring loop with checkChildrenStateAndRefork and forkOne,            *)
(* reforkAllChildren called from another thread of the manager, the thread  *)
(* that finishes off replaced workers, and the shutdown of the pool         *)
(* (src/ncserver.cpp).                                                      *)
(*                                                                         *)
(* forkOne is two steps: fork, and the update of m_children and             *)
(* m_childrenStates under m_mutex; the thread in reforkAllChildren takes    *)
(* the mutex once per slot, and may do so between the two, where its mark   *)
(* is overwritten.  A reaped process number may be used again.              *)
(***************************************************************************)
EXTENDS Integers

CONSTANTS
    WorkerCount,   \* m_config->server.workerCount
    Pids,          \* process numbers for workers
    NoPid,         \* -1: no process for fork, every process for kill and waitpid
    MaxCrashes,    \* bound on the workers that end on their own, and on the
                   \* forks that fail
    MaxReforks,    \* bound on the calls of reforkAllChildren
    Faults         \* what may happen in this instance

(***************************************************************************)
(*   crash        a worker ends on its own: a crash, or serve() returns     *)
(*   forkFail     fork fails                                                *)
(*   stuck        a worker does not end when it gets SIGTERM                *)
(*   signalAgain  SIGTERM reaches a manager that is already shutting down   *)
(***************************************************************************)
ASSUME PoolAssumption ==
    /\ WorkerCount \in Nat /\ NoPid \notin Pids
    /\ MaxCrashes \in Nat /\ MaxReforks \in Nat
    /\ Faults \subseteq {"crash", "forkFail", "stuck", "signalAgain"}

Slots == 1 .. WorkerCount

VARIABLES
    mpc,      \* where the manager's main thread is
    slot,     \* the loop variable i
    child,    \* m_children
    state,    \* m_childrenStates
    why,      \* which call of forkOne is under way
    forked,   \* what its fork returned
    victim,   \* pidToKill
    toKill,   \* childrenToKill
    doomed,   \* the lists of the detached threads started so far
    exit,     \* g_ncServerExit of the manager
    mark,     \* the slot a thread in reforkAllChildren marks next, 0 outside
    proc,     \* the worker processes
    data,     \* the version of the data a fork would share with the worker
    bad       \* how many workers have ended on their own, and how many forks failed

mainVars == <<mpc, slot, why, forked, victim, toKill>>
slotVars == <<child, state>>
vars     == <<mainVars, slotVars, proc, doomed, exit, mark, data, bad>>

\* A process number is free, or a worker: it has the data it was forked with,
\* and may have been told to stop; a zombie is a worker that was not reaped.
Free      == [st |-> "free"]
Zombie    == [st |-> "zombie"]
Worker    == [st : {"running"}, data : 0 .. MaxReforks, told : BOOLEAN]

TypeOK ==
    /\ mpc \in {"fork", "record", "idle", "scan", "signal", "detach",
                "stopkill", "stopwait", "done"}
    /\ slot \in 1 .. (WorkerCount + 1)
    /\ child \in [Slots -> Pids \cup {NoPid}]
    /\ state \in [Slots -> {"INVALID", "LIVING", "WAIT_FOR_RELOAD"}]
    /\ why \in {"initial", "dead", "replace"}
    /\ forked \in Pids \cup {NoPid} /\ victim \in Pids \cup {NoPid}
    /\ toKill \subseteq Pids \cup {NoPid} /\ doomed \subseteq Pids \cup {NoPid}
    /\ exit \in BOOLEAN /\ mark \in 0 .. WorkerCount
    /\ proc \in [Pids -> Worker \cup {Free, Zombie}]
    /\ data \in 0 .. MaxReforks
    /\ bad \in [ended : 0 .. MaxCrashes, forks : 0 .. MaxCrashes]

\* After loadConfigFile, reset and the two hooks, at the call of forkChildren.
Init ==
    /\ mpc = IF WorkerCount = 0 THEN "idle" ELSE "fork"
    /\ slot = 1 /\ why = "initial"
    /\ child = [s \in Slots |-> NoPid] /\ state = [s \in Slots |-> "INVALID"]
    /\ forked = NoPid /\ victim = NoPid /\ toKill = {} /\ doomed = {}
    /\ exit = FALSE /\ mark = 0 /\ data = 0 /\ bad = [ended |-> 0, forks |-> 0]
    /\ proc = [p \in Pids |-> Free]

-----------------------------------------------------------------------------
(* System calls of the manager.                                            *)

Running(p)  == p \in Pids /\ proc[p].st = "running"
ToldSet(ps) == [p \in Pids |-> IF p \in ps /\ Running(p)
                               THEN [proc[p] EXCEPT !.told = TRUE] ELSE proc[p]]

\* What kill(pid, ...) and waitpid(pid, ...) are about: -1 is every worker.  (kill
\* then reaches the boss and its other manager as well.)
Named(pid) == {p \in Pids : proc[p].st # "free" /\ pid \in {p, NoPid}}
Kill(pid)  == proc' = ToldSet(Named(pid))
Reap(pid)  ==
    \/ \E z \in Named(pid) : /\ proc[z].st = "zombie"
                             /\ proc' = [proc EXCEPT ![z] = Free]
    \/ Named(pid) = {} /\ UNCHANGED proc

MoreBad == bad.ended + bad.forks < MaxCrashes

\* The loop over the slots goes on.
NextSlot == slot' = slot + 1 /\ mpc' = "scan" /\ victim' = NoPid

\* A step of the main thread that changes nothing but its place.
Move(from, to) ==
    /\ mpc = from /\ mpc' = to
    /\ UNCHANGED <<slot, why, forked, victim, toKill, slotVars, proc, doomed, exit,
                   mark, data, bad>>

-----------------------------------------------------------------------------
(* forkOne(slot).                                                          *)

ForkOne ==
    /\ mpc = "fork" /\ mpc' = "record"
    /\ \/ \E p \in Pids :
            /\ proc[p].st = "free" /\ forked' = p
            /\ proc' = [proc EXCEPT ![p] =
                           [st |-> "running", data |-> data, told |-> exit]]
            /\ UNCHANGED bad
       \/ /\ "forkFail" \in Faults /\ MoreBad /\ bad' = [bad EXCEPT !.forks = @ + 1]
          /\ forked' = NoPid /\ UNCHANGED proc
    /\ UNCHANGED <<slot, why, victim, toKill, slotVars, doomed, exit, mark, data>>

\* The loop of forkChildren goes one slot too far.
RecordOneMore ==
    /\ mpc = "record" /\ forked' = NoPid
    /\ child' = [child EXCEPT ![slot] = forked] /\ UNCHANGED state
    /\ mpc' = (IF slot > WorkerCount THEN "idle" ELSE "fork") /\ slot' = slot + 1
    /\ UNCHANGED <<why, victim, toKill, proc, doomed, exit, mark, data, bad>>

\* The worker that was replaced is not told to stop.
RecordNoKill ==
    /\ mpc = "record" /\ forked' = NoPid
    /\ child' = [child EXCEPT ![slot] = forked]
    /\ state' = [state EXCEPT ![slot] = IF forked = NoPid THEN "INVALID" ELSE "LIVING"]
    /\ IF why # "initial" THEN NextSlot ELSE
       /\ mpc' = (IF slot = WorkerCount THEN "idle" ELSE "fork")
       /\ slot' = (IF slot = WorkerCount THEN 1 ELSE slot + 1) /\ UNCHANGED victim
    /\ UNCHANGED <<why, toKill, proc, doomed, exit, mark, data, bad>>

Record ==
    /\ mpc = "record" /\ forked' = NoPid
    /\ child' = [child EXCEPT ![slot] = forked]
    /\ state' = [state EXCEPT ![slot] = IF forked = NoPid THEN "INVALID" ELSE "LIVING"]
    /\ \/ why = "replace" /\ mpc' = "signal" /\ UNCHANGED <<slot, victim>>
       \/ why = "dead" /\ NextSlot
       \/ /\ why = "initial" /\ UNCHANGED victim
          /\ IF slot = WorkerCount THEN mpc' = "idle" /\ slot' = 1
                                   ELSE mpc' = "fork" /\ slot' = slot + 1
    /\ UNCHANGED <<why, toKill, proc, doomed, exit, mark, data, bad>>

-----------------------------------------------------------------------------
(* The monitoring loop and checkChildrenStateAndRefork.                    *)

Wake == Move("idle", IF exit THEN "stopkill" ELSE "scan")

ScanEnd == (slot > WorkerCount \/ exit) /\ Move("scan", "detach")

Scanning(s) == mpc = "scan" /\ slot <= WorkerCount /\ ~exit /\ state[slot] = s

\* The worker to replace is polled first, like one that lives.
ScanReplaceReaped ==
    /\ Scanning("WAIT_FOR_RELOAD")
    /\ Reap(child[slot]) \/ (Running(child[slot]) /\ UNCHANGED proc)
    /\ victim' = child[slot] /\ why' = "replace" /\ mpc' = "fork"
    /\ UNCHANGED <<slot, forked, toKill, slotVars, doomed, exit, mark, data, bad>>

ScanReplace ==
    /\ Scanning("WAIT_FOR_RELOAD")
    /\ victim' = child[slot] /\ why' = "replace" /\ mpc' = "fork"
    /\ UNCHANGED <<slot, forked, toKill, slotVars, proc, doomed, exit, mark,
                   data, bad>>

\* A dead worker is not noticed.
ScanLivingBlind ==
    /\ Scanning("LIVING") /\ NextSlot
    /\ UNCHANGED <<why, forked, toKill, slotVars, proc, doomed, exit, mark, data,
                   bad>>

ScanLiving ==
    /\ Scanning("LIVING")
    /\ \/ Running(child[slot]) /\ NextSlot /\ UNCHANGED <<why, proc>>
       \/ /\ Reap(child[slot])
          /\ why' = "dead" /\ mpc' = "fork" /\ UNCHANGED <<slot, victim>>
    /\ UNCHANGED <<forked, toKill, slotVars, doomed, exit,
                   mark, data, bad>>

ScanInvalid ==
    /\ Scanning("INVALID")
    /\ why' = "dead" /\ mpc' = "fork"
    /\ UNCHANGED <<slot, forked, victim, toKill, slotVars, proc, doomed, exit,
                   mark, data, bad>>

\* kill(pidToKill, SIGTERM), and the old worker goes on the list.
SignalOld ==
    /\ mpc = "signal" /\ NextSlot
    /\ Kill(victim)
    /\ toKill' = toKill \cup {victim}
    /\ UNCHANGED <<why, forked, slotVars, doomed, exit, mark,
                   data, bad>>

\* The list is handed to a detached thread.
Detach ==
    /\ mpc = "detach" /\ mpc' = "idle" /\ slot' = 1
    /\ doomed' = doomed \cup toKill /\ toKill' = {}
    /\ UNCHANGED <<why, forked, victim, slotVars, proc, exit, mark, data, bad>>

-----------------------------------------------------------------------------
(* The shutdown at the end of runAndFork.                                  *)

\* The shutdown waits for the workers without telling them.
StopKillNot == slot <= WorkerCount /\ Move("stopkill", "stopwait")

StopKill ==
    /\ mpc = "stopkill" /\ slot <= WorkerCount
    /\ mpc' = "stopwait" /\ Kill(child[slot])
    /\ UNCHANGED <<slot, why, forked, victim, toKill, slotVars, doomed, exit, mark,
                   data, bad>>

\* A second SIGTERM interrupts waitpid, and the worker is left unreaped.
StopWait ==
    /\ mpc = "stopwait" /\ mpc' = "stopkill" /\ slot' = slot + 1
    /\ Reap(child[slot]) \/ ("signalAgain" \in Faults /\ UNCHANGED proc)
    /\ UNCHANGED <<why, forked, victim, toKill, slotVars, doomed, exit,
                   mark, data, bad>>

\* The shutdown leaves out the last slot.
StopEndEarly == slot >= WorkerCount /\ Move("stopkill", "done")

StopEnd == slot > WorkerCount /\ Move("stopkill", "done")

MainStep ==
    \/ ForkOne \/ Record \/ Wake \/ ScanEnd \/ ScanReplace \/ ScanLiving
    \/ ScanInvalid \/ SignalOld \/ Detach \/ StopKill \/ StopWait \/ StopEnd

-----------------------------------------------------------------------------
(* The other threads of the manager: they end with it.                     *)

\* The thread waits for any child, not for the ones on its list.
FinishOffAny(p) ==
    /\ mpc # "done" /\ p \in doomed /\ doomed' = doomed \ {p}
    /\ Reap(NoPid) \/ UNCHANGED proc
    /\ UNCHANGED <<mainVars, slotVars, exit, mark, data, bad>>

\* The thread only reaps: SIGKILL is not sent.
FinishOffPolite(p) ==
    /\ mpc # "done" /\ p \in doomed /\ doomed' = doomed \ {p}
    /\ Reap(p) \/ (Running(p) /\ UNCHANGED proc)
    /\ UNCHANGED <<mainVars, slotVars, exit, mark, data, bad>>

\* Fifteen seconds later: a worker that has not ended is killed with SIGKILL,
\* and reaped.  For -1 that is any zombie, or else every worker at once.
FinishOff(p) ==
    /\ mpc # "done" /\ p \in doomed /\ doomed' = doomed \ {p}
    /\ \/ Reap(p)
       \/ /\ \A q \in Named(p) : Running(q)
          /\ \E k \in Named(p) :
               proc' = [q \in Pids |-> IF q = k THEN Free ELSE
                                       IF q \in Named(p) THEN Zombie ELSE proc[q]]
    /\ UNCHANGED <<mainVars, slotVars, exit, mark, data, bad>>

\* The application has changed its data and calls reforkAllChildren.
ReforkCall ==
    /\ mpc # "done" /\ mark = 0 /\ data < MaxReforks /\ WorkerCount > 0
    /\ mark' = 1 /\ data' = data + 1
    /\ UNCHANGED <<mainVars, slotVars, proc, doomed, exit, bad>>

\* The loop of reforkAllChildren leaves out the last slot.
MarkAllButLast ==
    /\ mpc # "done" /\ mark > 0
    /\ state' = [state EXCEPT ![mark] = "WAIT_FOR_RELOAD"]
    /\ mark' = IF mark >= WorkerCount - 1 THEN 0 ELSE mark + 1
    /\ UNCHANGED <<mainVars, child, proc, doomed, exit, data, bad>>

Mark ==
    /\ mpc # "done" /\ mark > 0
    /\ state' = [state EXCEPT ![mark] = "WAIT_FOR_RELOAD"]
    /\ mark' = IF mark = WorkerCount THEN 0 ELSE mark + 1
    /\ UNCHANGED <<mainVars, child, proc, doomed, exit, data, bad>>

-----------------------------------------------------------------------------
(* The workers, and SIGTERM for the manager.                               *)

WorkerEnds(p) ==
    /\ Running(p) /\ proc[p].told
    /\ proc' = [proc EXCEPT ![p] = Zombie]
    /\ UNCHANGED <<mainVars, slotVars, doomed, exit, mark, data, bad>>

WorkerCrashes(p) ==
    /\ "crash" \in Faults /\ MoreBad /\ bad' = [bad EXCEPT !.ended = @ + 1]
    /\ Running(p)
    /\ proc' = [proc EXCEPT ![p] = Zombie]
    /\ UNCHANGED <<mainVars, slotVars, doomed, exit, mark, data>>

ExitRequest ==
    /\ ~exit /\ exit' = TRUE
    /\ UNCHANGED <<mainVars, slotVars, proc, doomed, mark, data, bad>>

Next ==
    \/ MainStep
    \/ \E p \in Pids \cup {NoPid} : FinishOff(p)
    \/ ReforkCall \/ Mark \/ ExitRequest
    \/ \E p \in Pids : WorkerEnds(p) \/ WorkerCrashes(p)

\* The threads are scheduled, the 15 seconds pass, and a worker ends on SIGTERM
\* unless this instance lets it be stuck.
Fairness ==
    /\ WF_vars(MainStep) /\ WF_vars(Mark)
    /\ \A p \in Pids \cup {NoPid} : WF_vars(FinishOff(p))
    /\ \A p \in Pids : WF_vars("stuck" \notin Faults /\ WorkerEnds(p))

Spec == Init /\ [][Next]_vars /\ Fairness

-----------------------------------------------------------------------------
(* Properties.                                                             *)

\* kill is only ever called with the number of a child that has not been
\* reaped: never with -1, never with a number that may belong to another
\* process by now (pidToKill in the refork, m_children in the shutdown, and the list
\* of the thread that sends SIGKILL).  A fork that failed leaves its -1 in the slot,
\* and then it does not hold.
OwnChild(pid) == pid \in Pids /\ proc[pid].st # "free"
OwnChildrenOnly ==
    bad.forks = 0 =>
        /\ mpc = "signal" => OwnChild(victim)
        /\ mpc = "stopkill" /\ slot <= WorkerCount => OwnChild(child[slot])
        /\ mpc # "done" => \A p \in doomed : OwnChild(p)

\* No worker is lost: one that runs and was not told to stop is in a slot, or
\* was just forked, or is the one about to be replaced.
InSlot(p) == \E s \in Slots : child[s] = p
NoLostWorker ==
    \A p \in Pids : Running(p) /\ ~proc[p].told =>
        \/ InSlot(p)
        \/ mpc = "record" /\ p = forked
        \/ mpc = "signal" /\ p = victim

\* When the manager is done, every worker has been told to stop.
DoneMeansTold == mpc = "done" => \A p \in Pids : Running(p) => proc[p].told

\* Two slots never share a worker, as long as no fork has failed: numbers of reaped
\* workers are used again, and no slot keeps one that another slot has by now.
OneSlotEach ==
    bad.forks = 0 => \A s, t \in Slots : s # t /\ Running(child[s]) => child[s] # child[t]

\* A dead worker, and a slot whose fork failed, is replaced until the manager
\* shuts down (README.rst: "a new worker process will be spawned").
Respawn ==
    \A s \in Slots : ~Running(child[s]) ~> Running(child[s]) \/ exit

\* After reforkAllChildren every slot gets a worker that shares the new data, whatever
\* the main thread does while the slots are marked.  The one slot it may miss is that
\* of a worker which is forked, with the old data, but not recorded when it is called:
\* the record can overwrite the mark.
ReforkReplaces ==
    \A d \in 1 .. MaxReforks, s \in Slots :
        data = d /\ mark = 1 /\ ~(mpc = "record" /\ slot = s) ~>
            (Running(child[s]) /\ proc[child[s]].data >= d) \/ exit

\* A worker that was replaced goes away, even if it is stuck in a request.
OldWorkersGo ==
    \A p \in Pids : p \in doomed ~> ~Running(p) \/ mpc = "done"

\* A manager that gets SIGTERM shuts its pool down: it is only kept by a worker that
\* was told to end and does not (runAndFork waits for it without a limit).
ShutdownEnds ==
    exit ~> \/ mpc = "done"
            \/ mpc = "stopwait" /\ \E p \in Named(child[slot]) : Running(p) /\ proc[p].told
=============================================================================

---------------------------- MODULE Worker_proof ----------------------------
(***************************************************************************)
(* What holds of the workers of a manager for every set of workers and      *)
(* clients, and of everything the environment may do to them.               *)
(***************************************************************************)
EXTENDS Worker, SequenceTheorems, TLAPS

-----------------------------------------------------------------------------
(* Type correctness.                                                       *)

\* A worker that ends or gives up on its request leaves types as they are.
LEMMA OutcomeType ==
    ASSUME TypeOK, NEW w \in Workers, NEW o \in {"answered", "dropped", "lost"},
           Outcome(w, o)
    PROVE  /\ conn' \in [Clients -> {"idle", "queued", "held", "answered",
                                     "dropped", "lost"}]
           /\ cur' \in [Workers -> Clients \cup {None}]
BY DEF TypeOK, Outcome

LEMMA InterruptedType ==
    ASSUME TypeOK, NEW w \in Workers, Interrupted(w)
    PROVE  pc' \in [Workers -> PCs]
BY DEF Interrupted, Goto, TypeOK, PCs

LEMMA TypeStep == TypeOK /\ [Next]_vars => TypeOK'
<1> SUFFICES ASSUME TypeOK, [Next]_vars PROVE TypeOK'
    OBVIOUS
<1>1. ASSUME NEW w \in Workers, WorkerStep(w) PROVE TypeOK'
    <2>1. CASE InstallHandlers(w)
        BY <2>1 DEF InstallHandlers, Move, Goto, TypeOK, PCs, clientVars
    <2>2. CASE StartService(w)
        BY <2>2 DEF StartService, Move, Goto, TypeOK, PCs, clientVars
    <2>3. CASE Test(w)
        <3>1. CASE exit[w]
            BY <2>3, <3>1 DEF Test, Goto, TypeOK, PCs
        <3>2. CASE ~exit[w]
            <4>1. Outcome(w, "answered")
                BY <2>3, <3>2 DEF Test
            <4> QED BY <2>3, <3>2, <4>1, OutcomeType DEF Test, Goto, TypeOK, PCs
        <3> QED BY <3>1, <3>2
    <2>4. CASE Check(w)
        BY <2>4 DEF Check, Move, Goto, TypeOK, PCs, clientVars
    <2>5. CASE Block(w)
        BY <2>5 DEF Block, Move, Goto, TypeOK, PCs, clientVars
    <2>6. CASE Accept(w)
        <3>1. Head(backlog) \in Clients /\ Tail(backlog) \in Seq(Clients)
            BY <2>6 DEF Accept, TypeOK
        <3> QED BY <2>6, <3>1 DEF Accept, Goto, TypeOK, PCs
    <2>7. CASE AcceptFails(w)
        BY <2>7 DEF AcceptFails, Move, Goto, TypeOK, PCs, clientVars
    <2>8. CASE Keeper(w)
        BY <2>8 DEF Keeper, Goto, TypeOK, PCs, clientVars
    <2>9. CASE Read(w)
        BY <2>9 DEF Read, Move, Goto, TypeOK, PCs, clientVars
    <2>10. CASE Wait(w)
        BY <2>10 DEF Wait, Move, Goto, TypeOK, PCs, clientVars
    <2>11. CASE Close(w)
        BY <2>11, OutcomeType DEF Close, Goto, TypeOK, PCs
    <2>12. CASE Query(w)
        BY <2>12 DEF Query, Move, Goto, TypeOK, PCs, clientVars
    <2>13. CASE Finish(w)
        BY <2>13, OutcomeType DEF Finish, Goto, TypeOK, PCs
    <2>14. CASE Stop(w)
        BY <2>14, OutcomeType DEF Stop, Goto, TypeOK, PCs
    <2> QED
        BY <1>1, <2>1, <2>2, <2>3, <2>4, <2>5, <2>6, <2>7, <2>8, <2>9, <2>10, <2>11,
           <2>12, <2>13, <2>14 DEF WorkerStep
<1>2. ASSUME NEW w \in Workers, Crash(w) PROVE TypeOK'
    BY <1>2, OutcomeType DEF Crash, TypeOK, PCs
<1>3. ASSUME NEW w \in Workers, ExitCall(w) PROVE TypeOK'
    BY <1>3 DEF ExitCall, TypeOK, clientVars
<1>4. ASSUME NEW w \in Workers, Term(w) PROVE TypeOK'
    <2>1. Interrupted(w) \/ UNCHANGED pc
        BY <1>4, Zenon DEF Term
    <2>2. pc' \in [Workers -> PCs]
        BY <2>1, InterruptedType DEF TypeOK
    <2> QED BY <1>4, <2>2 DEF Term, TypeOK, clientVars
<1>5. ASSUME NEW w \in Workers, UpdateLogLevel(w) PROVE TypeOK'
    BY <1>5, InterruptedType DEF UpdateLogLevel, TypeOK, clientVars
<1>6. ASSUME NEW c \in Clients, Connect(c) PROVE TypeOK'
    <2>1. sent' \in [Clients -> {"nothing", "part", "all"}]
        BY <1>6 DEF Connect, TypeOK
    <2>2. long' \in [Clients -> BOOLEAN]
        BY <1>6, Zenon DEF Connect, TypeOK
    <2> QED BY <1>6, <2>1, <2>2 DEF Connect, TypeOK, workerVars
<1>7. ASSUME NEW c \in Clients, SendMore(c) PROVE TypeOK'
    BY <1>7 DEF SendMore, TypeOK, workerVars
<1>8. ASSUME NEW c \in Clients, Leave(c) PROVE TypeOK'
    BY <1>8 DEF Leave, TypeOK, workerVars
<1>9. CASE UNCHANGED vars
    BY <1>9 DEF vars, workerVars, clientVars, TypeOK
<1> QED
    BY <1>1, <1>2, <1>3, <1>4, <1>5, <1>6, <1>7, <1>8, <1>9 DEF Next

LEMMA TypeInit == Init => TypeOK
BY DEF Init, TypeOK, PCs

\* Every variable keeps its type.
THEOREM WorkerTypeCorrect == Spec => []TypeOK
BY TypeInit, TypeStep, PTL DEF Spec

-----------------------------------------------------------------------------
(* SIGTERM and the window in OS_Accept.                                     *)

\* A worker that has not begun, or goes to accept again, has taken nothing since
\* the signal.
Idle    == {"start", "enter", "accept"}
LateInv == \A w \in Workers : /\ ~shutdown[w] \/ pc[w] \in Idle => late[w] = 0
                              /\ late[w] <= 1

\* An interrupted call does not lead there.
LEMMA InterruptedLeaves ==
    ASSUME TypeOK, NEW w \in Workers, Interrupted(w)
    PROVE  /\ \A v \in Workers \ {w} : pc'[v] = pc[v]
           /\ pc'[w] \notin Idle
BY DEF Interrupted, Goto, TypeOK, Idle

LEMMA LateStep == TypeOK /\ LateInv /\ [Next]_vars => LateInv'
<1> SUFFICES ASSUME TypeOK, LateInv, [Next]_vars, NEW v \in Workers
             PROVE  /\ (~shutdown[v] \/ pc[v] \in Idle => late[v] = 0)'
                    /\ (late[v] <= 1)'
    BY DEF LateInv
<1>0. /\ ~shutdown[v] \/ pc[v] \in Idle => late[v] = 0
      /\ late[v] \in 0 .. 1
    BY DEF LateInv, TypeOK
<1>1. ASSUME NEW w \in Workers, WorkerStep(w)
      PROVE  /\ (~shutdown[v] \/ pc[v] \in Idle => late[v] = 0)'
             /\ (late[v] <= 1)'
    <2>1. CASE InstallHandlers(w)
        BY <2>1, <1>0 DEF InstallHandlers, Move, Goto, TypeOK, Idle
    <2>2. CASE StartService(w)
        BY <2>2, <1>0 DEF StartService, Move, Goto, TypeOK, Idle
    <2>3. CASE Test(w)
        BY <2>3, <1>0 DEF Test, Goto, TypeOK, Idle
    <2>4. CASE Check(w)
        BY <2>4, <1>0 DEF Check, Move, Goto, TypeOK, Idle
    <2>5. CASE Block(w)
        BY <2>5, <1>0 DEF Block, Move, Goto, TypeOK, Idle
    <2>6. CASE Accept(w)
        <3>1. pc[w] \in Idle /\ pc' = [pc EXCEPT ![w] = "keeper"]
            BY <2>6 DEF Accept, Goto, Idle
        <3>2. /\ shutdown' = shutdown
              /\ late' = [late EXCEPT ![w] = IF shutdown[w] /\ @ < 2 THEN @ + 1 ELSE @]
            BY <2>6 DEF Accept
        <3> QED BY <3>1, <3>2, <1>0 DEF TypeOK, Idle
    <2>7. CASE AcceptFails(w)
        BY <2>7, <1>0 DEF AcceptFails, Move, Goto, TypeOK, Idle
    <2>8. CASE Keeper(w)
        BY <2>8, <1>0 DEF Keeper, Goto, TypeOK, Idle
    <2>9. CASE Read(w)
        BY <2>9, <1>0 DEF Read, Move, Goto, TypeOK, Idle
    <2>10. CASE Wait(w)
        BY <2>10, <1>0 DEF Wait, Move, Goto, TypeOK, Idle
    <2>11. CASE Close(w)
        BY <2>11, <1>0 DEF Close, Goto, TypeOK, Idle
    <2>12. CASE Query(w)
        BY <2>12, <1>0 DEF Query, Move, Goto, TypeOK, Idle
    <2>13. CASE Finish(w)
        BY <2>13, <1>0 DEF Finish, Goto, TypeOK, Idle
    <2>14. CASE Stop(w)
        BY <2>14, <1>0 DEF Stop, Goto, TypeOK, Idle
    <2> QED
        BY <1>1, <2>1, <2>2, <2>3, <2>4, <2>5, <2>6, <2>7, <2>8, <2>9, <2>10, <2>11,
           <2>12, <2>13, <2>14 DEF WorkerStep
<1>2. ASSUME NEW w \in Workers, Crash(w)
      PROVE  /\ (~shutdown[v] \/ pc[v] \in Idle => late[v] = 0)'
             /\ (late[v] <= 1)'
    BY <1>2, <1>0 DEF Crash, TypeOK, Idle
<1>3. ASSUME NEW w \in Workers, ExitCall(w)
      PROVE  /\ (~shutdown[v] \/ pc[v] \in Idle => late[v] = 0)'
             /\ (late[v] <= 1)'
    BY <1>3, <1>0 DEF ExitCall, Idle
<1>4. ASSUME NEW w \in Workers, Term(w)
      PROVE  /\ (~shutdown[v] \/ pc[v] \in Idle => late[v] = 0)'
             /\ (late[v] <= 1)'
    <2>1. late' = late /\ (shutdown'[v] \/ ~shutdown[v] \/ pc[v] = "start")
        BY <1>4 DEF Term, TypeOK
    <2>2. Interrupted(w) \/ pc' = pc
        BY <1>4, Zenon DEF Term
    <2>3. pc'[v] \in Idle => pc[v] \in Idle
        BY <2>2, InterruptedLeaves
    <2> QED BY <2>1, <2>3, <1>0 DEF Idle
<1>5. ASSUME NEW w \in Workers, UpdateLogLevel(w)
      PROVE  /\ (~shutdown[v] \/ pc[v] \in Idle => late[v] = 0)'
             /\ (late[v] <= 1)'
    BY <1>5, <1>0, InterruptedLeaves DEF UpdateLogLevel
<1>6. CASE UNCHANGED workerVars
    BY <1>6, <1>0 DEF workerVars
<1>7. ASSUME NEW c \in Clients, Connect(c) \/ SendMore(c) \/ Leave(c)
      PROVE  UNCHANGED workerVars
    BY <1>7 DEF Connect, SendMore, Leave
<1> QED
    BY <1>1, <1>2, <1>3, <1>4, <1>5, <1>6, <1>7 DEF Next, vars

LEMMA LateInit == Init => LateInv
<1>1. ASSUME Init, NEW w \in Workers PROVE late[w] = 0 /\ late[w] <= 1
    BY <1>1 DEF Init
<1> QED BY <1>1, Zenon DEF LateInv

\* A worker takes at most one connection after SIGTERM, whatever else happens.
THEOREM OneLateAtMost == Spec => []LateAtMostOne
<1>1. LateInv => LateAtMostOne
    BY DEF LateInv, LateAtMostOne
<1> QED BY <1>1, TypeInit, TypeStep, LateInit, LateStep, PTL DEF Spec

-----------------------------------------------------------------------------
(* The owner of a connection.                                              *)

\* A connection that a worker has open is held, and no other worker has it; one
\* that is held is open in some worker; those that wait are in the queue once.
OwnerInv ==
    /\ \A w \in Workers : cur[w] # None => conn[cur[w]] = "held"
    /\ \A v, w \in Workers : v # w /\ cur[v] # None => cur[v] # cur[w]
    /\ \A c \in Clients : conn[c] = "held" => \E w \in Workers : cur[w] = c
    /\ \A i \in 1 .. Len(backlog) : conn[backlog[i]] = "queued"
    /\ \A i, j \in 1 .. Len(backlog) : i # j => backlog[i] # backlog[j]

\* Where a worker has no request open.
Without  == {"start", "service", "check", "enter", "accept", "ended"}
PlaceInv ==
    \A w \in Workers :
        /\ pc[w] \in Without => cur[w] = None
        /\ pc[w] = "keeper" /\ sock[w] # "open" => cur[w] = None
        /\ pc[w] = "check" => sock[w] # "open"

LEMMA OutcomeOwner ==
    ASSUME TypeOK, OwnerInv, NEW w \in Workers,
           NEW o \in {"answered", "dropped", "lost"}, Outcome(w, o), backlog' = backlog
    PROVE  OwnerInv'
<1>1. CASE cur[w] = None
    <2>1. conn' = conn /\ cur' = cur
        BY <1>1 DEF Outcome, TypeOK
    <2> QED BY <2>1 DEF OwnerInv
<1>2. CASE cur[w] # None
    <2> DEFINE d == cur[w]
    <2>1. /\ d \in Clients /\ conn[d] = "held" /\ d # None
          /\ conn' = [conn EXCEPT ![d] = o] /\ cur' = [cur EXCEPT ![w] = None]
        BY <1>2, WorkerAssumption DEF Outcome, TypeOK, OwnerInv
    <2>2. \A v \in Workers : v # w => cur'[v] = cur[v] /\ cur[v] # d
        BY <1>2, <2>1 DEF TypeOK, OwnerInv
    <2>3. cur'[w] = None
        BY <2>1 DEF TypeOK
    <2>4. \A c \in Clients : c # d => conn'[c] = conn[c]
        BY <2>1 DEF TypeOK
    <2>5. conn'[d] = o
        BY <2>1 DEF TypeOK
    <2> HIDE DEF d
    <2>6. \A v \in Workers : cur'[v] # None => conn'[cur'[v]] = "held"
        BY <2>2, <2>3, <2>4 DEF TypeOK, OwnerInv
    <2>7. \A u, v \in Workers : u # v /\ cur'[u] # None => cur'[u] # cur'[v]
        BY <2>2, <2>3 DEF OwnerInv
    <2>8. \A c \in Clients : conn'[c] = "held" => \E v \in Workers : cur'[v] = c
        <3> SUFFICES ASSUME NEW c \in Clients, conn'[c] = "held"
                     PROVE  \E v \in Workers : cur'[v] = c
            OBVIOUS
        <3>1. c # d /\ conn[c] = "held"
            BY <2>4, <2>5
        <3>2. PICK v \in Workers : cur[v] = c
            BY <3>1 DEF OwnerInv
        <3> QED BY <3>1, <3>2, <2>2 DEF d
    <2>9. \A i \in 1 .. Len(backlog) : conn'[backlog[i]] = "queued"
        <3> TAKE i \in 1 .. Len(backlog)
        <3>1. backlog[i] \in Clients /\ conn[backlog[i]] = "queued"
            BY DEF TypeOK, OwnerInv
        <3> QED BY <3>1, <2>1, <2>4
    <2> QED BY <2>6, <2>7, <2>8, <2>9 DEF OwnerInv
<1> QED BY <1>1, <1>2

\* A worker that has no request open takes the head of the queue.
LEMMA AcceptOwner ==
    ASSUME TypeOK, OwnerInv, PlaceInv, NEW w \in Workers, Accept(w)
    PROVE  OwnerInv'
<1> DEFINE h == Head(backlog)
<1>1. /\ backlog # <<>> /\ backlog \in Seq(Clients) /\ backlog' = Tail(backlog)
      /\ cur' = [cur EXCEPT ![w] = h] /\ conn' = [conn EXCEPT ![h] = "held"]
    BY DEF Accept, TypeOK
<1>2. cur[w] = None
    BY DEF Accept, Goto, PlaceInv, Without
<1>3. h \in Clients /\ h = backlog[1] /\ Len(backlog) \in Nat \ {0}
    BY <1>1
<1>4. conn[h] = "queued" /\ h # None
    BY <1>3, WorkerAssumption DEF OwnerInv
<1>5. \A i \in 1 .. Len(Tail(backlog)) :
          Tail(backlog)[i] = backlog[i + 1] /\ i + 1 \in 1 .. Len(backlog) /\ i + 1 # 1
    BY <1>1, <1>3
<1>6. \A v \in Workers : v # w => cur'[v] = cur[v] /\ cur[v] # h
    BY <1>1, <1>4 DEF TypeOK, OwnerInv
<1>7. cur'[w] = h
    BY <1>1 DEF TypeOK
<1>8. conn'[h] = "held" /\ \A c \in Clients : c # h => conn'[c] = conn[c]
    BY <1>1, <1>3 DEF TypeOK
<1> HIDE DEF h
<1>9. \A v \in Workers : cur'[v] # None => conn'[cur'[v]] = "held"
    BY <1>6, <1>7, <1>8 DEF TypeOK, OwnerInv
<1>10. \A u, v \in Workers : u # v /\ cur'[u] # None => cur'[u] # cur'[v]
    BY <1>6, <1>7 DEF OwnerInv
<1>11. \A c \in Clients : conn'[c] = "held" => \E v \in Workers : cur'[v] = c
    <2> TAKE c \in Clients
    <2> HAVE conn'[c] = "held"
    <2>1. CASE c = h
        BY <2>1, <1>7
    <2>2. CASE c # h
        <3>1. PICK v \in Workers : cur[v] = c
            BY <2>2, <1>8 DEF OwnerInv
        <3> QED BY <3>1, <1>2, <1>6, WorkerAssumption
    <2> QED BY <2>1, <2>2
<1>12. \A i \in 1 .. Len(backlog') : conn'[backlog'[i]] = "queued"
    <2> SUFFICES ASSUME NEW i \in 1 .. Len(Tail(backlog))
                 PROVE  conn'[Tail(backlog)[i]] = "queued"
        BY <1>1
    <2>1. backlog[i + 1] \in Clients /\ backlog[i + 1] # h /\ conn[backlog[i + 1]] = "queued"
        BY <1>1, <1>3, <1>5 DEF OwnerInv
    <2> QED BY <2>1, <1>5, <1>8
<1>13. \A i, j \in 1 .. Len(backlog') : i # j => backlog'[i] # backlog'[j]
    <2> SUFFICES ASSUME NEW i \in 1 .. Len(Tail(backlog)), NEW j \in 1 .. Len(Tail(backlog)),
                        i # j
                 PROVE  Tail(backlog)[i] # Tail(backlog)[j]
        BY <1>1
    <2>1. i + 1 # j + 1
        OBVIOUS
    <2> QED BY <2>1, <1>5 DEF OwnerInv
<1> QED BY <1>9, <1>10, <1>11, <1>12, <1>13 DEF OwnerInv
LEMMA ConnectOwner ==
    ASSUME TypeOK, OwnerInv, NEW d \in Clients, Connect(d)
    PROVE  OwnerInv'
<1>1. /\ conn[d] = "idle" /\ conn' = [conn EXCEPT ![d] = "queued"]
      /\ backlog \in Seq(Clients) /\ backlog' = Append(backlog, d) /\ cur' = cur
    BY DEF Connect, workerVars, TypeOK
<1>2. conn'[d] = "queued" /\ \A c \in Clients : c # d => conn'[c] = conn[c]
    BY <1>1 DEF TypeOK
<1>3. \A w \in Workers : cur[w] # None => cur[w] \in Clients /\ cur[w] # d
    BY <1>1 DEF TypeOK, OwnerInv
<1>4. /\ Len(backlog') = Len(backlog) + 1 /\ Len(backlog) \in Nat
      /\ backlog'[Len(backlog) + 1] = d
      /\ \A i \in 1 .. Len(backlog) : backlog'[i] = backlog[i]
    BY <1>1
<1>5. \A i \in 1 .. Len(backlog) : backlog[i] \in Clients /\ backlog[i] # d
    BY <1>1 DEF OwnerInv
<1>6. \A i \in 1 .. Len(backlog') : i = Len(backlog) + 1 \/ i \in 1 .. Len(backlog)
    BY <1>4
<1>7. \A i \in 1 .. Len(backlog') : conn'[backlog'[i]] = "queued"
    BY <1>2, <1>4, <1>5, <1>6 DEF OwnerInv
<1>8. \A i, j \in 1 .. Len(backlog') : i # j => backlog'[i] # backlog'[j]
    BY <1>4, <1>5, <1>6 DEF OwnerInv
<1>9. \A w \in Workers : cur'[w] # None => conn'[cur'[w]] = "held"
    BY <1>1, <1>2, <1>3 DEF OwnerInv
<1>10. \A c \in Clients : conn'[c] = "held" => \E w \in Workers : cur'[w] = c
    BY <1>1, <1>2 DEF OwnerInv
<1> QED BY <1>1, <1>7, <1>8, <1>9, <1>10 DEF OwnerInv

LEMMA LeaveOwner ==
    ASSUME TypeOK, OwnerInv, NEW d \in Clients, Leave(d)
    PROVE  OwnerInv'
<1>1. /\ conn[d] \notin {"held", "queued"} /\ conn' = [conn EXCEPT ![d] = "idle"]
      /\ backlog' = backlog /\ cur' = cur
    BY DEF Leave, workerVars
<1>2. conn'[d] = "idle" /\ \A c \in Clients : c # d => conn'[c] = conn[c]
    BY <1>1 DEF TypeOK
<1>3. \A w \in Workers : cur[w] # None => cur[w] \in Clients /\ cur[w] # d
    BY <1>1 DEF TypeOK, OwnerInv
<1>4. \A i \in 1 .. Len(backlog) : backlog[i] \in Clients /\ backlog[i] # d
    BY <1>1 DEF TypeOK, OwnerInv
<1>5. \A w \in Workers : cur'[w] # None => conn'[cur'[w]] = "held"
    BY <1>1, <1>2, <1>3 DEF OwnerInv
<1>6. \A c \in Clients : conn'[c] = "held" => \E w \in Workers : cur'[w] = c
    BY <1>1, <1>2 DEF OwnerInv
<1>7. \A i \in 1 .. Len(backlog) : conn'[backlog[i]] = "queued"
    BY <1>2, <1>4 DEF OwnerInv
<1> QED BY <1>1, <1>5, <1>6, <1>7 DEF OwnerInv

LEMMA OwnerStep == TypeOK /\ PlaceInv /\ OwnerInv /\ [Next]_vars => OwnerInv'
<1> SUFFICES ASSUME TypeOK, PlaceInv, OwnerInv, [Next]_vars PROVE OwnerInv'
    OBVIOUS
<1>1. CASE UNCHANGED <<cur, conn, backlog>>
    BY <1>1 DEF OwnerInv
<1>2. ASSUME NEW w \in Workers, NEW o \in {"answered", "dropped", "lost"},
             Outcome(w, o), backlog' = backlog
      PROVE  OwnerInv'
    BY <1>2, OutcomeOwner
<1>3. ASSUME NEW w \in Workers, WorkerStep(w) PROVE OwnerInv'
    <2>1. CASE Accept(w)
        BY <2>1, AcceptOwner
    <2>2. CASE Test(w)
        <3>1. CASE exit[w]
            <4>1. cur' = cur /\ conn' = conn /\ backlog' = backlog
                BY <2>2, <3>1 DEF Test
            <4> QED BY <4>1, <1>1
        <3>2. CASE ~exit[w]
            BY <2>2, <3>2, <1>2 DEF Test
        <3> QED BY <3>1, <3>2
    <2>3. CASE Keeper(w)
        BY <2>3, <1>1 DEF Keeper, clientVars
    <2>4. CASE Close(w) \/ Finish(w) \/ Stop(w)
        BY <2>4, <1>2 DEF Close, Finish, Stop
    <2> QED
        BY <1>1, <1>3, <2>1, <2>2, <2>3, <2>4
        DEF WorkerStep, InstallHandlers, StartService, Check, Block, AcceptFails, Read,
            Wait, Query, Move, clientVars
<1>4. ASSUME NEW w \in Workers, Crash(w) PROVE OwnerInv'
    BY <1>4, <1>2 DEF Crash
<1>5. ASSUME NEW w \in Workers, ExitCall(w) PROVE OwnerInv'
    BY <1>5, <1>1 DEF ExitCall, clientVars
<1>6. ASSUME NEW w \in Workers, Term(w) \/ UpdateLogLevel(w) PROVE OwnerInv'
    BY <1>6, <1>1 DEF Term, UpdateLogLevel, clientVars
<1>7. ASSUME NEW d \in Clients, Connect(d) \/ SendMore(d) \/ Leave(d) PROVE OwnerInv'
    BY <1>7, <1>1, ConnectOwner, LeaveOwner DEF SendMore, workerVars
<1>8. CASE UNCHANGED vars
    BY <1>8, <1>1 DEF vars, workerVars, clientVars
<1> QED BY <1>3, <1>4, <1>5, <1>6, <1>7, <1>8 DEF Next

\* Only a worker's own step changes its place, its socket and its request.
LEMMA PlaceOwn ==
    ASSUME TypeOK, PlaceInv, NEW w \in Workers,
           \A v \in Workers \ {w} : /\ pc'[v] = pc[v] /\ cur'[v] = cur[v]
                                    /\ sock'[v] = sock[v],
           /\ pc'[w] \in Without => cur'[w] = None
           /\ pc'[w] = "keeper" /\ sock'[w] # "open" => cur'[w] = None
           /\ pc'[w] = "check" => sock'[w] # "open"
    PROVE  PlaceInv'
BY DEF PlaceInv
\* A worker that gives up on its request, or has none, has none afterwards.
LEMMA OutcomePlace ==
    ASSUME TypeOK, NEW w \in Workers, NEW o, Outcome(w, o)
    PROVE  cur'[w] = None /\ \A v \in Workers \ {w} : cur'[v] = cur[v]
BY DEF Outcome, TypeOK

LEMMA InterruptedPlace ==
    ASSUME TypeOK, PlaceInv, NEW w \in Workers, Interrupted(w), UNCHANGED <<sock, cur>>
    PROVE  PlaceInv'
BY PlaceOwn DEF Interrupted, Goto, TypeOK, Without

LEMMA PlaceStep == TypeOK /\ PlaceInv /\ [Next]_vars => PlaceInv'
<1> SUFFICES ASSUME TypeOK, PlaceInv, [Next]_vars PROVE PlaceInv'
    OBVIOUS
<1>1. CASE UNCHANGED <<pc, sock, cur>>
    BY <1>1 DEF PlaceInv
<1>2. ASSUME NEW w \in Workers, NEW from \in PCs, NEW to \in PCs, Move(w, from, to),
             to # "keeper", to # "check", to \in Without => from \in Without
      PROVE  PlaceInv'
    BY <1>2, PlaceOwn DEF Move, Goto, TypeOK, PlaceInv
<1>3. ASSUME NEW w \in Workers, WorkerStep(w) PROVE PlaceInv'
    <2>1. CASE InstallHandlers(w) \/ StartService(w)
        BY <2>1, <1>2 DEF InstallHandlers, StartService, PCs, Without
    <2>2. CASE Test(w)
        <3>1. CASE exit[w]
            BY <2>2, <3>1, PlaceOwn DEF Test, Goto, TypeOK, Without
        <3>2. CASE ~exit[w]
            <4>1. /\ Goto(w, "test", "check") /\ sock' = [sock EXCEPT ![w] = "none"]
                  /\ Outcome(w, "answered")
                BY <2>2, <3>2 DEF Test
            <4> QED BY <4>1, PlaceOwn, OutcomePlace DEF Goto, TypeOK
        <3> QED BY <3>1, <3>2
    <2>3. CASE Check(w)
        <3>1. CASE ~shutdown[w]
            BY <2>3, <3>1, <1>2 DEF Check, PCs, Without
        <3>2. CASE shutdown[w] /\ sock[w] = "none"
            BY <2>3, <3>2, <1>2 DEF Check, PCs, Without
        <3>3. CASE shutdown[w] /\ sock[w] # "none"
            BY <2>3, <3>3, PlaceOwn DEF Check, Move, Goto, TypeOK, PlaceInv, Without
        <3> QED BY <3>1, <3>2, <3>3
    <2>4. CASE Block(w)
        BY <2>4, <1>2 DEF Block, PCs, Without
    <2>5. CASE Accept(w)
        <3>1. /\ pc' = [pc EXCEPT ![w] = "keeper"] /\ sock' = [sock EXCEPT ![w] = "open"]
              /\ cur' = [cur EXCEPT ![w] = Head(backlog)]
            BY <2>5 DEF Accept, Goto
        <3> QED BY <3>1, PlaceOwn DEF TypeOK, Without
    <2>6. CASE AcceptFails(w)
        BY <2>6, <1>2 DEF AcceptFails, PCs, Without
    <2>7. CASE Keeper(w)
        <3>1. CASE Goto(w, "keeper", "read")
            BY <2>7, <3>1, PlaceOwn DEF Keeper, Goto, TypeOK, Without
        <3>2. CASE Goto(w, "keeper", "close")
            BY <2>7, <3>2, PlaceOwn DEF Keeper, Goto, TypeOK, Without
        <3> QED BY <2>7, <3>1, <3>2 DEF Keeper
    <2>8. CASE Read(w) \/ Wait(w) \/ Query(w)
        BY <2>8, <1>2 DEF Read, Wait, Query, PCs, Without
    <2>9. CASE Close(w)
        <3>1. sock'[w] # "open"
            BY <2>9 DEF Close, TypeOK
        <3>2. \A v \in Workers \ {w} : sock'[v] = sock[v] /\ pc'[v] = pc[v]
            BY <2>9 DEF Close, Goto, TypeOK
        <3>3. pc'[w] = "check" /\ cur'[w] = None
            BY <2>9, OutcomePlace DEF Close, Goto, TypeOK
        <3>4. \A v \in Workers \ {w} : cur'[v] = cur[v]
            BY <2>9, OutcomePlace DEF Close
        <3> QED BY <3>1, <3>2, <3>3, <3>4, PlaceOwn
    <2>10. CASE Finish(w)
        BY <2>10, PlaceOwn, OutcomePlace DEF Finish, Goto, TypeOK
    <2>11. CASE Stop(w)
        BY <2>11, PlaceOwn, OutcomePlace DEF Stop, Goto, TypeOK
    <2> QED
        BY <1>3, <2>1, <2>2, <2>3, <2>4, <2>5, <2>6, <2>7, <2>8, <2>9, <2>10, <2>11
        DEF WorkerStep
<1>4. ASSUME NEW w \in Workers, Crash(w) PROVE PlaceInv'
    <2>1. /\ pc' = [pc EXCEPT ![w] = "ended"] /\ sock' = sock /\ Outcome(w, "lost")
        BY <1>4 DEF Crash
    <2> QED BY <2>1, PlaceOwn, OutcomePlace DEF TypeOK
<1>5. ASSUME NEW w \in Workers, ExitCall(w) PROVE PlaceInv'
    BY <1>5, <1>1 DEF ExitCall
<1>6. ASSUME NEW w \in Workers, Term(w) \/ UpdateLogLevel(w) PROVE PlaceInv'
    <2>1. UNCHANGED <<sock, cur>>
        BY <1>6 DEF Term, UpdateLogLevel
    <2>2. Interrupted(w) \/ UNCHANGED pc
        BY <1>6, Zenon DEF Term, UpdateLogLevel
    <2> QED BY <2>1, <2>2, <1>1, InterruptedPlace
<1>7. ASSUME NEW d \in Clients, Connect(d) \/ SendMore(d) \/ Leave(d) PROVE PlaceInv'
    BY <1>7, <1>1 DEF Connect, SendMore, Leave, workerVars
<1>8. CASE UNCHANGED vars
    BY <1>8, <1>1 DEF vars, workerVars
<1> QED BY <1>3, <1>4, <1>5, <1>6, <1>7, <1>8 DEF Next

LEMMA OwnerInit == Init => PlaceInv /\ OwnerInv
<1> SUFFICES ASSUME Init PROVE PlaceInv /\ OwnerInv
    OBVIOUS
<1>1. \A w \in Workers : pc[w] = "start" /\ cur[w] = None
    BY DEF Init
<1>2. (\A c \in Clients : conn[c] = "idle") /\ Len(backlog) = 0
    BY DEF Init
<1> QED BY <1>1, <1>2 DEF PlaceInv, OwnerInv

\* A connection that was accepted has one worker, which has not ended.
THEOREM OneOwner == Spec => []HeldByOne
<1>1. TypeOK /\ PlaceInv /\ OwnerInv => HeldByOne
    <2> SUFFICES ASSUME TypeOK, PlaceInv, OwnerInv, NEW c \in Clients, conn[c] = "held"
                 PROVE  \E w \in Workers : /\ cur[w] = c /\ pc[w] # "ended"
                                           /\ \A v \in Workers \ {w} : cur[v] # c
        BY DEF HeldByOne
    <2>1. PICK w \in Workers : cur[w] = c
        BY DEF OwnerInv
    <2>2. c # None
        BY WorkerAssumption
    <2>3. pc[w] # "ended"
        BY <2>1, <2>2 DEF PlaceInv, Without
    <2>4. \A v \in Workers \ {w} : cur[v] # c
        BY <2>1, <2>2 DEF OwnerInv
    <2> QED BY <2>1, <2>3, <2>4
<1> QED BY <1>1, TypeInit, TypeStep, OwnerInit, OwnerStep, PlaceStep, PTL DEF Spec
-----------------------------------------------------------------------------
(* Signals and complete requests.                                          *)

\* A worker that keeps its request, and is not led to wait, does not make a client
\* wait.
LEMMA StaysUnwaited ==
    ASSUME NEW c \in Clients, ~Waiting(c),
           \A w \in Workers : cur'[w] = c => /\ cur[w] = c
                                             /\ pc'[w] \in {"wait", "close"} =>
                                                    pc[w] \in {"wait", "close"}
    PROVE  ~Waiting(c)'
BY DEF Waiting

\* No step of a worker drops the request or begins to wait for it: the select that
\* says no and the read that blocks are on a connection whose request is not there.
LEMMA WorkerKeeps ==
    ASSUME TypeOK, PlaceInv, NEW w \in Workers, NEW c \in Clients,
           conn[c] = "held", sent[c] = "all", ~Waiting(c), WorkerStep(w)
    PROVE  conn'[c] # "dropped" /\ ~Waiting(c)'
<1>1. ASSUME NEW from \in PCs, NEW to \in PCs, Move(w, from, to),
             to \notin {"wait", "close"}
      PROVE  conn'[c] # "dropped" /\ ~Waiting(c)'
    BY <1>1, StaysUnwaited DEF Move, Goto, TypeOK, clientVars
<1>2. ASSUME Outcome(w, "answered"), NEW from \in PCs, NEW to \in PCs,
             Goto(w, from, to), to \notin {"wait", "close"}
      PROVE  conn'[c] # "dropped" /\ ~Waiting(c)'
    <2>1. conn'[c] # "dropped"
        BY <1>2 DEF Outcome, TypeOK
    <2>2. \A v \in Workers : cur'[v] = c => cur[v] = c /\ v # w
        BY <1>2, WorkerAssumption DEF Outcome, TypeOK
    <2>3. \A v \in Workers : v # w => pc'[v] = pc[v]
        BY <1>2 DEF Goto, TypeOK
    <2> QED BY <2>1, <2>2, <2>3, StaysUnwaited
<1>3. CASE InstallHandlers(w) \/ StartService(w) \/ Block(w) \/ AcceptFails(w)
           \/ Query(w) \/ Check(w) \/ Read(w)
    BY <1>3, <1>1
    DEF InstallHandlers, StartService, Block, AcceptFails, Query, Check, Read, PCs
<1>4. CASE Test(w)
    <2>1. CASE exit[w]
        <3>1. Goto(w, "test", "stop") /\ cur' = cur /\ conn' = conn
            BY <1>4, <2>1 DEF Test
        <3> QED BY <3>1, StaysUnwaited DEF Goto, TypeOK
    <2>2. CASE ~exit[w]
        BY <1>4, <2>2, <1>2 DEF Test, PCs
    <2> QED BY <2>1, <2>2
<1>5. CASE Accept(w)
    <2>1. pc' = [pc EXCEPT ![w] = "keeper"]
        BY <1>5 DEF Accept, Goto
    <2>2. conn'[c] # "dropped"
        BY <1>5 DEF Accept, TypeOK
    <2>3. \A v \in Workers : v # w => cur'[v] = cur[v] /\ pc'[v] = pc[v]
        BY <1>5, <2>1 DEF Accept, TypeOK
    <2>4. pc'[w] = "keeper"
        BY <2>1 DEF TypeOK
    <2> QED BY <2>2, <2>3, <2>4 DEF Waiting
<1>6. CASE Keeper(w)
    <2>1. cur' = cur /\ conn' = conn
        BY <1>6 DEF Keeper, clientVars
    <2>2. CASE Goto(w, "keeper", "read")
        BY <2>1, <2>2, StaysUnwaited DEF Goto, TypeOK
    <2>3. CASE Goto(w, "keeper", "close") /\ cur[w] # c
        BY <2>1, <2>3, StaysUnwaited DEF Goto, TypeOK
    <2>4. pc[w] = "keeper" /\ sock[w] # "open" => cur[w] # c
        BY WorkerAssumption DEF PlaceInv
    <2> QED BY <1>6, <2>2, <2>3, <2>4 DEF Keeper
<1>7. CASE Wait(w)
    <2>1. cur' = cur /\ conn' = conn /\ Goto(w, "read", "wait") /\ cur[w] # c
        BY <1>7 DEF Wait, Move, clientVars
    <2> QED BY <2>1, StaysUnwaited DEF Goto, TypeOK
<1>8. CASE Close(w)
    <2>1. cur[w] # c /\ Goto(w, "close", "check") /\ Outcome(w, "dropped")
        BY <1>8 DEF Close, Waiting, Goto
    <2>2. conn'[c] # "dropped"
        BY <2>1 DEF Outcome, TypeOK
    <2>3. \A v \in Workers : cur'[v] = c => cur[v] = c /\ v # w
        BY <2>1, WorkerAssumption DEF Outcome, TypeOK
    <2>4. \A v \in Workers : v # w => pc'[v] = pc[v]
        BY <2>1 DEF Goto, TypeOK
    <2> QED BY <2>2, <2>3, <2>4, StaysUnwaited
<1>9. CASE Finish(w) \/ Stop(w)
    BY <1>9, <1>2 DEF Finish, Stop, PCs
<1> QED
    BY <1>3, <1>4, <1>5, <1>6, <1>7, <1>8, <1>9 DEF WorkerStep

\* Nor does a signal: it interrupts a select on a silent connection, or a worker
\* that waits already.
LEMMA InterruptedKeeps ==
    ASSUME TypeOK, NEW w \in Workers, NEW c \in Clients, sent[c] = "all", ~Waiting(c),
           Interrupted(w) \/ pc' = pc, cur' = cur
    PROVE  ~Waiting(c)'
<1>1. CASE pc' = pc
    BY <1>1, StaysUnwaited
<1>2. CASE Goto(w, "accept", "stop")
    BY <1>2, StaysUnwaited DEF Goto, TypeOK
<1>3. CASE Goto(w, "keeper", "close") /\ sent[cur[w]] = "nothing"
    <2>1. cur[w] # c
        BY <1>3
    <2> QED BY <1>3, <2>1, StaysUnwaited DEF Goto, TypeOK
<1>4. CASE Goto(w, "wait", "close")
    BY <1>4, StaysUnwaited DEF Goto, TypeOK
<1> QED BY <1>1, <1>2, <1>3, <1>4 DEF Interrupted

LEMMA KeptStep ==
    ASSUME TypeOK, PlaceInv, [Next]_vars, NEW c \in Clients, conn[c] = "held",
           sent[c] = "all", ~Waiting(c)
    PROVE  conn'[c] # "dropped" /\ ~Waiting(c)'
<1>1. ASSUME NEW w \in Workers, WorkerStep(w)
      PROVE  conn'[c] # "dropped" /\ ~Waiting(c)'
    BY <1>1, WorkerKeeps
<1>2. ASSUME NEW w \in Workers, Crash(w)
      PROVE  conn'[c] # "dropped" /\ ~Waiting(c)'
    <2>1. pc' = [pc EXCEPT ![w] = "ended"] /\ Outcome(w, "lost")
        BY <1>2 DEF Crash
    <2>2. conn'[c] # "dropped"
        BY <2>1 DEF Outcome, TypeOK
    <2>3. \A v \in Workers : cur'[v] = c => cur[v] = c
        BY <2>1, WorkerAssumption DEF Outcome, TypeOK
    <2>4. \A v \in Workers : pc'[v] = pc[v] \/ pc'[v] = "ended"
        BY <2>1 DEF TypeOK
    <2> QED BY <2>2, <2>3, <2>4, StaysUnwaited
<1>3. ASSUME NEW w \in Workers, ExitCall(w) \/ Term(w) \/ UpdateLogLevel(w)
      PROVE  conn'[c] # "dropped" /\ ~Waiting(c)'
    <2>1. cur' = cur /\ conn' = conn
        BY <1>3 DEF ExitCall, Term, UpdateLogLevel, clientVars
    <2>2. Interrupted(w) \/ pc' = pc
        BY <1>3, Zenon DEF ExitCall, Term, UpdateLogLevel
    <2> QED BY <2>1, <2>2, InterruptedKeeps
<1>4. ASSUME NEW d \in Clients, Connect(d) \/ SendMore(d) \/ Leave(d)
      PROVE  conn'[c] # "dropped" /\ ~Waiting(c)'
    <2>1. conn'[c] # "dropped"
        BY <1>4 DEF Connect, SendMore, Leave, TypeOK
    <2>2. cur' = cur /\ pc' = pc
        BY <1>4 DEF Connect, SendMore, Leave, workerVars
    <2> QED BY <2>1, <2>2, StaysUnwaited
<1>5. CASE UNCHANGED vars
    BY <1>5, StaysUnwaited DEF vars, workerVars, clientVars
<1> QED BY <1>1, <1>2, <1>3, <1>4, <1>5 DEF Next

\* A request that was there before its worker waited for it is kept: no step, and no
\* signal, drops it or makes the worker wait for it.
THEOREM CompleteIsKept == Spec => CompleteRequestKept
<1>1. TypeOK /\ PlaceInv /\ [Next]_vars =>
          [\A c \in Clients :
              conn[c] = "held" /\ sent[c] = "all" /\ ~Waiting(c) =>
                  conn'[c] # "dropped" /\ ~Waiting(c)']_vars
    BY KeptStep
<1>2. Init => PlaceInv
    BY OwnerInit
<1> QED
    BY <1>1, <1>2, TypeInit, TypeStep, PlaceStep, PTL DEF Spec, CompleteRequestKept
=============================================================================

------------------------------- MODULE Worker -------------------------------
(***************************************************************************)
(* The worker processes of one manager: NcServer::serve (src/ncserver.cpp)   *)
(* on top of FCGI_Accept, FCGX_Accept_r and OS_Accept of the libfcgi in      *)
(* 3rd-party, with the signal handlers that end it.  All the workers accept  *)
(* from the one listening AF_UNIX socket that spawn-fcgi gave the boss.      *)
(*                                                                         *)
(* A blocking system call is a location of its own where a signal that       *)
(* arrives makes a difference: the handlers are installed without            *)
(* SA_RESTART, so accept, select and read return with EINTR.                 *)
(***************************************************************************)
EXTENDS Integers, Sequences

CONSTANTS
    Workers, Clients, None,
    Env            \* what the environment does in this instance

(***************************************************************************)
(*   term          SIGTERM (or SIGINT) for a worker                         *)
(*   exitCall      the application calls NcServer::exit() in a worker       *)
(*   slowClient    a client connects first and sends its request later      *)
(*   longUri       a query string of URL_MAX_LENGTH or more                 *)
(*   hookFails     startService returns false                               *)
(*   acceptFails   accept fails for want of a file descriptor               *)
(*   crash         a worker crashes                                         *)
(*   logLevel      ncserverctl chloglvl signals a worker                     *)
(***************************************************************************)
ASSUME WorkerAssumption ==
    /\ None \notin Clients
    /\ Env \subseteq {"term", "exitCall", "slowClient", "longUri", "hookFails",
                      "acceptFails", "crash", "logLevel"}

VARIABLES
    pc,        \* where each worker is
    exit,      \* g_ncServerExit of each worker
    shutdown,  \* shutdownPending of libfcgi in each worker
    sock,      \* the local variable socket of OS_Accept
    cur,       \* the client whose request the worker has open
    late,      \* connections a worker has accepted since SIGTERM
    backlog,   \* the queue of the listening socket
    conn,      \* what became of each client's connection
    sent,      \* how much of its request a client has sent
    long       \* is its query string too long?

workerVars == <<pc, exit, shutdown, sock, cur, late>>
clientVars == <<backlog, conn, sent, long>>
vars       == <<workerVars, clientVars>>

PCs == {"start", "service", "test", "check", "enter", "accept", "keeper", "read",
        "wait", "close", "query", "finish", "stop", "ended"}

TypeOK ==
    /\ pc \in [Workers -> PCs]
    /\ exit \in [Workers -> BOOLEAN] /\ shutdown \in [Workers -> BOOLEAN]
    /\ sock \in [Workers -> {"none", "open", "stale"}]
    /\ cur \in [Workers -> Clients \cup {None}]
    /\ late \in [Workers -> 0 .. 2]
    /\ backlog \in Seq(Clients)
    /\ conn \in [Clients -> {"idle", "queued", "held", "answered", "dropped", "lost"}]
    /\ sent \in [Clients -> {"nothing", "part", "all"}]
    /\ long \in [Clients -> BOOLEAN]

\* A worker just forked has the manager's handlers and flags.
Init ==
    /\ pc = [w \in Workers |-> "start"]
    /\ exit = [w \in Workers |-> FALSE] /\ shutdown = [w \in Workers |-> FALSE]
    /\ sock = [w \in Workers |-> "none"] /\ cur = [w \in Workers |-> None]
    /\ late = [w \in Workers |-> 0]
    /\ backlog = <<>> /\ conn = [c \in Clients |-> "idle"]
    /\ sent = [c \in Clients |-> "nothing"] /\ long = [c \in Clients |-> FALSE]

-----------------------------------------------------------------------------
(* Steps of a worker.                                                      *)

Goto(w, from, to) == pc[w] = from /\ pc' = [pc EXCEPT ![w] = to]

\* A step that changes nothing but the place of the worker.
Move(w, from, to) ==
    Goto(w, from, to) /\ UNCHANGED <<exit, shutdown, sock, cur, late, clientVars>>

\* The request that worker w has open, if any, ends in this way.
Outcome(w, o) ==
    /\ conn' = IF cur[w] = None THEN conn ELSE [conn EXCEPT ![cur[w]] = o]
    /\ cur' = [cur EXCEPT ![w] = None]

\* From here on SIGTERM also sets shutdownPending.
InstallHandlers(w) == Move(w, "start", "service")

StartService(w) ==
    \/ Move(w, "service", "test")
    \/ "hookFails" \in Env /\ Move(w, "service", "ended")

\* The loop does not look at g_ncServerExit.
TestForever(w) ==
    /\ Goto(w, "test", "check") /\ sock' = [sock EXCEPT ![w] = "none"]
    /\ Outcome(w, "answered")
    /\ UNCHANGED <<exit, shutdown, late, backlog, sent, long>>

\* The loop test.  FCGI_Accept finishes a request that is still open: the 414
\* answer, after which the loop continues without FCGI_Finish.
Test(w) ==
    /\ IF exit[w]
       THEN Goto(w, "test", "stop") /\ UNCHANGED <<sock, cur, conn>>
       ELSE /\ Goto(w, "test", "check") /\ sock' = [sock EXCEPT ![w] = "none"]
            /\ Outcome(w, "answered")
    /\ UNCHANGED <<exit, shutdown, late, backlog, sent, long>>

\* shutdownPending is looked at only after a failed accept.
CheckNot(w) == Move(w, "check", "enter")

\* if (shutdownPending) break; what follows looks at socket only.
Check(w) ==
    Move(w, "check", IF ~shutdown[w] THEN "enter" ELSE
                     IF sock[w] = "none" THEN "stop" ELSE "keeper")

\* accept: between "enter" and "accept" is the window the comment speaks of.
Block(w) == backlog = <<>> /\ Move(w, "enter", "accept")

\* Two workers may get one connection.
AcceptShared(w) ==
    /\ backlog # <<>>
    /\ Goto(w, "enter", "keeper") \/ Goto(w, "accept", "keeper")
    /\ cur' = [cur EXCEPT ![w] = Head(backlog)]
    /\ conn' = [conn EXCEPT ![Head(backlog)] = "held"]
    /\ sock' = [sock EXCEPT ![w] = "open"]
    /\ UNCHANGED <<exit, shutdown, late, backlog, sent, long>>

\* A worker that waits in accept is not woken.
AcceptNotWoken(w) ==
    /\ backlog # <<>> /\ Goto(w, "enter", "keeper")
    /\ cur' = [cur EXCEPT ![w] = Head(backlog)]
    /\ conn' = [conn EXCEPT ![Head(backlog)] = "held"]
    /\ backlog' = Tail(backlog)
    /\ sock' = [sock EXCEPT ![w] = "open"]
    /\ UNCHANGED <<exit, shutdown, late, sent, long>>

Accept(w) ==
    /\ backlog # <<>>
    /\ Goto(w, "enter", "keeper") \/ Goto(w, "accept", "keeper")
    /\ cur' = [cur EXCEPT ![w] = Head(backlog)]
    /\ conn' = [conn EXCEPT ![Head(backlog)] = "held"]
    /\ backlog' = Tail(backlog)
    /\ sock' = [sock EXCEPT ![w] = "open"]
    /\ late' = [late EXCEPT ![w] = IF shutdown[w] /\ @ < 2 THEN @ + 1 ELSE @]
    /\ UNCHANGED <<exit, shutdown, sent, long>>

\* The result of accept is not checked.
AcceptFailsUnchecked(w) ==
    /\ "acceptFails" \in Env
    /\ Goto(w, "enter", "keeper") \/ Goto(w, "accept", "keeper")
    /\ sock' = [sock EXCEPT ![w] = "error"]
    /\ UNCHANGED <<exit, shutdown, cur, late, clientVars>>

AcceptFails(w) ==
    /\ "acceptFails" \in Env
    /\ Move(w, "enter", "stop") \/ Move(w, "accept", "stop")

\* is_af_unix_keeper: select on the connection, at most two seconds; the select
\* on a socket that was closed fails at once.
Keeper(w) ==
    /\ pc[w] = "keeper"
    /\ \/ /\ sock[w] = "open" /\ sent[cur[w]] # "nothing"
          /\ Goto(w, "keeper", "read") /\ sock' = [sock EXCEPT ![w] = "none"]
       \/ /\ sock[w] = "open" => sent[cur[w]] = "nothing"
          /\ Goto(w, "keeper", "close") /\ UNCHANGED sock
    /\ UNCHANGED <<exit, shutdown, cur, late, clientVars>>

\* The 414 answer forgets to continue the loop: the worker waits for nothing.
ReadLongStuck(w) ==
    /\ pc[w] \in {"read", "wait"} /\ sent[cur[w]] = "all" /\ ~long[cur[w]]
    /\ Move(w, pc[w], "query")

\* FCGX_Accept_r has read the request; a query string that is too long is
\* answered with 414 into the buffer, and the loop goes on.
Read(w) ==
    /\ pc[w] \in {"read", "wait"} /\ sent[cur[w]] = "all"
    /\ Move(w, pc[w], IF long[cur[w]] THEN "test" ELSE "query")

\* read: the rest of the request is not there yet.
Wait(w) ==
    /\ pc[w] = "read" /\ sent[cur[w]] = "part"
    /\ Move(w, "read", "wait")

\* The close that follows a select that said no (the variable keeps the number of
\* the socket) or a read that failed.  Nobody looks whether the request has
\* arrived in the meantime.
Close(w) ==
    /\ Goto(w, "close", "check") /\ Outcome(w, "dropped")
    /\ sock' = [sock EXCEPT ![w] = IF @ = "open" THEN "stale" ELSE @]
    /\ UNCHANGED <<exit, shutdown, late, backlog, sent, long>>

Query(w) == Move(w, "query", "finish")

Finish(w) ==
    /\ Goto(w, "finish", "test") /\ Outcome(w, "answered")
    /\ UNCHANGED <<exit, shutdown, sock, late, backlog, sent, long>>

\* Without the atexit of FCGI_Accept the process ends with the request open.
StopUnfinished(w) == Move(w, "stop", "ended")

\* stopService, and the end of the process: atexit has FCGI_Finish.
Stop(w) ==
    /\ Goto(w, "stop", "ended") /\ Outcome(w, "answered")
    /\ UNCHANGED <<exit, shutdown, sock, late, backlog, sent, long>>

WorkerStep(w) ==
    \/ InstallHandlers(w) \/ StartService(w) \/ Test(w) \/ Check(w) \/ Block(w)
    \/ Accept(w) \/ AcceptFails(w) \/ Keeper(w) \/ Read(w) \/ Wait(w) \/ Close(w)
    \/ Query(w) \/ Finish(w) \/ Stop(w)

Crash(w) ==
    /\ "crash" \in Env /\ pc[w] # "ended"
    /\ pc' = [pc EXCEPT ![w] = "ended"] /\ Outcome(w, "lost")
    /\ UNCHANGED <<exit, shutdown, sock, late, backlog, sent, long>>

-----------------------------------------------------------------------------
(* What ends a worker.                                                     *)

ExitCall(w) ==
    /\ "exitCall" \in Env /\ ~exit[w] /\ pc[w] \notin {"start", "ended"}
    /\ exit' = [exit EXCEPT ![w] = TRUE]
    /\ UNCHANGED <<pc, shutdown, sock, cur, late, clientVars>>

\* Any read fails once the signal has come.
InterruptedAlways(w) ==
    \/ Goto(w, "accept", "stop") /\ backlog = <<>>
    \/ Goto(w, "read", "close")

\* What the signal does to a system call that is blocked: accept gives up, select
\* says no, read fails.  The kernel lets accept and select look once more for what
\* they wait for; a read that is woken by the signal fails even if the data has
\* come with it.
Interrupted(w) ==
    \/ Goto(w, "accept", "stop") /\ backlog = <<>>
    \/ Goto(w, "keeper", "close") /\ sock[w] = "open" /\ sent[cur[w]] = "nothing"
    \/ Goto(w, "wait", "close")

\* The handler runs when the system call returns: a worker in accept first takes
\* a connection that is there.  A call not entered yet is not interrupted: only
\* at "accept" and "wait" is the worker known to be inside.
Term(w) ==
    /\ "term" \in Env /\ pc[w] # "ended"
    /\ ~exit[w] \/ (pc[w] # "start" /\ ~shutdown[w])
    /\ exit' = [exit EXCEPT ![w] = TRUE]
    /\ shutdown' = [shutdown EXCEPT ![w] = pc[w] # "start"]
    /\ Interrupted(w) \/ (pc[w] \notin {"accept", "wait"} /\ UNCHANGED pc)
    /\ UNCHANGED <<sock, cur, late, clientVars>>

\* _updateLogLevel is a handler without SA_RESTART as well; accept is tried again,
\* but a request that is waited for is dropped.
UpdateLogLevel(w) ==
    /\ "logLevel" \in Env /\ pc[w] # "accept" /\ Interrupted(w)
    /\ UNCHANGED <<exit, shutdown, sock, cur, late, clientVars>>

-----------------------------------------------------------------------------
(* Clients (the web server in front).                                      *)

Connect(c) ==
    /\ conn[c] = "idle"
    /\ conn' = [conn EXCEPT ![c] = "queued"] /\ backlog' = Append(backlog, c)
    /\ \E s \in {"all"} \cup {x \in {"nothing"} : "slowClient" \in Env} :
            sent' = [sent EXCEPT ![c] = s]
    /\ \E l \in {FALSE} \cup {x \in {TRUE} : "longUri" \in Env} :
            long' = [long EXCEPT ![c] = l]
    /\ UNCHANGED workerVars

SendMore(c) ==
    /\ conn[c] \in {"queued", "held"} /\ sent[c] # "all"
    /\ sent' = [sent EXCEPT ![c] = IF @ = "nothing" THEN "part" ELSE "all"]
    /\ UNCHANGED <<workerVars, backlog, conn, long>>

Leave(c) ==
    /\ conn[c] \in {"answered", "dropped", "lost"}
    /\ conn' = [conn EXCEPT ![c] = "idle"]
    /\ UNCHANGED <<workerVars, backlog, sent, long>>

Next ==
    \/ \E w \in Workers : \/ WorkerStep(w) \/ Crash(w)
                          \/ ExitCall(w) \/ Term(w) \/ UpdateLogLevel(w)
    \/ \E c \in Clients : Connect(c) \/ SendMore(c) \/ Leave(c)

\* Workers are scheduled, query returns, and a client sends what it began to send.
Fairness ==
    /\ \A w \in Workers : WF_vars(WorkerStep(w))
    /\ \A c \in Clients : WF_vars(SendMore(c))

Spec == Init /\ [][Next]_vars /\ Fairness

-----------------------------------------------------------------------------
(* Properties.                                                             *)

\* The worker that has the connection has found it silent or is blocked in a read
\* on it: from here on a signal, or the close that is due, drops the request.
Waiting(c) == \E w \in Workers : cur[w] = c /\ pc[w] \in {"wait", "close"}

\* A request that has arrived before its worker waited for it is never thrown away
\* once its connection is accepted, nor does the worker begin to wait for it,
\* whatever signals come.  (One that is completed while the worker waits may still
\* be dropped: between the return of select or read and the close.)
CompleteRequestKept ==
    [][\A c \in Clients :
          conn[c] = "held" /\ sent[c] = "all" /\ ~Waiting(c) =>
              conn'[c] # "dropped" /\ ~Waiting(c)']_vars

\* A worker that got SIGTERM takes at most one more connection (the window in
\* OS_Accept), whatever becomes of that one.
LateAtMostOne == \A w \in Workers : late[w] <= 1

\* An accepted connection belongs to exactly one worker, and to one that has not
\* ended: nothing is left open when a worker ends, not even after the
\* continue of the 414 answer.
HeldByOne ==
    \A c \in Clients : conn[c] = "held" =>
        \E w \in Workers : /\ cur[w] = c /\ pc[w] # "ended"
                           /\ \A v \in Workers \ {w} : cur[v] # c

\* An accepted request that was there before its worker waited for it is answered,
\* 414 included.
HeldIsAnswered ==
    \A c \in Clients :
        conn[c] = "held" /\ sent[c] = "all" /\ ~Waiting(c) ~>
            conn[c] \in {"answered", "lost"}

\* A waiting connection is accepted as long as some worker goes on, even if
\* another one crashes (README.rst: "the following requests will not be affected").
QueueIsServed ==
    \A c \in Clients :
        conn[c] = "queued" ~> \/ conn[c] # "queued"
                              \/ \A w \in Workers : exit[w] \/ pc[w] = "ended"

\* A worker that was told to end ends, unless it was told where it cannot notice:
\* in accept, in the window before it, or by exit() after the test of the loop.
Unaware(w) == pc[w] \in {"enter", "accept"} \/ (pc[w] \in {"check", "close"} /\ ~shutdown[w])
ExitEnds == \A w \in Workers : exit[w] /\ ~Unaware(w) ~> pc[w] = "ended"
=============================================================================

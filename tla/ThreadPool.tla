----------------------------- MODULE ThreadPool -----------------------------
(***************************************************************************)
(* The server process of weborf: the main thread of listener.c, which      *)
(* accepts connections, puts them in the queue and starts or retires       *)
(* threads, and the worker threads of instance.c, which take a connection  *)
(* from the queue, serve it and close it.                                  *)
(*                                                                         *)
(* The queue is the abstract one of BoundedQueue, which SynQueue is proved *)
(* to implement.  thread_info (free, count, mutex) is shared: workers      *)
(* change it under its mutex in change_free_thread, main changes it under  *)
(* the mutex in init_threads but also reads it without the mutex.  main    *)
(* holds the mutex exactly while it is at "spawn" or "commit", so the      *)
(* mutex needs no variable of its own; a worker's critical section is one  *)
(* step that waits for main to leave those.                                *)
(*                                                                         *)
(* s1 and sock are set back to NoFd once their value is never read again;  *)
(* that keeps the state space small and loses nothing.                     *)
(*                                                                         *)
(* Time is abstracted: t_shape may find that it is too early at any call.  *)
(* SIGUSR1 runs its handler on the main thread, where Linux delivers a     *)
(* signal sent to the process.  External: accept, pthread_create and the   *)
(* memory allocator, which may fail at most MAXFAULTS times.               *)
(***************************************************************************)
EXTENDS Integers, Sequences, FiniteSets

CONSTANTS Threads,        \* identities for worker threads
          Fds,            \* descriptors accept can return
          TermOrder,      \* the value -1, put by t_shape
          NoFd,           \* no descriptor
          MAXTHREAD, INITIALTHREAD, LOWTHREAD, MAXFREETHREAD,
          AuthSocket,     \* weborf_conf.authsock is set: webdav writes allowed
          MAXFAULTS,      \* bound: failed thread creations and thread inits
          MAXSIGNALS      \* bound: SIGUSR1 deliveries

ASSUME ThreadsFinite == IsFiniteSet(Threads)
ASSUME Limits == /\ MAXTHREAD \in Nat /\ INITIALTHREAD \in Nat \ {0}
                 /\ LOWTHREAD \in Nat /\ MAXFREETHREAD \in Nat
                 /\ INITIALTHREAD < MAXTHREAD
ASSUME EnoughIdentities == Cardinality(Threads) >= MAXTHREAD - 1
ASSUME Bounds == MAXFAULTS \in Nat /\ MAXSIGNALS \in Nat /\ AuthSocket \in BOOLEAN
ASSUME Distinct == TermOrder \notin Fds /\ NoFd \notin Fds /\ NoFd # TermOrder

VARIABLES pc,         \* pc[t]: where worker t is in instance()
          sock,       \* sock[t]: what q_get stored for worker t
          fifo,       \* the queue
          mpc,        \* where main is
          s1,         \* main's s1
          want, left, \* argument of init_threads, creations still to do
          effective,  \* threads created so far by this init_threads
          free, count,\* thread_info
          open,       \* descriptors of connections open in the process
          armed,      \* init_signals was executed
          handling,   \* main is inside the SIGUSR1 handler
          faults, signals,
          status      \* "run", or how the process ended

wvars == <<pc, sock>>
spawnvars == <<want, left, effective>>
sigvars == <<armed, handling, signals>>
vars == <<pc, sock, fifo, mpc, s1, want, left, effective, free, count,
          open, armed, handling, faults, signals, status>>

Q == INSTANCE BoundedQueue
       WITH Values <- Fds \cup {TermOrder}, QSize <- MAXTHREAD + 1,
            NoValue <- NoFd, val <- sock, ret <- 0,
            calling <- {t \in Threads : pc[t] = "q_get"}

WorkerPCs == {"none", "init", "ready", "q_get", "got", "serve", "close", "release"}
MainPCs == {"q_init", "lock", "spawn", "commit", "signals", "poll", "shape",
            "order", "accept", "enqueue", "drop", "check", "topup"}

(* thread_info.mutex is held by main.                                      *)
Locked == mpc \in {"spawn", "commit"}

(* Main executes its own code: the process lives, no handler on top.       *)
MainRuns(p) == status = "run" /\ ~handling /\ mpc = p
WorkerRuns(t, p) == status = "run" /\ pc[t] = p

(* The process ends: its memory and its descriptors are gone.              *)
ProcessEnds(how) == /\ status' = how
                    /\ pc' = [t \in Threads |-> "none"]
                    /\ sock' = [t \in Threads |-> NoFd]
                    /\ fifo' = <<>>
                    /\ mpc' = "q_init" /\ s1' = NoFd
                    /\ want' = 0 /\ left' = 0 /\ effective' = 0
                    /\ free' = 0 /\ count' = 0
                    /\ open' = {}
                    /\ armed' = FALSE /\ handling' = FALSE

Fault == faults < MAXFAULTS /\ faults' = faults + 1

Init == /\ pc = [t \in Threads |-> "none"]
        /\ sock = [t \in Threads |-> NoFd]
        /\ fifo = <<>>
        /\ mpc = "q_init" /\ s1 = NoFd
        /\ want = INITIALTHREAD /\ left = 0 /\ effective = 0
        /\ free = 0 /\ count = 0
        /\ open = {}
        /\ armed = FALSE /\ handling = FALSE
        /\ faults = 0 /\ signals = 0
        /\ status = "run"
-----------------------------------------------------------------------------
(* Start of main: the queue is allocated, or the process ends with NOMEM.  *)
QInit == /\ MainRuns("q_init")
         /\ mpc' = "lock"
         /\ UNCHANGED <<wvars, fifo, s1, spawnvars, free, count, open, sigvars,
                        faults, status>>

QInitFails == /\ MainRuns("q_init")
              /\ Fault
              /\ ProcessEnds("nomem")
              /\ UNCHANGED signals

(* init_threads takes the mutex and tests the limit inside it.             *)
InitThreadsEnter == /\ MainRuns("lock")
                    /\ count + want < MAXTHREAD
                    /\ mpc' = "spawn" /\ left' = want /\ effective' = 0
                    /\ UNCHANGED <<wvars, fifo, s1, want, free, count, open,
                                   sigvars, faults, status>>

(* init_threads returns, to init_signals at the start and to poll later;   *)
(* its argument and locals are gone.                                       *)
ReturnFromInitThreads == /\ mpc' = IF armed THEN "poll" ELSE "signals"
                         /\ want' = 0 /\ left' = 0 /\ effective' = 0

InitThreadsRefuse == /\ MainRuns("lock")
                     /\ count + want >= MAXTHREAD
                     /\ ReturnFromInitThreads
                     /\ UNCHANGED <<wvars, fifo, s1, free, count, open,
                                    sigvars, faults, status>>

(* One turn of the pthread_create loop, the mutex being held.              *)
SpawnThread(t) == /\ MainRuns("spawn") /\ left > 0
                  /\ pc[t] = "none"
                  /\ pc' = [pc EXCEPT ![t] = "init"]
                  /\ left' = left - 1 /\ effective' = effective + 1
                  /\ UNCHANGED <<sock, fifo, mpc, s1, want, free, count, open,
                                 sigvars, faults, status>>

SpawnFails == /\ MainRuns("spawn") /\ left > 0
              /\ Fault
              /\ left' = left - 1
              /\ UNCHANGED <<wvars, fifo, mpc, s1, want, effective, free, count,
                             open, sigvars, status>>

SpawnLoopEnds == /\ MainRuns("spawn") /\ left = 0
                 /\ mpc' = "commit"
                 /\ UNCHANGED <<wvars, fifo, s1, spawnvars, free, count, open,
                                sigvars, faults, status>>

(* Counts the threads asked for instead of the ones created.               *)
CommitWanted == /\ MainRuns("commit")
                /\ count' = count + want
                /\ ReturnFromInitThreads
                /\ UNCHANGED <<wvars, fifo, s1, free, open, sigvars,
                               faults, status>>

(* thread_info.count += effective, unlock.                                 *)
Commit == /\ MainRuns("commit")
          /\ count' = count + effective
          /\ ReturnFromInitThreads
          /\ UNCHANGED <<wvars, fifo, s1, free, open, sigvars,
                         faults, status>>

InitSignals == /\ MainRuns("signals")
               /\ armed' = TRUE
               /\ mpc' = "poll"
               /\ UNCHANGED <<wvars, fifo, s1, spawnvars, free, count, open,
                              handling, signals, faults, status>>

(* poll returns: a connection or the timeout of THREADCONTROL seconds.     *)
Poll == /\ MainRuns("poll")
        /\ mpc' = "shape"
        /\ UNCHANGED <<wvars, fifo, s1, spawnvars, free, count, open, sigvars,
                       faults, status>>

(* t_shape: returns when it acted less than 10 seconds ago or when free is *)
(* low enough, otherwise goes on to q_put(&queue, -1).                     *)
ShapeSkips == /\ MainRuns("shape")
              /\ mpc' = "accept"
              /\ UNCHANGED <<wvars, fifo, s1, spawnvars, free, count, open,
                             sigvars, faults, status>>

ShapeDecides == /\ MainRuns("shape")
                /\ free > MAXFREETHREAD
                /\ mpc' = "order"
                /\ UNCHANGED <<wvars, fifo, s1, spawnvars, free, count, open,
                               sigvars, faults, status>>

(* q_put(&queue, -1), whose result nobody looks at.                        *)
Order == /\ MainRuns("order")
         /\ Q!Put(TermOrder) \/ Q!Reject
         /\ mpc' = "accept"
         /\ UNCHANGED <<wvars, s1, spawnvars, free, count, open, sigvars,
                        faults, status>>

(* accept on the non-blocking listening socket.                            *)
Accept(f) == /\ MainRuns("accept")
             /\ f \notin open
             /\ open' = open \cup {f}
             /\ s1' = f
             /\ mpc' = "enqueue"
             /\ UNCHANGED <<wvars, fifo, spawnvars, free, count, sigvars,
                            faults, status>>

AcceptNothing == /\ MainRuns("accept")
                 /\ s1' = NoFd
                 /\ mpc' = "check"
                 /\ UNCHANGED <<wvars, fifo, spawnvars, free, count, open,
                                sigvars, faults, status>>

(* q_put(&queue, s1): refused when the queue is full.                      *)
Enqueue == /\ MainRuns("enqueue")
           /\ Q!Put(s1)
           /\ mpc' = "check" /\ s1' = NoFd
           /\ UNCHANGED <<wvars, spawnvars, free, count, open, sigvars,
                          faults, status>>

EnqueueFull == /\ MainRuns("enqueue")
               /\ Q!Reject
               /\ mpc' = "drop"
               /\ UNCHANGED <<wvars, s1, spawnvars, free, count, open, sigvars,
                              faults, status>>

(* The refused socket is forgotten instead of closed.                      *)
DropForgets == /\ MainRuns("drop")
               /\ mpc' = "check" /\ s1' = NoFd
               /\ UNCHANGED <<wvars, fifo, spawnvars, free, count, open,
                              sigvars, faults, status>>

(* close(s1) of the refused connection.                                    *)
Drop == /\ MainRuns("drop")
        /\ open' = open \ {s1}
        /\ mpc' = "check" /\ s1' = NoFd
        /\ UNCHANGED <<wvars, fifo, spawnvars, free, count, sigvars,
                       faults, status>>

(* The test with < in both places.                                         *)
FewFreeStrict == free < LOWTHREAD /\ free < MAXTHREAD

(* thread_info.free <= LOWTHREAD && thread_info.free < MAXTHREAD, read     *)
(* without the mutex.                                                      *)
FewFree == free <= LOWTHREAD /\ free < MAXTHREAD

CheckEnough == /\ MainRuns("check")
               /\ ~FewFree
               /\ mpc' = "poll"
               /\ UNCHANGED <<wvars, fifo, s1, spawnvars, free, count, open,
                              sigvars, faults, status>>

(* A group of INITIALTHREAD threads still fits below the limit.            *)
CheckGroup == /\ MainRuns("check")
              /\ FewFree
              /\ count + INITIALTHREAD < MAXTHREAD
              /\ want' = INITIALTHREAD
              /\ mpc' = "lock"
              /\ UNCHANGED <<wvars, fifo, s1, left, effective, free, count, open,
                             sigvars, faults, status>>

CheckNearLimit == /\ MainRuns("check")
                  /\ FewFree
                  /\ count + INITIALTHREAD >= MAXTHREAD
                  /\ mpc' = "topup"
                  /\ UNCHANGED <<wvars, fifo, s1, spawnvars, free, count, open,
                                 sigvars, faults, status>>

(* count is read again, still without the mutex, for the argument.         *)
TopUp == /\ MainRuns("topup")
         /\ want' = MAXTHREAD - count
         /\ mpc' = "lock"
         /\ UNCHANGED <<wvars, fifo, s1, left, effective, free, count, open,
                        sigvars, faults, status>>
-----------------------------------------------------------------------------
(* instance(): buffers and magic token obtained.                           *)
WorkerInit(t) == /\ WorkerRuns(t, "init")
                 /\ pc' = [pc EXCEPT ![t] = "ready"]
                 /\ UNCHANGED <<sock, fifo, mpc, s1, spawnvars, free, count, open,
                                sigvars, faults, status>>

WorkerInitFails(t) == /\ WorkerRuns(t, "init")
                      /\ Fault
                      /\ pc' = [pc EXCEPT ![t] = "release"]
                      /\ UNCHANGED <<sock, fifo, mpc, s1, spawnvars, free, count,
                                     open, sigvars, status>>

(* When mime_init fails, read_b was never initialised and buffer_free      *)
(* frees whatever its memory holds: the allocator may end the process.     *)
WorkerInitAborts(t) == /\ WorkerRuns(t, "init")
                       /\ Fault
                       /\ ProcessEnds("abort")
                       /\ UNCHANGED signals

(* A worker that enters the queue without being counted as free.           *)
SetFreeForgotten(t) == /\ WorkerRuns(t, "ready") /\ ~Locked
                       /\ pc' = [pc EXCEPT ![t] = "q_get"]
                       /\ UNCHANGED <<sock, fifo, mpc, s1, spawnvars, free, count,
                                      open, sigvars, faults, status>>

(* change_free_thread(id, 1, 0), then q_get is called.                     *)
SetFree(t) == /\ WorkerRuns(t, "ready") /\ ~Locked
              /\ free' = free + 1
              /\ pc' = [pc EXCEPT ![t] = "q_get"]
              /\ UNCHANGED <<sock, fifo, mpc, s1, spawnvars, count, open, sigvars,
                             faults, status>>

(* q_get returns with a socket or a termination order.                     *)
QGet(t) == /\ WorkerRuns(t, "q_get")
           /\ pc' = [pc EXCEPT ![t] = "got"]
           /\ Q!Get(t)
           /\ UNCHANGED <<mpc, s1, spawnvars, free, count, open, sigvars,
                          faults, status>>

(* A thread that leaves on a termination order while still counted free.   *)
SetBusyOnlySockets(t) ==
  /\ WorkerRuns(t, "got") /\ ~Locked
  /\ free' = IF sock[t] = TermOrder THEN free ELSE free - 1
  /\ pc' = [pc EXCEPT ![t] = IF sock[t] = TermOrder THEN "release" ELSE "serve"]
  /\ UNCHANGED <<sock, fifo, mpc, s1, spawnvars, count, open, sigvars, faults,
                 status>>

(* change_free_thread(id, -1, 0), then the test sock < 0.                  *)
SetBusy(t) ==
  /\ WorkerRuns(t, "got") /\ ~Locked
  /\ free' = free - 1
  /\ pc' = [pc EXCEPT ![t] = IF sock[t] = TermOrder THEN "release" ELSE "serve"]
  /\ UNCHANGED <<sock, fifo, mpc, s1, spawnvars, count, open, sigvars, faults,
                 status>>

(* The TLS handshake and handle_requests return.                           *)
Serve(t) == /\ WorkerRuns(t, "serve")
            /\ pc' = [pc EXCEPT ![t] = "close"]
            /\ UNCHANGED <<sock, fifo, mpc, s1, spawnvars, free, count, open,
                           sigvars, faults, status>>

(* A deep PROPFIND on something that is not a directory: propfind itself   *)
(* closes the connection before handle_requests returns.                   *)
ServePropfindOfFile(t) ==
  /\ WorkerRuns(t, "serve") /\ AuthSocket
  /\ open' = open \ {sock[t]}
  /\ pc' = [pc EXCEPT ![t] = "close"]
  /\ UNCHANGED <<sock, fifo, mpc, s1, spawnvars, free, count, sigvars, faults,
                 status>>

(* close(sock), buffer_reset.                                              *)
CloseSock(t) == /\ WorkerRuns(t, "close")
                /\ open' = open \ {sock[t]}
                /\ pc' = [pc EXCEPT ![t] = "ready"]
                /\ sock' = [sock EXCEPT ![t] = NoFd]
                /\ UNCHANGED <<fifo, mpc, s1, spawnvars, free, count,
                               sigvars, faults, status>>

(* A thread that leaves without telling thread_info.                       *)
WorkerExitUncounted(t) == /\ WorkerRuns(t, "release") /\ ~Locked
                          /\ pc' = [pc EXCEPT ![t] = "none"]
                          /\ sock' = [sock EXCEPT ![t] = NoFd]
                          /\ UNCHANGED <<fifo, mpc, s1, spawnvars, free, count,
                                         open, sigvars, faults, status>>

(* release_resources: change_free_thread(id, 0, -1), pthread_exit.         *)
WorkerExit(t) == /\ WorkerRuns(t, "release") /\ ~Locked
                 /\ count' = count - 1
                 /\ pc' = [pc EXCEPT ![t] = "none"]
                 /\ sock' = [sock EXCEPT ![t] = NoFd]
                 /\ UNCHANGED <<fifo, mpc, s1, spawnvars, free, open,
                                sigvars, faults, status>>
-----------------------------------------------------------------------------
(* SIGINT and SIGTERM: quit() ends the process (before init_signals the    *)
(* default action does).                                                   *)
Quit == /\ status = "run"
        /\ ProcessEnds("quit")
        /\ UNCHANGED <<signals, faults>>

(* SIGUSR1 interrupts main; before init_signals it kills the process.      *)
SigUsr1 == /\ status = "run" /\ ~handling /\ armed
           /\ signals < MAXSIGNALS
           /\ signals' = signals + 1
           /\ handling' = TRUE
           /\ UNCHANGED <<wvars, fifo, mpc, s1, spawnvars, free, count, open,
                          armed, faults, status>>

SigUsr1Early == /\ status = "run" /\ ~armed
                /\ signals < MAXSIGNALS
                /\ signals' = signals + 1
                /\ ProcessEnds("killed")
                /\ UNCHANGED faults

(* print_queue_status locks thread_info.mutex, prints, and returns into    *)
(* the interrupted code; the mutex is not recursive.                       *)
HandlerReturns == /\ status = "run" /\ handling /\ ~Locked
                  /\ handling' = FALSE
                  /\ UNCHANGED <<wvars, fifo, mpc, s1, spawnvars, free, count,
                                 open, armed, signals, faults, status>>

(* ... or into a poll that was interrupted and fails with EINTR: exit(11). *)
HandlerBreaksPoll == /\ status = "run" /\ handling /\ mpc = "poll"
                     /\ ProcessEnds("pollerror")
                     /\ UNCHANGED <<signals, faults>>

Ended == status # "run" /\ UNCHANGED vars

Main == \/ QInit \/ QInitFails
        \/ InitThreadsEnter \/ InitThreadsRefuse
        \/ (\E t \in Threads : SpawnThread(t)) \/ SpawnFails \/ SpawnLoopEnds
        \/ Commit \/ InitSignals
        \/ Poll \/ ShapeSkips \/ ShapeDecides \/ Order
        \/ (\E f \in Fds : Accept(f)) \/ AcceptNothing
        \/ Enqueue \/ EnqueueFull \/ Drop
        \/ CheckEnough \/ CheckGroup \/ CheckNearLimit \/ TopUp

Worker(t) == \/ WorkerInit(t) \/ WorkerInitFails(t) \/ WorkerInitAborts(t)
             \/ SetFree(t) \/ QGet(t) \/ SetBusy(t)
             \/ Serve(t) \/ ServePropfindOfFile(t) \/ CloseSock(t)
             \/ WorkerExit(t)

Next == \/ Main
        \/ \E t \in Threads : Worker(t)
        \/ Quit \/ SigUsr1 \/ SigUsr1Early \/ HandlerReturns \/ HandlerBreaksPoll
        \/ Ended

Spec == Init /\ [][Next]_vars

(* main and every worker go on with what they can do; a worker waiting for *)
(* the mutex gets it if it is free again and again; q_get delivers         *)
(* (BoundedQueue!Delivers); a handler that can finish finishes.  Serve is  *)
(* in here: that handle_requests returns is an assumption of this module.  *)
Fairness ==
  /\ WF_vars(Main) /\ WF_vars(HandlerReturns)
  /\ WF_vars(\E t \in Threads : QGet(t))
  /\ \A t \in Threads :
       /\ WF_vars(WorkerInit(t)) /\ WF_vars(Serve(t)) /\ WF_vars(CloseSock(t))
       /\ SF_vars(SetFree(t)) /\ SF_vars(SetBusy(t)) /\ SF_vars(WorkerExit(t))

FairSpec == Spec /\ Fairness
-----------------------------------------------------------------------------
Live == {t \in Threads : pc[t] # "none"}
Idle == {t \in Threads : pc[t] \in {"q_get", "got"}}

(* Types; also no unsigned counter ever goes below zero.                   *)
PoolTypeOK ==
  /\ pc \in [Threads -> WorkerPCs]
  /\ sock \in [Threads -> Fds \cup {TermOrder, NoFd}]
  /\ fifo \in Seq(Fds \cup {TermOrder}) /\ Len(fifo) <= MAXTHREAD + 1
  /\ mpc \in MainPCs
  /\ s1 \in IF mpc \in {"enqueue", "drop"} THEN Fds ELSE {NoFd}
  /\ want \in Nat /\ left \in Nat /\ effective \in Nat
  /\ free \in Nat /\ count \in Nat
  /\ open \subseteq Fds
  /\ armed \in BOOLEAN /\ handling \in BOOLEAN
  /\ faults \in 0 .. MAXFAULTS /\ signals \in 0 .. MAXSIGNALS
  /\ status \in {"run", "quit", "killed", "pollerror", "nomem", "abort"}

(* thread_info.free, changed by every worker and read by main without the  *)
(* lock, is the number of threads that ask for work: main neither starts   *)
(* threads nobody needs nor orders busy ones to leave.                     *)
FreeExact == free = Cardinality(Idle)

(* thread_info.count agrees with the threads that exist even while some    *)
(* are being created, fail to start, or leave; and with the creations main *)
(* is still going to make there are never MAXTHREAD of them, although main *)
(* computed how many to start without the lock.                            *)
Started == IF Locked THEN effective ELSE 0
Promised == IF Locked THEN effective + left ELSE 0

CountExact == /\ count + Started = Cardinality(Live)
              /\ count + Promised < MAXTHREAD

(* Who answers for closing descriptor f: main between accept and q_put,    *)
(* the queue, or the worker that took it.                                  *)
InHand(f) == s1 = f /\ mpc \in {"enqueue", "drop"}
Queued(f) == {i \in DOMAIN fifo : fifo[i] = f}
Holders(f) == {t \in Threads : sock[t] = f /\ pc[t] \in {"got", "serve", "close"}}

(* Every open connection has exactly one owner, and nobody owns a closed   *)
(* descriptor, which the kernel may give to another connection: nothing is *)
(* served twice, leaked, or closed under somebody else.                    *)
SocketOwnedOnce ==
  \A f \in Fds : Cardinality(Holders(f)) + Cardinality(Queued(f))
                   + (IF InHand(f) THEN 1 ELSE 0) = IF f \in open THEN 1 ELSE 0

(* Every accepted connection is closed in the end, whatever the pool does  *)
(* meanwhile: retiring threads, failing to start some, refusing sockets.   *)
ConnectionsEnd == \A f \in Fds : f \in open ~> (f \notin open \/ status # "run")

(* However many termination orders are obeyed and threads fail to start,   *)
(* the pool never stays without a thread.                                  *)
PoolRecovers == []<>(Live # {} \/ status # "run")

(* SIGUSR1 "prints the internal status": it does not end the server.       *)
StatusSignalHarmless == status # "pollerror"
=============================================================================

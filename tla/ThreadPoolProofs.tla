-------------------------- MODULE ThreadPoolProofs --------------------------
(***************************************************************************)
(* The accounting of threads in thread_info is exact, the limit on the     *)
(* number of threads is kept, and every connection has one owner, for      *)
(* every number of threads, connections, faults and signals and every      *)
(* value of the limits in options.h.  The second part is about the queue   *)
(* through which the threads of the pool get their work.                   *)
(***************************************************************************)
EXTENDS ThreadPool, SynQueue, FiniteSetTheorems, TLAPS

(* The inductive invariant: no part is inductive alone.  The counters stay *)
(* natural because they count threads; they count threads because nobody   *)
(* changes them while main holds the mutex; and the limit holds because    *)
(* count cannot grow between main's test under the mutex and its commit.   *)
PoolInv == PoolTypeOK /\ FreeExact /\ CountExact

(* The sets of threads that exist and that ask for work can be counted.    *)
LEMMA LiveFinite ==
  /\ IsFiniteSet(Live) /\ Cardinality(Live) \in Nat
  /\ IsFiniteSet(Idle) /\ Cardinality(Idle) \in Nat
<1>1. Live \subseteq Threads /\ Idle \subseteq Threads  BY DEF Live, Idle
<1>2. IsFiniteSet(Live) /\ IsFiniteSet(Idle)
  BY <1>1, ThreadsFinite, FS_Subset
<1> QED  BY <1>2, FS_CardinalityType

(* What moving one worker does to the two sets that thread_info counts.    *)
LEMMA MoveWorker ==
  ASSUME PoolTypeOK, NEW t \in Threads, NEW p \in WorkerPCs,
         pc' = [pc EXCEPT ![t] = p]
  PROVE  /\ p # "none" /\ pc[t] # "none" => Live' = Live
         /\ p # "none" /\ pc[t] = "none" =>
              Cardinality(Live') = Cardinality(Live) + 1
         /\ p = "none" /\ pc[t] # "none" =>
              Cardinality(Live') = Cardinality(Live) - 1
         /\ (pc[t] \in {"q_get", "got"} <=> p \in {"q_get", "got"}) => Idle' = Idle
         /\ pc[t] \notin {"q_get", "got"} /\ p \in {"q_get", "got"} =>
              Cardinality(Idle') = Cardinality(Idle) + 1
         /\ pc[t] \in {"q_get", "got"} /\ p \notin {"q_get", "got"} =>
              Cardinality(Idle') = Cardinality(Idle) - 1
<1>0. pc'[t] = p /\ \A u \in Threads \ {t} : pc'[u] = pc[u]
  BY DEF PoolTypeOK
<1>1. p # "none" /\ pc[t] # "none" => Live' = Live
  BY <1>0 DEF Live
<1>2. p # "none" /\ pc[t] = "none" => Live' = Live \cup {t} /\ t \notin Live
  BY <1>0 DEF Live
<1>3. p = "none" /\ pc[t] # "none" => Live' = Live \ {t} /\ t \in Live
  BY <1>0 DEF Live
<1>4. (pc[t] \in {"q_get", "got"} <=> p \in {"q_get", "got"}) => Idle' = Idle
  BY <1>0 DEF Idle
<1>5. pc[t] \notin {"q_get", "got"} /\ p \in {"q_get", "got"} =>
        Idle' = Idle \cup {t} /\ t \notin Idle
  BY <1>0 DEF Idle
<1>6. pc[t] \in {"q_get", "got"} /\ p \notin {"q_get", "got"} =>
        Idle' = Idle \ {t} /\ t \in Idle
  BY <1>0 DEF Idle
<1>7. /\ t \notin Live => Cardinality(Live \cup {t}) = Cardinality(Live) + 1
      /\ t \in Live => Cardinality(Live \ {t}) = Cardinality(Live) - 1
      /\ t \notin Idle => Cardinality(Idle \cup {t}) = Cardinality(Idle) + 1
      /\ t \in Idle => Cardinality(Idle \ {t}) = Cardinality(Idle) - 1
  BY LiveFinite, FS_AddElement, FS_RemoveElement
<1> QED  BY <1>1, <1>2, <1>3, <1>4, <1>5, <1>6, <1>7

(* A thread that exists is counted, and so is one that is idle.            *)
LEMMA CountedThread ==
  ASSUME NEW t \in Threads
  PROVE  /\ pc[t] # "none" => Cardinality(Live) >= 1
         /\ pc[t] \in {"q_get", "got"} => Cardinality(Idle) >= 1
<1>1. pc[t] # "none" => Live # {}  BY DEF Live
<1>2. pc[t] \in {"q_get", "got"} => Idle # {}  BY DEF Idle
<1>3. /\ Live # {} => Cardinality(Live) # 0
      /\ Idle # {} => Cardinality(Idle) # 0
  BY LiveFinite, FS_EmptySet
<1> QED  BY <1>1, <1>2, <1>3, LiveFinite

(* Steps that move no worker, change no counter and leave the mutex alone  *)
(* keep the accounting.                                                    *)
LEMMA QuietStep ==
  ASSUME PoolInv, UNCHANGED <<pc, free, count>>, ~Locked, ~Locked'
  PROVE  FreeExact' /\ CountExact'
BY DEF PoolInv, FreeExact, CountExact, Live, Idle, Started, Promised

(* The queue holds descriptors and orders, at most MAXTHREAD + 1.          *)
FifoTyped == fifo \in Seq(Fds \cup {TermOrder}) /\ Len(fifo) <= MAXTHREAD + 1

(* q_put keeps the queue a bounded sequence of sockets and orders.         *)
LEMMA PutTyped ==
  ASSUME FifoTyped, NEW v \in Fds \cup {TermOrder}, Q!Put(v) \/ Q!Reject
  PROVE  FifoTyped'
<1>1. CASE Q!Put(v)
  <2>1. fifo' = Append(fifo, v) /\ Len(fifo) < MAXTHREAD + 1  BY <1>1 DEF Q!Put
  <2> QED  BY <2>1, Limits DEF FifoTyped
<1>2. CASE Q!Reject  BY <1>2 DEF Q!Reject, FifoTyped
<1> QED  BY <1>1, <1>2

(* So does q_get, and what it hands out is a socket or an order.           *)
LEMMA GetTyped ==
  ASSUME FifoTyped, NEW t \in Threads, Q!Get(t)
  PROVE  FifoTyped' /\ Head(fifo) \in Fds \cup {TermOrder}
<1>1. fifo # <<>> /\ fifo' = Tail(fifo)  BY DEF Q!Get
<1> QED  BY <1>1, Limits DEF FifoTyped
-----------------------------------------------------------------------------
(* The accounting holds when the process starts.                           *)
LEMMA PoolInit == Init => PoolInv
<1> SUFFICES ASSUME Init PROVE PoolInv  OBVIOUS
<1>1. Live = {} /\ Idle = {} /\ ~Locked
  BY DEF Init, Live, Idle, Locked
<1>2. Cardinality({}) = 0  BY FS_EmptySet
<1>3. fifo \in Seq(Fds \cup {TermOrder}) /\ Len(fifo) <= MAXTHREAD + 1
  BY Limits DEF Init
<1>4. pc \in [Threads -> WorkerPCs] /\ sock \in [Threads -> Fds \cup {TermOrder, NoFd}]
  BY DEF Init, WorkerPCs
<1>5. armed \in BOOLEAN /\ handling \in BOOLEAN  BY DEF Init
<1>6. /\ mpc = "q_init" /\ s1 = NoFd /\ want \in Nat /\ left \in Nat
      /\ effective \in Nat /\ free \in Nat /\ count \in Nat /\ open \subseteq Fds
      /\ faults \in 0 .. MAXFAULTS /\ signals \in 0 .. MAXSIGNALS /\ status = "run"
  BY Limits, Bounds DEF Init
<1>7. PoolTypeOK
  BY <1>3, <1>4, <1>5, <1>6 DEF PoolTypeOK, MainPCs
<1> QED  BY <1>1, <1>2, <1>7, Limits
         DEF Init, PoolInv, FreeExact, CountExact, Started, Promised

(* The process ends: everything it counted is gone.                        *)
LEMMA EndKeepsInv ==
  ASSUME PoolInv, NEW how \in {"quit", "killed", "pollerror", "nomem", "abort"},
         ProcessEnds(how),
         faults' \in 0 .. MAXFAULTS, signals' \in 0 .. MAXSIGNALS
  PROVE  PoolInv'
<1>1. Live' = {} /\ Idle' = {} /\ ~Locked'
  BY DEF ProcessEnds, Live, Idle, Locked
<1>2. Cardinality({}) = 0  BY FS_EmptySet
<1>3. fifo' \in Seq(Fds \cup {TermOrder}) /\ Len(fifo') <= MAXTHREAD + 1
  BY Limits DEF ProcessEnds
<1>4. pc' \in [Threads -> WorkerPCs] /\ sock' \in [Threads -> Fds \cup {TermOrder, NoFd}]
  BY DEF ProcessEnds, WorkerPCs
<1>5. PoolTypeOK'
  BY <1>3, <1>4, Limits, Bounds DEF ProcessEnds, PoolTypeOK, MainPCs
<1> QED  BY <1>1, <1>2, <1>5, Limits
         DEF ProcessEnds, PoolInv, FreeExact, CountExact, Started, Promised

(* The steps of main outside init_threads.                                 *)
LEMMA MainLoopKeepsInv ==
  ASSUME PoolInv,
         \/ QInit \/ InitSignals \/ Poll \/ ShapeSkips \/ ShapeDecides \/ Order
         \/ (\E f \in Fds : Accept(f)) \/ AcceptNothing \/ Enqueue \/ EnqueueFull
         \/ Drop \/ CheckEnough \/ CheckGroup \/ CheckNearLimit \/ TopUp
         \/ InitThreadsRefuse
  PROVE  PoolInv'
<1> USE DEF MainRuns
<1>t. PoolTypeOK  BY DEF PoolInv
<1>f. FifoTyped  BY <1>t DEF PoolTypeOK, FifoTyped
<1>c. ~Locked => count < MAXTHREAD  BY DEF PoolInv, CountExact, Promised, PoolTypeOK
<1>1. CASE QInit \/ Poll \/ ShapeSkips \/ ShapeDecides
  <2>1. UNCHANGED <<pc, free, count>> /\ ~Locked /\ ~Locked'
    BY <1>1 DEF QInit, Poll, ShapeSkips, ShapeDecides, Locked, wvars
  <2>2. PoolTypeOK'
    BY <1>1, <1>t DEF QInit, Poll, ShapeSkips, ShapeDecides,
       PoolTypeOK, MainPCs, wvars, spawnvars, sigvars
  <2> QED  BY <2>1, <2>2, QuietStep DEF PoolInv
<1>7. CASE InitSignals
  <2>1. UNCHANGED <<pc, free, count>> /\ ~Locked /\ ~Locked'
    BY <1>7 DEF InitSignals, Locked, wvars
  <2>2. armed' \in BOOLEAN  BY <1>7 DEF InitSignals
  <2>3. /\ mpc = "signals" /\ mpc' = "poll"
        /\ UNCHANGED <<pc, sock, fifo, s1, want, left, effective, free, count, open,
                       handling, signals, faults, status>>
    BY <1>7 DEF InitSignals, wvars, spawnvars
  <2>4. PoolTypeOK'
    BY <1>t, <2>2, <2>3 DEF PoolTypeOK, MainPCs
  <2> QED  BY <2>1, <2>4, QuietStep DEF PoolInv
<1>2. CASE Order
  <2>1. UNCHANGED <<pc, free, count>> /\ ~Locked /\ ~Locked'
    BY <1>2 DEF Order, Locked, wvars
  <2>2. FifoTyped'  BY <1>2, <1>f, PutTyped DEF Order
  <2>3. PoolTypeOK'
    BY <1>2, <1>t, <2>2 DEF Order, PoolTypeOK, FifoTyped, MainPCs, wvars, spawnvars,
       sigvars
  <2> QED  BY <2>1, <2>3, QuietStep DEF PoolInv
<1>3. ASSUME NEW f \in Fds, Accept(f) PROVE PoolInv'
  <2>1. UNCHANGED <<pc, free, count>> /\ ~Locked /\ ~Locked'
    BY <1>3 DEF Accept, Locked, wvars
  <2>2. PoolTypeOK'
    BY <1>3, <1>t DEF Accept, PoolTypeOK, MainPCs, wvars, spawnvars, sigvars
  <2> QED  BY <2>1, <2>2, QuietStep DEF PoolInv
<1>4. CASE AcceptNothing \/ Drop \/ CheckEnough \/ CheckNearLimit
  <2>1. UNCHANGED <<pc, free, count>> /\ ~Locked /\ ~Locked'
    BY <1>4 DEF AcceptNothing, Drop, CheckEnough, CheckNearLimit, Locked, wvars
  <2>2. PoolTypeOK'
    BY <1>4, <1>t DEF AcceptNothing, Drop, CheckEnough, CheckNearLimit,
       PoolTypeOK, MainPCs, wvars, spawnvars, sigvars
  <2> QED  BY <2>1, <2>2, QuietStep DEF PoolInv
<1>5. CASE Enqueue \/ EnqueueFull
  <2>1. UNCHANGED <<pc, free, count>> /\ ~Locked /\ ~Locked'
    BY <1>5 DEF Enqueue, EnqueueFull, Locked, wvars
  <2>2. s1 \in Fds  BY <1>5, <1>t DEF Enqueue, EnqueueFull, PoolTypeOK
  <2>3. FifoTyped'
    BY <1>5, <1>f, <2>2, PutTyped DEF Enqueue, EnqueueFull
  <2>4. PoolTypeOK'
    BY <1>5, <1>t, <2>2, <2>3 DEF Enqueue, EnqueueFull, PoolTypeOK, FifoTyped,
       MainPCs, wvars, spawnvars, sigvars
  <2> QED  BY <2>1, <2>4, QuietStep DEF PoolInv
<1>6. CASE CheckGroup \/ TopUp \/ InitThreadsRefuse
  <2>1. UNCHANGED <<pc, free, count>> /\ ~Locked /\ ~Locked'
    BY <1>6 DEF CheckGroup, TopUp, InitThreadsRefuse, ReturnFromInitThreads, Locked,
       wvars
  <2>2. want' \in Nat
    BY <1>6, <1>t, <1>c, <2>1, Limits
    DEF CheckGroup, TopUp, InitThreadsRefuse, ReturnFromInitThreads, PoolTypeOK
  <2>3. PoolTypeOK'
    BY <1>6, <1>t, <2>2 DEF CheckGroup, TopUp, InitThreadsRefuse,
       ReturnFromInitThreads, PoolTypeOK, MainPCs, wvars, spawnvars, sigvars
  <2> QED  BY <2>1, <2>3, QuietStep DEF PoolInv
<1> QED  BY <1>1, <1>2, <1>3, <1>4, <1>5, <1>6, <1>7

(* init_threads: main holds the mutex from its test to its commit.         *)
LEMMA InitThreadsKeepsInv ==
  ASSUME PoolInv,
         \/ InitThreadsEnter \/ (\E t \in Threads : SpawnThread(t)) \/ SpawnFails
         \/ SpawnLoopEnds \/ Commit
  PROVE  PoolInv'
<1> USE DEF MainRuns
<1>t. PoolTypeOK /\ FreeExact /\ CountExact  BY DEF PoolInv
<1>c. Cardinality(Live) \in Nat  BY LiveFinite
<1>1. CASE InitThreadsEnter
  <2>1. PoolTypeOK'
    BY <1>1, <1>t DEF InitThreadsEnter, PoolTypeOK, MainPCs, wvars, sigvars
  <2>2. Live' = Live /\ Idle' = Idle /\ ~Locked /\ Locked'
    BY <1>1 DEF InitThreadsEnter, Live, Idle, Locked, wvars
  <2> QED  BY <1>1, <1>t, <1>c, <2>1, <2>2
           DEF InitThreadsEnter, PoolInv, FreeExact, CountExact, Started, Promised,
               PoolTypeOK
<1>2. ASSUME NEW t \in Threads, SpawnThread(t) PROVE PoolInv'
  <2>1. PoolTypeOK'
    BY <1>2, <1>t DEF SpawnThread, PoolTypeOK, WorkerPCs, MainPCs, sigvars
  <2>2. "init" \in WorkerPCs /\ pc' = [pc EXCEPT ![t] = "init"] /\ pc[t] = "none"
    BY <1>2 DEF SpawnThread, WorkerPCs
  <2>3. Cardinality(Live') = Cardinality(Live) + 1 /\ Idle' = Idle
    BY <2>2, <1>t, MoveWorker
  <2>4. Locked /\ Locked'  BY <1>2 DEF SpawnThread, Locked
  <2>5. /\ left \in Nat /\ effective \in Nat /\ count \in Nat /\ count' = count
        /\ left' = left - 1 /\ effective' = effective + 1 /\ free' = free
    BY <1>2, <1>t DEF SpawnThread, PoolTypeOK
  <2>6. FreeExact'  BY <1>t, <2>3, <2>5 DEF FreeExact
  <2>7. CountExact'
    BY <1>t, <1>c, <2>3, <2>4, <2>5, Limits DEF CountExact, Started, Promised
  <2> QED  BY <2>1, <2>6, <2>7 DEF PoolInv
<1>3. CASE SpawnFails \/ SpawnLoopEnds
  <2>a. faults' \in 0 .. MAXFAULTS /\ left' \in Nat
    BY <1>3, <1>t, Bounds DEF SpawnFails, SpawnLoopEnds, Fault, PoolTypeOK, spawnvars
  <2>b. /\ mpc = "spawn" /\ mpc' \in {"spawn", "commit"}
        /\ UNCHANGED <<pc, sock, fifo, s1, want, effective, free, count, open, armed,
                       handling, signals, status>>
    BY <1>3 DEF SpawnFails, SpawnLoopEnds, wvars, spawnvars, sigvars
  <2>1. PoolTypeOK'
    BY <1>t, <2>a, <2>b DEF PoolTypeOK, MainPCs
  <2>2. Live' = Live /\ Idle' = Idle /\ Locked /\ Locked'
    BY <1>3 DEF SpawnFails, SpawnLoopEnds, Live, Idle, Locked, wvars
  <2>3. /\ left \in Nat /\ effective \in Nat /\ count \in Nat /\ count' = count
        /\ (left' = left \/ left' = left - 1) /\ effective' = effective /\ free' = free
    BY <1>3, <1>t DEF SpawnFails, SpawnLoopEnds, PoolTypeOK, spawnvars
  <2>4. FreeExact'  BY <1>t, <2>2, <2>3 DEF FreeExact
  <2>5. CountExact'
    <3>1. count + effective = Cardinality(Live) /\ count + (effective + left) < MAXTHREAD
      BY <1>t, <2>2 DEF CountExact, Started, Promised
    <3>2. count' + effective' = Cardinality(Live')
      BY <3>1, <2>2, <2>3
    <3>3. count' + (effective' + left') < MAXTHREAD
      BY <3>1, <2>3, Limits
    <3> QED  BY <3>2, <3>3, <2>2 DEF CountExact, Started, Promised
  <2> QED  BY <2>1, <2>4, <2>5 DEF PoolInv
<1>4. CASE Commit
  <2>1. PoolTypeOK'
    BY <1>4, <1>t DEF Commit, ReturnFromInitThreads, PoolTypeOK, MainPCs, wvars,
       sigvars
  <2>2. Live' = Live /\ Idle' = Idle /\ Locked /\ ~Locked'
    BY <1>4 DEF Commit, ReturnFromInitThreads, Live, Idle, Locked, wvars
  <2>3. /\ left \in Nat /\ effective \in Nat /\ count \in Nat
        /\ count' = count + effective /\ free' = free
    BY <1>4, <1>t DEF Commit, PoolTypeOK
  <2>4. FreeExact'  BY <1>t, <2>2, <2>3 DEF FreeExact
  <2>5. CountExact'
    <3>1. count + effective = Cardinality(Live) /\ count + (effective + left) < MAXTHREAD
      BY <1>t, <2>2 DEF CountExact, Started, Promised
    <3>2. count' + 0 = Cardinality(Live') /\ count' + 0 < MAXTHREAD
      BY <3>1, <2>2, <2>3, Limits
    <3> QED  BY <3>2, <2>2 DEF CountExact, Started, Promised
  <2> QED  BY <2>1, <2>4, <2>5 DEF PoolInv
<1> QED  BY <1>1, <1>2, <1>3, <1>4

(* The steps of a worker, which take the mutex for each change of free or  *)
(* count.                                                                  *)
LEMMA WorkerKeepsInv ==
  ASSUME PoolInv, NEW t \in Threads,
         \/ WorkerInit(t) \/ WorkerInitFails(t) \/ SetFree(t) \/ QGet(t)
         \/ SetBusy(t) \/ Serve(t) \/ ServePropfindOfFile(t) \/ CloseSock(t)
         \/ WorkerExit(t)
  PROVE  PoolInv'
<1> USE DEF WorkerRuns
<1>t. PoolTypeOK /\ FreeExact /\ CountExact  BY DEF PoolInv
<1>c. Cardinality(Live) \in Nat /\ Cardinality(Idle) \in Nat  BY LiveFinite
<1>p. "ready" \in WorkerPCs /\ "release" \in WorkerPCs /\ "q_get" \in WorkerPCs
      /\ "got" \in WorkerPCs /\ "serve" \in WorkerPCs /\ "close" \in WorkerPCs
      /\ "none" \in WorkerPCs
  BY DEF WorkerPCs
<1>s. ASSUME Live' = Live, Idle' = Idle, PoolTypeOK',
             UNCHANGED <<mpc, spawnvars, free, count>>
      PROVE  PoolInv'
  BY <1>s, <1>t DEF PoolInv, FreeExact, CountExact, Started, Promised, Locked, spawnvars
<1>1. CASE WorkerInit(t) \/ WorkerInitFails(t)
  <2>a. faults' \in 0 .. MAXFAULTS
    BY <1>1, <1>t, Bounds DEF WorkerInit, WorkerInitFails, Fault, PoolTypeOK
  <2>b. /\ pc' \in [Threads -> WorkerPCs]
        /\ UNCHANGED <<sock, fifo, mpc, s1, want, left, effective, free, count, open,
                       armed, handling, signals, status>>
    BY <1>1, <1>t, <1>p DEF WorkerInit, WorkerInitFails, PoolTypeOK, spawnvars, sigvars
  <2>1. PoolTypeOK'
    BY <1>t, <2>a, <2>b DEF PoolTypeOK
  <2>2. Live' = Live /\ Idle' = Idle
    BY <1>1, <1>t, <1>p, MoveWorker DEF WorkerInit, WorkerInitFails
  <2> QED  BY <1>1, <1>s, <2>1, <2>2 DEF WorkerInit, WorkerInitFails
<1>2. CASE SetFree(t)
  <2>1. PoolTypeOK'
    BY <1>2, <1>t, <1>p DEF SetFree, PoolTypeOK, spawnvars, sigvars
  <2>2. Live' = Live /\ Cardinality(Idle') = Cardinality(Idle) + 1
    BY <1>2, <1>t, <1>p, MoveWorker DEF SetFree
  <2> QED  BY <1>2, <1>t, <1>c, <2>1, <2>2
           DEF SetFree, PoolInv, FreeExact, CountExact, Started, Promised, Locked,
               spawnvars
<1>3. CASE QGet(t)
  <2>0. FifoTyped  BY <1>t DEF PoolTypeOK, FifoTyped
  <2>1. FifoTyped' /\ Head(fifo) \in Fds \cup {TermOrder}
    BY <1>3, <2>0, GetTyped DEF QGet
  <2>2. sock' = [sock EXCEPT ![t] = Head(fifo)]  BY <1>3 DEF QGet, Q!Get
  <2>3. PoolTypeOK'
    BY <1>3, <1>t, <1>p, <2>1, <2>2 DEF QGet, PoolTypeOK, FifoTyped, spawnvars, sigvars
  <2>4. Live' = Live /\ Idle' = Idle
    BY <1>3, <1>t, <1>p, MoveWorker DEF QGet
  <2> QED  BY <1>3, <1>s, <2>3, <2>4 DEF QGet
<1>4. CASE SetBusy(t)
  <2>0. free \in Nat /\ free >= 1
    BY <1>4, <1>t, CountedThread DEF SetBusy, FreeExact, PoolTypeOK
  <2>1. PoolTypeOK'
    BY <1>4, <1>t, <1>p, <2>0 DEF SetBusy, PoolTypeOK, spawnvars, sigvars
  <2>2. Live' = Live /\ Cardinality(Idle') = Cardinality(Idle) - 1
    <3>1. PICK p \in {"release", "serve"} : pc' = [pc EXCEPT ![t] = p]
      BY <1>4 DEF SetBusy
    <3> QED  BY <3>1, <1>4, <1>t, <1>p, MoveWorker DEF SetBusy
  <2> QED  BY <1>4, <1>t, <1>c, <2>1, <2>2
           DEF SetBusy, PoolInv, FreeExact, CountExact, Started, Promised, Locked,
               spawnvars
<1>5. CASE Serve(t) \/ ServePropfindOfFile(t)
  <2>1. PoolTypeOK'
    BY <1>5, <1>t, <1>p DEF Serve, ServePropfindOfFile, PoolTypeOK, spawnvars, sigvars
  <2>2. Live' = Live /\ Idle' = Idle
    BY <1>5, <1>t, <1>p, MoveWorker DEF Serve, ServePropfindOfFile
  <2> QED  BY <1>5, <1>s, <2>1, <2>2 DEF Serve, ServePropfindOfFile
<1>6. CASE CloseSock(t)
  <2>1. PoolTypeOK'
    BY <1>6, <1>t, <1>p DEF CloseSock, PoolTypeOK, spawnvars, sigvars
  <2>2. Live' = Live /\ Idle' = Idle
    BY <1>6, <1>t, <1>p, MoveWorker DEF CloseSock
  <2> QED  BY <1>6, <1>s, <2>1, <2>2 DEF CloseSock
<1>7. CASE WorkerExit(t)
  <2>0. count \in Nat /\ count >= 1
    BY <1>7, <1>t, <1>c, CountedThread DEF WorkerExit, CountExact, Started, PoolTypeOK
  <2>1. PoolTypeOK'
    BY <1>7, <1>t, <1>p, <2>0 DEF WorkerExit, PoolTypeOK, spawnvars, sigvars
  <2>2. Cardinality(Live') = Cardinality(Live) - 1 /\ Idle' = Idle
    BY <1>7, <1>t, <1>p, MoveWorker DEF WorkerExit
  <2>3. ~Locked /\ ~Locked'  BY <1>7 DEF WorkerExit, Locked
  <2> QED  BY <1>7, <1>t, <1>c, <2>0, <2>1, <2>2, <2>3, Limits
           DEF WorkerExit, PoolInv, FreeExact, CountExact, Started, Promised
<1> QED  BY <1>1, <1>2, <1>3, <1>4, <1>5, <1>6, <1>7

(* Signals and the end of the process.                                     *)
LEMMA SignalsKeepInv ==
  ASSUME PoolInv,
         \/ QInitFails \/ (\E t \in Threads : WorkerInitAborts(t)) \/ Quit
         \/ SigUsr1 \/ SigUsr1Early \/ HandlerReturns \/ HandlerBreaksPoll
  PROVE  PoolInv'
<1>t. PoolTypeOK /\ FreeExact /\ CountExact  BY DEF PoolInv
<1>1. CASE QInitFails
  BY <1>1, <1>t, Bounds, EndKeepsInv DEF QInitFails, Fault, PoolTypeOK
<1>2. ASSUME NEW t \in Threads, WorkerInitAborts(t) PROVE PoolInv'
  BY <1>2, <1>t, Bounds, EndKeepsInv DEF WorkerInitAborts, Fault, PoolTypeOK
<1>3. CASE Quit
  BY <1>3, <1>t, EndKeepsInv DEF Quit, PoolTypeOK
<1>4. CASE SigUsr1Early
  BY <1>4, <1>t, Bounds, EndKeepsInv DEF SigUsr1Early, PoolTypeOK
<1>5. CASE HandlerBreaksPoll
  BY <1>5, <1>t, EndKeepsInv DEF HandlerBreaksPoll, PoolTypeOK
<1>6. CASE SigUsr1 \/ HandlerReturns
  <2>0. handling' \in BOOLEAN  BY <1>6 DEF SigUsr1, HandlerReturns
  <2>a. signals' \in 0 .. MAXSIGNALS
    BY <1>6, <1>t, Bounds DEF SigUsr1, HandlerReturns, PoolTypeOK
  <2>b. UNCHANGED <<pc, sock, fifo, mpc, s1, want, left, effective, free, count, open,
                    armed, faults, status>>
    BY <1>6 DEF SigUsr1, HandlerReturns, wvars, spawnvars
  <2>1. PoolTypeOK'
    BY <1>t, <2>0, <2>a, <2>b DEF PoolTypeOK
  <2>2. UNCHANGED <<pc, mpc, free, count, left, effective>>
    BY <1>6 DEF SigUsr1, HandlerReturns, wvars, spawnvars
  <2> QED  BY <1>t, <2>1, <2>2
           DEF PoolInv, FreeExact, CountExact, Started, Promised, Locked, Live, Idle
<1> QED  BY <1>1, <1>2, <1>3, <1>4, <1>5, <1>6
-----------------------------------------------------------------------------
(* Types and accounting together are an inductive invariant of the pool.   *)
LEMMA PoolInductive == Spec => []PoolInv
<1>1. PoolInv /\ [Next]_vars => PoolInv'
  <2> SUFFICES ASSUME PoolInv, [Next]_vars PROVE PoolInv'  OBVIOUS
  <2>1. CASE Main
    BY <2>1, MainLoopKeepsInv, InitThreadsKeepsInv, SignalsKeepInv DEF Main
  <2>2. ASSUME NEW t \in Threads, Worker(t) PROVE PoolInv'
    BY <2>2, WorkerKeepsInv, SignalsKeepInv DEF Worker
  <2>3. CASE UNCHANGED vars
    BY <2>3 DEF vars, PoolInv, PoolTypeOK, FreeExact, CountExact, Started, Promised,
       Locked, Live, Idle
  <2> QED  BY <2>1, <2>2, <2>3, SignalsKeepInv DEF Next, Ended
<1> QED  BY <1>1, PoolInit, PTL DEF Spec

(* Types, and with them: free and count, which are unsigned, never wrap.   *)
THEOREM PoolTypeCorrect == Spec => []PoolTypeOK
BY PoolInductive, PTL DEF PoolInv

(* thread_info.free is the number of threads asking for work, and          *)
(* thread_info.count the number of threads, for every schedule of main     *)
(* and workers, every failed creation and every signal; the limit          *)
(* MAXTHREAD is never reached, although main plans without the lock.       *)
THEOREM AccountingCorrect == Spec => [](FreeExact /\ CountExact)
BY PoolInductive, PTL DEF PoolInv

(* In particular count is exact, also while init_threads creates threads   *)
(* and some of the creations fail.                                         *)
THEOREM CountCorrect == Spec => []CountExact
BY AccountingCorrect, PTL

(* There are always fewer than MAXTHREAD threads.                          *)
THEOREM ThreadLimit == Spec => [](Cardinality(Live) < MAXTHREAD)
<1>1. PoolInv => Cardinality(Live) < MAXTHREAD
  BY LiveFinite, Limits DEF PoolInv, CountExact, Started, Promised, PoolTypeOK
<1> QED  BY <1>1, PoolInductive, PTL
-----------------------------------------------------------------------------
(* Who owns a descriptor.  The sum in SocketOwnedOnce, taken apart so that *)
(* a step can be followed: at most one worker, at most one place in the    *)
(* queue, only one of the three kinds of owners, and an owner exactly for  *)
(* the open descriptors.                                                   *)
AtMostOne(S) == \A x, y \in S : x = y

OneOwner(f) == /\ AtMostOne(Holders(f)) /\ AtMostOne(Queued(f))
               /\ Holders(f) = {} \/ Queued(f) = {}
               /\ InHand(f) => Holders(f) = {} /\ Queued(f) = {}
               /\ f \in open <=> Holders(f) # {} \/ Queued(f) # {} \/ InHand(f)

OwnerInv == PoolTypeOK /\ \A f \in Fds : OneOwner(f)

(* A set with at most one element counts 0 or 1.                           *)
LEMMA CountOfOne ==
  ASSUME NEW S, AtMostOne(S)
  PROVE  Cardinality(S) = IF S = {} THEN 0 ELSE 1
<1>1. CASE S = {}  BY <1>1, FS_EmptySet
<1>2. CASE S # {}
  <2>1. PICK x : x \in S  BY <1>2
  <2>2. S = {x}  BY <2>1 DEF AtMostOne
  <2> QED  BY <1>2, <2>2, FS_Singleton
<1> QED  BY <1>1, <1>2

(* The parts give the sum.                                                 *)
LEMMA OwnersAddUp == OwnerInv => SocketOwnedOnce
<1> SUFFICES ASSUME OwnerInv, NEW f \in Fds
             PROVE  Cardinality(Holders(f)) + Cardinality(Queued(f))
                      + (IF InHand(f) THEN 1 ELSE 0) = IF f \in open THEN 1 ELSE 0
  BY DEF SocketOwnedOnce
<1>1. OneOwner(f)  BY DEF OwnerInv
<1>2. /\ Cardinality(Holders(f)) = IF Holders(f) = {} THEN 0 ELSE 1
      /\ Cardinality(Queued(f)) = IF Queued(f) = {} THEN 0 ELSE 1
  BY <1>1, CountOfOne DEF OneOwner
<1> QED  BY <1>1, <1>2 DEF OneOwner

(* A step that leaves the owners of f as they are.                         *)
LEMMA SameOwners ==
  ASSUME NEW f \in Fds, OneOwner(f), Holders(f)' = Holders(f),
         Queued(f)' = Queued(f), InHand(f)' <=> InHand(f), f \in open' <=> f \in open
  PROVE  OneOwner(f)'
BY DEF OneOwner

(* Moving a worker between places where it holds, or does not hold, what   *)
(* sock says.                                                              *)
LEMMA SameHolders ==
  ASSUME PoolTypeOK, NEW t \in Threads, NEW p \in WorkerPCs, NEW f \in Fds,
         pc' = [pc EXCEPT ![t] = p], sock' = sock,
         \/ p \in {"got", "serve", "close"} <=> pc[t] \in {"got", "serve", "close"}
         \/ sock[t] # f
  PROVE  Holders(f)' = Holders(f)
<1>1. pc'[t] = p /\ \A u \in Threads \ {t} : pc'[u] = pc[u]  BY DEF PoolTypeOK
<1> QED  BY <1>1 DEF Holders

(* Where f stands in the queue after another value is put.                 *)
LEMMA QueuedAfterPut ==
  ASSUME PoolTypeOK, NEW v \in Fds \cup {TermOrder}, NEW f \in Fds,
         fifo' = Append(fifo, v)
  PROVE  Queued(f)' = IF v = f THEN Queued(f) \cup {Len(fifo) + 1} ELSE Queued(f)
<1>1. fifo \in Seq(Fds \cup {TermOrder})  BY DEF PoolTypeOK
<1>2. /\ Len(fifo) \in Nat /\ DOMAIN fifo = 1 .. Len(fifo)
      /\ DOMAIN fifo' = 1 .. (Len(fifo) + 1)
      /\ \A i \in 1 .. Len(fifo) : fifo'[i] = fifo[i]
      /\ fifo'[Len(fifo) + 1] = v
  BY <1>1
<1>3. Queued(f)' = {i \in 1 .. (Len(fifo) + 1) : fifo'[i] = f}
  BY <1>2 DEF Queued
<1>4. Queued(f) = {i \in 1 .. Len(fifo) : fifo[i] = f}  BY <1>2 DEF Queued
<1>5. 1 .. (Len(fifo) + 1) = (1 .. Len(fifo)) \cup {Len(fifo) + 1}  BY <1>2
<1> QED  BY <1>2, <1>3, <1>4, <1>5

(* The steps of main.                                                      *)
LEMMA MainKeepsOwners ==
  ASSUME OwnerInv, PoolTypeOK', Main, NEW f \in Fds
  PROVE  OneOwner(f)'
<1> USE DEF MainRuns
<1>t. PoolTypeOK /\ OneOwner(f)  BY DEF OwnerInv
<1>1. CASE \/ QInit \/ InitThreadsEnter \/ InitThreadsRefuse \/ SpawnFails
           \/ SpawnLoopEnds \/ Commit \/ InitSignals \/ Poll \/ ShapeSkips
           \/ ShapeDecides \/ AcceptNothing
           \/ CheckEnough \/ CheckGroup \/ CheckNearLimit \/ TopUp
  <2>1. /\ UNCHANGED <<pc, sock, fifo, open>>
        /\ mpc \notin {"enqueue", "drop"} /\ mpc' \notin {"enqueue", "drop"}
    BY <1>1 DEF QInit, InitThreadsEnter, InitThreadsRefuse, SpawnFails,
       SpawnLoopEnds, Commit, InitSignals, Poll, ShapeSkips, ShapeDecides,
       AcceptNothing, CheckEnough, CheckGroup, CheckNearLimit, TopUp,
       ReturnFromInitThreads, wvars
  <2> QED  BY <1>t, <2>1, SameOwners DEF Holders, Queued, InHand
<1>2. ASSUME NEW t \in Threads, SpawnThread(t) PROVE OneOwner(f)'
  <2>1. /\ pc' = [pc EXCEPT ![t] = "init"] /\ pc[t] = "none" /\ sock' = sock
        /\ "init" \in WorkerPCs /\ UNCHANGED <<fifo, mpc, s1, open>>
    BY <1>2 DEF SpawnThread, WorkerPCs
  <2>2. Holders(f)' = Holders(f)  BY <1>t, <2>1, SameHolders
  <2> QED  BY <1>t, <2>1, <2>2, SameOwners DEF Queued, InHand
<1>3. CASE QInitFails
  BY <1>3 DEF QInitFails, ProcessEnds, OneOwner, AtMostOne, Holders, Queued, InHand
<1>4. CASE Order
  <2>1. UNCHANGED <<pc, sock, open>> /\ mpc = "order" /\ mpc' = "accept"
    BY <1>4 DEF Order, wvars
  <2>2. fifo' = Append(fifo, TermOrder) \/ fifo' = fifo
    BY <1>4 DEF Order, Q!Put, Q!Reject
  <2>3. Queued(f)' = Queued(f)
    <3>1. CASE fifo' = Append(fifo, TermOrder)
      BY <1>t, <3>1, QueuedAfterPut, Distinct
    <3> QED  BY <2>2, <3>1 DEF Queued
  <2> QED  BY <1>t, <2>1, <2>3, SameOwners DEF Holders, InHand
<1>5. ASSUME NEW g \in Fds, Accept(g) PROVE OneOwner(f)'
  <2>1. /\ UNCHANGED <<pc, sock, fifo>> /\ mpc = "accept" /\ mpc' = "enqueue"
        /\ g \notin open /\ open' = open \cup {g} /\ s1' = g
    BY <1>5 DEF Accept, wvars
  <2>2. Holders(f)' = Holders(f) /\ Queued(f)' = Queued(f)  BY <2>1 DEF Holders, Queued
  <2>3. ~InHand(f) /\ (InHand(f)' <=> f = g)  BY <2>1 DEF InHand
  <2> QED  BY <1>t, <2>1, <2>2, <2>3 DEF OneOwner
<1>6. CASE Enqueue
  <2>1. /\ UNCHANGED <<pc, sock, open>> /\ mpc = "enqueue" /\ mpc' = "check"
        /\ fifo' = Append(fifo, s1)
    BY <1>6 DEF Enqueue, Q!Put, wvars
  <2>2. Holders(f)' = Holders(f) /\ ~InHand(f)' /\ (InHand(f) <=> s1 = f)
    BY <2>1 DEF Holders, InHand
  <2>a. s1 \in Fds \cup {TermOrder}  BY <1>t, <2>1 DEF PoolTypeOK
  <2>3. s1 # f => Queued(f)' = Queued(f)
    BY <1>t, <2>1, <2>a, QueuedAfterPut
  <2>4. s1 = f /\ Queued(f) = {} => Queued(f)' = {Len(fifo) + 1}
    BY <1>t, <2>1, <2>a, QueuedAfterPut
  <2> QED  BY <1>t, <2>1, <2>2, <2>3, <2>4 DEF OneOwner, AtMostOne
<1>7. CASE EnqueueFull
  BY <1>7, <1>t, SameOwners DEF EnqueueFull, Q!Reject, wvars, Holders, Queued, InHand
<1>8. CASE Drop
  <2>1. /\ UNCHANGED <<pc, sock, fifo>> /\ mpc = "drop" /\ mpc' = "check"
        /\ open' = open \ {s1}
    BY <1>8 DEF Drop, wvars
  <2>2. /\ Holders(f)' = Holders(f) /\ Queued(f)' = Queued(f)
        /\ ~InHand(f)' /\ (InHand(f) <=> s1 = f)
    BY <2>1 DEF Holders, Queued, InHand
  <2> QED  BY <1>t, <2>1, <2>2 DEF OneOwner
<1> QED  BY <1>1, <1>2, <1>3, <1>4, <1>5, <1>6, <1>7, <1>8 DEF Main

(* Taking the first value of a queue moves all others up by one.           *)
LEMMA QueueMovesUp ==
  ASSUME NEW V, NEW q \in Seq(V), q # <<>>
  PROVE  /\ Len(q) \in Nat /\ Len(q) >= 1
         /\ DOMAIN q = 1 .. Len(q) /\ Head(q) = q[1]
         /\ DOMAIN Tail(q) = 1 .. Len(q) - 1
         /\ \A i \in 1 .. Len(q) - 1 : Tail(q)[i] = q[i + 1]
<1>1. Len(q) \in Nat /\ DOMAIN q = 1 .. Len(q)  OBVIOUS
<1>2. Len(q) >= 1  BY <1>1
<1>3. Head(q) = q[1]  BY <1>1
<1>4. Tail(q) \in Seq(V) /\ Len(Tail(q)) = Len(q) - 1  BY <1>1, <1>2
<1>5. DOMAIN Tail(q) = 1 .. Len(q) - 1  BY <1>4
<1>6. \A i \in 1 .. Len(q) - 1 : Tail(q)[i] = q[i + 1]  BY <1>1, <1>2, <1>4
<1> QED  BY <1>1, <1>2, <1>3, <1>5, <1>6

(* q_get moves a descriptor from the head of the queue to one worker.      *)
LEMMA GetKeepsOwners ==
  ASSUME OwnerInv, PoolTypeOK', NEW t \in Threads, QGet(t), NEW f \in Fds
  PROVE  OneOwner(f)'
<1>t. PoolTypeOK /\ OneOwner(f)  BY DEF OwnerInv
<1>1. /\ pc[t] = "q_get" /\ pc' = [pc EXCEPT ![t] = "got"]
      /\ sock' = [sock EXCEPT ![t] = Head(fifo)]
      /\ fifo # <<>> /\ fifo' = Tail(fifo) /\ UNCHANGED <<mpc, s1, open>>
  BY DEF QGet, WorkerRuns, Q!Get
<1>2. /\ fifo \in Seq(Fds \cup {TermOrder}) /\ Len(fifo) \in Nat /\ Len(fifo) >= 1
      /\ DOMAIN fifo = 1 .. Len(fifo) /\ Head(fifo) = fifo[1]
      /\ DOMAIN Tail(fifo) = 1 .. Len(fifo) - 1
      /\ \A i \in 1 .. Len(fifo) - 1 : Tail(fifo)[i] = fifo[i + 1]
  <2>1. fifo \in Seq(Fds \cup {TermOrder})  BY <1>t DEF PoolTypeOK
  <2> QED  BY <1>1, <2>1, QueueMovesUp
<1>3. /\ pc'[t] = "got" /\ sock'[t] = fifo[1]
      /\ \A u \in Threads \ {t} : pc'[u] = pc[u] /\ sock'[u] = sock[u]
  BY <1>t, <1>1, <1>2 DEF PoolTypeOK
<1>4. Queued(f)' = {i \in 1 .. Len(fifo) - 1 : fifo[i + 1] = f}
  BY <1>1, <1>2 DEF Queued
<1>5. Queued(f) = {i \in 1 .. Len(fifo) : fifo[i] = f}  BY <1>2 DEF Queued
<1>6. InHand(f)' <=> InHand(f)  BY <1>1 DEF InHand
<1>7. CASE fifo[1] = f
  <2>1. 1 \in Queued(f)  BY <1>2, <1>5, <1>7
  <2>2. Queued(f) = {1} /\ Holders(f) = {} /\ ~InHand(f) /\ f \in open
    BY <1>t, <2>1 DEF OneOwner, AtMostOne
  <2>3. Queued(f)' = {}
    <3> SUFFICES ASSUME NEW i \in Queued(f)' PROVE FALSE  OBVIOUS
    <3>1. i + 1 \in Queued(f) /\ i \in Nat /\ i >= 1  BY <1>2, <1>4, <1>5
    <3> QED  BY <3>1, <2>2
  <2>4. Holders(f)' = {t}
    BY <1>3, <1>7, <2>2 DEF Holders
  <2> QED  BY <1>1, <1>6, <2>2, <2>3, <2>4 DEF OneOwner, AtMostOne
<1>8. CASE fifo[1] # f
  <2>1. Holders(f)' = Holders(f)  BY <1>1, <1>3, <1>8 DEF Holders
  <2>2. \A i \in Queued(f)' : i \in Nat /\ i + 1 \in Queued(f)
    BY <1>2, <1>4, <1>5
  <2>3. \A i \in Queued(f) : i \in Nat /\ i - 1 \in Queued(f)'
    BY <1>2, <1>4, <1>5, <1>8
  <2>4. AtMostOne(Queued(f)')
    <3> SUFFICES ASSUME NEW i \in Queued(f)', NEW j \in Queued(f)' PROVE i = j
      BY DEF AtMostOne
    <3>1. i + 1 = j + 1 /\ i \in Nat /\ j \in Nat
      BY <2>2, <1>t DEF OneOwner, AtMostOne
    <3> QED  BY <3>1
  <2>5. Queued(f)' = {} <=> Queued(f) = {}  BY <2>2, <2>3
  <2> QED  BY <1>t, <1>1, <1>6, <2>1, <2>4, <2>5 DEF OneOwner, AtMostOne
<1> QED  BY <1>7, <1>8

(* The steps of a worker, where propfind does not close the connection     *)
(* itself.                                                                 *)
LEMMA WorkerKeepsOwners ==
  ASSUME OwnerInv, PoolTypeOK', ~AuthSocket, NEW t \in Threads, Worker(t),
         NEW f \in Fds
  PROVE  OneOwner(f)'
<1> USE DEF WorkerRuns
<1>t. PoolTypeOK /\ OneOwner(f)  BY DEF OwnerInv
<1>p. "ready" \in WorkerPCs /\ "release" \in WorkerPCs /\ "q_get" \in WorkerPCs
      /\ "serve" \in WorkerPCs /\ "close" \in WorkerPCs
  BY DEF WorkerPCs
<1>1. CASE WorkerInit(t) \/ WorkerInitFails(t) \/ SetFree(t) \/ SetBusy(t) \/ Serve(t)
  <2>1. sock' = sock /\ UNCHANGED <<fifo, mpc, s1, open>>
    BY <1>1 DEF WorkerInit, WorkerInitFails, SetFree, SetBusy, Serve
  <2>2. PICK p \in WorkerPCs :
          /\ pc' = [pc EXCEPT ![t] = p]
          /\ \/ p \in {"got", "serve", "close"} <=> pc[t] \in {"got", "serve", "close"}
             \/ sock[t] # f
    BY <1>1, <1>p, Distinct DEF WorkerInit, WorkerInitFails, SetFree, SetBusy, Serve
  <2>3. Holders(f)' = Holders(f)  BY <1>t, <2>1, <2>2, SameHolders
  <2> QED  BY <1>t, <2>1, <2>3, SameOwners DEF Queued, InHand
<1>2. CASE WorkerInitAborts(t)
  BY <1>2 DEF WorkerInitAborts, ProcessEnds, OneOwner, AtMostOne, Holders, Queued,
     InHand
<1>3. CASE QGet(t)  BY <1>3, GetKeepsOwners
<1>4. CASE CloseSock(t)
  <2>1. /\ pc[t] = "close" /\ pc' = [pc EXCEPT ![t] = "ready"]
        /\ open' = open \ {sock[t]} /\ UNCHANGED <<fifo, mpc, s1>>
        /\ sock' = [sock EXCEPT ![t] = NoFd]
    BY <1>4 DEF CloseSock
  <2>2. /\ pc'[t] = "ready"
        /\ \A u \in Threads \ {t} : pc'[u] = pc[u] /\ sock'[u] = sock[u]
    BY <1>t, <2>1 DEF PoolTypeOK
  <2>3. Holders(f)' = Holders(f) \ {t} /\ (t \in Holders(f) <=> sock[t] = f)
    BY <2>1, <2>2 DEF Holders
  <2>4. Queued(f)' = Queued(f) /\ (InHand(f)' <=> InHand(f))
    BY <2>1 DEF Queued, InHand
  <2> QED  BY <1>t, <2>1, <2>3, <2>4 DEF OneOwner, AtMostOne
<1>5. CASE WorkerExit(t)
  <2>1. /\ pc[t] = "release" /\ pc' = [pc EXCEPT ![t] = "none"]
        /\ sock' = [sock EXCEPT ![t] = NoFd] /\ UNCHANGED <<fifo, mpc, s1, open>>
    BY <1>5 DEF WorkerExit
  <2>2. /\ pc'[t] = "none"
        /\ \A u \in Threads \ {t} : pc'[u] = pc[u] /\ sock'[u] = sock[u]
    BY <1>t, <2>1 DEF PoolTypeOK
  <2>3. Holders(f)' = Holders(f)  BY <2>1, <2>2 DEF Holders
  <2> QED  BY <1>t, <2>1, <2>3, SameOwners DEF Queued, InHand
<1> QED  BY <1>1, <1>2, <1>3, <1>4, <1>5 DEF Worker, ServePropfindOfFile

(* Without an authentication provider, which is what allows the writes and *)
(* the deep answers of WebDAV, every open connection has exactly one owner *)
(* at every moment: between accept and q_put, in the queue, or with the    *)
(* worker that took it; nobody owns a closed descriptor.  With a provider  *)
(* the propfind of a file closes the connection and leaves its worker      *)
(* holding a descriptor that accept may return again.                      *)
THEOREM OneOwnerOnly ==
  ASSUME ~AuthSocket
  PROVE  Spec => []SocketOwnedOnce
<1>1. Init => OwnerInv
  <2> SUFFICES ASSUME Init PROVE OwnerInv  OBVIOUS
  <2>1. PoolTypeOK  BY PoolInit DEF PoolInv
  <2>2. ASSUME NEW f \in Fds PROVE OneOwner(f)
    BY DEF Init, OneOwner, AtMostOne, Holders, Queued, InHand
  <2> QED  BY <2>1, <2>2 DEF OwnerInv
<1>2. OwnerInv /\ PoolTypeOK' /\ [Next]_vars => OwnerInv'
  <2> SUFFICES ASSUME OwnerInv, PoolTypeOK', [Next]_vars, NEW f \in Fds
               PROVE  OneOwner(f)'
    BY DEF OwnerInv
  <2>1. CASE Main  BY <2>1, MainKeepsOwners
  <2>2. ASSUME NEW t \in Threads, Worker(t) PROVE OneOwner(f)'
    BY <2>2, WorkerKeepsOwners
  <2>3. CASE Quit \/ SigUsr1Early \/ HandlerBreaksPoll
    BY <2>3 DEF Quit, SigUsr1Early, HandlerBreaksPoll, ProcessEnds, OneOwner,
       AtMostOne, Holders, Queued, InHand
  <2>4. CASE SigUsr1 \/ HandlerReturns \/ UNCHANGED vars
    <3>1. UNCHANGED <<pc, sock, fifo, mpc, s1, open>>
      BY <2>4 DEF SigUsr1, HandlerReturns, vars, wvars
    <3> QED  BY <3>1, SameOwners DEF OwnerInv, Holders, Queued, InHand
  <2> QED  BY <2>1, <2>2, <2>3, <2>4 DEF Next, Ended
<1> QED  BY <1>1, <1>2, PoolTypeCorrect, OwnersAddUp, PTL DEF Spec
-----------------------------------------------------------------------------
(* The queue between main and the workers, as queue.c builds it: its       *)
(* counters agree with the ring, no wakeup is lost, and it implements the  *)
(* abstract queue the pool above is modelled with, for every number of     *)
(* threads, every capacity and every set of values.                        *)

(* What % does to a sum that passes the end of the ring once.              *)
Wrap(a) == IF a < QSize THEN a ELSE a - QSize

(* The modulo of the ring only ever wraps once: head + i < 2 * QSize.      *)
LEMMA ModWrapsOnce ==
  ASSUME NEW a \in 0 .. 2 * QSize - 1
  PROVE  a % QSize = Wrap(a)
<1>1. CASE a < QSize  BY <1>1, QSizePositive, SMT DEF Wrap
<1>2. CASE a >= QSize  BY <1>2, QSizePositive, SMT DEF Wrap
<1> QED  BY <1>1, <1>2, QSizePositive

(* Advance keeps head and tail inside the ring.                            *)
LEMMA AdvanceIsWrap ==
  ASSUME NEW i \in Slots
  PROVE  /\ Advance(i) \in Slots
         /\ Advance(i) = Wrap(i + 1)
<1>1. i + 1 \in 0 .. 2 * QSize - 1  BY QSizePositive DEF Slots
<1>2. (i + 1) % QSize = Wrap(i + 1)
  BY <1>1, ModWrapsOnce, Zenon
<1> QED  BY <1>2, QSizePositive DEF Slots, Advance, Wrap

(* Where the i-th value of the window is, without modulo.                  *)
LEMMA PositionIsWrap ==
  ASSUME NEW h \in Slots, NEW i \in 0 .. QSize
  PROVE  /\ (h + i) % QSize \in Slots
         /\ (h + i) % QSize = Wrap(h + i)
<1>1. h + i \in 0 .. 2 * QSize - 1  BY QSizePositive DEF Slots
<1>2. (h + i) % QSize = Wrap(h + i)
  BY <1>1, ModWrapsOnce, Zenon
<1> QED  BY <1>2, QSizePositive DEF Slots, Wrap
-----------------------------------------------------------------------------
(* Every step of q_get and q_put keeps the fields in their ranges.         *)
THEOREM TypeCorrect == QueueSpec => []TypeOK
<1>1. QueueInit => TypeOK
  BY QSizePositive DEF QueueInit, TypeOK, Slots
<1>2. TypeOK /\ [QueueNext]_queueVars => TypeOK'
  <2> SUFFICES ASSUME TypeOK, [QueueNext]_queueVars PROVE TypeOK'
    OBVIOUS
  <2> USE QSizePositive DEF TypeOK
  <2>1. ASSUME NEW t \in Getters, Enter(t) PROVE TypeOK'
    BY <2>1 DEF Enter
  <2>2. ASSUME NEW t \in Getters, GetWait(t) PROVE TypeOK'
    BY <2>2 DEF GetWait
  <2>3. ASSUME NEW t \in Getters, GetTake(t) PROVE TypeOK'
    BY <2>3, AdvanceIsWrap DEF GetTake
  <2>4. ASSUME NEW t \in Getters, SpuriousWakeup(t) PROVE TypeOK'
    BY <2>4 DEF SpuriousWakeup
  <2>5. ASSUME Wake PROVE n_wait_dt' \in Nat /\ waiting' \subseteq waiting
    BY <2>5 DEF Wake
  <2>6. ASSUME NEW v \in Values, PutStore(v) PROVE TypeOK'
    BY <2>5, <2>6, AdvanceIsWrap DEF PutStore
  <2>7. ASSUME PutFull PROVE TypeOK'
    BY <2>5, <2>7 DEF PutFull
  <2>8. CASE UNCHANGED queueVars
    BY <2>8 DEF queueVars
  <2> QED  BY <2>1, <2>2, <2>3, <2>4, <2>6, <2>7, <2>8 DEF QueueNext
<1> QED  BY <1>1, <1>2, PTL DEF QueueSpec
-----------------------------------------------------------------------------
(* What Wake does to the sleepers, in numbers.                             *)
LEMMA WakeCounts ==
  ASSUME TypeOK, WaitersCounted, Wake
  PROVE  /\ waiting' \subseteq waiting
         /\ n_wait_dt' \in Nat
         /\ Cardinality(waiting') <= n_wait_dt'
         /\ waiting # {} => \E t \in waiting : waiting' = waiting \ {t}
<1>1. IsFiniteSet(waiting) /\ Cardinality(waiting) \in Nat
  BY GettersFinite, FS_Subset, FS_CardinalityType DEF TypeOK
<1>2. waiting # {} => Cardinality(waiting) # 0
  BY <1>1, FS_EmptySet
<1>3. ASSUME NEW t \in waiting
      PROVE  Cardinality(waiting \ {t}) = Cardinality(waiting) - 1
  BY <1>1, FS_RemoveElement
<1>4. Cardinality({}) = 0  BY FS_EmptySet
<1>5. CASE n_wait_dt > 0
  <2>1. CASE waiting = {}
    BY <1>4, <1>5, <2>1 DEF Wake, TypeOK
  <2>2. CASE waiting # {}
    <3>1. PICK t \in waiting : waiting' = waiting \ {t}
      BY <1>5, <2>2 DEF Wake
    <3> QED  BY <1>1, <1>3, <1>5, <2>2, <3>1 DEF Wake, TypeOK, WaitersCounted
  <2> QED  BY <2>1, <2>2
<1>6. CASE n_wait_dt = 0
  <2>1. waiting = {}
    BY <1>1, <1>2, <1>6 DEF WaitersCounted
  <2> QED  BY <1>4, <1>6, <2>1 DEF Wake, TypeOK
<1> QED  BY <1>5, <1>6 DEF TypeOK

(* A woken sleeper adds one thread on its way to the values.               *)
LEMMA AwakeGrows ==
  ASSUME TypeOK, NEW t \in waiting
  PROVE  /\ Cardinality(calling \ (waiting \ {t})) =
              Cardinality(calling \ waiting) + 1
         /\ Cardinality(calling \ waiting) \in Nat
<1>1. IsFiniteSet(calling \ waiting)
  BY GettersFinite, FS_Subset DEF TypeOK
<1>2. calling \ (waiting \ {t}) = (calling \ waiting) \cup {t}
  BY DEF TypeOK
<1> QED  BY <1>1, <1>2, FS_AddElement, FS_CardinalityType

(* The inductive invariant behind the absence of lost wakeups.             *)
WakeInv == TypeOK /\ WaitersCounted /\ NoLostWakeup

(* q_put never fails to signal a thread that needs it, and no queued value *)
(* waits for a thread that sleeps.                                         *)
THEOREM WakeupsCorrect == QueueSpec => [](WaitersCounted /\ NoLostWakeup)
<1>1. QueueInit => WaitersCounted /\ NoLostWakeup
  BY FS_EmptySet DEF QueueInit, WaitersCounted, NoLostWakeup
<1>2. WakeInv /\ TypeOK' /\ [QueueNext]_queueVars => (WaitersCounted /\ NoLostWakeup)'
  <2> SUFFICES ASSUME WakeInv, TypeOK', [QueueNext]_queueVars
               PROVE  WaitersCounted' /\ NoLostWakeup'
    OBVIOUS
  <2>t. TypeOK /\ WaitersCounted /\ NoLostWakeup  BY DEF WakeInv
  <2>a. IsFiniteSet(waiting) /\ IsFiniteSet(calling)
    BY <2>t, GettersFinite, FS_Subset DEF TypeOK
  <2>b. IsFiniteSet(calling \ waiting) /\ Cardinality(calling \ waiting) \in Nat
    BY <2>t, GettersFinite, FS_Subset, FS_CardinalityType DEF TypeOK
  <2>c. Cardinality(waiting) \in Nat
    BY <2>a, FS_CardinalityType
  <2>1. ASSUME NEW t \in Getters, Enter(t) PROVE WaitersCounted' /\ NoLostWakeup'
    <3>1. calling' \ waiting' = (calling \ waiting) \cup {t}
      BY <2>1, <2>t DEF Enter, TypeOK
    <3>2. Cardinality(calling' \ waiting') = Cardinality(calling \ waiting) + 1
      BY <3>1, <2>1, <2>b, FS_AddElement DEF Enter
    <3> QED  BY <3>2, <2>1, <2>b, <2>t DEF Enter, WaitersCounted, NoLostWakeup, TypeOK
  <2>2. ASSUME NEW t \in Getters, GetWait(t) PROVE WaitersCounted' /\ NoLostWakeup'
    <3>1. Cardinality(waiting') = Cardinality(waiting) + 1
      BY <2>2, <2>a, FS_AddElement DEF GetWait
    <3>2. IsFiniteSet(calling' \ waiting')
      BY GettersFinite, FS_Subset DEF TypeOK
    <3>3. Cardinality(calling' \ waiting') \in Nat
      BY <3>2, FS_CardinalityType
    <3> QED  BY <3>1, <3>3, <2>2, <2>c, <2>t DEF GetWait, WaitersCounted, NoLostWakeup, TypeOK
  <2>3. ASSUME NEW t \in Getters, GetTake(t) PROVE WaitersCounted' /\ NoLostWakeup'
    <3>1. calling' \ waiting' = (calling \ waiting) \ {t}
      BY <2>3 DEF GetTake
    <3>2. Cardinality(calling' \ waiting') = Cardinality(calling \ waiting) - 1
      BY <3>1, <2>3, <2>b, FS_RemoveElement DEF GetTake
    <3> QED  BY <3>2, <2>3, <2>b, <2>t DEF GetTake, WaitersCounted, NoLostWakeup, TypeOK
  <2>4. ASSUME NEW t \in Getters, SpuriousWakeup(t)
        PROVE  WaitersCounted' /\ NoLostWakeup'
    <3>1. t \in waiting  BY <2>4 DEF SpuriousWakeup
    <3>2. Cardinality(waiting') = Cardinality(waiting) - 1
      BY <2>4, <3>1, <2>a, FS_RemoveElement DEF SpuriousWakeup
    <3>3. Cardinality(calling' \ waiting') = Cardinality(calling \ waiting) + 1
      BY <2>4, <3>1, <2>t, AwakeGrows DEF SpuriousWakeup
    <3> QED  BY <3>1, <3>2, <3>3, <2>4, <2>b, <2>c, <2>t
             DEF SpuriousWakeup, WaitersCounted, NoLostWakeup, TypeOK
  <2>5. ASSUME NEW v \in Values, PutStore(v) PROVE WaitersCounted' /\ NoLostWakeup'
    <3>1. Wake /\ calling' = calling /\ num' = num + 1  BY <2>5 DEF PutStore
    <3>2. CASE waiting # {}
      <4>1. PICK t \in waiting : waiting' = waiting \ {t}
        BY <2>t, <3>1, <3>2, WakeCounts
      <4>2. Cardinality(calling' \ waiting') = Cardinality(calling \ waiting) + 1
        BY <4>1, <3>1, <2>t, AwakeGrows
      <4> QED  BY <4>2, <3>1, <3>2, <2>b, <2>t, WakeCounts
               DEF WaitersCounted, NoLostWakeup, TypeOK
    <3>3. CASE waiting = {}
      BY <3>1, <3>3, <2>t, WakeCounts DEF WaitersCounted, NoLostWakeup
    <3> QED  BY <3>2, <3>3
  <2>6. ASSUME PutFull PROVE WaitersCounted' /\ NoLostWakeup'
    <3>1. Wake /\ calling' = calling /\ num' = num  BY <2>6 DEF PutFull
    <3>2. CASE waiting # {}
      <4>1. PICK t \in waiting : waiting' = waiting \ {t}
        BY <2>t, <3>1, <3>2, WakeCounts
      <4>2. Cardinality(calling' \ waiting') = Cardinality(calling \ waiting) + 1
        BY <4>1, <3>1, <2>t, AwakeGrows
      <4> QED  BY <4>2, <3>1, <3>2, <2>b, <2>t, WakeCounts
               DEF WaitersCounted, NoLostWakeup, TypeOK
    <3>3. CASE waiting = {}
      BY <3>1, <3>3, <2>t, WakeCounts DEF WaitersCounted, NoLostWakeup
    <3> QED  BY <3>2, <3>3
  <2>7. CASE UNCHANGED queueVars
    BY <2>7, <2>t DEF queueVars, WaitersCounted, NoLostWakeup
  <2> QED  BY <2>1, <2>2, <2>3, <2>4, <2>5, <2>6, <2>7 DEF QueueNext
<1> QED  BY <1>1, <1>2, TypeCorrect, PTL DEF QueueSpec, WakeInv
-----------------------------------------------------------------------------
(* The inductive invariant that makes the window of the ring meaningful.   *)
RingInv == TypeOK /\ RingConsistent

(* Two different positions of a window that is not full are two slots.     *)
LEMMA PositionsDiffer ==
  ASSUME NEW h \in Slots, NEW i \in 0 .. QSize - 1, NEW j \in 0 .. QSize - 1, i # j
  PROVE  (h + i) % QSize # (h + j) % QSize
<1>1. i \in 0 .. QSize /\ j \in 0 .. QSize  BY QSizePositive
<1>2. (h + i) % QSize = Wrap(h + i) /\ (h + j) % QSize = Wrap(h + j)
  BY <1>1, PositionIsWrap, Zenon
<1> QED  BY <1>2, QSizePositive DEF Slots, Wrap

(* head, tail and num always describe one window of written slots, so      *)
(* q_get never returns memory that q_put did not write.                    *)
THEOREM RingCorrect == QueueSpec => []RingConsistent
<1>1. QueueInit => RingConsistent
  <2> SUFFICES ASSUME QueueInit PROVE RingConsistent  OBVIOUS
  <2>1. head \in Slots /\ head = 0 /\ tail = 0 /\ num = 0
    BY QSizePositive DEF QueueInit, Slots
  <2>2. Position(0) = 0
    <3>1. 0 \in 0 .. QSize /\ 0 \in Slots  BY QSizePositive DEF Slots
    <3>2. (0 + 0) % QSize = Wrap(0 + 0)  BY <3>1, PositionIsWrap, Zenon
    <3> QED  BY <2>1, <3>2, QSizePositive DEF Position, Wrap
  <2> QED  BY <2>1, <2>2 DEF RingConsistent
<1>2. RingInv /\ TypeOK' /\ [QueueNext]_queueVars => RingConsistent'
  <2> SUFFICES ASSUME RingInv, TypeOK', [QueueNext]_queueVars PROVE RingConsistent'
    OBVIOUS
  <2>t. TypeOK /\ RingConsistent  BY DEF RingInv
  <2>h. head \in Slots /\ head' \in Slots /\ num \in 0 .. QSize  BY <2>t DEF TypeOK
  <2>1. ASSUME UNCHANGED <<data, head, tail, num>> PROVE RingConsistent'
    BY <2>1, <2>t DEF RingConsistent, Position
  <2>2. ASSUME NEW t \in Getters, GetTake(t) PROVE RingConsistent'
    <3>1. /\ num # 0 /\ num' = num - 1 /\ tail' = tail /\ data' = data
          /\ head' = Advance(head)
      BY <2>2 DEF GetTake
    <3>2. ASSUME NEW i \in 0 .. num - 1
          PROVE  (head' + i) % QSize = Position(i + 1)
      <4>1. head' = Wrap(head + 1)
        BY <3>1, <2>h, AdvanceIsWrap
      <4>2. i \in 0 .. QSize /\ i + 1 \in 0 .. QSize  BY <2>h, QSizePositive
      <4>3. (head' + i) % QSize = Wrap(head' + i)
        BY <4>2, <2>h, PositionIsWrap, Zenon
      <4>4. (head + (i + 1)) % QSize = Wrap(head + (i + 1))
        BY <4>2, <2>h, PositionIsWrap, Zenon
      <4> QED  BY <4>1, <4>2, <4>3, <4>4, <2>h, QSizePositive DEF Slots, Wrap, Position
    <3>3. (head' + num') % QSize = Position(num)
      <4>1. num - 1 \in 0 .. num - 1 /\ (num - 1) + 1 = num  BY <3>1, <2>h, QSizePositive
      <4> QED  BY <4>1, <3>1, <3>2
    <3>4. ASSUME NEW i \in 0 .. num' - 1
          PROVE  data'[(head' + i) % QSize] \in Values
      <4>1. i \in 0 .. num - 1 /\ i + 1 \in 0 .. num - 1
        BY <3>1, <2>h, QSizePositive
      <4> QED  BY <4>1, <3>1, <3>2, <2>t DEF RingConsistent
    <3> QED  BY <3>1, <3>3, <3>4, <2>t DEF RingConsistent, Position
  <2>3. ASSUME NEW v \in Values, PutStore(v) PROVE RingConsistent'
    <3>1. /\ num # QSize /\ num' = num + 1 /\ head' = head
          /\ tail' = Advance(tail) /\ data' = [data EXCEPT ![tail] = v]
      BY <2>3 DEF PutStore
    <3>n. num \in 0 .. QSize - 1 /\ num + 1 \in 0 .. QSize
      BY <3>1, <2>h, QSizePositive
    <3>2. tail = Position(num) /\ tail \in Slots
      BY <2>t DEF RingConsistent, TypeOK
    <3>3. tail' = Position(num + 1)
      <4>1. tail' = Wrap(tail + 1)
        BY <3>1, <3>2, AdvanceIsWrap
      <4>2. tail = Wrap(head + num)
        BY <3>2, <2>h, PositionIsWrap, Zenon DEF Position
      <4>3. (head + (num + 1)) % QSize = Wrap(head + (num + 1))
        BY <3>n, <2>h, PositionIsWrap, Zenon
      <4> QED  BY <4>1, <4>2, <4>3, <3>n, <2>h, QSizePositive DEF Slots, Wrap, Position
    <3>4. ASSUME NEW i \in 0 .. num
          PROVE  data'[Position(i)] \in Values
      <4>1. CASE i = num
        BY <4>1, <3>1, <3>2, <2>t DEF TypeOK
      <4>2. CASE i \in 0 .. num - 1
        <5>1. i \in 0 .. QSize - 1 /\ i # num  BY <4>2, <3>n, QSizePositive
        <5>2. Position(i) # tail
          BY <5>1, <3>2, <3>n, <2>h, PositionsDiffer, Zenon DEF Position
        <5> QED  BY <4>2, <5>2, <3>1, <2>t DEF RingConsistent, TypeOK
      <4> QED  BY <4>1, <4>2, <3>n
    <3> QED  BY <3>1, <3>3, <3>4, <3>n DEF RingConsistent, Position
  <2>4. ASSUME NEW t \in Getters, Enter(t) \/ GetWait(t) \/ SpuriousWakeup(t)
        PROVE  RingConsistent'
    BY <2>1, <2>4 DEF Enter, GetWait, SpuriousWakeup
  <2>5. CASE PutFull
    BY <2>1, <2>5 DEF PutFull
  <2>6. CASE UNCHANGED queueVars
    BY <2>1, <2>6 DEF queueVars
  <2> QED  BY <2>2, <2>3, <2>4, <2>5, <2>6 DEF QueueNext
<1> QED  BY <1>1, <1>2, TypeCorrect, PTL DEF QueueSpec, RingInv
-----------------------------------------------------------------------------
(* The abstract queue that the ring stands for.                            *)
Fifo == [i \in 1 .. num |-> data[Position(i - 1)]]

(* The window of the ring, read from head on, is a sequence of num values: *)
(* the refinement mapping is well typed.                                   *)
LEMMA FifoIsSeq ==
  ASSUME TypeOK, RingConsistent
  PROVE  /\ Fifo \in Seq(Values) /\ Len(Fifo) = num
         /\ \A i \in 1 .. num : Fifo[i] = data[Position(i - 1)]
<1>1. num \in Nat  BY QSizePositive DEF TypeOK
<1>2. \A i \in 1 .. num : data[Position(i - 1)] \in Values
  <2> TAKE i \in 1 .. num
  <2>1. i - 1 \in 0 .. num - 1  BY <1>1
  <2> QED  BY <2>1 DEF RingConsistent
<1> QED  BY <1>1, <1>2 DEF Fifo

(* The same of the state after a step.                                     *)
LEMMA FifoIsSeqNext ==
  ASSUME TypeOK', RingConsistent'
  PROVE  /\ Fifo' \in Seq(Values) /\ Len(Fifo') = num'
         /\ \A i \in 1 .. num' : Fifo'[i] = data'[(head' + (i - 1)) % QSize]
<1>1. num' \in Nat  BY QSizePositive DEF TypeOK
<1>2. \A i \in 1 .. num' : data'[(head' + (i - 1)) % QSize] \in Values
  <2>0. \A n \in Nat : \A i \in 1 .. n : i - 1 \in 0 .. n - 1
    OBVIOUS
  <2> TAKE i \in 1 .. num'
  <2>1. i - 1 \in 0 .. num' - 1  BY <1>1, <2>0, Zenon
  <2> QED  BY <2>1 DEF RingConsistent, Position
<1>3. Fifo' = [i \in 1 .. num' |-> data'[(head' + (i - 1)) % QSize]]
  BY DEF Fifo, Position
<1> QED  BY <1>1, <1>2, <1>3

(* A sequence is its length and its elements.                              *)
LEMMA SameSeq ==
  ASSUME NEW S, NEW s \in Seq(S), NEW r \in Seq(S), Len(s) = Len(r),
         \A i \in 1 .. Len(s) : s[i] = r[i]
  PROVE  s = r
OBVIOUS

(* GetTake takes the head of the abstract queue.                           *)
LEMMA TakeIsGet ==
  ASSUME RingInv, RingInv', NEW t \in Getters, GetTake(t)
  PROVE  /\ Fifo # <<>> /\ val' = [val EXCEPT ![t] = Head(Fifo)]
         /\ Fifo' = Tail(Fifo)
<1>1. /\ num # 0 /\ num' = num - 1 /\ data' = data /\ head' = Advance(head)
      /\ val' = [val EXCEPT ![t] = data[head]] /\ num \in 0 .. QSize
      /\ head \in Slots /\ head' \in Slots
  BY DEF GetTake, RingInv, TypeOK
<1>2. /\ Fifo \in Seq(Values) /\ Len(Fifo) = num
      /\ \A i \in 1 .. num : Fifo[i] = data[Position(i - 1)]
  BY FifoIsSeq DEF RingInv
<1>3. /\ Fifo' \in Seq(Values) /\ Len(Fifo') = num - 1
      /\ \A i \in 1 .. num - 1 : Fifo'[i] = data[(head' + (i - 1)) % QSize]
  <2>1. /\ Fifo' \in Seq(Values) /\ Len(Fifo') = num'
        /\ \A i \in 1 .. num' : Fifo'[i] = data'[(head' + (i - 1)) % QSize]
    BY FifoIsSeqNext DEF RingInv
  <2> QED  BY <2>1, <1>1
<1>4. ASSUME NEW i \in 0 .. num - 1
      PROVE  (head' + i) % QSize = (head + (i + 1)) % QSize
  <2>1. head' = Wrap(head + 1)  BY <1>1, AdvanceIsWrap
  <2>2. i \in 0 .. QSize /\ i + 1 \in 0 .. QSize  BY <1>1, QSizePositive
  <2>3. (head' + i) % QSize = Wrap(head' + i)
    BY <2>2, <1>1, PositionIsWrap, Zenon
  <2>4. (head + (i + 1)) % QSize = Wrap(head + (i + 1))
    BY <2>2, <1>1, PositionIsWrap, Zenon
  <2> QED  BY <2>1, <2>2, <2>3, <2>4, <1>1, QSizePositive DEF Slots, Wrap
<1>5. (head + 0) % QSize = head
  <2>1. 0 \in 0 .. QSize  BY QSizePositive
  <2>2. (head + 0) % QSize = Wrap(head + 0)  BY <2>1, <1>1, PositionIsWrap, Zenon
  <2> QED  BY <2>2, <1>1, QSizePositive DEF Slots, Wrap
<1>6. Fifo # <<>> /\ Head(Fifo) = data[head]
  <2>1. 1 \in 1 .. num  BY <1>1
  <2>2. Fifo[1] = data[Position(0)]  BY <2>1, <1>2
  <2> QED  BY <2>2, <1>1, <1>2, <1>5 DEF Position
<1>7. Tail(Fifo) \in Seq(Values) /\ Len(Tail(Fifo)) = num - 1
  BY <1>1, <1>2, <1>6
<1>8. ASSUME NEW i \in 1 .. num - 1
      PROVE  Fifo'[i] = Tail(Fifo)[i]
  <2>1. i \in 1 .. num /\ i + 1 \in 1 .. num /\ i - 1 \in 0 .. num - 1
        /\ (i - 1) + 1 = i /\ (i + 1) - 1 = i
    BY <1>1
  <2>2. Tail(Fifo)[i] = Fifo[i + 1]  BY <1>1, <1>2, <1>6
  <2>3. Fifo[i + 1] = data[Position(i)]  BY <2>1, <1>2
  <2>4. Fifo'[i] = data[(head' + (i - 1)) % QSize]  BY <1>3
  <2>5. (head' + (i - 1)) % QSize = (head + i) % QSize  BY <2>1, <1>4
  <2> QED  BY <2>2, <2>3, <2>4, <2>5 DEF Position
<1>9. Fifo' = Tail(Fifo)
  BY <1>3, <1>7, <1>8, SameSeq
<1> QED  BY <1>1, <1>6, <1>9

(* PutStore appends to the abstract queue.                                 *)
LEMMA StoreIsPut ==
  ASSUME RingInv, RingInv', NEW v \in Values, PutStore(v)
  PROVE  Len(Fifo) < QSize /\ Fifo' = Append(Fifo, v)
<1>1. /\ num # QSize /\ num' = num + 1 /\ data' = [data EXCEPT ![tail] = v]
      /\ head' = head /\ num \in 0 .. QSize /\ head \in Slots /\ tail \in Slots
      /\ tail = Position(num) /\ data \in [Slots -> Values \cup {NoValue}]
  BY DEF PutStore, RingInv, RingConsistent, TypeOK
<1>2. /\ Fifo \in Seq(Values) /\ Len(Fifo) = num
      /\ \A i \in 1 .. num : Fifo[i] = data[Position(i - 1)]
  BY FifoIsSeq DEF RingInv
<1>3. /\ Fifo' \in Seq(Values) /\ Len(Fifo') = num + 1
      /\ \A i \in 1 .. num + 1 : Fifo'[i] = data'[Position(i - 1)]
  <2>1. /\ Fifo' \in Seq(Values) /\ Len(Fifo') = num'
        /\ \A i \in 1 .. num' : Fifo'[i] = data'[(head' + (i - 1)) % QSize]
    BY FifoIsSeqNext DEF RingInv
  <2> QED  BY <2>1, <1>1 DEF Position
<1>4. Append(Fifo, v) \in Seq(Values) /\ Len(Append(Fifo, v)) = num + 1
  BY <1>1, <1>2
<1>5. ASSUME NEW i \in 1 .. num + 1
      PROVE  Fifo'[i] = Append(Fifo, v)[i]
  <2>1. Fifo'[i] = data'[Position(i - 1)]  BY <1>3
  <2>2. CASE i = num + 1
    <3>1. i - 1 = num  BY <1>1, <2>2
    <3>2. Append(Fifo, v)[i] = v  BY <1>1, <1>2, <2>2
    <3> QED  BY <1>1, <2>1, <3>1, <3>2
  <2>3. CASE i \in 1 .. num
    <3>1. i - 1 \in 0 .. QSize - 1 /\ num \in 0 .. QSize - 1 /\ i - 1 # num
      BY <1>1, <2>3, QSizePositive
    <3>2. Position(i - 1) # tail
      BY <3>1, <1>1, PositionsDiffer, Zenon DEF Position
    <3>3. data'[Position(i - 1)] = data[Position(i - 1)]
      <4>1. i - 1 \in 0 .. QSize  BY <3>1, QSizePositive
      <4>2. Position(i - 1) \in Slots
        BY <4>1, <1>1, PositionIsWrap, Zenon DEF Position
      <4> QED  BY <4>2, <3>2, <1>1
    <3>4. Append(Fifo, v)[i] = Fifo[i]  BY <1>1, <1>2, <2>3
    <3> QED  BY <2>1, <2>3, <3>3, <3>4, <1>2
  <2>4. i = num + 1 \/ i \in 1 .. num  BY <1>1, QSizePositive
  <2> QED  BY <2>2, <2>3, <2>4
<1>6. Fifo' = Append(Fifo, v)
  BY <1>3, <1>4, <1>5, SameSeq
<1> QED  BY <1>1, <1>2, <1>6, QSizePositive

(* The ring buffer with its sleeping threads implements the abstract FIFO  *)
(* queue: values leave in the order they were put, none is lost or         *)
(* delivered twice, and q_put answers 1 exactly when the queue is full.    *)
THEOREM QueueImplemented == QueueSpec => Abstract!Spec
<1>1. QueueInit => Abstract!Init
  <2> SUFFICES ASSUME QueueInit PROVE Abstract!Init  OBVIOUS
  <2>1. num = 0  BY DEF QueueInit
  <2>2. [i \in 1 .. num |-> data[Position(i - 1)]] = <<>>  BY <2>1
  <2> QED  BY <2>2 DEF QueueInit, Abstract!Init
<1>2. RingInv /\ RingInv' /\ [QueueNext]_queueVars => [Abstract!Next]_(Abstract!vars)
  <2> SUFFICES ASSUME RingInv, RingInv', [QueueNext]_queueVars
               PROVE  [Abstract!Next]_(Abstract!vars)
    OBVIOUS
  <2> USE DEF Fifo
  <2>s. ASSUME UNCHANGED <<data, head, num>> PROVE Fifo' = Fifo
    BY <2>s DEF Position
  <2>1. ASSUME NEW t \in Getters, Enter(t) PROVE Abstract!Next
    <3>1. Fifo' = Fifo  BY <2>1, <2>s DEF Enter
    <3> QED  BY <3>1, <2>1 DEF Enter, Abstract!Next, Abstract!Enter
  <2>2. ASSUME NEW t \in Getters, GetWait(t) \/ SpuriousWakeup(t)
        PROVE  UNCHANGED Abstract!vars
    <3>1. Fifo' = Fifo  BY <2>2, <2>s DEF GetWait, SpuriousWakeup
    <3> QED  BY <3>1, <2>2 DEF GetWait, SpuriousWakeup, Abstract!vars
  <2>3. ASSUME NEW t \in Getters, GetTake(t) PROVE Abstract!Next
    <3>1. /\ Fifo # <<>> /\ val' = [val EXCEPT ![t] = Head(Fifo)]
          /\ Fifo' = Tail(Fifo)
      BY <2>3, TakeIsGet
    <3>2. t \in calling /\ calling' = calling \ {t} /\ ret' = ret
      BY <2>3 DEF GetTake
    <3>3. Abstract!Get(t)  BY <3>1, <3>2 DEF Abstract!Get
    <3> QED  BY <3>2, <3>3 DEF Abstract!Next
  <2>4. ASSUME NEW v \in Values, PutStore(v) PROVE Abstract!Next
    <3>1. Len(Fifo) < QSize /\ Fifo' = Append(Fifo, v)
      BY <2>4, StoreIsPut
    <3>2. ret' = 0 /\ UNCHANGED <<calling, val>>  BY <2>4 DEF PutStore
    <3>3. Abstract!Put(v)  BY <3>1, <3>2 DEF Abstract!Put
    <3> QED  BY <3>2, <3>3 DEF Abstract!Next
  <2>5. ASSUME PutFull PROVE Abstract!Next
    <3>1. Fifo' = Fifo  BY <2>5, <2>s DEF PutFull
    <3>2. Len(Fifo) = QSize  BY <2>5, FifoIsSeq DEF PutFull, RingInv
    <3>3. ret' = 1 /\ UNCHANGED <<calling, val>>  BY <2>5 DEF PutFull
    <3>4. Abstract!Reject  BY <3>1, <3>2, <3>3 DEF Abstract!Reject
    <3> QED  BY <3>3, <3>4 DEF Abstract!Next
  <2>6. CASE UNCHANGED queueVars
    <3>1. Fifo' = Fifo  BY <2>6, <2>s DEF queueVars
    <3> QED  BY <3>1, <2>6 DEF queueVars, Abstract!vars
  <2> QED  BY <2>1, <2>2, <2>3, <2>4, <2>5, <2>6 DEF QueueNext
<1> QED  BY <1>1, <1>2, TypeCorrect, RingCorrect, PTL DEF QueueSpec, RingInv, Abstract!Spec
=============================================================================

------------------------------ MODULE SynQueue ------------------------------
(***************************************************************************)
(* The synchronised queue of queue.c: a ring buffer of QSize slots under   *)
(* one mutex, with the condition variable for_data and the counter         *)
(* n_wait_dt of threads that went to sleep.                                *)
(*                                                                         *)
(* Each critical section of q->mutex is one step.  pthread_cond_wait       *)
(* leaves the mutex and takes it again, so q_get is two steps: the one     *)
(* that falls asleep (GetWait) and the one that finds a value (GetTake).   *)
(* A thread that was woken has to test num again: it is in calling but no  *)
(* longer in waiting.  The wait may also end without a signal.             *)
(***************************************************************************)
EXTENDS Integers, FiniteSets

CONSTANTS Getters,      \* threads that call q_get
          Values,       \* values given to q_put
          QSize,        \* size given to q_init
          NoValue,      \* content of a slot that malloc left uninitialised
          MaxSpurious   \* bound: wakeups without a signal not yet absorbed

ASSUME GettersFinite == IsFiniteSet(Getters)
ASSUME QSizePositive == QSize \in Nat \ {0}
ASSUME NoValueFresh == NoValue \notin Values
ASSUME MaxSpuriousNat == MaxSpurious \in Nat

VARIABLES data,         \* q->data
          head, tail,   \* q->head, q->tail
          num,          \* q->num
          n_wait_dt,    \* q->n_wait_dt
          waiting,      \* threads asleep in pthread_cond_wait(&q->for_data)
          calling,      \* threads inside q_get
          val,          \* val[t]: the int q_get of t writes through *val
          ret           \* return value of the last q_put

queueVars == <<data, head, tail, num, n_wait_dt, waiting, calling, val, ret>>

Slots == 0 .. QSize - 1

(* q_init: empty ring, nobody asleep, slots uninitialised.                 *)
QueueInit == /\ data = [i \in Slots |-> NoValue]
             /\ head = 0 /\ tail = 0 /\ num = 0
             /\ n_wait_dt = 0
             /\ waiting = {} /\ calling = {}
             /\ val = [t \in Getters |-> NoValue]
             /\ ret = 0

(* The ring arithmetic with the wrap one slot late.                        *)
AdvanceTooLate(i) == IF i = QSize THEN 0 ELSE i + 1

(* (i + 1) % q->size, which moves head and tail.                           *)
Advance(i) == (i + 1) % QSize

Enter(t) == /\ t \in Getters \ calling
            /\ calling' = calling \cup {t}
            /\ UNCHANGED <<data, head, tail, num, n_wait_dt, waiting, val, ret>>

(* q_get finds nothing: counts itself and sleeps, releasing the mutex.     *)
GetWait(t) == /\ t \in calling \ waiting
              /\ num = 0
              /\ n_wait_dt' = n_wait_dt + 1
              /\ waiting' = waiting \cup {t}
              /\ UNCHANGED <<data, head, tail, num, calling, val, ret>>

(* Takes the newest value instead of the oldest.                           *)
GetTakeNewest(t) == /\ t \in calling \ waiting
                    /\ num # 0
                    /\ val' = [val EXCEPT ![t] = data[(head + num - 1) % QSize]]
                    /\ head' = Advance(head)
                    /\ num' = num - 1
                    /\ calling' = calling \ {t}
                    /\ UNCHANGED <<data, tail, n_wait_dt, waiting, ret>>

(* q_get takes the value at head and returns.                              *)
GetTake(t) == /\ t \in calling \ waiting
              /\ num # 0
              /\ val' = [val EXCEPT ![t] = data[head]]
              /\ head' = Advance(head)
              /\ num' = num - 1
              /\ calling' = calling \ {t}
              /\ UNCHANGED <<data, tail, n_wait_dt, waiting, ret>>

(* The wait of t ends without a signal; n_wait_dt still counts t.          *)
SpuriousWakeup(t) == /\ t \in waiting
                     /\ n_wait_dt - Cardinality(waiting) < MaxSpurious
                     /\ waiting' = waiting \ {t}
                     /\ UNCHANGED <<data, head, tail, num, n_wait_dt, calling,
                                    val, ret>>

(* A wakeup only when the queue becomes non-empty: values put while a      *)
(* woken thread has not run yet then leave the other sleepers asleep.      *)
WakeIfEmpty == IF n_wait_dt > 0 /\ num = 0
               THEN /\ n_wait_dt' = n_wait_dt - 1
                    /\ \/ waiting = {} /\ waiting' = waiting
                       \/ \E t \in waiting : waiting' = waiting \ {t}
               ELSE UNCHANGED <<n_wait_dt, waiting>>

(* q_put first wakes one sleeper when it believes there is one: the        *)
(* signal wakes one of the threads asleep, or nobody if the count was      *)
(* left over from a spurious wakeup.                                       *)
Wake == IF n_wait_dt > 0
        THEN /\ n_wait_dt' = n_wait_dt - 1
             /\ \/ waiting = {} /\ waiting' = waiting
                \/ \E t \in waiting : waiting' = waiting \ {t}
        ELSE UNCHANGED <<n_wait_dt, waiting>>

(* q_put on a full queue: the wakeup above still happened.                 *)
PutFull == /\ Wake
           /\ num = QSize
           /\ ret' = 1
           /\ UNCHANGED <<data, head, tail, num, calling, val>>

(* q_put with room: stores at tail.                                        *)
PutStore(v) == /\ Wake
               /\ num # QSize
               /\ data' = [data EXCEPT ![tail] = v]
               /\ tail' = Advance(tail)
               /\ num' = num + 1
               /\ ret' = 0
               /\ UNCHANGED <<head, calling, val>>

QueueNext == \/ \E t \in Getters : Enter(t)
             \/ \E t \in Getters : GetWait(t)
             \/ \E t \in Getters : GetTake(t)
             \/ \E t \in Getters : SpuriousWakeup(t)
             \/ \E v \in Values : PutStore(v)
             \/ PutFull

QueueSpec == QueueInit /\ [][QueueNext]_queueVars

(* A thread that owns the processor goes on with its own q_get; nobody is  *)
(* obliged to put, to call q_get, or to wake up without a signal.          *)
GetFairness == \A t \in Getters : /\ WF_queueVars(GetWait(t))
                                   /\ WF_queueVars(GetTake(t))

FairQueueSpec == QueueSpec /\ GetFairness
-----------------------------------------------------------------------------
(* Types of the fields of syn_queue_t and of the threads using it.         *)
TypeOK == /\ data \in [Slots -> Values \cup {NoValue}]
          /\ head \in Slots /\ tail \in Slots
          /\ num \in 0 .. QSize
          /\ n_wait_dt \in Nat
          /\ waiting \subseteq calling
          /\ calling \subseteq Getters
          /\ val \in [Getters -> Values \cup {NoValue}]
          /\ ret \in {0, 1}

(* head, tail and num of q_get and q_put, advanced in different threads,   *)
(* always describe the same window of the ring, also when it is full or    *)
(* empty (head = tail in both), and every slot in the window was written:  *)
(* q_get never returns uninitialised memory.                               *)
Position(i) == (head + i) % QSize

RingConsistent == /\ tail = Position(num)
                  /\ \A i \in 0 .. num - 1 : data[Position(i)] \in Values

(* n_wait_dt counts at least the threads asleep, so the test n_wait_dt > 0 *)
(* in q_put never skips a signal that somebody needs (spurious wakeups may *)
(* leave it too high, never too low).                                      *)
WaitersCounted == Cardinality(waiting) <= n_wait_dt

(* No lost wakeup: while a thread sleeps in q_get, every queued value has  *)
(* an awake thread on its way to it.                                       *)
NoLostWakeup == waiting # {} => num <= Cardinality(calling \ waiting)

(* The ring buffer implements the abstract queue: values leave in the      *)
(* order they came, each once, q_put answers 1 exactly when the queue is   *)
(* full, and a value is never left beside a sleeping thread.               *)
Abstract == INSTANCE BoundedQueue
              WITH Threads <- Getters,
                   fifo <- [i \in 1 .. num |-> data[Position(i - 1)]]

ImplementsQueue == Abstract!FairSpec
=============================================================================

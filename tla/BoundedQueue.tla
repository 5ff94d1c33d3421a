---------------------------- MODULE BoundedQueue ----------------------------
(***************************************************************************)
(* What the socket queue of weborf (queue.c) promises its users, without   *)
(* ring buffer, condition variable or counters: a FIFO of at most QSize    *)
(* values, put by a caller that is told whether there was room, and taken  *)
(* by threads that block inside q_get until a value is theirs.             *)
(***************************************************************************)
EXTENDS Naturals, Sequences

CONSTANTS Threads,      \* threads that may call q_get
          Values,       \* what is queued: file descriptors, termination orders
          QSize,        \* capacity (the size given to q_init)
          NoValue       \* content of a value nobody wrote yet

VARIABLES fifo,         \* queued values, oldest first
          calling,      \* threads that called q_get and did not return
          val,          \* val[t]: what the last q_get of t stored through *val
          ret           \* return value of the last q_put

vars == <<fifo, calling, val, ret>>

Init == /\ fifo = <<>>
        /\ calling = {}
        /\ val = [t \in Threads |-> NoValue]
        /\ ret = 0

(* q_put(v) with room left: the value goes to the end of the queue.        *)
Put(v) == /\ Len(fifo) < QSize
          /\ fifo' = Append(fifo, v)

(* q_put on a full queue: the value is refused.                            *)
Reject == /\ Len(fifo) = QSize
          /\ fifo' = fifo

(* A blocked or new caller returns from q_get with the oldest value.       *)
Get(t) == /\ t \in calling
          /\ fifo # <<>>
          /\ val' = [val EXCEPT ![t] = Head(fifo)]
          /\ fifo' = Tail(fifo)
          /\ calling' = calling \ {t}

Enter(t) == /\ t \in Threads \ calling
            /\ calling' = calling \cup {t}

Next == \/ \E v \in Values : Put(v) /\ ret' = 0 /\ UNCHANGED <<calling, val>>
        \/ Reject /\ ret' = 1 /\ UNCHANGED <<calling, val>>
        \/ \E t \in Threads : Get(t) /\ UNCHANGED ret
        \/ \E t \in Threads : Enter(t) /\ UNCHANGED <<fifo, val, ret>>

Spec == Init /\ [][Next]_vars

(* While something is queued and somebody is inside q_get, some thread     *)
(* gets it: no value stays in the queue beside a sleeping thread.          *)
Delivers == WF_vars(\E t \in Threads : Get(t) /\ UNCHANGED ret)

FairSpec == Spec /\ Delivers
=============================================================================

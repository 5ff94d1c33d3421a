----------------------------- MODULE ByteStream -----------------------------
(***************************************************************************)
(* What the buffered reader of weborf (buffered_reader.c) promises to the  *)
(* code that parses requests, whatever the sizes in which the network      *)
(* delivers: the bytes of one connection, each once, in their order.       *)
(***************************************************************************)
EXTENDS Naturals, Sequences

CONSTANTS Bytes,        \* bytes a client may send
          Counts        \* amounts a caller may ask for

VARIABLES pending,      \* bytes sent on this connection, not returned yet
          calls,        \* 0, or 1 while a caller is inside buffer_read
          count,        \* amount asked by the last call
          out           \* bytes the last call returned

vars == <<pending, calls, count, out>>

Init == /\ pending = <<>>
        /\ calls = 0
        /\ count = 0
        /\ out = <<>>

Arrive(b) == /\ pending' = Append(pending, b)
             /\ UNCHANGED <<calls, count, out>>

Call(n) == /\ calls = 0
           /\ calls' = 1
           /\ count' = n
           /\ UNCHANGED <<pending, out>>

(* The call returns what it was asked for, or less when the connection     *)
(* ends, fails or stays silent for too long; never more, never a byte out  *)
(* of its turn.                                                            *)
Return == /\ calls = 1
          /\ calls' = 0
          /\ \E k \in 0 .. count :
                /\ k <= Len(pending)
                /\ out' = SubSeq(pending, 1, k)
                /\ pending' = SubSeq(pending, k + 1, Len(pending))
          /\ UNCHANGED count

(* The next connection starts with nothing of the one before.              *)
Reset == /\ calls = 0
         /\ pending' = <<>>
         /\ UNCHANGED <<calls, count, out>>

Next == \/ \E b \in Bytes : Arrive(b)
        \/ \E n \in Counts : Call(n)
        \/ Return
        \/ Reset

Spec == Init /\ [][Next]_vars
=============================================================================

--------------------------- MODULE BufferedReader ---------------------------
(***************************************************************************)
(* buffered_reader.c: buffer_read over a buffer that is refilled by one    *)
(* read(2) at a time, with the poll timeout of buffer_fill, and the        *)
(* buffer_reset with which instance() hands the buffer to its next         *)
(* connection.  A byte is the pair of its connection and its number in it. *)
(***************************************************************************)
EXTENDS Integers, Sequences, FiniteSetsExt

CONSTANTS SIZE,         \* BUFFERED_READER_SIZE
          MaxCount,     \* bound: bytes asked in one call
          MaxBytes,     \* bound: bytes sent on a connection
          MaxConns,     \* bound: connections served with this buffer
          MAXFAULTS,    \* bound: failing reads
          MAXPOLLFAULTS,\* bound: failing polls
          Garbage       \* memory that malloc left uninitialised

ASSUME SizePositive == SIZE \in Nat \ {0}
ASSUME BoundsNat == {MaxCount, MaxBytes, MaxConns, MAXFAULTS, MAXPOLLFAULTS} \subseteq Nat
ASSUME SomeConnection == MaxConns >= 1

Bytes == (1 .. MaxConns) \X (1 .. MaxBytes)
Counts == 0 .. MaxCount

VARIABLES buffer, start, end,   \* buf->buffer, buf->start, buf->end (as offsets)
          net, closed,          \* received by the kernel, not read; FIN received
          conn, sent,           \* number of the connection, bytes sent on it
          pc,                   \* where the caller is
          count, got,           \* count, and what b[0 .. wrote - 1] holds
          out,                  \* what the last call returned
          faults, pollfaults

vars == <<buffer, start, end, net, closed, conn, sent, pc, count, got, out,
          faults, pollfaults>>
bufvars == <<buffer, start, end>>
netvars == <<net, closed, conn, sent>>
faultvars == <<faults, pollfaults>>

(* buffer_init.                                                            *)
Init == /\ buffer = [i \in 0 .. SIZE - 1 |-> Garbage]
        /\ start = 0 /\ end = 0
        /\ net = <<>> /\ closed = FALSE
        /\ conn = 1 /\ sent = 0
        /\ pc = "idle"
        /\ count = 0 /\ got = <<>> /\ out = <<>>
        /\ faults = 0 /\ pollfaults = 0

(* The client sends a byte, or closes its side.                            *)
Send == /\ ~closed /\ sent < MaxBytes
        /\ net' = Append(net, <<conn, sent + 1>>)
        /\ sent' = sent + 1
        /\ UNCHANGED <<bufvars, closed, conn, pc, count, got, out, faultvars>>

CloseClient == /\ ~closed
               /\ closed' = TRUE
               /\ UNCHANGED <<bufvars, net, conn, sent, pc, count, got, out, faultvars>>

Call(n) == /\ pc = "idle"
           /\ pc' = "loop"
           /\ count' = n
           /\ got' = <<>>
           /\ UNCHANGED <<bufvars, netvars, out, faultvars>>

(* The n bytes of the buffer from start on.                                *)
Cached(n) == [k \in 1 .. n |-> buffer[start + k - 1]]

available == end - start
needed == count - Len(got)

(* Nothing was asked for: the loop is not entered.                         *)
ReturnNothing == /\ pc = "loop" /\ needed <= 0
                 /\ pc' = "idle"
                 /\ out' = got
                 /\ UNCHANGED <<bufvars, netvars, count, got, faultvars>>

(* The buffer holds what is still needed.                                  *)
CopyNeeded == /\ pc = "loop" /\ needed > 0 /\ needed <= available
              /\ pc' = "idle"
              /\ out' = got \o Cached(needed)
              /\ start' = start + needed
              /\ UNCHANGED <<buffer, end, netvars, count, got, faultvars>>

(* It does not: it is emptied and filled again.                            *)
CopyAvailable == /\ pc = "loop" /\ needed > available
                 /\ pc' = "fill"
                 /\ got' = got \o Cached(available)
                 /\ UNCHANGED <<bufvars, netvars, count, out, faultvars>>

(* buffer_fill without the assignment to buf->start.                       *)
FillKeepsStart ==
  /\ pc \in {"fill", "blocked"} /\ net # <<>>
  /\ \E r \in 1 .. Min({SIZE, Len(net)}) :
        /\ buffer' = [i \in DOMAIN buffer |-> IF i < r THEN net[i + 1] ELSE buffer[i]]
        /\ end' = r
        /\ net' = SubSeq(net, r + 1, Len(net))
  /\ pc' = "loop"
  /\ UNCHANGED <<start, closed, conn, sent, count, got, out, faultvars>>

(* buffer_fill: one read of r bytes, which may be more or less than the    *)
(* caller needs.                                                           *)
Fill == /\ pc \in {"fill", "blocked"} /\ net # <<>>
        /\ \E r \in 1 .. Min({SIZE, Len(net)}) :
              /\ buffer' = [i \in DOMAIN buffer |->
                              IF i < r THEN net[i + 1] ELSE buffer[i]]
              /\ start' = 0 /\ end' = r
              /\ net' = SubSeq(net, r + 1, Len(net))
        /\ pc' = "loop"
        /\ UNCHANGED <<closed, conn, sent, count, got, out, faultvars>>

(* The call ends short; the bytes drained so far are returned.             *)
ReturnShort == /\ start' = 0 /\ end' = 0
               /\ pc' = "idle"
               /\ out' = got
               /\ UNCHANGED <<buffer, netvars, count, got>>

FillEnds == /\ pc \in {"fill", "blocked"} /\ net = <<>> /\ closed
            /\ ReturnShort
            /\ UNCHANGED faultvars

(* A timeout after which the call tries again.                             *)
FillTimeoutRetries == /\ pc = "fill" /\ net = <<>> /\ ~closed
                      /\ start' = 0 /\ end' = 0
                      /\ pc' = "loop"
                      /\ UNCHANGED <<buffer, netvars, count, got, out, faultvars>>

(* poll found nothing for READ_TIMEOUT.                                    *)
FillTimeout == /\ pc = "fill" /\ net = <<>> /\ ~closed
               /\ ReturnShort
               /\ UNCHANGED faultvars

(* read(2) fails.                                                          *)
FillFails == /\ pc \in {"fill", "blocked"}
             /\ faults < MAXFAULTS /\ faults' = faults + 1
             /\ ReturnShort
             /\ UNCHANGED pollfaults

(* poll returns -1, which is not 0: the read follows without a timeout.    *)
PollFails == /\ pc = "fill"
             /\ pollfaults < MAXPOLLFAULTS /\ pollfaults' = pollfaults + 1
             /\ pc' = "blocked"
             /\ UNCHANGED <<bufvars, netvars, count, got, out, faults>>

(* The next connection, with the buffer as the last one left it.           *)
NextConnNoReset == /\ pc = "idle" /\ conn < MaxConns
                   /\ conn' = conn + 1
                   /\ net' = <<>> /\ closed' = FALSE /\ sent' = 0
                   /\ UNCHANGED <<bufvars, pc, count, got, out, faultvars>>

(* instance() closes the socket, resets the buffer and takes the next one. *)
NextConn == /\ pc = "idle" /\ conn < MaxConns
            /\ conn' = conn + 1
            /\ net' = <<>> /\ closed' = FALSE /\ sent' = 0
            /\ start' = 0 /\ end' = 0
            /\ UNCHANGED <<buffer, pc, count, got, out, faultvars>>

Reader == ReturnNothing \/ CopyNeeded \/ CopyAvailable \/ Fill \/ FillEnds \/ FillTimeout

Next == \/ Send \/ CloseClient \/ NextConn
        \/ \E n \in Counts : Call(n)
        \/ Reader \/ FillFails \/ PollFails

Spec == Init /\ [][Next]_vars

(* The thread runs, and poll comes back after READ_TIMEOUT at the latest;  *)
(* nothing is assumed of the client.                                       *)
FairSpec == Spec /\ WF_vars(Reader)
-----------------------------------------------------------------------------
(* buf->start, buf->end and the bytes a call still lacks stay in range.    *)
ReaderTypeOK ==
  /\ 0 <= start /\ start <= end /\ end <= SIZE
  /\ pc \in {"idle", "loop", "fill", "blocked"}
  /\ count \in Counts
  /\ Len(got) <= count
  /\ \A k \in DOMAIN out : out[k] \in Bytes
  /\ pc \in {"fill", "blocked"} => Len(got) < count
  /\ conn \in 1 .. MaxConns
  /\ \A i \in start .. end - 1 : buffer[i] \in Bytes

(* The reader implements the byte stream: whatever sizes the network       *)
(* delivers and the callers ask for, and with timeouts, failed reads and   *)
(* the change of connection between calls, no byte is lost, repeated,      *)
(* reordered, or carried over to the next connection.                      *)
Abstract ==
  INSTANCE ByteStream
    WITH pending <- (IF pc = "idle" THEN <<>> ELSE got)
                      \o (IF pc \in {"fill", "blocked"} THEN <<>> ELSE Cached(available))
                      \o net,
         calls <- (IF pc = "idle" THEN 0 ELSE 1)

StreamInOrder == Abstract!Spec

(* "this function will wait until the requested amount of bytes are        *)
(* available, or until the timeout occurs": every call of buffer_read      *)
(* returns, whatever the client does.  The exception is a poll that fails: *)
(* its result is not 0, so the read that follows has no timeout.           *)
ReadReturns == pc # "idle" ~> pc \in {"idle", "blocked"}
=============================================================================

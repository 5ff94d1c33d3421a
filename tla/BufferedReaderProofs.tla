------------------------ MODULE BufferedReaderProofs ------------------------
(***************************************************************************)
(* buffer_read implements the byte stream, for every size of the buffer,   *)
(* all amounts asked for and delivered, and any number of connections,     *)
(* timeouts and faults.                                                    *)
(***************************************************************************)
EXTENDS BufferedReader, SequenceTheorems, TLAPS

(* ReaderTypeOK, and that the kernel, the caller's array and the part of   *)
(* the buffer in use hold bytes.                                           *)
ReaderInv ==
  /\ start \in 0 .. SIZE /\ end \in 0 .. SIZE /\ start <= end
  /\ buffer \in [0 .. SIZE - 1 -> Bytes \cup {Garbage}]
  /\ \A i \in start .. end - 1 : buffer[i] \in Bytes
  /\ net \in Seq(Bytes) /\ got \in Seq(Bytes) /\ out \in Seq(Bytes)
  /\ closed \in BOOLEAN
  /\ conn \in 1 .. MaxConns /\ sent \in 0 .. MaxBytes
  /\ pc \in {"idle", "loop", "fill", "blocked"}
  /\ count \in Counts /\ Len(got) <= count
  /\ pc \in {"fill", "blocked"} => Len(got) < count

(* The bytes that are still to be returned, as the refinement mapping has  *)
(* them: in the caller's array, in the buffer, in the kernel.              *)
Drained == IF pc = "idle" THEN <<>> ELSE got
Kept == IF pc \in {"fill", "blocked"} THEN <<>> ELSE Cached(available)
Pending == Drained \o Kept \o net
-----------------------------------------------------------------------------
(* The two parts of a sequence can be cut out of it again.                 *)
LEMMA CutConcat ==
  ASSUME NEW S, NEW s \in Seq(S), NEW t \in Seq(S)
  PROVE  /\ SubSeq(s \o t, 1, Len(s)) = s
         /\ SubSeq(s \o t, Len(s) + 1, Len(s \o t)) = t
<1>0. /\ s \o t \in Seq(S) /\ Len(s \o t) = Len(s) + Len(t)
      /\ Len(s) \in Nat /\ Len(t) \in Nat
      /\ \A i \in 1 .. Len(s) + Len(t) : (s \o t)[i] = IF i <= Len(s) THEN s[i] ELSE t[i - Len(s)]
  BY ConcatProperties, LenProperties
<1>e. \A i \in 1 .. Len(s) + Len(t) : (s \o t)[i] \in S
  BY <1>0, ElementOfSeq
<1>1. SubSeq(s \o t, 1, Len(s)) = s
  <2> DEFINE u == SubSeq(s \o t, 1, Len(s))
  <2>1. /\ u \in Seq(S) /\ Len(u) = Len(s)
        /\ \A i \in 1 .. Len(s) : u[i] = (s \o t)[i]
    BY <1>0, <1>e, SubSeqProperties
  <2>2. \A i \in 1 .. Len(u) : u[i] = s[i]
    BY <1>0, <2>1
  <2> QED  BY <2>1, <2>2, SeqEqual
<1>2. SubSeq(s \o t, Len(s) + 1, Len(s \o t)) = t
  <2> DEFINE u == SubSeq(s \o t, Len(s) + 1, Len(s \o t))
  <2>1. /\ u \in Seq(S) /\ Len(u) = Len(t)
        /\ \A i \in 1 .. Len(t) : u[i] = (s \o t)[Len(s) + i]
    BY <1>0, <1>e, SubSeqProperties
  <2>2. \A i \in 1 .. Len(u) : u[i] = t[i]
    BY <1>0, <2>1
  <2> QED  BY <2>1, <2>2, SeqEqual
<1> QED  BY <1>1, <1>2

(* Three and four parts of a stream, whichever way they are put together.  *)
Three(s, t, u) == (s \o t) \o u = s \o (t \o u)
Four(s, t, u, v) == (s \o (t \o u)) \o v = (s \o t) \o (u \o v)

LEMMA ConcatThree ==
  ASSUME NEW s \in Seq(Bytes), NEW t \in Seq(Bytes), NEW u \in Seq(Bytes)
  PROVE  Three(s, t, u)
  BY ConcatAssociative DEF Three

LEMMA ConcatFour ==
  ASSUME NEW s \in Seq(Bytes), NEW t \in Seq(Bytes), NEW u \in Seq(Bytes), NEW v \in Seq(Bytes)
  PROVE  Four(s, t, u, v)
<1>1. Three(s, t, u)  BY ConcatThree
<1>2. s \o t \in Seq(Bytes)  BY ConcatProperties
<1>3. Three(s \o t, u, v)  BY <1>2, ConcatThree
<1> QED  BY <1>1, <1>3, Zenon DEF Three, Four

(* What is in the buffer from start on is a sequence of bytes, and taking  *)
(* n of them leaves the rest.                                              *)
LEMMA CachedBytes ==
  ASSUME ReaderInv, NEW n \in 0 .. available
  PROVE  /\ Cached(n) \in Seq(Bytes) /\ Len(Cached(n)) = n
         /\ Cached(available) = Cached(n) \o [k \in 1 .. available - n |-> buffer[start + n + k - 1]]
         /\ [k \in 1 .. available - n |-> buffer[start + n + k - 1]] \in Seq(Bytes)
<1>0. available \in Nat /\ n \in Nat  BY SizePositive DEF ReaderInv, available
<1>1. ASSUME NEW m \in 0 .. available
      PROVE  Cached(m) \in Seq(Bytes) /\ Len(Cached(m)) = m
             /\ \A k \in 1 .. m : Cached(m)[k] = buffer[start + k - 1]
  <2>1. \A k \in 1 .. m : buffer[start + k - 1] \in Bytes
    BY <1>0 DEF ReaderInv, available
  <2> QED  BY <2>1, <1>0, IsASeq DEF Cached
<1> DEFINE rest == [k \in 1 .. available - n |-> buffer[start + n + k - 1]]
<1>2. /\ rest \in Seq(Bytes) /\ Len(rest) = available - n
      /\ \A k \in 1 .. available - n : rest[k] = buffer[start + n + k - 1]
  <2>1. \A k \in 1 .. available - n : buffer[start + n + k - 1] \in Bytes
    BY <1>0 DEF ReaderInv, available
  <2>2. available - n \in Nat  BY <1>0
  <2> QED  BY <2>1, <2>2
<1> HIDE DEF rest
<1>3. Cached(available) = Cached(n) \o rest
  <2>1. /\ Cached(n) \o rest \in Seq(Bytes) /\ Len(Cached(n) \o rest) = available
        /\ \A i \in 1 .. available : (Cached(n) \o rest)[i] =
              IF i <= n THEN Cached(n)[i] ELSE rest[i - n]
    <3>1. Cached(n) \in Seq(Bytes) /\ Len(Cached(n)) = n  BY <1>1
    <3>2. /\ Cached(n) \o rest \in Seq(Bytes)
          /\ Len(Cached(n) \o rest) = Len(Cached(n)) + Len(rest)
          /\ \A i \in 1 .. Len(Cached(n)) + Len(rest) : (Cached(n) \o rest)[i] =
                IF i <= Len(Cached(n)) THEN Cached(n)[i] ELSE rest[i - Len(Cached(n))]
      BY <3>1, <1>2, ConcatProperties
    <3>3. Len(Cached(n)) + Len(rest) = available  BY <1>0, <1>2, <3>1
    <3> QED  BY <3>1, <3>2, <3>3
  <2>2. \A i \in 1 .. available : Cached(available)[i] = (Cached(n) \o rest)[i]
    <3>1. ASSUME NEW i \in 1 .. available
          PROVE  Cached(available)[i] = (Cached(n) \o rest)[i]
      <4>1. start \in Int /\ available \in 0 .. available  BY <1>0 DEF ReaderInv
      <4>2. Cached(available)[i] = buffer[start + i - 1]  BY <1>1, <4>1
      <4>3. CASE i <= n
        BY <1>0, <1>1, <2>1, <4>1, <4>2, <4>3
      <4>4. CASE ~(i <= n)
        <5>1. i - n \in 1 .. available - n  BY <1>0, <4>4
        <5>2. rest[i - n] = buffer[start + n + (i - n) - 1]  BY <1>2, <5>1
        <5>3. start + n + (i - n) - 1 = start + i - 1  BY <1>0, <4>1
        <5> QED  BY <2>1, <4>2, <4>4, <5>2, <5>3
      <4> QED  BY <4>3, <4>4
    <3> QED  BY <3>1
  <2>3. Cached(available) \in Seq(Bytes) /\ Len(Cached(available)) = available
    BY <1>0, <1>1
  <2> QED  BY <2>1, <2>2, <2>3, SeqEqual
<1> QED  BY <1>1, <1>2, <1>3 DEF rest
-----------------------------------------------------------------------------
LEMMA InitInv == Init => ReaderInv
<1> SUFFICES ASSUME Init
             PROVE  ReaderInv
  OBVIOUS
<1>1. buffer \in [0 .. SIZE - 1 -> Bytes \cup {Garbage}]
  BY DEF Init
<1>2. net \in Seq(Bytes) /\ got \in Seq(Bytes) /\ out \in Seq(Bytes) /\ Len(got) = 0
  BY EmptySeq DEF Init
<1>3. /\ start \in 0 .. SIZE /\ end \in 0 .. SIZE /\ start <= end
      /\ conn \in 1 .. MaxConns /\ sent \in 0 .. MaxBytes
      /\ count \in Counts /\ Len(got) <= count
  BY <1>2, SizePositive, BoundsNat, SomeConnection DEF Init, Counts
<1>4. \A i \in start .. end - 1 : buffer[i] \in Bytes
  BY DEF Init
<1> QED  BY <1>1, <1>2, <1>3, <1>4 DEF Init, ReaderInv

(* One read(2) takes no more than there is and than the buffer holds.      *)
LEMMA ReadSize ==
  ASSUME NEW n \in Nat, NEW r \in 1 .. Min({SIZE, n})
  PROVE  r \in 1 .. SIZE /\ r <= n
<1>1. \E x \in {SIZE, n} : \A y \in {SIZE, n} : x <= y
  BY SizePositive
<1>2. Min({SIZE, n}) \in {SIZE, n} /\ \A y \in {SIZE, n} : Min({SIZE, n}) <= y
  BY <1>1 DEF Min
<1> QED  BY <1>2, SizePositive

LEMMA NextInv == ReaderInv /\ [Next]_vars => ReaderInv'
<1> SUFFICES ASSUME ReaderInv, [Next]_vars
             PROVE  ReaderInv'
  OBVIOUS
<1> USE DEF bufvars, netvars, faultvars
<1>0. Len(got) \in Nat /\ Len(net) \in Nat  BY LenProperties DEF ReaderInv
<1>1. CASE Send
  <2>1. <<conn, sent + 1>> \in Bytes
    BY <1>1, BoundsNat DEF Send, ReaderInv, Bytes
  <2>2. net' \in Seq(Bytes)
    <3>1. net' = Append(net, <<conn, sent + 1>>)  BY <1>1 DEF Send
    <3>2. net \in Seq(Bytes)  BY DEF ReaderInv
    <3> QED  BY <2>1, <3>1, <3>2, AppendProperties
  <2> QED  BY <1>1, <2>2, BoundsNat DEF Send, ReaderInv
<1>2. CASE CloseClient  BY <1>2 DEF CloseClient, ReaderInv
<1>3. CASE NextConn
  <2>1. net' \in Seq(Bytes)  BY <1>3, EmptySeq DEF NextConn
  <2>2. /\ start' \in 0 .. SIZE /\ end' \in 0 .. SIZE /\ start' <= end'
        /\ conn' \in 1 .. MaxConns /\ sent' \in 0 .. MaxBytes
        /\ \A i \in start' .. end' - 1 : buffer'[i] \in Bytes
    BY <1>3, SizePositive, BoundsNat DEF NextConn, ReaderInv
  <2> QED  BY <1>3, <2>1, <2>2 DEF NextConn, ReaderInv
<1>4. ASSUME NEW n \in Counts, Call(n)
      PROVE  ReaderInv'
  <2>1. got' \in Seq(Bytes) /\ Len(got') = 0  BY <1>4, EmptySeq DEF Call
  <2>2. count' \in Counts /\ Len(got') <= count'  BY <1>4, <2>1 DEF Call, Counts
  <2> QED  BY <1>4, <2>1, <2>2 DEF Call, ReaderInv
<1>5. CASE ReturnNothing  BY <1>5 DEF ReturnNothing, ReaderInv
<1>6. CASE CopyNeeded
  <2>1. needed \in 0 .. available  BY <1>0, <1>6 DEF CopyNeeded, ReaderInv, needed, available, Counts
  <2>2. out' \in Seq(Bytes)
    <3>1. Cached(needed) \in Seq(Bytes)  BY <2>1, CachedBytes
    <3>2. got \in Seq(Bytes) /\ out' = got \o Cached(needed)  BY <1>6 DEF CopyNeeded, ReaderInv
    <3> QED  BY <3>1, <3>2, ConcatProperties
  <2>3. start' \in 0 .. SIZE /\ start' <= end /\ start <= start'
    <3>1. start' = start + needed  BY <1>6 DEF CopyNeeded
    <3> QED  BY <2>1, <3>1, SizePositive DEF ReaderInv, available
  <2> QED  BY <1>6, <2>2, <2>3 DEF CopyNeeded, ReaderInv
<1>7. CASE CopyAvailable
  <2>1. available \in 0 .. available  BY DEF ReaderInv, available
  <2>2. Cached(available) \in Seq(Bytes) /\ Len(Cached(available)) = available
    BY <2>1, CachedBytes
  <2>3. got' \in Seq(Bytes) /\ Len(got') = Len(got) + available
    BY <1>7, <2>2, ConcatProperties DEF CopyAvailable, ReaderInv
  <2>4. Len(got') < count
    BY <1>0, <1>7, <2>1, <2>3 DEF CopyAvailable, needed, ReaderInv, Counts
  <2> QED  BY <1>0, <1>7, <2>3, <2>4 DEF CopyAvailable, ReaderInv, Counts
<1>8. CASE Fill
  <2>1. PICK r \in 1 .. Min({SIZE, Len(net)}) :
          /\ buffer' = [i \in DOMAIN buffer |-> IF i < r THEN net[i + 1] ELSE buffer[i]]
          /\ start' = 0 /\ end' = r
          /\ net' = SubSeq(net, r + 1, Len(net))
    BY <1>8 DEF Fill
  <2>2. r \in 1 .. SIZE /\ r <= Len(net)  BY <1>0, ReadSize
  <2>3. \A i \in 0 .. r - 1 : net[i + 1] \in Bytes
    BY <1>0, <2>2, ElementOfSeq DEF ReaderInv
  <2>4. buffer' \in [0 .. SIZE - 1 -> Bytes \cup {Garbage}]
    BY <2>1, <2>2, <2>3 DEF ReaderInv
  <2>5. \A i \in 0 .. r - 1 : buffer'[i] \in Bytes
    BY <2>1, <2>2, <2>3, SizePositive DEF ReaderInv
  <2>6. net' \in Seq(Bytes)
    BY <1>0, <2>1, <2>2, SubSeqProperties, ElementOfSeq DEF ReaderInv
  <2>7. /\ start' \in 0 .. SIZE /\ end' \in 0 .. SIZE /\ start' <= end'
        /\ \A i \in start' .. end' - 1 : buffer'[i] \in Bytes
    BY <2>1, <2>2, <2>5, SizePositive
  <2>8. UNCHANGED <<closed, conn, sent, count, got, out>> /\ pc' = "loop"
    BY <1>8 DEF Fill
  <2> QED  BY <2>4, <2>6, <2>7, <2>8 DEF ReaderInv
<1>9. CASE FillEnds  BY <1>9, SizePositive DEF FillEnds, ReturnShort, ReaderInv
<1>10. CASE FillTimeout  BY <1>10, SizePositive DEF FillTimeout, ReturnShort, ReaderInv
<1>11. CASE FillFails  BY <1>11, SizePositive DEF FillFails, ReturnShort, ReaderInv
<1>12. CASE PollFails  BY <1>12 DEF PollFails, ReaderInv
<1>13. CASE UNCHANGED vars  BY <1>13 DEF vars, ReaderInv
<1> QED
  BY <1>1, <1>2, <1>3, <1>4, <1>5, <1>6, <1>7, <1>8, <1>9, <1>10, <1>11, <1>12, <1>13
     DEF Next, Reader

LEMMA ReaderInvariant == Spec => []ReaderInv
  BY InitInv, NextInv, PTL DEF Spec

(* start, end and what a call still lacks stay in range, and only bytes of *)
(* a client are returned, for every size of the buffer.                    *)
THEOREM ReaderTypeCorrect == Spec => []ReaderTypeOK
<1>1. ReaderInv => ReaderTypeOK
  <2> SUFFICES ASSUME ReaderInv
               PROVE  ReaderTypeOK
    OBVIOUS
  <2>1. \A k \in DOMAIN out : out[k] \in Bytes
    BY LenProperties, ElementOfSeq DEF ReaderInv
  <2> QED  BY <2>1 DEF ReaderInv, ReaderTypeOK
<1> QED  BY <1>1, ReaderInvariant, PTL
-----------------------------------------------------------------------------
BytesPending == Drained \in Seq(Bytes) /\ Kept \in Seq(Bytes) /\ net \in Seq(Bytes)

LEMMA PendingParts == ReaderInv => BytesPending
<1> SUFFICES ASSUME ReaderInv
             PROVE  BytesPending
  OBVIOUS
<1>1. available \in 0 .. available  BY DEF ReaderInv, available
<1>2. Cached(available) \in Seq(Bytes)  BY <1>1, CachedBytes
<1> QED  BY <1>2, EmptySeq DEF ReaderInv, BytesPending, Drained, Kept

(* An emptied buffer holds nothing back.                                   *)
LEMMA EmptiedBuffer ==
  ASSUME start = 0, end = 0
  PROVE  Cached(available) = <<>>
  BY DEF Cached, available

(* A call that returns the bytes s it has drained, and leaves t.           *)
LEMMA ReturnOf ==
  ASSUME NEW s \in Seq(Bytes), NEW t \in Seq(Bytes),
         Pending = s \o t, Pending' = t, out' = s, Len(s) <= count, count' = count,
         count \in Nat, pc # "idle", pc' = "idle"
  PROVE  Abstract!Return
<1>1. Len(s) \in 0 .. count  BY LenProperties
<1>2. Len(s) <= Len(Pending)  BY LenProperties, ConcatProperties
<1>3. /\ out' = SubSeq(Pending, 1, Len(s))
      /\ Pending' = SubSeq(Pending, Len(s) + 1, Len(Pending))
  BY CutConcat
<1> QED  BY <1>1, <1>2, <1>3 DEF Abstract!Return, Pending, Drained, Kept

(* What the next fill leaves is the rest of what the kernel held.          *)
LEMMA FilledPending ==
  ASSUME ReaderInv, ReaderInv', Fill
  PROVE  Kept = <<>> /\ Drained' = Drained /\ Kept' \o net' = net
<1>0. Len(net) \in Nat /\ net \in Seq(Bytes)  BY LenProperties DEF ReaderInv
<1>1. PICK r \in 1 .. Min({SIZE, Len(net)}) :
        /\ buffer' = [i \in DOMAIN buffer |-> IF i < r THEN net[i + 1] ELSE buffer[i]]
        /\ start' = 0 /\ end' = r
        /\ net' = SubSeq(net, r + 1, Len(net))
  BY DEF Fill
<1>2. r \in 1 .. SIZE /\ r <= Len(net)  BY <1>0, ReadSize
<1>3. \A i \in 1 .. Len(net) : net[i] \in Bytes  BY <1>0, ElementOfSeq
<1>4. /\ SubSeq(net, 1, r) \in Seq(Bytes) /\ Len(SubSeq(net, 1, r)) = r
      /\ \A i \in 1 .. r : SubSeq(net, 1, r)[i] = net[i]
  BY <1>0, <1>2, <1>3, SubSeqProperties
<1>5. Kept' = SubSeq(net, 1, r)
  <2>1. Kept' = [k \in 1 .. r |-> buffer'[k - 1]]
    <3>1. pc' = "loop"  BY DEF Fill
    <3>2. available' = r  BY <1>1, <1>2 DEF available
    <3>3. Cached(available)' = [k \in 1 .. available' |-> buffer'[start' + k - 1]]  BY DEF Cached
    <3> QED  BY <1>1, <1>2, <3>1, <3>2, <3>3 DEF Kept
  <2>2. \A k \in 1 .. r : buffer'[k - 1] = net[k]
    <3>1. DOMAIN buffer = 0 .. SIZE - 1  BY DEF ReaderInv
    <3>2. ASSUME NEW k \in 1 .. r
          PROVE  k - 1 \in 0 .. SIZE - 1 /\ k - 1 < r /\ (k - 1) + 1 = k
      BY <1>2, SizePositive
    <3> QED  BY <1>1, <3>1, <3>2
  <2>3. Kept' = [k \in 1 .. r |-> net[k]]  BY <2>1, <2>2
  <2>4. Kept' \in Seq(Bytes) /\ Len(Kept') = r /\ \A k \in 1 .. r : Kept'[k] = net[k]
    BY <1>2, <1>3, <2>3
  <2> QED  BY <1>4, <2>4, SeqEqual
<1>6. Kept' \o net' = net
  <2>1. 1 \in 1 .. Len(net) + 1 /\ r \in 1 - 1 .. Len(net) /\ Len(net) \in r .. Len(net)
    BY <1>0, <1>2
  <2>2. SubSeq(net, 1, r) \o SubSeq(net, r + 1, Len(net)) = SubSeq(net, 1, Len(net))
    BY <1>0, <2>1, ConcatAdjacentSubSeq
  <2> QED  BY <1>0, <1>1, <1>5, <2>2, SubSeqFull
<1> QED  BY <1>6 DEF Fill, Drained, Kept

LEMMA StepImplements ==
  ASSUME ReaderInv, ReaderInv', [Next]_vars
  PROVE  [Abstract!Next]_(Abstract!vars)
<1> USE DEF bufvars, netvars, faultvars
<1>0. /\ Drained \in Seq(Bytes) /\ Kept \in Seq(Bytes) /\ net \in Seq(Bytes)
      /\ Drained' \in Seq(Bytes) /\ Kept' \in Seq(Bytes) /\ net' \in Seq(Bytes)
  <2>1. ReaderInv' => BytesPending'  BY PendingParts, PTL
  <2> QED  BY <2>1, PendingParts DEF BytesPending
<1>a. got \in Seq(Bytes) /\ count \in Nat /\ Len(got) \in Nat /\ Len(got) <= count
  BY BoundsNat, LenProperties DEF ReaderInv, Counts
<1>b. Pending = Drained \o (Kept \o net) /\ Pending' = Drained' \o (Kept' \o net')
  <2>1. (Drained \o Kept) \o net = Drained \o (Kept \o net)
    <3>1. Drained \in Seq(Bytes) /\ Kept \in Seq(Bytes) /\ net \in Seq(Bytes)  BY <1>0
    <3>2. Three(Drained, Kept, net)  BY <3>1, ConcatThree
    <3> QED  BY <3>2 DEF Three
  <2>2. (Drained' \o Kept') \o net' = Drained' \o (Kept' \o net')
    <3>1. Drained' \in Seq(Bytes) /\ Kept' \in Seq(Bytes) /\ net' \in Seq(Bytes)  BY <1>0
    <3>2. Three(Drained', Kept', net')  BY <3>1, ConcatThree
    <3> QED  BY <3>2 DEF Three
  <2> QED  BY <2>1, <2>2 DEF Pending
<1>c. Kept \o net \in Seq(Bytes) /\ Kept' \o net' \in Seq(Bytes) /\ Drained \o Kept \in Seq(Bytes)
  BY <1>0, ConcatProperties
<1>d. ASSUME Pending' = Pending, UNCHANGED <<count, out>>, (pc' = "idle") <=> (pc = "idle")
      PROVE  UNCHANGED Abstract!vars
  BY <1>d DEF Abstract!vars, Pending, Drained, Kept
<1>1. CASE Send
  <2>1. <<conn, sent + 1>> \in Bytes
    BY <1>1, BoundsNat DEF Send, ReaderInv, Bytes
  <2>2. Drained' = Drained /\ Kept' = Kept /\ net' = Append(net, <<conn, sent + 1>>)
    BY <1>1 DEF Send, Drained, Kept, Cached, available
  <2>3. Pending' = Append(Pending, <<conn, sent + 1>>)
    <3>1. <<<<conn, sent + 1>>>> \in Seq(Bytes)  BY <2>1
    <3>2. net' = net \o <<<<conn, sent + 1>>>>  BY <1>0, <2>1, <2>2, AppendIsConcat
    <3>3. Pending' = Pending \o <<<<conn, sent + 1>>>>
      <4> DEFINE b == <<<<conn, sent + 1>>>>
                 held == Drained \o Kept
      <4>1. held \in Seq(Bytes) /\ net \in Seq(Bytes) /\ b \in Seq(Bytes)  BY <1>0, <1>c, <3>1
      <4>2. Pending = held \o net /\ Pending' = held \o (net \o b)  BY <2>2, <3>2 DEF Pending
      <4> HIDE DEF b, held
      <4>3. (held \o net) \o b = held \o (net \o b)  BY <4>1, ConcatAssociative
      <4> QED  BY <4>2, <4>3 DEF b
    <3>4. Pending \in Seq(Bytes)  BY <1>0, <1>c, ConcatProperties DEF Pending
    <3> QED  BY <2>1, <3>3, <3>4, AppendIsConcat
  <2>4. Abstract!Arrive(<<conn, sent + 1>>)
    BY <1>1, <2>3 DEF Send, Abstract!Arrive, Pending, Drained, Kept
  <2> QED  BY <2>1, <2>4 DEF Abstract!Next
<1>2. CASE CloseClient
  <2>1. Pending' = Pending  BY <1>2 DEF CloseClient, Pending, Drained, Kept, Cached, available
  <2> QED  BY <1>2, <1>d, <2>1 DEF CloseClient
<1>3. CASE NextConn
  <2>1. Kept' = <<>> /\ Drained' = <<>> /\ net' = <<>>
    BY <1>3 DEF NextConn, Kept, Drained, Cached, available
  <2>2. Pending' = <<>>  BY <1>b, <2>1, EmptySeq, ConcatEmptySeq
  <2>3. Abstract!Reset  BY <1>3, <2>2 DEF NextConn, Abstract!Reset, Pending, Drained, Kept
  <2> QED  BY <2>3 DEF Abstract!Next
<1>4. ASSUME NEW n \in Counts, Call(n)
      PROVE  Abstract!Next
  <2>1. Kept' = Kept /\ Drained' = Drained /\ net' = net
    BY <1>4 DEF Call, Kept, Drained, Cached, available
  <2>2. Pending' = Pending  BY <2>1 DEF Pending
  <2>3. Abstract!Call(n)  BY <1>4, <2>2 DEF Call, Abstract!Call, Pending, Drained, Kept
  <2> QED  BY <2>3 DEF Abstract!Next
<1>5. CASE ReturnNothing
  <2>1. Drained = got /\ Drained' = <<>> /\ Kept' = Kept /\ net' = net
    BY <1>5 DEF ReturnNothing, Drained, Kept, Cached, available
  <2>2. Pending = got \o (Kept \o net) /\ Pending' = Kept \o net
    BY <1>b, <1>c, <2>1, ConcatEmptySeq
  <2>3. out' = got /\ count' = count /\ pc = "loop" /\ pc' = "idle"  BY <1>5 DEF ReturnNothing
  <2>4. Abstract!Return  BY <1>a, <1>c, <2>2, <2>3, ReturnOf
  <2> QED  BY <2>4 DEF Abstract!Next
<1>6. CASE CopyNeeded
  <2> DEFINE rest == [k \in 1 .. available - needed |-> buffer[start + needed + k - 1]]
  <2>1. needed \in 0 .. available /\ needed = count - Len(got)
    BY <1>a, <1>6 DEF CopyNeeded, ReaderInv, needed, available
  <2>2. /\ Cached(needed) \in Seq(Bytes) /\ Len(Cached(needed)) = needed
        /\ Cached(available) = Cached(needed) \o rest /\ rest \in Seq(Bytes)
    BY <2>1, CachedBytes
  <2>3. /\ pc = "loop" /\ pc' = "idle" /\ out' = got \o Cached(needed) /\ count' = count
        /\ start' = start + needed /\ buffer' = buffer /\ end' = end /\ net' = net
    BY <1>6 DEF CopyNeeded
  <2>4. Kept' = rest
    <3>1. start \in Int /\ end \in Int /\ needed \in Int  BY <2>1 DEF ReaderInv, available
    <3>2. available' = available - needed  BY <2>3, <3>1 DEF available
    <3>3. Kept' = [k \in 1 .. available' |-> buffer'[start' + k - 1]]
      BY <2>3 DEF Kept, Cached
    <3> QED  BY <2>3, <3>2, <3>3
  <2> HIDE DEF rest
  <2>5. Drained = got /\ Drained' = <<>> /\ Kept = Cached(needed) \o rest
    BY <2>2, <2>3 DEF Drained, Kept
  <2>6. /\ got \o Cached(needed) \in Seq(Bytes) /\ Len(got \o Cached(needed)) = count
        /\ rest \o net \in Seq(Bytes)
    <3>1. Len(got \o Cached(needed)) = Len(got) + Len(Cached(needed))
      BY <1>a, <2>2, ConcatProperties
    <3>2. Len(got) + needed = count  BY <1>a, <2>1
    <3> QED  BY <1>a, <1>0, <2>2, <3>1, <3>2, ConcatProperties
  <2>7. Pending = (got \o Cached(needed)) \o (rest \o net)
    <3> DEFINE c == Cached(needed)
    <3>1. got \in Seq(Bytes) /\ c \in Seq(Bytes) /\ rest \in Seq(Bytes) /\ net \in Seq(Bytes)
      BY <1>a, <1>0, <2>2
    <3>2. Pending = (got \o (c \o rest)) \o net  BY <2>5 DEF Pending
    <3> HIDE DEF c
    <3>3. Four(got, c, rest, net)  BY <3>1, ConcatFour
    <3> QED  BY <3>2, <3>3 DEF Four, c
  <2>8. Pending' = rest \o net
    <3>1. rest \o net \in Seq(Bytes)  BY <2>6
    <3>2. <<>> \o (rest \o net) = rest \o net  BY <3>1, ConcatEmptySeq
    <3> QED  BY <1>b, <2>3, <2>4, <2>5, <3>2
  <2>9. Abstract!Return
    <3> DEFINE taken == got \o Cached(needed)
               left == rest \o net
    <3>1. /\ taken \in Seq(Bytes) /\ left \in Seq(Bytes) /\ Len(taken) <= count
          /\ Pending = taken \o left /\ Pending' = left /\ out' = taken
      BY <1>a, <2>3, <2>6, <2>7, <2>8
    <3> HIDE DEF taken, left
    <3> QED  BY <1>a, <2>3, <3>1, ReturnOf
  <2> QED  BY <2>9 DEF Abstract!Next
<1>7. CASE CopyAvailable
  <2>1. /\ Drained = got /\ Kept = Cached(available)
        /\ Drained' = got \o Cached(available) /\ Kept' = <<>> /\ net' = net
    BY <1>7 DEF CopyAvailable, Drained, Kept
  <2>2. Pending' = Pending
    BY <1>0, <1>c, <2>1, ConcatEmptySeq DEF Pending
  <2> QED  BY <1>7, <1>d, <2>2 DEF CopyAvailable
<1>8. CASE Fill
  <2>1. Kept = <<>> /\ Drained' = Drained /\ Kept' \o net' = net  BY <1>8, FilledPending
  <2>2. Pending' = Pending  BY <1>0, <1>b, <2>1, ConcatEmptySeq
  <2> QED  BY <1>8, <1>d, <2>2 DEF Fill
<1>9. ASSUME pc \in {"fill", "blocked"}, ReturnShort
      PROVE  Abstract!Next
  <2>1. Drained = got /\ Kept = <<>> /\ Drained' = <<>> /\ Kept' = <<>> /\ net' = net
    BY <1>9 DEF ReturnShort, Drained, Kept, Cached, available
  <2>2. Pending = got \o net /\ Pending' = net
    BY <1>0, <1>b, <2>1, ConcatEmptySeq
  <2>3. Abstract!Return  BY <1>9, <1>a, <1>0, <2>2, ReturnOf DEF ReturnShort
  <2> QED  BY <2>3 DEF Abstract!Next
<1>10. CASE FillEnds  BY <1>9, <1>10 DEF FillEnds
<1>11. CASE FillTimeout  BY <1>9, <1>11 DEF FillTimeout
<1>12. CASE FillFails  BY <1>9, <1>12 DEF FillFails
<1>13. CASE PollFails
  <2>1. Pending' = Pending  BY <1>13 DEF PollFails, Pending, Drained, Kept
  <2> QED  BY <1>13, <1>d, <2>1 DEF PollFails
<1>14. CASE UNCHANGED vars
  <2>1. Pending' = Pending  BY <1>14 DEF vars, Pending, Drained, Kept, Cached, available
  <2> QED  BY <1>14, <1>d, <2>1 DEF vars
<1> QED
  BY <1>1, <1>2, <1>3, <1>4, <1>5, <1>6, <1>7, <1>8, <1>10, <1>11, <1>12, <1>13, <1>14
     DEF Next, Reader

(* The reader implements the byte stream: no byte is lost, repeated,       *)
(* reordered or carried over to the next connection, whatever the size of  *)
(* the buffer, the sizes of the reads and the faults.                      *)
THEOREM StreamImplemented == Spec => StreamInOrder
<1>1. Init => Abstract!Init
  <2> SUFFICES ASSUME Init
               PROVE  Abstract!Init
    OBVIOUS
  <2>1. Drained = <<>> /\ Kept = <<>> /\ net = <<>>
    BY EmptiedBuffer DEF Init, Drained, Kept
  <2>2. Pending = <<>>  BY <2>1, EmptySeq, ConcatEmptySeq DEF Pending
  <2> QED  BY <2>2 DEF Init, Abstract!Init, Pending, Drained, Kept
<1> QED
  BY <1>1, ReaderInvariant, StepImplements, PTL DEF Spec, StreamInOrder, Abstract!Spec
=============================================================================

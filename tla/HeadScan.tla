------------------------------ MODULE HeadScan ------------------------------
(***************************************************************************)
(* How handle_requests (instance.c) finds the head of a request in the     *)
(* bytes of a connection.  It reads two bytes at a time into a buffer that *)
(* is kept for the life of the thread, looks for the end of the head only  *)
(* from the last place where it can start, and reads one byte more when    *)
(* the last line feed is still missing, so that the next request on the    *)
(* connection starts where it should.  buffer_read returns fewer bytes     *)
(* than asked for at the end of the stream, or when the client is silent   *)
(* for READ_TIMEOUT; the rest may come later.                              *)
(***************************************************************************)
EXTENDS CStrings

CONSTANTS INBUFFER      \* size of the buffer for a head

ASSUME InbufferPositive == INBUFFER \in Nat \ {0, 1}

VARIABLES scan,         \* where handle_requests is
          stream,       \* bytes the client sends on this connection
          stall,        \* the client may be silent for READ_TIMEOUT
          taken,        \* bytes of stream read so far
          first,        \* bytes of stream read before this request
          buf,          \* buf[0 .. INBUFFER], from calloc(INBUFFER + 1)
          bufFull,      \* bytes of buf in use
          from,         \* where strstr starts
          end,          \* where the end of the head was found
          late,         \* the last line feed of a head came too late
          page,         \* connection_prop->page
          http_param    \* connection_prop->http_param

headVars == <<scan, stream, stall, taken, first, buf, bufFull, from, end, late, page,
              http_param>>

CRLFCR == <<CR, LF, CR>>
CRLFCRLF == <<CR, LF, CR, LF>>
G == 71                 \* first byte of a known method

Smaller(a, b) == IF a < b THEN a ELSE b
Left == Len(stream) - taken

ScanTypeOK ==
  /\ scan \in {"idle", "start", "read", "head", "parsed", "bad", "closed"}
  /\ stall \in BOOLEAN /\ late \in BOOLEAN
  /\ taken \in 0 .. Len(stream) /\ first \in 0 .. taken
  /\ buf \in [0 .. INBUFFER -> 0 .. 255]
  /\ bufFull \in 0 .. INBUFFER + 1 /\ from \in 0 .. INBUFFER
  /\ end \in 0 .. INBUFFER /\ page \in NULL .. INBUFFER /\ http_param \in NULL .. INBUFFER

(* The thread allocates its buffer before the first connection.            *)
ScanInit ==
  /\ scan = "idle" /\ stream = <<>> /\ stall = FALSE
  /\ taken = 0 /\ first = 0
  /\ buf = [i \in 0 .. INBUFFER |-> NUL] /\ bufFull = 0
  /\ from = 0 /\ end = 0 /\ late = FALSE
  /\ page = NULL /\ http_param = NULL

(* A connection is taken from the queue.  buffer_reset drops what was left *)
(* of the last one; buf and bufFull stay.                                  *)
Accept(text, slow) ==
  /\ scan \in {"idle", "bad", "closed"}
  /\ scan' = "start" /\ stream' = text /\ stall' = slow
  /\ taken' = 0 /\ first' = 0 /\ late' = FALSE
  /\ UNCHANGED <<buf, bufFull, from, end, page, http_param>>

(* Only the part used by the last request is set to 0.                     *)
ScanStart ==
  /\ scan = "start"
  /\ buf' = [i \in DOMAIN buf |-> IF i < bufFull THEN NUL ELSE buf[i]]
  /\ bufFull' = 0 /\ from' = 0 /\ first' = taken
  /\ scan' = "read"
  /\ UNCHANGED <<stream, stall, taken, end, late, page, http_param>>

(* What buffer_read may return for count bytes.                            *)
Received(count) ==
  IF stall THEN 0 .. Smaller(count, Left) ELSE {Smaller(count, Left)}

(* The bytes of a read, in the buffer behind the others.                   *)
Filled(r) == [i \in DOMAIN buf |-> IF i \in bufFull .. bufFull + r - 1
                                   THEN stream[taken + i - bufFull + 1] ELSE buf[i]]

HeadEnd == StrStr(buf, from, CRLFCR)

(* Where the next strstr starts: at the pair just read, unless it can      *)
(* continue an end that began before it.  The mutant forgets that a line   *)
(* feed can.                                                               *)
NewFromAtCR(r) == IF r = 0 \/ Filled(r)[bufFull] = CR THEN from ELSE bufFull
NewFrom(r) == IF r = 0 \/ Filled(r)[bufFull] \in {LF, CR} THEN from ELSE bufFull

(* The buffer is full and there is still no head in it; the mutant is off  *)
(* by one.                                                                 *)
OverfullLate(n) == n > INBUFFER
Overfull(n) == n >= INBUFFER

ScanRead ==
  /\ scan = "read" /\ HeadEnd = NULL
  /\ \E r \in Received(2) :
       /\ buf' = Filled(r) /\ taken' = taken + r /\ bufFull' = bufFull + r
       /\ from' = NewFrom(r)
       /\ scan' = IF r = 0 THEN "closed" ELSE IF Overfull(bufFull') THEN "bad" ELSE "read"
  /\ UNCHANGED <<stream, stall, first, end, late, page, http_param>>

(* The end was found: the last byte of it is read unless it is there, and  *)
(* the head is terminated behind its last line.                            *)
ScanEnd ==
  LET missing == StrStr(buf, from, CRLFCRLF) = NULL
  IN /\ scan = "read" /\ HeadEnd # NULL
     /\ \E r \in IF missing THEN Received(1) ELSE {0} :
          /\ buf' = [Filled(r) EXCEPT ![HeadEnd + 2] = NUL]
          /\ taken' = taken + r /\ bufFull' = bufFull + r
          /\ late' = (late \/ (missing /\ r = 0))
     /\ end' = HeadEnd /\ scan' = "head"
     /\ UNCHANGED <<stream, stall, first, from, page, http_param>>

(* strtok_r with a blank: the end of the token at p and, once that is      *)
(* nulled, where the next one starts.                                      *)
TokenEnd(mem, p) == CHOOSE i \in p .. StrEnd(mem, p) :
                       mem[i] \in {SP, NUL} /\ \A j \in p .. i - 1 : mem[j] # SP
Skip(mem, p) == CHOOSE i \in p .. StrEnd(mem, p) :
                   mem[i] # SP /\ \A j \in p .. i - 1 : mem[j] = SP

(* The method is recognized by its first bytes, then the request line is   *)
(* split into method, page and the rest.                                   *)
Tokenize ==
  LET stop == TokenEnd(buf, 0)
      start == Skip(buf, stop)
      last == TokenEnd(buf, start)
  IN /\ scan = "head"
     /\ IF buf[0] # G
        THEN scan' = "bad" /\ UNCHANGED <<buf, page, http_param>>
        ELSE IF start = stop \/ buf[start] = NUL
        THEN /\ scan' = "bad" /\ page' = NULL
             /\ buf' = [buf EXCEPT ![stop] = NUL]
             /\ UNCHANGED http_param
        ELSE /\ scan' = "parsed" /\ page' = start
             /\ http_param' = IF buf[last] = NUL THEN last ELSE last + 1
             /\ buf' = [buf EXCEPT ![stop] = NUL, ![last] = NUL]
     /\ UNCHANGED <<stream, stall, taken, first, bufFull, from, end, late>>

ScanStep == ScanStart \/ ScanRead \/ ScanEnd \/ Tokenize

(* After the answer: the next request on the connection, or its end.       *)
NextRequest(keep) ==
  /\ scan = "parsed"
  /\ scan' = IF keep THEN "start" ELSE "closed"
  /\ UNCHANGED <<stream, stall, taken, first, buf, bufFull, from, end, late, page,
                 http_param>>
-----------------------------------------------------------------------------
(* The bytes of this request and of the ones behind it.                    *)
Rest == SubSeq(stream, first + 1, Len(stream))

(* Where a head ends: the index of the first byte of the first CR LF CR.   *)
EndsAt(s) == {i \in 1 .. Len(s) - 2 : SubSeq(s, i, i + 2) = CRLFCR}
FirstEnd(s) == CHOOSE i \in EndsAt(s) : \A j \in EndsAt(s) : i <= j
WellFormed(s) == /\ EndsAt(s) # {} /\ FirstEnd(s) + 3 <= Len(s) /\ s[FirstEnd(s) + 3] = LF
                 /\ \A i \in 1 .. FirstEnd(s) : s[i] # NUL

(* However the bytes of a head are split between reads, and wherever the   *)
(* client pauses, the head that is parsed is the text up to the first      *)
(* empty line and exactly its bytes have been taken from the connection    *)
(* (handle_requests reads in pairs and strstr starts at a moving place).   *)
(* Excepted: a last line feed that comes more than READ_TIMEOUT after the  *)
(* rest, which is then taken for the start of the next request, and heads  *)
(* with a NUL, behind which strstr finds nothing.                          *)
HeadExact ==
  (scan = "head" /\ ~late /\ WellFormed(Rest)) =>
    /\ end = FirstEnd(Rest) - 1
    /\ taken - first = FirstEnd(Rest) + 3
    /\ \A i \in 0 .. end + 1 : buf[i] = Rest[i + 1]

(* A head that fits in the buffer is not refused for its size, and every   *)
(* byte the buffer holds behind bufFull is 0 whenever strstr looks at it:  *)
(* no part of an earlier request, on this or an earlier connection, is     *)
(* ever taken for a part of this one (memset clears only what was used).   *)
BufferClean ==
  /\ scan \in {"read", "head"} => \A i \in DOMAIN buf : i >= bufFull => buf[i] = NUL
  /\ (scan = "bad" /\ bufFull >= INBUFFER /\ WellFormed(Rest))
       => FirstEnd(Rest) + 3 >= INBUFFER

(* Both: requests are cut out of the stream where they end, whatever the   *)
(* buffer held before.                                                     *)
HeadsCutRight == HeadExact /\ BufferClean
=============================================================================

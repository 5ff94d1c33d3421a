---------------------------- MODULE RangeRequest ----------------------------
(***************************************************************************)
(* A file sent to the client: bytes_to_send and write_file (instance.c),   *)
(* mime_get_fd (mime.c), get_param_value (utils.c) and fd_copy (myio.c).   *)
(* The bounds of a Range are read as signed numbers, kept in unsigned ones *)
(* and used as the file's offset, as the declared length and, signed, as   *)
(* the count of fd_copy.  A byte of the file is its offset.                *)
(***************************************************************************)
EXTENDS Integers, Sequences

CONSTANTS HALF,         \* the first number no long long int and no off_t holds
          FILEBUF,      \* bytes fd_copy moves at a time
          Empty         \* a bound that is left out, as in 3- or -5

ASSUME HalfPositive == HALF \in Nat \ {0, 1}
ASSUME FilebufPositive == FILEBUF \in Nat \ {0}

VARIABLES rng,          \* where write_file is
          want,         \* the file and the fields of the request, see WantType
          offset,       \* offset of strfile_fd
          count,        \* bytes to send
          http_code, declared,      \* the header sent
          sent,         \* offsets of the bytes sent
          cut           \* the client went away

rangeVars == <<rng, want, offset, count, http_code, declared, sent, cut>>

Word == 2 * HALF        \* of unsigned long long int
Signed(n) == IF n >= HALF THEN n - Word ELSE n

(* fields: the Range, If-Range and If-None-Match fields in the order they  *)
(* came.  A Range has bounds, or is bad for want of one of its separators; *)
(* strtoll leaves a number of the upper half only for a second bound with  *)
(* a minus sign of its own.  The other fields have the etag they name.     *)
(* threaded: the thread's data can be found, which inetd() cannot be sure  *)
(* of since no key was created.                                            *)
WantType(w) ==
  /\ w.size \in 0 .. HALF - 1 /\ w.mtime \in Nat
  /\ w.mime \in BOOLEAN /\ w.threaded \in BOOLEAN
  /\ Len(w.fields) \in Nat /\ DOMAIN w.fields = 1 .. Len(w.fields)
  /\ \A i \in DOMAIN w.fields :
       \/ w.fields[i].name = "Range" /\ w.fields[i].value.kind = "bad"
       \/ /\ w.fields[i].name = "Range" /\ w.fields[i].value.kind = "bounds"
          /\ w.fields[i].value.from = Empty \/ w.fields[i].value.from \in 0 .. HALF - 1
          /\ w.fields[i].value.to = Empty \/ w.fields[i].value.to \in 0 .. Word - 1
       \/ /\ w.fields[i].name \in {"If-Range", "If-None-Match"} /\ w.fields[i].value.kind = "etag"
          /\ w.fields[i].value.etag \in Nat

RangeTypeOK ==
  /\ rng \in {"idle", "mime", "header", "copy", "done", "crash"}
  /\ WantType(want)
  /\ offset \in 0 .. Word - 1 /\ count \in (-Word) .. (Word - 1)
  /\ http_code \in {0, 200, 206, 304, 400, 416} /\ declared \in 0 .. Word - 1
  /\ cut \in BOOLEAN

NoFile == [size |-> 0, mtime |-> 0, mime |-> FALSE, threaded |-> TRUE, fields |-> <<>>]

RangeInit ==
  /\ rng = "idle" /\ want = NoFile /\ offset = 0 /\ count = 0
  /\ http_code = 0 /\ declared = 0 /\ sent = <<>> /\ cut = FALSE

(* get_param_value: the first field whose name contains the one looked     *)
(* for; If-Range contains Range.                                           *)
NamesHolding(name) == IF name = "Range" THEN {"Range", "If-Range"} ELSE {name}
Fields(w, name) == {i \in DOMAIN w.fields : w.fields[i].name \in NamesHolding(name)}
GetParamValue(w, name) ==
  w.fields[CHOOSE i \in Fields(w, name) : \A j \in Fields(w, name) : i <= j].value

(* check_etag: the client names the file it has as the one that is there.  *)
NotChanged(w) == /\ Fields(w, "If-None-Match") # {}
                 /\ GetParamValue(w, "If-None-Match").etag = w.mtime
CheckEtag(w) ==
  /\ rng = "idle" /\ want' = w /\ NotChanged(w)
  /\ http_code' = 304 /\ rng' = "done"
  /\ UNCHANGED <<offset, count, declared, sent, cut>>

(* A Range is used when there is one and If-Range, if any, names the file  *)
(* as it is.                                                               *)
Etag(w) == IF Fields(w, "If-Range") = {} THEN w.mtime ELSE GetParamValue(w, "If-Range").etag
Ranged(w) == Fields(w, "Range") # {} /\ Etag(w) = w.mtime

(* An etag, and a Range without its separators, have no bounds.            *)
HasBounds(v) == v.kind = "bounds"
From(v) == IF v.from = Empty THEN 0 ELSE v.from
To(w, v) == IF v.to = Empty THEN (w.size - 1) % Word ELSE v.to

Count(w, v) == (To(w, v) - From(v) + 1) % Word

(* The range reaches outside the file.                                     *)
Unsatisfiable(w, v) == From(v) >= w.size \/ (From(v) + Count(w, v)) % Word > w.size

(* bytes_to_send up to the MIME type, for the file and the fields w.       *)
BytesToSend(w) ==
  LET v == GetParamValue(w, "Range")
  IN /\ rng = "idle" /\ want' = w /\ ~NotChanged(w)
     /\ \/ /\ ~Ranged(w)
           /\ http_code' = 200 /\ count' = w.size /\ rng' = "mime" /\ UNCHANGED offset
        \/ /\ Ranged(w) /\ ~HasBounds(v)
           /\ http_code' = 400 /\ rng' = "done" /\ UNCHANGED <<offset, count>>
        \/ /\ Ranged(w) /\ HasBounds(v) /\ Unsatisfiable(w, v)
           /\ http_code' = 416 /\ rng' = "done" /\ UNCHANGED <<offset, count>>
        \/ /\ Ranged(w) /\ HasBounds(v) /\ ~Unsatisfiable(w, v)
           /\ http_code' = 206 /\ count' = Count(w, v) /\ offset' = From(v) /\ rng' = "mime"
     /\ UNCHANGED <<declared, sent, cut>>

WriteFile(w) == CheckEtag(w) \/ BytesToSend(w)

(* mime_get_fd reads the start of the file and seeks back to where it was; *)
(* the mutant leaves the offset behind what it read.                       *)
MimeLeaves ==
  /\ rng = "mime" /\ want.mime /\ want.threaded
  /\ offset' = want.size /\ rng' = "header"
  /\ UNCHANGED <<want, count, http_code, declared, sent, cut>>
MimeGetFd ==
  LET prev_pos == offset
  IN /\ rng = "mime" /\ want.mime /\ want.threaded
     /\ offset' = prev_pos /\ rng' = "header"
     /\ UNCHANGED <<want, count, http_code, declared, sent, cut>>

(* Without the thread's data its token is read through a null pointer.     *)
MimeCrash ==
  /\ rng = "mime" /\ want.mime /\ ~want.threaded
  /\ rng' = "crash"
  /\ UNCHANGED <<want, offset, count, http_code, declared, sent, cut>>
NoMime ==
  /\ rng = "mime" /\ ~want.mime
  /\ rng' = "header"
  /\ UNCHANGED <<want, offset, count, http_code, declared, sent, cut>>

(* send_http_header; the count is then taken for an off_t.                 *)
RangeHeader ==
  /\ rng = "header"
  /\ declared' = count /\ count' = Signed(count) /\ rng' = "copy"
  /\ UNCHANGED <<want, offset, http_code, sent, cut>>

(* One turn of fd_copy: a file gives all it is asked for, up to its end.   *)
FdCopy ==
  LET n == IF FILEBUF < count THEN FILEBUF ELSE count
      reads == IF want.size - offset < n THEN want.size - offset ELSE n
  IN /\ rng = "copy"
     /\ IF count > 0 /\ reads > 0
        THEN /\ offset' = offset + reads /\ count' = count - reads
             /\ \/ /\ sent' = sent \o [i \in 1 .. reads |-> offset + i - 1]
                   /\ UNCHANGED <<rng, cut>>
                \/ rng' = "done" /\ cut' = TRUE /\ UNCHANGED sent
        ELSE rng' = "done" /\ UNCHANGED <<offset, count, sent, cut>>
     /\ UNCHANGED <<want, http_code, declared>>

RangeStep == MimeGetFd \/ MimeCrash \/ NoMime \/ RangeHeader \/ FdCopy

RangeReset ==
  /\ rng' = "idle" /\ want' = NoFile /\ offset' = 0 /\ count' = 0
  /\ http_code' = 0 /\ declared' = 0 /\ sent' = <<>> /\ cut' = FALSE

(* Files and fields of any kind, one after the other.                      *)
RangeNext == (\E w : WantType(w) /\ WriteFile(w)) \/ RangeStep \/ RangeReset
RangeSpec == RangeInit /\ [][RangeNext]_rangeVars
-----------------------------------------------------------------------------
(* The Range the client sent, whatever the order of the fields.            *)
RangeSent(w) == {v \in {w.fields[i].value : i \in DOMAIN w.fields} : HasBounds(v)}

(* The versions of the file the client has.                                *)
Copies(w) == {w.fields[i].value.etag : i \in {k \in DOMAIN w.fields :
                                               w.fields[k].name = "If-None-Match"}}

(* Only the first of several fields of a name is looked at.                *)
Repeated(w, name) == \E i, j \in Fields(w, name) : i # j

(* Ranges the arithmetic of bytes_to_send does not treat as HTTP does: one *)
(* that ends before it starts, or below zero, wraps to a huge length, and  *)
(* a suffix -n is read as 0-n.                                             *)
Reversed(w, v) == From(v) > Signed(To(w, v))
Suffix(v) == v.from = Empty

Segment(a, b) == [i \in 1 .. b - a + 1 |-> a + i - 1]

(* The client gets exactly the bytes it was promised: a 200 declares and   *)
(* sends the whole file, a 206 the bytes from the first bound to the       *)
(* second, both included, and declares as many, whatever the MIME lookup   *)
(* read in between; a file that changed since the client's copy is sent    *)
(* whole; a client is told to use its copy only if it named the file as it *)
(* is now; and a range is refused only when it reaches outside the file.   *)
(* Excepted: reversed ranges and suffixes, and the copies named in a       *)
(* second If-None-Match field.                                             *)
RangeExact ==
  (rng = "done" /\ ~cut) =>
    /\ http_code = 200 => sent = Segment(0, want.size - 1) /\ declared = want.size
    /\ http_code = 206 =>
         /\ Etag(want) = want.mtime
         /\ \E v \in RangeSent(want) :
              \/ Reversed(want, v) \/ Suffix(v)
              \/ sent = Segment(v.from, To(want, v)) /\ declared = Len(sent)
    /\ http_code = 304 =>
         sent = <<>> /\ want.mtime \in Copies(want)
    /\ http_code # 304 => want.mtime \notin Copies(want) \/ Repeated(want, "If-None-Match")
    /\ http_code = 416 =>
         sent = <<>> /\ \E v \in RangeSent(want) :
                          From(v) >= want.size \/ To(want, v) >= want.size

(* Even for the excepted ranges no byte outside the file is sent, and what *)
(* is sent is in order and without gaps; a length that is not kept is      *)
(* declared only for a reversed range.                                     *)
RangeContained ==
  /\ sent = <<>> \/ sent = Segment(sent[1], sent[1] + Len(sent) - 1)
  /\ \A i \in DOMAIN sent : sent[i] < want.size
  /\ (rng = "done" /\ ~cut /\ http_code \in {200, 206} /\ declared # Len(sent))
       => \E v \in RangeSent(want) : Reversed(want, v)

(* Both: what is sent of a file is what its head says.                     *)
RangeRight == RangeExact /\ RangeContained
=============================================================================
